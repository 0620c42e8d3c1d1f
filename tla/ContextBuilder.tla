---------------------------- MODULE ContextBuilder ----------------------------
(***************************************************************************)
(* The mint side of TokenExtensionContext (src/sdk/src/utils/              *)
(* token-extension-util.ts): buildTokenExtensionContext, the default       *)
(* NO_TOKEN_EXTENSION_CONTEXT, and the helpers that read a context:        *)
(* isV2IxRequiredPool, isV2IxRequiredReward and                            *)
(* getExtraAccountMetasForTransferHook.                                    *)
(*                                                                         *)
(* A mint is a model value.  The chain gives each mint a token program, a  *)
(* transfer hook (NoHook, or the number of extra accounts the hook program *)
(* resolves) and whether getMintInfos finds its account.  The epoch half of *)
(* the context and its races are in QuoteContext; here the Promise.all is  *)
(* one step.                                                               *)
(***************************************************************************)
EXTENDS Integers, Sequences, SequencesExt

CONSTANTS
    Mints,        \* mint addresses (model values)
    PoolMintA, PoolMintB,
    RewardMints,  \* mints a reward slot may use
    HookValues,   \* NoHook, or numbers of extra account metas
    NoHook,       \* model value: getTransferHook returned null
    Null,         \* model value: JavaScript null / undefined
    DefaultMint,  \* model value: PublicKey.default of the default context
    NoCtx,        \* model value: no context yet
    TypeError,    \* model value: a helper dereferenced a null mint
    RpcError      \* model value: the hook's extra-meta lookup rejected

ASSUME Null \notin Mints /\ DefaultMint \notin Mints

RewardSlots == 0..2
TOKEN_PROGRAM_ID == "Token"
TOKEN_2022_PROGRAM_ID == "Token2022"

VARIABLES
    program,     \* program[m]: the token program owning mint m
    hook,        \* hook[m]: the mint's transfer hook
    found,       \* the mints whose accounts getMintInfos finds
    rewardInit,  \* rewardInit[i]: PoolUtil.isRewardInitialized(rewardInfos[i])
    rewardMint,  \* rewardMint[i]: rewardInfos[i].mint
    ctx,         \* the TokenExtensionContext in use, or NoCtx
    ctxBuilt,    \* TRUE when ctx came from buildTokenExtensionContext
    out          \* [op, arg, res] of the last helper call

vars == <<program, hook, found, rewardInit, rewardMint, ctx, ctxBuilt, out>>

-----------------------------------------------------------------------------

\* A MintWithTokenProgram as the fetcher returns it.
MintInfo(m) == [address |-> m, tokenProgram |-> program[m], hook |-> hook[m]]

\* defaultTokenMintWithProgram.
DefaultMintInfo ==
    [address |-> DefaultMint, tokenProgram |-> TOKEN_PROGRAM_ID, hook |-> NoHook]

NO_TOKEN_EXTENSION_CONTEXT ==
    [A |-> DefaultMintInfo, B |-> DefaultMintInfo,
     rewards |-> [i \in RewardSlots |-> DefaultMintInfo]]

\* tokenMintWithProgram.get(mint.toBase58())!: the `!` is only a type
\* assertion, so a mint getMintInfos did not find is null in the context.
GetFetched(m) == IF m \in found THEN MintInfo(m) ELSE Null

Init ==
    /\ program \in [Mints -> {TOKEN_PROGRAM_ID, TOKEN_2022_PROGRAM_ID}]
    /\ hook \in [Mints -> HookValues]
    /\ found \in {Mints} \cup {Mints \ {m} : m \in Mints}
    /\ rewardInit \in [RewardSlots -> BOOLEAN]
    /\ rewardMint \in [RewardSlots -> RewardMints]
    /\ ctx = NoCtx
    /\ ctxBuilt = FALSE
    /\ out = NoCtx

\* Mutation: slot i takes the i-th initialized reward's mint.
BuildTokenExtensionContext_compactRewards ==
    LET inited == SelectSeq(<<0, 1, 2>>, LAMBDA i : rewardInit[i])
    IN  /\ ctx = NoCtx
        /\ ctx' = [A |-> GetFetched(PoolMintA), B |-> GetFetched(PoolMintB),
                   rewards |-> [i \in RewardSlots |->
                                  IF i < Len(inited)
                                  THEN GetFetched(rewardMint[inited[i + 1]])
                                  ELSE Null]]
        /\ ctxBuilt' = TRUE
        /\ UNCHANGED <<program, hook, found, rewardInit, rewardMint, out>>

\* buildTokenExtensionContext: fetch mint A, mint B and the mints of the
\* initialized rewards, then fill slot i from reward i's own mint.
BuildTokenExtensionContext ==
    /\ ctx = NoCtx
    /\ ctx' = [A |-> GetFetched(PoolMintA), B |-> GetFetched(PoolMintB),
               rewards |-> [i \in RewardSlots |->
                              IF rewardInit[i] THEN GetFetched(rewardMint[i])
                              ELSE Null]]
    /\ ctxBuilt' = TRUE
    /\ UNCHANGED <<program, hook, found, rewardInit, rewardMint, out>>

\* A caller passes NO_TOKEN_EXTENSION_CONTEXT instead of building one.
UseDefaultContext ==
    /\ ctx = NoCtx
    /\ ctx' = NO_TOKEN_EXTENSION_CONTEXT
    /\ ctxBuilt' = FALSE
    /\ UNCHANGED <<program, hook, found, rewardInit, rewardMint, out>>

\* A helper call on the context: its result, or TypeError when it
\* dereferences a null mint.
Helper(op, arg, res) ==
    /\ ctx /= NoCtx
    /\ out' = [op |-> op, arg |-> arg, res |-> res]
    /\ UNCHANGED <<program, hook, found, rewardInit, rewardMint, ctx, ctxBuilt>>

\* isV2IxRequiredPool: mint A is looked at first and may decide alone.
isV2IxRequiredPool(c) ==
    CASE c.A = Null -> TypeError
      [] c.A.tokenProgram = TOKEN_2022_PROGRAM_ID -> TRUE
      [] c.B = Null -> TypeError
      [] OTHER -> c.B.tokenProgram = TOKEN_2022_PROGRAM_ID

\* isV2IxRequiredReward: `?.` and `?? false` make a null slot FALSE.
isV2IxRequiredReward(c, i) ==
    IF c.rewards[i] = Null THEN FALSE
    ELSE c.rewards[i].tokenProgram = TOKEN_2022_PROGRAM_ID

\* Mutation: the length check is dropped, so an empty list is returned.
getExtraAccountMetasForTransferHook_emptyList(mintInfo) ==
    CASE mintInfo = Null -> TypeError
      [] mintInfo.hook = NoHook -> Null
      [] OTHER -> mintInfo.hook

\* getExtraAccountMetasForTransferHook for one mint of the context: null
\* without a hook, otherwise the accounts addExtraAccountMetasForExecute
\* appended after the five fixed keys, or null when there are none.
getExtraAccountMetasForTransferHook(mintInfo) ==
    CASE mintInfo = Null -> TypeError
      [] mintInfo.hook = NoHook -> Null
      [] mintInfo.hook > 0 -> mintInfo.hook
      [] OTHER -> Null

IsV2IxRequiredPool == Helper("pool", Null, isV2IxRequiredPool(ctx))

IsV2IxRequiredReward(i) == Helper("reward", i, isV2IxRequiredReward(ctx, i))

GetExtraAccountMetasForTransferHook(side) ==
    Helper("hook", side, getExtraAccountMetasForTransferHook(ctx[side]))

\* The extra-meta resolution RPC rejects: the call throws.
TransferHookRpcFails(side) ==
    /\ ctx /= NoCtx
    /\ ctx[side] /= Null
    /\ ctx[side].hook /= NoHook
    /\ Helper("hook", side, RpcError)

Next ==
    \/ BuildTokenExtensionContext
    \/ UseDefaultContext
    \/ IsV2IxRequiredPool
    \/ \E i \in RewardSlots : IsV2IxRequiredReward(i)
    \/ \E side \in {"A", "B"} : GetExtraAccountMetasForTransferHook(side)
    \/ \E side \in {"A", "B"} : TransferHookRpcFails(side)

Spec == Init /\ [][Next]_vars

-----------------------------------------------------------------------------
(* Properties.                                                             *)

MintInfos ==
    {MintInfo(m) : m \in Mints} \cup {DefaultMintInfo, Null}

\* The helpers' results are of their declared types; in particular
\* getExtraAccountMetasForTransferHook yields undefined or a non-empty
\* list of metas (a count in HookValues \ {0}), never an empty list.
TypeOK ==
    /\ ctx = NoCtx
       \/ ctx \in [A : MintInfos, B : MintInfos, rewards : [RewardSlots -> MintInfos]]
    /\ out = NoCtx
       \/ /\ out.op \in {"pool", "reward"}
          /\ out.res \in BOOLEAN \cup {TypeError}
       \/ /\ out.op = "hook"
          /\ out.res \in (HookValues \ {0, NoHook}) \cup {Null, TypeError, RpcError}

\* The mints a built context should hold: A, B and every initialized reward.
NeededMints == {PoolMintA, PoolMintB} \cup {rewardMint[i] : i \in {j \in RewardSlots : rewardInit[j]}}

\* With every needed mint on chain, the helpers answer from a built context
\* exactly what the chain says: the pool needs the V2 instruction iff mint
\* A or B is owned by Token-2022, and reward i does iff reward i is
\* initialized and its own mint is a Token-2022 mint.  It depends on the
\* builder filling each reward slot from that reward's mint, although it
\* fetched only the initialized ones.
V2IxMatchesChain ==
    (ctxBuilt /\ NeededMints \subseteq found /\ out /= NoCtx) =>
        /\ out.op = "pool" =>
              out.res = (program[PoolMintA] = TOKEN_2022_PROGRAM_ID
                         \/ program[PoolMintB] = TOKEN_2022_PROGRAM_ID)
        /\ out.op = "reward" =>
              out.res = (rewardInit[out.arg]
                         /\ program[rewardMint[out.arg]] = TOKEN_2022_PROGRAM_ID)

\* Spec section 5: the context handed on is complete.  The non-null
\* assertion in buildTokenExtensionContext says every needed mint is in it.
BuiltContextComplete ==
    ctxBuilt =>
        /\ ctx.A /= Null /\ ctx.B /= Null
        /\ \A i \in RewardSlots : rewardInit[i] => ctx.rewards[i] /= Null

=============================================================================
