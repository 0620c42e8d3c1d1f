----------------------------- MODULE QuoteContext -----------------------------
(***************************************************************************)
(* TokenExtensionUtil.buildTokenExtensionContext                           *)
(* (src/sdk/src/utils/token-extension-util.ts) and a quote that uses it.   *)
(*                                                                         *)
(* The builder awaits Promise.all of getMintInfos and getEpoch: the two    *)
(* reads are separate RPCs that the node serves in either order, and the   *)
(* chain may move on between them.  The context pairs the mint's transfer  *)
(* fee config with the epoch, the quote converts an amount with           *)
(* calculateTransferFeeIncludedAmount under the context's epoch fee, and   *)
(* the transfer executes later, charged by the chain's fee of that moment. *)
(*                                                                         *)
(* The environment is the cluster: epochs advance, and the mint authority  *)
(* sets a new fee, which Token-2022 schedules two epochs ahead while the   *)
(* fee in force becomes the older one (spl-token, not in the sources).     *)
(* Mint B, the reward mints and the token programs carry no fee and are    *)
(* left out of the context record.                                         *)
(***************************************************************************)
EXTENDS Integers

CONSTANTS
    U64_MAX, Amounts, NoConfig, NoResult,  \* as in TransferFee
    InitConfigs,   \* transfer fee configs the mint may start with
    NewFees,       \* [bps, maximumFee] an authority may set
    MaxEpoch,      \* last epoch reached
    MaxFeeSets,    \* bound on fee updates
    NotRead        \* model value: a read of Promise.all not served yet

VARIABLES
    epoch,        \* the cluster's current epoch
    chainCfg,     \* the mint's transfer fee config on chain
    feeSets,      \* fee updates so far
    phase,        \* "idle" | "building" | "built" | "quoted" | "done"
    readCfg,      \* what getMintInfos returned, or NotRead
    readEpoch,    \* what getEpoch returned, or NotRead
    ctx,          \* the TokenExtensionContext: [currentEpoch, cfg]
    quoted,       \* [arg, res] of the quote's included-amount conversion
    delivered     \* what the executed transfer delivered

vars == <<epoch, chainCfg, feeSets, phase, readCfg, readEpoch,
          ctx, quoted, delivered>>

TF == INSTANCE TransferFee WITH Configs <- InitConfigs, Epochs <- 0..MaxEpoch,
                                config <- chainCfg, currentEpoch <- epoch,
                                ret <- NoResult

-----------------------------------------------------------------------------

Init ==
    /\ epoch = 0
    /\ chainCfg \in InitConfigs
    /\ feeSets = 0
    /\ phase = "idle"
    /\ readCfg = NotRead
    /\ readEpoch = NotRead
    /\ ctx = NoResult
    /\ quoted = NoResult
    /\ delivered = 0

\* buildTokenExtensionContext is called: both RPCs of Promise.all are sent.
Build ==
    /\ phase = "idle"
    /\ phase' = "building"
    /\ UNCHANGED <<epoch, chainCfg, feeSets, readCfg, readEpoch,
                   ctx, quoted, delivered>>

\* getMintInfos is served.
ReadMintInfos ==
    /\ phase = "building"
    /\ readCfg = NotRead
    /\ readCfg' = chainCfg
    /\ UNCHANGED <<epoch, chainCfg, feeSets, phase, readEpoch, ctx, quoted,
                   delivered>>

\* getEpoch is served.
ReadEpoch ==
    /\ phase = "building"
    /\ readEpoch = NotRead
    /\ readEpoch' = epoch
    /\ UNCHANGED <<epoch, chainCfg, feeSets, phase, readCfg, ctx,
                   quoted, delivered>>

\* Promise.all resolves and the context record is built.
BuildReturn ==
    /\ phase = "building"
    /\ readCfg /= NotRead /\ readEpoch /= NotRead
    /\ ctx' = [currentEpoch |-> readEpoch, cfg |-> readCfg]
    /\ phase' = "built"
    /\ UNCHANGED <<epoch, chainCfg, feeSets, readCfg, readEpoch,
                   quoted, delivered>>

\* The caller asks for the fee-included amount that delivers x.
Quote(x) ==
    /\ phase = "built"
    /\ quoted' = [arg |-> x,
                  res |-> TF!TokenExtIncluded(x, ctx.cfg, ctx.currentEpoch)]
    /\ phase' = "quoted"
    /\ UNCHANGED <<epoch, chainCfg, feeSets, readCfg, readEpoch,
                   ctx, delivered>>

\* The transfer of the quoted amount executes: the chain withholds the fee
\* of the current epoch.
Execute ==
    /\ phase = "quoted"
    /\ ~TF!IsErr(quoted.res)
    /\ delivered' = quoted.res.amount -
                    TF!calculateFee(TF!getEpochFee(chainCfg, epoch),
                                    quoted.res.amount)
    /\ phase' = "done"
    /\ UNCHANGED <<epoch, chainCfg, feeSets, readCfg, readEpoch,
                   ctx, quoted>>

\* Cluster: the next epoch starts.
AdvanceEpoch ==
    /\ epoch < MaxEpoch
    /\ epoch' = epoch + 1
    /\ UNCHANGED <<chainCfg, feeSets, phase, readCfg, readEpoch,
                   ctx, quoted, delivered>>

\* Cluster: the authority sets a fee; the fee in force becomes the older
\* one and the new fee starts two epochs later.
SetTransferFee(f) ==
    /\ feeSets < MaxFeeSets
    /\ chainCfg' = [older |-> TF!getEpochFee(chainCfg, epoch),
                    newer |-> [epoch |-> epoch + 2, bps |-> f.bps,
                               maximumFee |-> f.maximumFee]]
    /\ feeSets' = feeSets + 1
    /\ UNCHANGED <<epoch, phase, readCfg, readEpoch, ctx, quoted,
                   delivered>>

Next ==
    \/ Build \/ ReadMintInfos \/ ReadEpoch \/ BuildReturn
    \/ \E x \in Amounts : Quote(x)
    \/ Execute
    \/ AdvanceEpoch
    \/ \E f \in NewFees : SetTransferFee(f)

Spec == Init /\ [][Next]_vars

-----------------------------------------------------------------------------
(* Properties.                                                             *)

\* Spec section 5: the fee calculator is handed an epoch-consistent
\* context, so a transfer executed in the context's epoch delivers at
\* least the amount the quote was asked for.
SameEpochQuoteDelivers ==
    (phase = "done" /\ epoch = ctx.currentEpoch) => delivered >= quoted.arg

=============================================================================
