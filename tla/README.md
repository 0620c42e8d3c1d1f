# TLA+ models of the Whirlpools SDK swap-quote core

This directory has TLA+ models of the part of the Whirlpools TypeScript SDK
that turns fetched tick arrays and Token-2022 transfer-fee schedules into swap
quotes. The models are checked with TLC. Sources are under `src/sdk/` and the
natural-language spec is `spec.md`.

## 1. Inventory

### Components

| Component | Source | State | Operations |
|---|---|---|---|
| TickIndexMapper | `quotes/swap/tick-array-index.ts` (*not among the sources*) | none (pure) | `fromTickIndex`, `toTickIndex`, `toNext/PrevInitializableTickIndex` |
| TickArraySequence | `quotes/swap/tick-array-sequence.ts` | window of tick-array snapshots (fixed), `aToB`, `startArrayIndex`, the `touchedArrays` map (mutable) | constructor, `getTick`, `findNextInitializedTickIndex`, `checkArrayContainsTickIndex`, `getNumOfTouchedArrays`, `getTouchedArrays` |
| TransferFeeCalculator | `utils/token-extension-util.ts` 51-77, 167-237 | none (pure) | `calculateTransferFeeIncludedAmount`, `calculateTransferFeeExcludedAmount`, plus the static wrappers that select the epoch fee |
| TokenExtensionContext builder | `utils/token-extension-util.ts` 79-165 | per-quote context: mints, token programs, epoch | `buildTokenExtensionContext` (concurrent fetch of mints and epoch), `isV2IxRequired*`, `getExtraAccountMetasForTransferHook` |
| Quote orchestrators | `quotes/public/swap-quote.ts` | none of their own | `swapQuoteByInputToken`, `swapQuoteByOutputToken`, `swapQuoteWithParams`, `checkIfAllTickArraysInitialized` |
| WhirlpoolAccountCache | `network/public/account-cache.ts` | `_accountRentExempt` memo, plus the retention-policy cache of its base class (not among the sources) | typed getters, `getAccountRentExempt` |
| Instruction exports | `instructions/index.ts` | none | re-exports only |
| Transfer-fee integration tests | `tests/integration/v2/token-extensions/transfer-fee.test.ts` | on-chain fixtures | chain fee exclusion and inclusion around one-hop and two-hop quotes to predict balance changes |
| Swap stepper `simulateSwap` | `quotes/swap/swap-quote-impl.ts` (*not among the sources*) | — | calls `findNextInitializedTickIndex` and `getTick` in a loop |

### How they interact

An orchestrator works in this order:

1. It picks the direction from the mint. For an exact-input quote, an A mint
   means a→b. For an exact-output quote, a B mint means a→b.
2. It fetches up to three tick arrays through the account cache.
3. It checks that every fetched array is initialized.
4. It calls the opaque `simulateSwap`.

`simulateSwap` builds one `TickArraySequence` per quote and repeatedly calls
`findNextInitializedTickIndex` and `getTick`. Callers wrap the quote with the
fee calculator:

- For exact input, they exclude the input token's fee first.
- For exact output, they include the fee of each token the swap must send.

The integration tests show this chaining across two hops. The fee calculator
reads the fee schedule active in the epoch recorded in the
`TokenExtensionContext`. That context is built from a concurrent fetch.

### What is hard here

- **Slot arithmetic and boundaries.** `getTick` maps a tick to a window slot
  by arithmetic on the first array's index. The slot depends on the direction.
  The result is validated only by a range check whose upper bound is
  inclusive.
- **Asymmetric search.** `findNextInitializedTickIndex` starts at different
  places in each direction. It floors negative and non-aligned ticks. It
  throws if it starts outside the window, but returns a clamped edge if it
  runs out of the window later. The two edges are asymmetric (`+tickSpacing`
  and `-1`) and clamped to the global bounds.
- **Touched state.** The touched map is written before the checks that can
  throw, so a failed call still leaves its array in the list.
- **Fee rounding.** The included amount uses a ceiling inverse, two separate
  overflow checks and a `>=` cap switch. It must meet spl-token's
  `calculateFee`, which rounds up, so that exactly the asked amount arrives.
- **Staleness and concurrency:**
  - the epoch read at context-build time against the mint read and the epoch
    at execution (modelled in `QuoteContext`);
  - two callers racing on `getAccountRentExempt` (modelled in
    `AccountCache`);
  - pool and tick-array cache entries of different ages (not modelled; see
    section 4).
- **Partial answers.** `getMintInfos` may find no account for one of the
  mints it is asked for; the builder's non-null assertion lets that `null`
  into the context. The builder also fetches only the initialized rewards'
  mints, then looks each reward's mint up by address (modelled in
  `ContextBuilder`).

### Properties that make each component correct

- **TickArraySequence**
  - `getTick(t)` returns tick `t`'s data from the array that holds it, or
    throws.
  - The search returns the first initialized tick in the direction of travel
    and never skips one.
  - The search throws at the first array it reaches that has no account.
  - On exhaustion, the search returns the clamped window edge.
  - The touched list is exactly the arrays that were read, in window order,
    padded with the last one.
- **TransferFeeCalculator**
  - The fee-included amount fits in a u64.
  - It equals the amount plus the fee.
  - The fee is within the cap.
  - Sending that amount delivers exactly the requested amount, under the
    fee the chain withholds. The integration tests assert this of the vault
    balances.
- **Orchestrators**: a quote made through the mint-based entry points never
  meets an uninitialized array. This follows directly from the guard at
  line 94, so no run states it.
- **Context**: a quote's fee-included amount should still deliver when the
  transaction runs in the context's epoch (spec §5). It does not when the
  two reads straddle an epoch boundary. With every needed mint on chain,
  `isV2IxRequiredPool` and `isV2IxRequiredReward` answer from a built context what the chain says,
  whichever rewards are initialized. A built context holds every needed
  mint (spec §5), which the code does not ensure.
- **Account cache**: concurrent calls of `getAccountRentExempt` behave
  like atomic calls. Each call that fetches ends with a rent the chain had
  while it was outstanding. That rent is written to the memo and returned.
  A refresh always fetches. No call is promised to return: the RPC has no
  timeout.

## 2. Modules

| Module | Models | Map |
|---|---|---|
| `TickArrayIndex` | TickIndexMapper. Operators only, with floor division (`\div`, `%` in TLC). Follows spec §3 and §4.1 because the file is not among the sources. | spec_modelled |
| `TickArraySequence` | The class. See the notes after this table. | `tick-array-sequence.ts` 16-156 |
| `TickArraySequenceSpec` | The abstract specification of the sequence, stated over sets (spec §4.2). Same variables, minus `startArrayIndex`. | — |
| `TransferFee` | See the notes after this table. | `token-extension-util.ts` 8-77, 167-237 |
| `SwapQuote` | The quote orchestrators, composed with `TickArraySequence` through `INSTANCE` (as `TAS`). No run checks it; see the notes after this table. | `swap-quote.ts` 67-106, 170-185 |
| `AccountCache` | `getAccountRentExempt` with concurrent callers. See the notes after this table. | `account-cache.ts` 44-59 |
| `RentExemptSpec` | The abstract specification of `getAccountRentExempt`, with atomic calls: `Begin(c, refresh)`, then `End(c)` (memo := returned := some rent of the call's window) or `Fail(c)`. Same variables as `AccountCache`, minus `served`. | — |
| `QuoteContext` | `buildTokenExtensionContext` and a quote and transfer that use the context, with the cluster as environment. Uses `TransferFee` through `INSTANCE` (as `TF`). | `token-extension-util.ts` 14-23, 79-109 |
| `ContextBuilder` | The mint half of `buildTokenExtensionContext`, `NO_TOKEN_EXTENSION_CONTEXT`, `isV2IxRequiredPool`, `isV2IxRequiredReward` and `getExtraAccountMetasForTransferHook`. See the notes after this table. | `token-extension-util.ts` 14-48, 79-164 |
| `MC_*` | TLC instantiations: constant values, window sets and input ranges. | — |

Notes on `TickArraySequence`:

- **Variables.** The window `tickArrays` holds array indices, which double as
  array addresses. The other variables are `aToB`, the chain snapshot
  (`hasData` for arrays whose account exists, `initialized` for initialized
  ticks), the constructor `status`, `touchedArrays`, `startArrayIndex`, the
  last call's `ret`, and a call counter.
- **Actions.**
  - `Construct` is the constructor.
  - `GetTick(t)` and `FindNextInitializedTickIndex(t)` are the two mutating
    methods.
  - Each call is synchronous, so each is one atomic step.
  - The `while` loop is the `RECURSIVE` operator `Search`.
  - `getTick` returns the touched map together with the `TickData` or an
    error, in the order the code writes them.
- **Queries.** `getTouchedArrays`, `getNumOfTouchedArrays` and
  `checkArrayContainsTickIndex` are operators.
- **Tick data.** A returned `TickData` names the physical tick it was read
  from: `[arr, off, initialized]`.

Notes on `TransferFee`:

- **Variables.** `config` is the mint's fee config or `NoConfig`;
  `currentEpoch` is the context's epoch; `ret` is the last call.
- **Actions.** `IncludedCall` and `ExcludedCall` are the two static wrappers.
  The module functions are operators.
- **From the library.** `getEpochFee` and `calculateFee` come from
  `@solana/spl-token` and are not in the sources (spec_modelled).
  `calculateFee` rounds the fee up, as the library and Token-2022 do. Spec
  §4.3 says floor. The integration tests' assertion that the vault receives
  exactly the requested amount holds only with the rounding up.

Notes on `SwapQuote`:

- **Variables.** The sequence's variables, plus the pool's
  `tickCurrentIndex`, the `entry` point used, the quote `phase` and the
  `error` thrown.
- **Actions.**
  - `SwapQuoteByToken(ent, mint)` is `swapQuoteByInputToken` or
    `swapQuoteByOutputToken` up to the call of `simulateSwap`: the token type
    of the mint (a foreign mint throws), the direction (`DirectionFor`), the
    fetched window and `checkIfAllTickArraysInitialized`.
  - `SwapQuoteWithParams(w)` hands a caller-built window on unchecked.
  - `Simulate` is one step of `simulateSwap` on the sequence: its constructor,
    or a `getTick` or `findNextInitializedTickIndex` call with any tick.
  - `Finish` is `simulateSwap` returning.
- **From the spec.** `PoolUtil.getTokenType` and `SwapUtils.getTickArrays` are
  not in the sources. The window is up to three arrays from the one holding
  the current tick, in the direction of travel (spec §3). The list stops at
  the first array past the global tick bounds (`ArrayInBounds`). Arrays
  with no account are fetched without data.
- **No run.** Beyond the sequence, the orchestrators add one guard,
  `checkIfAllTickArraysInitialized` (line 94). Every property of the
  composition restates that guard. What `swapQuoteWithParams` lets through
  (a caller-built window with missing arrays) is checked on the sequence
  itself by `tick_sequence`. The module documents the hand-off.

Notes on `AccountCache`:

- **Variables.** The chain's `rent` (and how often it changed), the `memo`
  (`_accountRentExempt`), and per caller: `pc`, the `refreshing` argument,
  what the node `served`, the `result`, and the history `seen` of the rents
  the chain had while the call ran.
- **Actions.** `GetAccountRentExempt(c, refresh)` is the synchronous part up
  to the await (or the immediate return of the memo). The awaited RPC is
  `RpcServe` (the node reads the rent), then `RpcResolve` (the continuation
  writes the memo and returns it; there is no await in between) or
  `RpcReject`. `RentChange` is the environment.
- **Falsy.** `!this._accountRentExempt` is true for `undefined` and `0`, so
  the rent values include 0.

Notes on `QuoteContext`:

- **Variables.** The cluster's `epoch` and the mint's `chainCfg`; the builder's
  `readCfg` and `readEpoch` (the two reads of `Promise.all`); the context
  `ctx`; the `quoted` conversion; what the
  transfer `delivered`.
- **Actions.** `Build`, `ReadMintInfos` and `ReadEpoch` in either order, then
  `BuildReturn`; `Quote(x)` calls `TokenExtIncluded` of `TransferFee` with the
  context; `Execute` charges the chain's fee of the moment.
- **Environment.** `AdvanceEpoch`, and `SetTransferFee`, which follows
  Token-2022: the fee in force becomes the older fee and the new one starts
  two epochs later, replacing a pending one. This is spl-token behaviour and
  has no map entry.

Notes on `ContextBuilder`:

- **Variables.** The chain: each mint's token `program`, its transfer `hook`
  (none, or the number of extra accounts its hook program resolves) and the
  set of mints whose accounts are `found`. The pool: which rewards are
  initialized (`rewardInit`) and their mints. The context `ctx` in use,
  whether it was built (`ctxBuilt`), and the last helper call `out`.
- **Actions.** `BuildTokenExtensionContext` is the builder as one step (the
  race between its two reads is `QuoteContext`'s subject); a mint not found
  is `Null` in the record, as `Map.get(...)!` gives at run time.
  `UseDefaultContext` is a caller passing `NO_TOKEN_EXTENSION_CONTEXT`.
  `IsV2IxRequiredPool`, `IsV2IxRequiredReward(i)` and
  `GetExtraAccountMetasForTransferHook(side)` record the helper's result;
  dereferencing a `null` mint gives `TypeError`. `TransferHookRpcFails` is
  the `addExtraAccountMetasForExecute` RPC rejecting.
- **Abstraction.** `addExtraAccountMetasForExecute` is in `@solana/spl-token`;
  it is represented by the number of metas it appends after the five fixed
  keys, which is all the helper's `slice(5)` and length check look at.

## 3. Runs

| Run | Config | Expect | Checks |
|---|---|---|---|
| `tick_sequence` | `MC_TickArraySequence.cfg` | pass | `TypeOK`, `TouchedArraysListed`, `AbstractSpec` (refinement of `TickArraySequenceSpec`) |
| `tick_sequence_gap` | `MC_TickArraySequence_misordered.cfg` | violation | `GetTickReturnsRequestedTick` |
| `transfer_fee` | `MC_TransferFee.cfg` | pass | `TypeOK`, `IncludedAmountDeliversExactly` |
| `account_cache` | `MC_AccountCache.cfg` | pass | `TypeOK`, `RentExemptAbstract` (refinement of `RentExemptSpec`) |
| `quote_context_epoch` | `MC_QuoteContext_epoch.cfg` | violation | `SameEpochQuoteDelivers` (spec §5) |
| `context_builder` | `MC_ContextBuilder.cfg` | pass | `TypeOK`, `V2IxMatchesChain` |
| `context_builder_missing` | `MC_ContextBuilder_missing.cfg` | violation | `BuiltContextComplete` (spec §5) |

### `tick_sequence`

The window is every contiguous window of 1 to 3 arrays in either direction,
built from the arrays -1, 0 and 1. Every array may or may not have data, and
every tick may or may not be initialized. Any two calls may follow, each with
any tick in -5..8.

The run shows:

- `getTick` reads the right slot.
- The search returns exactly the first initialized tick or error that the
  set-based specification names.
- The search marks exactly the slots it passed, failing calls included.
- The exhaustion edge matches the specification in both directions,
  including both clamps.

Bounds:

- Tick spacing is 2 and an array holds 2 ticks, so an array spans 4 ticks.
  This is the smallest size in which an array has a first, a last and
  non-aligned ticks.
- `MIN_TICK_INDEX` is -3 and `MAX_TICK_INDEX` is 5. They lie inside the
  outermost arrays and are not multiples of the spacing, as ±443636 are in the
  protocol, so both clamps and the b→a "no progress at the maximum" case occur.
- Three arrays is what the orchestrators fetch.
- Two calls are enough for a call after an error and for a second search
  whose touched set overlaps the first.

`CHECK_DEADLOCK FALSE` applies because a sequence lives for one quote. It
stops after finitely many calls, or at once if the constructor throws.

### `tick_sequence_gap`

The windows here are any two distinct arrays, in any order and either
direction. TLC finds the a→b window ⟨1, −1⟩, which skips array 0. In it,
`getTick(0)` returns the data of tick −4.

The reason is the range check in `checkIfIndexIsInTickArrayRange` (line 155).
It accepts `start + tickSpacing * TICK_ARRAY_SIZE`, which is the first tick of
the next array. Spec §4.2 says that check is what rejects non-contiguous
windows. See the finding in PROJECT.json.

### `transfer_fee`

The inputs are:

- rates of 0, 1, 500, 5000, 9999 and 10000 bps;
- caps of 0, 2 and 20;
- an older and a newer fee in each config, with the quote made in epoch 0 or
  epoch 1;
- amounts 0..12, with `U64_MAX` shrunk to 12 so that both overflow checks
  fire.

The run shows that a fee-included amount that does not overflow delivers
exactly the asked amount when the chain withholds its fee, with the fee
within the cap. That holds at every rate, including the 100% branch, and
at the cap switch. With the spec's floor fee it would not: bps 1 and
amount 1 give an included amount of 2, whose floor fee is 0. See the
finding in PROJECT.json.

### `account_cache`

Two callers, rents 0, 1 and 2, and up to two rent changes. Two callers are
enough for one to overwrite the memo while the other is suspended; the
rent 0 makes the memo falsy after a successful fetch. A third caller takes
about 4.5 minutes, too close to the five-minute budget. Each step involves
at most two calls, the writer and the call it overtakes, so two callers
already reach every pairwise interleaving.

The run shows that the cache implements `RentExemptSpec`. The refinement
mapping is the identity on the shared variables. The node's answer
(`RpcServe`) is hidden, so it is a stutter step, and `RpcResolve` is `End`
with the served rent. TLC reaches the memo regress: two fetching calls
settle in the opposite order to the one in which they were served. The
regress is allowed, but only to a rent the chain had while the overwriting
call was outstanding.

### `quote_context_epoch`

The mint starts with a pending fee for epoch 1 that is either higher or
lower than the fee in force; the authority may set a 25% fee twice; epochs
run 0..3; amounts are 1, 3 and 6 with `U64_MAX` 20.

TLC finds:

1. the mint is read in epoch 0, with a lower fee pending for epoch 1;
2. the authority sets a new fee, which replaces the pending one;
3. epoch 1 starts and `getEpoch` returns 1;
4. the context selects the replaced lower fee, and the transfer in epoch 1 is
   charged the older, higher fee, so it delivers less than asked.

Spec §5 says the fee calculator is handed an epoch-consistent context; the
builder that the SDK offers for it does not make one.

### `context_builder` and `context_builder_missing`

Three mints: the pool's A and B, and a third that only rewards use. Each
mint is Token or Token-2022, has no hook, a hook with no extra accounts, or
one with one. At most one mint's account is missing. Each of the three
reward slots is initialized or not, with any of the three mints. That gives
every layout of initialized and uninitialized rewards, including a reward
that shares a pool mint.

`context_builder` shows two things. First, when every needed mint is found,
the V2 checks of a built context agree with the chain for every slot:
slot `i` is filled from reward `i`'s own mint, although only the initialized
rewards' mints were fetched. Second, the hook helper returns `undefined`,
never an empty list, when the hook resolves no extra accounts.

`context_builder_missing` checks spec §5's complete context. TLC finds:

1. one needed mint is missing from `getMintInfos`' answer;
2. the builder returns a context that holds `null` for it.

A pool mint's `null` throws a `TypeError` later, in `isV2IxRequiredPool`
(unless mint A is Token-2022, which decides first) or in the hook helper.
A reward's `null` silently reads as "no V2 instruction needed".

### Fairness

No model assumes fairness, and no liveness property is checked:

- The sequence and fee calculations are synchronous, and a caller may stop
  at any point.
- `getAccountRentExempt` awaits an RPC that web3.js sends with no timeout.
  So nothing in the code guarantees that a call returns, and neither
  `AccountCache` nor `RentExemptSpec` claims it.

## 4. Not modelled, and why

- **The transfer-fee integration tests.** Their expected balances chain
  `calculateTransferFeeExcludedAmount` and `IncludedAmount` around quote
  amounts. Those amounts come from `simulateSwap` and the on-chain program,
  and neither is in the sources. What the chaining relies on holds per
  conversion:
  an included amount delivers exactly the asked amount (`transfer_fee`).
  A model of the tests would only compose that checked conversion over
  invented curve amounts.
- **A stepper loop and its termination.** Spec §9 says the stepping
  algorithm's termination rules must not be inferred. So no liveness
  property is stated for a caller of `findNextInitializedTickIndex`.

- **`simulateSwap`.** Not among the sources, and spec §9 says its loop must
  not be guessed. It is represented only by arbitrary calls into the
  sequence.
- **Instruction exports.** `instructions/index.ts` only re-exports modules
  that are not among the sources.
- **The transfer-hook account resolution** inside
  `addExtraAccountMetasForExecute` (spl-token). Only the number of metas it
  appends is modelled, since the helper only slices and counts them.
- **Cache ages (the 8 s retention policy).** Expiry is implemented by
  `SimpleAccountCache`, which is not in the sources. The quote's window is
  always derived from the same `whirlpoolData` the quote uses. So a stale
  entry changes only the amounts `simulateSwap` computes (also outside the
  sources), or makes the initialization check throw for an array cached as
  missing. The check throws, and the error is the same whatever the cache's age.
- **The typed getters of `WhirlpoolAccountCache`** (`getPool`,
  `getTickArrays`, ...). Each forwards to `SimpleAccountCache` of
  `@orca-so/common-sdk`, which is not in the sources; the retention policy
  constants are arguments of that class.
- **The InvalidTick failure of spec §4.1.** The global-bound failure of the
  mapper is not modelled. The sequence's clamp to those bounds (§4.2) only
  makes sense if stepping past them does not throw.

## 5. Plan

Ordered by importance. Sitting 1 covered items 1 to 3 and the safety part of item 4; sitting 2
covered items 5 and 7; sitting 3 added item 8 and the `swapQuoteWithParams`
property of item 4; sitting 4 replaced item 7's refresh property with the
refinement of `RentExemptSpec` and closed items 4 and 6 as not modelled;
sitting 5 switched `calculateFee` to the library's rounding and dropped
the properties that restated guards or assumed an RPC answer.

1. `TickArrayIndex` and `TickArraySequence`, with the refinement of
   `TickArraySequenceSpec`.
2. `TransferFee`, covering rounding, the cap and overflow.
3. The violation run for the gap window (the fee round-trip violation was
   dropped: it rested on the spec's floor fee, not the library's).
4. `SwapQuote`, which composes `TickArraySequence`. It models:
   - direction from the mint (`swap-quote.ts` 76-82, 133-139);
   - the all-initialized check (174-185);
   - a stepper that calls `findNextInitializedTickIndex` and moves to its
     result.

   Its properties: none are kept, since each restated the guard of line 94;
   - liveness of the stepper: not modelled, because spec §9 forbids
     inferring its termination rules (see section 4).
   - a window built from a pool read older than its tick arrays (the 8 s
     cache): not modelled, see section 4.
5. `QuoteContext`, for `buildTokenExtensionContext`. It models the epoch read
   at build time against the epoch at execution, and whether the quoted
   included amount still delivers (violated; the cached mint read of
   `getMintInfos` with caller options is left).
6. `FeeAdjustedSwap`, covering the fee chaining of the integration tests.
   Dropped: see section 4.
7. `AccountCache`, covering `getAccountRentExempt` with concurrent callers and
   a refresh. Its property: the cache refines the atomic-call
   `RentExemptSpec` (done). "Every call returns" was dropped: the RPC has
   no timeout.
8. `ContextBuilder`, covering the mint half of the context and its helpers.
   Its properties: the V2 checks agree with the chain, and the built
   context is complete (violated) (done).
