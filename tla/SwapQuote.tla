------------------------------ MODULE SwapQuote ------------------------------
(***************************************************************************)
(* The quote orchestrators of src/sdk/src/quotes/public/swap-quote.ts      *)
(* composed with TickArraySequence.                                        *)
(*                                                                         *)
(* swapQuoteByInputToken / swapQuoteByOutputToken pick the direction from  *)
(* the requested mint, fetch the tick-array window for the pool's current  *)
(* tick, check that every array of it is initialized and hand it to       *)
(* simulateSwap; swapQuoteWithParams hands a caller-built window to        *)
(* simulateSwap without that check.  simulateSwap is not in the sources:   *)
(* it builds one TickArraySequence and calls into it, which is modelled    *)
(* by the sequence's constructor and arbitrary calls.                      *)
(*                                                                         *)
(* SwapUtils.getTickArrays is not in the sources either; per the spec it   *)
(* returns the window of up to three arrays starting at the array of the   *)
(* current tick in the direction of travel, stopping at the first array    *)
(* that lies past the global tick bounds (FetchedWindow).                  *)
(*                                                                         *)
(* No run checks this module: what it adds to TickArraySequence is the    *)
(* initialization guard of line 94, and a property of the composition      *)
(* would restate that guard.  It documents how the orchestrators hand a    *)
(* window to the sequence.                                                 *)
(***************************************************************************)
EXTENDS Integers, Sequences, FiniteSets, SequencesExt

CONSTANTS
    TickSpacing, TICK_ARRAY_SIZE, MIN_TICK_INDEX, MAX_TICK_INDEX,
    Windows, CallTicks, MaxCalls, NoTick,
    ArrayIndexes,  \* array indexes that can have an account on chain
    PoolTicks,     \* values the pool's tickCurrentIndex may have
    TokenMintA, TokenMintB,  \* the pool's mints (model values)
    Mints          \* mints a caller may request (TokenMintA, TokenMintB, others)

VARIABLES
    tickArrays, aToB, hasData, initialized, status, touchedArrays,
    startArrayIndex, ret, calls,     \* the TickArraySequence of the quote
    tickCurrentIndex,  \* whirlpoolData.tickCurrentIndex
    entry,             \* entry point used: "byInput" | "byOutput" | "withParams"
    phase,             \* "idle" | "simulating" | "threw" | "done"
    error              \* what the orchestrator threw, or "none"

seqVars == <<tickArrays, aToB, hasData, initialized, status, touchedArrays,
             startArrayIndex, ret, calls>>
vars == <<seqVars, tickCurrentIndex, entry, phase, error>>

TAS == INSTANCE TickArraySequence

-----------------------------------------------------------------------------

\* PoolUtil.getTokenType: "A", "B", or "none" for a foreign mint.
TokenTypeOf(mint) ==
    CASE mint = TokenMintA -> "A" [] mint = TokenMintB -> "B" [] OTHER -> "none"

\* An array covers some tick of [MIN_TICK_INDEX, MAX_TICK_INDEX].
ArrayInBounds(a) ==
    /\ TAS!StartTickIndex(a) + TickSpacing * TICK_ARRAY_SIZE > MIN_TICK_INDEX
    /\ TAS!StartTickIndex(a) <= MAX_TICK_INDEX

\* SwapUtils.getTickArrays (from the spec): up to three consecutive arrays
\* from the one holding the current tick, in the direction of travel; the
\* list ends at the first array past the global bounds.
FetchedWindow(tick, dir) ==
    LET a0  == TAS!FromTickIndex(tick).arrayIndex
        all == [k \in 1..3 |-> IF dir THEN a0 - (k - 1) ELSE a0 + (k - 1)]
    IN  SelectSeq(all, ArrayInBounds)

\* checkIfAllTickArraysInitialized: the indexes of arrays without data.
UninitializedArrays(window) ==
    {k \in 1..Len(window) : window[k] \notin hasData}

checkIfAllTickArraysInitialized(window) == UninitializedArrays(window) = {}

\* aToB of swapQuoteByInputToken (input A sells A) and of
\* swapQuoteByOutputToken (output B means selling A).
DirectionFor(ent, tokenType) ==
    IF ent = "byInput" THEN tokenType = "A" ELSE tokenType = "B"

-----------------------------------------------------------------------------

Init ==
    /\ hasData \in SUBSET ArrayIndexes
    /\ initialized \in SUBSET {TAS!StartTickIndex(a) + o * TickSpacing :
                                 a \in hasData, o \in 0..TICK_ARRAY_SIZE - 1}
    /\ tickCurrentIndex \in PoolTicks
    /\ tickArrays = <<>>
    /\ aToB = FALSE
    /\ status = "new"
    /\ touchedArrays = <<>>
    /\ startArrayIndex = 0
    /\ ret = NoTick
    /\ calls = 0
    /\ entry = "none"
    /\ phase = "idle"
    /\ error = "none"

\* The common body of the two mint-based entry points up to simulateSwap.
SwapQuoteByToken(ent, mint) ==
    LET tokenType == TokenTypeOf(mint)
        dir       == DirectionFor(ent, tokenType)
        window    == FetchedWindow(tickCurrentIndex, dir)
    IN  /\ phase = "idle"
        /\ entry' = ent
        /\ CASE tokenType = "none" ->
                  /\ phase' = "threw" /\ error' = "swapTokenMint does not match"
                  /\ UNCHANGED <<tickArrays, aToB>>
             [] ~checkIfAllTickArraysInitialized(window) ->
                  /\ phase' = "threw" /\ error' = "TickArray need to be initialized"
                  /\ UNCHANGED <<tickArrays, aToB>>
             [] OTHER ->
                  /\ phase' = "simulating" /\ error' = "none"
                  /\ tickArrays' = window
                  /\ aToB' = dir
        /\ UNCHANGED <<hasData, initialized, status, touchedArrays,
                       startArrayIndex, ret, calls, tickCurrentIndex>>

SwapQuoteByInputToken(inputTokenMint) ==
    SwapQuoteByToken("byInput", inputTokenMint)

SwapQuoteByOutputToken(outputTokenMint) ==
    SwapQuoteByToken("byOutput", outputTokenMint)

\* swapQuoteWithParams: any window the caller built, no initialization check.
SwapQuoteWithParams(w) ==
    /\ phase = "idle"
    /\ entry' = "withParams"
    /\ phase' = "simulating"
    /\ tickArrays' = w.arrays
    /\ aToB' = w.aToB
    /\ UNCHANGED <<hasData, initialized, status, touchedArrays,
                   startArrayIndex, ret, calls, tickCurrentIndex, error>>

\* simulateSwap's use of the sequence.
Simulate ==
    /\ phase = "simulating"
    /\ \/ TAS!Construct
       \/ \E t \in CallTicks : TAS!GetTick(t)
       \/ \E t \in CallTicks : TAS!FindNextInitializedTickIndex(t)
    /\ UNCHANGED <<tickCurrentIndex, entry, phase, error>>

\* simulateSwap returns (or rethrows what the sequence threw).
Finish ==
    /\ phase = "simulating"
    /\ status /= "new"
    /\ phase' = "done"
    /\ UNCHANGED <<seqVars, tickCurrentIndex, entry, error>>

Next ==
    \/ \E m \in Mints : SwapQuoteByInputToken(m)
    \/ \E m \in Mints : SwapQuoteByOutputToken(m)
    \/ \E w \in Windows : SwapQuoteWithParams(w)
    \/ Simulate
    \/ Finish

Spec == Init /\ [][Next]_vars

=============================================================================
