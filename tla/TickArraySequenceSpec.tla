------------------------ MODULE TickArraySequenceSpec ------------------------
(***************************************************************************)
(* What a TickArraySequence promises its caller, stated over sets instead  *)
(* of slot arithmetic and a search loop (spec section 4.2):                *)
(*                                                                         *)
(*  - getTick(t) reads the window slot that holds the array containing t,  *)
(*    marks that slot touched, and returns the initializable tick at or    *)
(*    below t, unless the array is absent from the window or has no data; *)
(*  - findNextInitializedTickIndex(c) returns the first tick, in the       *)
(*    direction of travel from its search start, that is initialized; it  *)
(*    throws at the first array without data on the way; it touches every *)
(*    slot it passes; when the window ends first it returns the window    *)
(*    edge clamped to the global bounds.                                   *)
(*                                                                         *)
(* TickArraySequence implements this module (property AbstractSpec there) *)
(* for windows that are contiguous in the direction of travel.             *)
(***************************************************************************)
EXTENDS Integers, Sequences, FiniteSets, SequencesExt

CONSTANTS TickSpacing, TICK_ARRAY_SIZE, MIN_TICK_INDEX, MAX_TICK_INDEX,
          Windows, CallTicks, MaxCalls, NoTick

LOCAL TAI == INSTANCE TickArrayIndex
ArraySpan == TAI!ArraySpan
StartTickIndex(a) == TAI!StartTickIndex(a)

VARIABLES tickArrays, aToB, hasData, initialized, status, touchedArrays,
          ret, calls

vars == <<tickArrays, aToB, hasData, initialized, status, touchedArrays,
          ret, calls>>

Err(code) == [err |-> code]

\* The initializable tick at or below t, and the array that holds it.
FloorTick(t) == (t \div TickSpacing) * TickSpacing
ArrayOf(t) == t \div ArraySpan
TickData(t) ==
    [arr |-> ArrayOf(t), off |-> (t - StartTickIndex(ArrayOf(t))) \div TickSpacing,
     initialized |-> t \in initialized]

Slots == 0..Len(tickArrays) - 1
SlotsOf(arrays) == {k \in Slots : tickArrays[k + 1] \in arrays}
InWindow(t) == SlotsOf({ArrayOf(t)}) /= {}
Touch(S) == [k \in Slots |-> IF k \in SlotsOf(S) THEN 1 ELSE touchedArrays[k]]

WindowTicks ==
    {StartTickIndex(a) + o * TickSpacing :
        a \in ToSet(tickArrays), o \in 0..TICK_ARRAY_SIZE - 1}

Clamp(t) == IF t < MIN_TICK_INDEX THEN MIN_TICK_INDEX
            ELSE IF t > MAX_TICK_INDEX THEN MAX_TICK_INDEX ELSE t

\* findNextInitializedTickIndex(c) as [touched, res].
FindNext(c) ==
    LET s      == IF aToB THEN FloorTick(c) ELSE FloorTick(c) + TickSpacing
        Ahead  == {t \in WindowTicks : IF aToB THEN t <= s ELSE t >= s}
        Stops  == {t \in Ahead : t \in initialized \/ ArrayOf(t) \notin hasData}
        first  == IF aToB THEN Max(Stops) ELSE Min(Stops)
        Passed == {t \in Ahead : IF aToB THEN t >= first ELSE t <= first}
        edge   == IF aToB THEN Min(WindowTicks)
                          ELSE Max(WindowTicks) + TickSpacing - 1
    IN  CASE ~InWindow(s) ->
                [touched |-> touchedArrays, res |-> Err("TickArraySequenceInvalid")]
          [] Stops = {} ->
                [touched |-> Touch({ArrayOf(t) : t \in Ahead}),
                 res |-> [nextIndex |-> Clamp(edge), nextTick |-> NoTick]]
          [] ArrayOf(first) \notin hasData ->
                [touched |-> Touch({ArrayOf(t) : t \in Passed}),
                 res |-> Err("TickArrayIndexNotInitialized")]
          [] OTHER ->
                [touched |-> Touch({ArrayOf(t) : t \in Passed}),
                 res |-> [nextIndex |-> first, nextTick |-> TickData(first)]]

\* getTick(t) as [touched, res].
GetTickResult(t) ==
    CASE ~InWindow(t) ->
            [touched |-> touchedArrays, res |-> Err("OutOfBounds")]
      [] ArrayOf(t) \notin hasData ->
            [touched |-> Touch({ArrayOf(t)}),
             res |-> Err("TickArrayIndexNotInitialized")]
      [] OTHER ->
            [touched |-> Touch({ArrayOf(t)}), res |-> TickData(FloorTick(t))]

Init ==
    /\ \E w \in Windows : tickArrays = w.arrays /\ aToB = w.aToB
    /\ hasData \in SUBSET ToSet(tickArrays)
    /\ initialized \in SUBSET {StartTickIndex(a) + o * TickSpacing :
                                 a \in hasData, o \in 0..TICK_ARRAY_SIZE - 1}
    /\ status = "new"
    /\ touchedArrays = [k \in Slots |-> 0]
    /\ ret = NoTick
    /\ calls = 0

Construct ==
    /\ status = "new"
    /\ status' = IF tickArrays[1] \in hasData THEN "ready" ELSE "failed"
    /\ UNCHANGED <<tickArrays, aToB, hasData, initialized, touchedArrays,
                   ret, calls>>

Call(op, arg, r) ==
    /\ status = "ready"
    /\ calls < MaxCalls
    /\ touchedArrays' = r.touched
    /\ ret' = [op |-> op, arg |-> arg, res |-> r.res]
    /\ calls' = calls + 1
    /\ UNCHANGED <<tickArrays, aToB, hasData, initialized, status>>

Next ==
    \/ Construct
    \/ \E t \in CallTicks : Call("getTick", t, GetTickResult(t))
    \/ \E t \in CallTicks : Call("findNext", t, FindNext(t))

Spec == Init /\ [][Next]_vars

=============================================================================
