-------------------------- MODULE TickArraySequence --------------------------
(***************************************************************************)
(* TickArraySequence (src/sdk/src/quotes/swap/tick-array-sequence.ts).     *)
(*                                                                         *)
(* A window of pre-fetched tick-array snapshots and a trade direction.     *)
(* The only mutable state of an instance is touchedArrays; the window and  *)
(* the chain content it was fetched from are fixed for its lifetime.       *)
(*                                                                         *)
(* A tick array is identified by its array index a (its address): its      *)
(* startTickIndex is a * ArraySpan, it carries data iff a \in hasData, and *)
(* its tick at offset o is initialized iff the tick index                  *)
(* a * ArraySpan + o * TickSpacing is in the set initialized.  A returned  *)
(* TickData is the record [arr, off, initialized] naming the physical tick *)
(* it was read from, so properties can tell which tick a caller received.  *)
(*                                                                         *)
(* The caller (the opaque swap stepper, or anyone holding the instance)    *)
(* may call getTick and findNextInitializedTickIndex with any tick index,  *)
(* and may keep using the instance after a call threw.  Each call is      *)
(* synchronous, so it is one atomic step; the while loop of                *)
(* findNextInitializedTickIndex is the RECURSIVE operator Search.          *)
(***************************************************************************)
EXTENDS Integers, Sequences, FiniteSets, SequencesExt

CONSTANTS
    TickSpacing, TICK_ARRAY_SIZE,
    MIN_TICK_INDEX, MAX_TICK_INDEX,  \* global tick bounds of the protocol
    Windows,     \* windows a caller may build the sequence from: records
                 \* [aToB |-> BOOLEAN, arrays |-> <<array index, ...>>]
    CallTicks,   \* tick indexes a caller may pass to getTick / findNext
    MaxCalls,    \* bound on the number of calls made on one instance
    NoTick       \* model value: the null nextTickData

ASSUME MIN_TICK_INDEX < MAX_TICK_INDEX
ASSUME MaxCalls \in Nat

LOCAL TAI == INSTANCE TickArrayIndex
ArraySpan == TAI!ArraySpan
FromTickIndex(t) == TAI!FromTickIndex(t)
ToTickIndex(c) == TAI!ToTickIndex(c)
StartTickIndex(a) == TAI!StartTickIndex(a)

VARIABLES
    tickArrays,       \* the window: sequence of array indexes (slot k+1 is
                      \* the code's tickArrays[k])
    aToB,             \* trade direction
    hasData,          \* array indexes whose account exists (data non-null)
    initialized,      \* initialized tick indexes on chain
    status,           \* "new" | "ready" | "failed" (constructor threw)
    touchedArrays,    \* [0..Len(tickArrays)-1 -> {0, 1}]
    startArrayIndex,  \* array index of tickArrays[0]
    ret,              \* result of the last call, for the properties
    calls             \* number of calls made so far (bounded by MaxCalls)

vars == <<tickArrays, aToB, hasData, initialized, status, touchedArrays,
          startArrayIndex, ret, calls>>

Err(code) == [err |-> code]
IsErr(r) == "err" \in DOMAIN r

\* The TickData at offset o of array a.
TickAt(a, o) ==
    [arr |-> a, off |-> o,
     initialized |-> StartTickIndex(a) + o * TickSpacing \in initialized]

SeqLength == Len(tickArrays)

-----------------------------------------------------------------------------
(* Private helpers of the class.                                           *)

getLocalArrayIndex(arrayIndex) ==
    IF aToB THEN startArrayIndex - arrayIndex ELSE arrayIndex - startArrayIndex

isArrayIndexInBounds(c) ==
    LET local == getLocalArrayIndex(c.arrayIndex)
    IN  local >= 0 /\ local < SeqLength

\* The upper bound startTick + TickSpacing * TICK_ARRAY_SIZE is inclusive.
checkIfIndexIsInTickArrayRange(startTick, tickIndex) ==
    ~(tickIndex < startTick \/ tickIndex > startTick + ArraySpan)

checkArrayContainsTickIndex(sequenceIndex, tickIndex) ==
    /\ sequenceIndex \in 0..SeqLength - 1
    /\ tickArrays[sequenceIndex + 1] \in hasData
    /\ checkIfIndexIsInTickArrayRange(
           StartTickIndex(tickArrays[sequenceIndex + 1]), tickIndex)

-----------------------------------------------------------------------------
(* getTick(index) given the touched map before the call: the touched map   *)
(* after it and the returned TickData or thrown error.  The slot is marked *)
(* touched before the data and range checks, as in the code.               *)

getTick(index, touched) ==
    LET c     == FromTickIndex(index)
        local == getLocalArrayIndex(c.arrayIndex)
        a     == tickArrays[local + 1]
        t2    == [touched EXCEPT ![local] = 1]
    IN  CASE ~isArrayIndexInBounds(c) ->
                [touched |-> touched, res |-> Err("OutOfBounds")]
          [] a \notin hasData ->
                [touched |-> t2, res |-> Err("TickArrayIndexNotInitialized")]
          [] ~checkIfIndexIsInTickArrayRange(StartTickIndex(a), index) ->
                [touched |-> t2, res |-> Err("TickArraySequenceInvalid")]
          [] OTHER ->
                [touched |-> t2, res |-> TickAt(a, c.offsetIndex)]

\* The exhaustion result: the window edge in the direction of travel,
\* clamped to [MIN_TICK_INDEX, MAX_TICK_INDEX].
LastIndexInArray(c) ==
    LET edge == IF aToB THEN ToTickIndex(c) + TickSpacing ELSE ToTickIndex(c) - 1
        hi   == IF edge < MAX_TICK_INDEX THEN edge ELSE MAX_TICK_INDEX
    IN  IF hi > MIN_TICK_INDEX THEN hi ELSE MIN_TICK_INDEX

\* The while loop of findNextInitializedTickIndex from coordinate c.
RECURSIVE Search(_, _)
Search(c, touched) ==
    IF ~isArrayIndexInBounds(c)
    THEN [touched |-> touched,
          res |-> [nextIndex |-> LastIndexInArray(c), nextTick |-> NoTick]]
    ELSE LET g == getTick(ToTickIndex(c), touched)
         IN  CASE IsErr(g.res) -> g
               [] g.res.initialized ->
                    [touched |-> g.touched,
                     res |-> [nextIndex |-> ToTickIndex(c), nextTick |-> g.res]]
               [] OTHER ->
                    Search(IF aToB THEN TAI!ToPrevInitializableTickIndex(c)
                                   ELSE TAI!ToNextInitializableTickIndex(c),
                           g.touched)

\* Mutation: b->a searching from currIndex itself, as a->b does.
findNextInitializedTickIndex_searchFromCurr(currIndex, touched) ==
    LET c0 == FromTickIndex(currIndex)
    IN  IF ~isArrayIndexInBounds(c0)
        THEN [touched |-> touched, res |-> Err("TickArraySequenceInvalid")]
        ELSE Search(c0, touched)

findNextInitializedTickIndex(currIndex, touched) ==
    LET searchIndex == IF aToB THEN currIndex ELSE currIndex + TickSpacing
        c0 == FromTickIndex(searchIndex)
    IN  IF ~isArrayIndexInBounds(c0)
        THEN [touched |-> touched, res |-> Err("TickArraySequenceInvalid")]
        ELSE Search(c0, touched)

-----------------------------------------------------------------------------
(* Queries: no state change.                                               *)

getNumOfTouchedArrays ==
    Cardinality({i \in DOMAIN touchedArrays : touchedArrays[i] > 0})

\* Mutation: padding with the first touched array instead of the last.
getTouchedArrays_padWithFirst(minArraySize) ==
    LET slots  == SelectSeq([k \in 1..SeqLength |-> k],
                            LAMBDA k : touchedArrays[k - 1] /= 0)
        result == [k \in 1..Len(slots) |-> tickArrays[slots[k]]]
        sizeDiff == minArraySize - Len(result)
    IN  CASE Len(result) = 0 -> <<>>
          [] sizeDiff > 0 -> result \o [k \in 1..sizeDiff |-> result[1]]
          [] OTHER -> result

\* The addresses of the touched slots in window order, padded to
\* minArraySize with the last one; empty when nothing was touched.
getTouchedArrays(minArraySize) ==
    LET slots  == SelectSeq([k \in 1..SeqLength |-> k],
                            LAMBDA k : touchedArrays[k - 1] /= 0)
        result == [k \in 1..Len(slots) |-> tickArrays[slots[k]]]
        sizeDiff == minArraySize - Len(result)
    IN  CASE Len(result) = 0 -> <<>>
          [] sizeDiff > 0 -> result \o [k \in 1..sizeDiff |-> Last(result)]
          [] OTHER -> result

-----------------------------------------------------------------------------
(* Actions.                                                                *)

\* The caller fetches a window and a chain snapshot: every array of the
\* window may or may not exist, every tick of an existing array may or may
\* not be initialized.
Init ==
    /\ \E w \in Windows :
          /\ tickArrays = w.arrays
          /\ aToB = w.aToB
    /\ hasData \in SUBSET ToSet(tickArrays)
    /\ initialized \in SUBSET {StartTickIndex(a) + o * TickSpacing :
                                 a \in hasData, o \in 0..TICK_ARRAY_SIZE - 1}
    /\ status = "new"
    /\ touchedArrays = [i \in 0..SeqLength - 1 |-> 0]
    /\ startArrayIndex = 0
    /\ ret = NoTick
    /\ calls = 0

\* Mutation: the touched map sized one slot longer than the window.
Construct_touchedOneLonger ==
    /\ status = "new"
    /\ status' = IF tickArrays[1] \in hasData THEN "ready" ELSE "failed"
    /\ startArrayIndex' = FromTickIndex(StartTickIndex(tickArrays[1])).arrayIndex
    /\ touchedArrays' = [i \in 0..SeqLength |-> 0]
    /\ UNCHANGED <<tickArrays, aToB, hasData, initialized, ret, calls>>

\* constructor: throws unless tickArrays[0] carries data.
Construct ==
    /\ status = "new"
    /\ IF tickArrays[1] \in hasData
       THEN /\ status' = "ready"
            /\ startArrayIndex' =
                   FromTickIndex(StartTickIndex(tickArrays[1])).arrayIndex
       ELSE /\ status' = "failed"
            /\ UNCHANGED startArrayIndex
    /\ touchedArrays' = [i \in 0..SeqLength - 1 |-> 0]
    /\ UNCHANGED <<tickArrays, aToB, hasData, initialized, ret, calls>>

\* A call whose effect is the result r of one of the operators above.
Call(op, arg, r) ==
    /\ status = "ready"
    /\ calls < MaxCalls
    /\ touchedArrays' = r.touched
    /\ ret' = [op |-> op, arg |-> arg, res |-> r.res]
    /\ calls' = calls + 1
    /\ UNCHANGED <<tickArrays, aToB, hasData, initialized, status,
                   startArrayIndex>>

GetTick(index) == Call("getTick", index, getTick(index, touchedArrays))

FindNextInitializedTickIndex(currIndex) ==
    Call("findNext", currIndex,
         findNextInitializedTickIndex(currIndex, touchedArrays))

Next ==
    \/ Construct
    \/ \E t \in CallTicks : GetTick(t)
    \/ \E t \in CallTicks : FindNextInitializedTickIndex(t)

Spec == Init /\ [][Next]_vars

-----------------------------------------------------------------------------
(* Properties.                                                             *)

TypeOK ==
    /\ aToB \in BOOLEAN
    /\ status \in {"new", "ready", "failed"}
    /\ touchedArrays \in [0..SeqLength - 1 -> {0, 1}]
    /\ hasData \subseteq ToSet(tickArrays)
    /\ calls \in 0..MaxCalls

\* getTick(index) that returns a TickData returns the tick at index (its
\* initializable tick at or below index), read from the array whose range
\* holds it: the range check after the slot arithmetic is what is meant
\* to reject a window that is not contiguous in the direction of travel.
GetTickReturnsRequestedTick ==
    (ret /= NoTick /\ ret.op = "getTick" /\ ~IsErr(ret.res)) =>
        StartTickIndex(ret.res.arr) + ret.res.off * TickSpacing
            = ToTickIndex(FromTickIndex(ret.arg))


\* The sequence implements its abstract specification: getTick reads the
\* slot that holds the requested tick's array; findNextInitializedTickIndex
\* returns the first initialized tick in the direction of travel, skipping
\* none, throws at the first array without data, marks exactly the slots it
\* passed, and on exhausting the window returns its clamped edge.  The slot
\* arithmetic (getLocalArrayIndex), the asymmetric search start (a->b
\* includes currIndex, b->a starts one spacing above), the step direction,
\* the two exhaustion edges and the touch-before-check order all matter.
Abstract == INSTANCE TickArraySequenceSpec
AbstractSpec == Abstract!Spec

\* getTouchedArrays(m) lists the touched arrays in window order, each once,
\* padded to m entries with the last one, and nothing when none was
\* touched; getNumOfTouchedArrays counts the same slots.
TouchedArraysListed ==
    \A m \in 0..SeqLength + 1 :
        LET L == getTouchedArrays(m)
            T == {k \in 0..SeqLength - 1 : touchedArrays[k] = 1}
        IN  /\ Cardinality(T) = getNumOfTouchedArrays
            /\ T = {} => L = <<>>
            /\ T /= {} =>
                  /\ Len(L) = IF m > Cardinality(T) THEN m ELSE Cardinality(T)
                  /\ \A i \in 1..Cardinality(T) :
                        L[i] = tickArrays[1 + Min({k \in T :
                                 Cardinality({j \in T : j < k}) = i - 1})]
                  /\ \A i \in Cardinality(T) + 1..Len(L) :
                        L[i] = tickArrays[1 + Max(T)]

=============================================================================
