------------------------ MODULE MC_TickArraySequence ------------------------
(***************************************************************************)
(* Model of TickArraySequence for TLC.  Tick spacing 2 and two ticks per   *)
(* array give arrays of span 4; the three arrays -1, 0, 1 cover the tick   *)
(* indexes -4..7.  The global bounds -3 and 5 lie inside the outer arrays *)
(* and are not multiples of the spacing, as MIN_TICK_INDEX and            *)
(* MAX_TICK_INDEX (+-443636) are not in the protocol, so both clamps of    *)
(* the exhaustion result are reached.  Odd tick indexes exercise the floor *)
(* to the initializable tick.  Call ticks reach one array beyond each end. *)
(***************************************************************************)
EXTENDS TickArraySequence

MCArrayIndexes == -1..1

\* Windows of 1 to 3 arrays that are contiguous in the direction of
\* travel: decreasing array indexes for a->b, increasing for b->a.
ContiguousWindows ==
    {[aToB |-> TRUE,  arrays |-> [k \in 1..n |-> s - (k - 1)]] :
         s \in MCArrayIndexes, n \in 1..3} \cup
    {[aToB |-> FALSE, arrays |-> [k \in 1..n |-> s + (k - 1)]] :
         s \in MCArrayIndexes, n \in 1..3}

MCWindows ==
    {w \in ContiguousWindows : ToSet(w.arrays) \subseteq MCArrayIndexes}

\* Windows of two distinct arrays in any order, contiguous or not.
AnyOrderWindows ==
    {w \in [aToB : BOOLEAN, arrays : MCArrayIndexes \X MCArrayIndexes] :
         w.arrays[1] /= w.arrays[2]}

MCCallTicks == -5..8
MCMinTick == -3
MCMaxTick == 5
=============================================================================
