---------------------------- MODULE RentExemptSpec ----------------------------
(***************************************************************************)
(* What WhirlpoolAccountCache.getAccountRentExempt promises its callers,   *)
(* stated with atomic calls.  A call that finds the memo set and is not a  *)
(* refresh returns the memo at once.  Otherwise the call is outstanding    *)
(* for a while, and then, in one step, either fails (the memo untouched)   *)
(* or sets the memo to some rent the chain had while the call was          *)
(* outstanding and returns that same value.                                *)
(*                                                                         *)
(* Two outstanding calls may end in either order, each with its own        *)
(* value, so a later memo may be older than an earlier one: the regress    *)
(* is allowed, but only to a rent of the call that wrote it.  Nothing      *)
(* promises that an outstanding call ends: the RPC has no timeout.         *)
(***************************************************************************)
EXTENDS Naturals

CONSTANTS Callers, RentValues, MaxRentChanges, Undefined, NoResult, Failed

VARIABLES rent, rentChanges, memo, pc, refreshing, seen, result

vars == <<rent, rentChanges, memo, pc, refreshing, seen, result>>

Init ==
    /\ rent \in RentValues
    /\ rentChanges = 0
    /\ memo = Undefined
    /\ pc = [c \in Callers |-> "idle"]
    /\ refreshing = [c \in Callers |-> FALSE]
    /\ seen = [c \in Callers |-> {}]
    /\ result = [c \in Callers |-> NoResult]

\* A call begins: it returns the memo at once unless the memo is unset (0
\* counts as unset) or it is a refresh.
Begin(c, refresh) ==
    /\ pc[c] = "idle"
    /\ refreshing' = [refreshing EXCEPT ![c] = refresh]
    /\ seen' = [seen EXCEPT ![c] = {rent}]
    /\ IF memo \in {Undefined, 0} \/ refresh
       THEN /\ pc' = [pc EXCEPT ![c] = "awaiting"]
            /\ UNCHANGED result
       ELSE /\ result' = [result EXCEPT ![c] = memo]
            /\ UNCHANGED pc
    /\ UNCHANGED <<rent, rentChanges, memo>>

\* An outstanding call ends with a rent of its own window, written to the
\* memo and returned.
End(c) ==
    /\ pc[c] = "awaiting"
    /\ \E v \in seen[c] :
          /\ memo' = v
          /\ result' = [result EXCEPT ![c] = v]
    /\ pc' = [pc EXCEPT ![c] = "idle"]
    /\ UNCHANGED <<rent, rentChanges, refreshing, seen>>

\* An outstanding call fails and leaves the memo alone.
Fail(c) ==
    /\ pc[c] = "awaiting"
    /\ pc' = [pc EXCEPT ![c] = "idle"]
    /\ result' = [result EXCEPT ![c] = Failed]
    /\ UNCHANGED <<rent, rentChanges, memo, refreshing, seen>>

RentChange(v) ==
    /\ rentChanges < MaxRentChanges
    /\ v /= rent
    /\ rent' = v
    /\ rentChanges' = rentChanges + 1
    /\ seen' = [c \in Callers |->
                  IF pc[c] = "awaiting" THEN seen[c] \cup {v} ELSE seen[c]]
    /\ UNCHANGED <<memo, pc, refreshing, result>>

Next ==
    \/ \E c \in Callers, r \in BOOLEAN : Begin(c, r)
    \/ \E c \in Callers : End(c) \/ Fail(c)
    \/ \E v \in RentValues : RentChange(v)

Spec == Init /\ [][Next]_vars

=============================================================================
