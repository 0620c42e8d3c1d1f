----------------------------- MODULE AccountCache -----------------------------
(***************************************************************************)
(* WhirlpoolAccountCache.getAccountRentExempt                              *)
(* (src/sdk/src/network/public/account-cache.ts): a memo of the chain's    *)
(* rent-exempt minimum, filled by an awaited RPC.                          *)
(*                                                                         *)
(* Several async callers share one cache.  A call checks the memo          *)
(* synchronously; when it is falsy (undefined or 0) or refresh is set it   *)
(* awaits getMinimumBalanceForRentExemption, and its continuation writes   *)
(* the memo and returns it with no await in between.  The RPC is split     *)
(* into the node answering (RpcServe, which reads the chain's rent at that *)
(* moment) and the promise settling (RpcResolve / RpcReject), so answers   *)
(* of concurrent calls settle in any order and a call can fail.  The       *)
(* chain's rent may change between any two steps (RentChange, bounded).    *)
(*                                                                         *)
(* The typed getters (getPool, getTickArrays, ...) only delegate to        *)
(* SimpleAccountCache, which is not in the sources, and are not modelled.  *)
(***************************************************************************)
EXTENDS Naturals

CONSTANTS
    Callers,         \* concurrent async callers sharing the cache
    RentValues,      \* values getMinimumBalanceForRentExemption may return
    MaxRentChanges,  \* bound on changes of the chain's rent
    Undefined,       \* model value: _accountRentExempt never assigned
    NotServed,       \* model value: the node has not answered yet
    NoResult,        \* model value: no call has returned yet
    Failed           \* model value: the call rejected with the RPC's error

ASSUME 0 \in RentValues \/ RentValues \subseteq Nat \ {0}

VARIABLES
    rent,         \* the chain's rent-exempt minimum
    rentChanges,  \* how often it changed (bounded by MaxRentChanges)
    memo,         \* this._accountRentExempt
    pc,           \* pc[c] = "idle" | "awaiting"
    refreshing,   \* the refresh argument of c's current or last call
    served,       \* what the node answered c's pending RPC, or NotServed
    seen,         \* history: the rents the chain had since c's call began
    result        \* what c's last call returned, Failed, or NoResult

vars == <<rent, rentChanges, memo, pc, refreshing, served, seen, result>>

\* JavaScript's !x for the values the memo can hold.
Falsy(v) == v \in {Undefined, 0}

-----------------------------------------------------------------------------

Init ==
    /\ rent \in RentValues
    /\ rentChanges = 0
    /\ memo = Undefined
    /\ pc = [c \in Callers |-> "idle"]
    /\ refreshing = [c \in Callers |-> FALSE]
    /\ served = [c \in Callers |-> NotServed]
    /\ seen = [c \in Callers |-> {}]
    /\ result = [c \in Callers |-> NoResult]

\* Mutation: the refresh argument is ignored.
GetAccountRentExempt_ignoreRefresh(c, refresh) ==
    /\ pc[c] = "idle"
    /\ refreshing' = [refreshing EXCEPT ![c] = refresh]
    /\ seen' = [seen EXCEPT ![c] = {rent}]
    /\ IF Falsy(memo)
       THEN /\ pc' = [pc EXCEPT ![c] = "awaiting"]
            /\ served' = [served EXCEPT ![c] = NotServed]
            /\ UNCHANGED result
       ELSE /\ result' = [result EXCEPT ![c] = memo]
            /\ UNCHANGED <<pc, served>>
    /\ UNCHANGED <<rent, rentChanges, memo>>

\* Mutation: the await is missing, so the memo holds the pending, unanswered request.
GetAccountRentExempt_missingAwait(c, refresh) ==
    /\ pc[c] = "idle"
    /\ refreshing' = [refreshing EXCEPT ![c] = refresh]
    /\ seen' = [seen EXCEPT ![c] = {rent}]
    /\ memo' = IF Falsy(memo) \/ refresh THEN NotServed ELSE memo
    /\ result' = [result EXCEPT ![c] = memo']
    /\ UNCHANGED <<rent, rentChanges, pc, served>>

\* The synchronous part of getAccountRentExempt(refresh): either issue the
\* RPC and suspend at the await, or return the memo at once.
GetAccountRentExempt(c, refresh) ==
    /\ pc[c] = "idle"
    /\ refreshing' = [refreshing EXCEPT ![c] = refresh]
    /\ seen' = [seen EXCEPT ![c] = {rent}]
    /\ IF Falsy(memo) \/ refresh
       THEN /\ pc' = [pc EXCEPT ![c] = "awaiting"]
            /\ served' = [served EXCEPT ![c] = NotServed]
            /\ UNCHANGED result
       ELSE /\ result' = [result EXCEPT ![c] = memo]
            /\ UNCHANGED <<pc, served>>
    /\ UNCHANGED <<rent, rentChanges, memo>>

\* The node answers c's getMinimumBalanceForRentExemption with the rent of
\* the moment.
RpcServe(c) ==
    /\ pc[c] = "awaiting"
    /\ served[c] = NotServed
    /\ served' = [served EXCEPT ![c] = rent]
    /\ UNCHANGED <<rent, rentChanges, memo, pc, refreshing, seen, result>>

\* The await resumes: the continuation assigns the memo and returns it.
RpcResolve(c) ==
    /\ pc[c] = "awaiting"
    /\ served[c] /= NotServed
    /\ memo' = served[c]
    /\ pc' = [pc EXCEPT ![c] = "idle"]
    /\ result' = [result EXCEPT ![c] = served[c]]
    /\ UNCHANGED <<rent, rentChanges, refreshing, served, seen>>

\* The RPC rejects (before or after the node answered): the await throws,
\* the memo is left as it is.
RpcReject(c) ==
    /\ pc[c] = "awaiting"
    /\ pc' = [pc EXCEPT ![c] = "idle"]
    /\ result' = [result EXCEPT ![c] = Failed]
    /\ UNCHANGED <<rent, rentChanges, memo, refreshing, served, seen>>

\* The cluster's rent parameters change (environment).
RentChange(v) ==
    /\ rentChanges < MaxRentChanges
    /\ v /= rent
    /\ rent' = v
    /\ rentChanges' = rentChanges + 1
    /\ seen' = [c \in Callers |->
                  IF pc[c] = "awaiting" THEN seen[c] \cup {v} ELSE seen[c]]
    /\ UNCHANGED <<memo, pc, refreshing, served, result>>

\* The steps of a suspended call's RPC: the node answers and the promise
\* settles.  web3.js sets no timeout on the request, so none of them is
\* owed: the model assumes no fairness.
Settle(c) == RpcServe(c) \/ RpcResolve(c) \/ RpcReject(c)

Next ==
    \/ \E c \in Callers, r \in BOOLEAN : GetAccountRentExempt(c, r)
    \/ \E c \in Callers : Settle(c)
    \/ \E v \in RentValues : RentChange(v)

Spec == Init /\ [][Next]_vars

-----------------------------------------------------------------------------
(* Properties.                                                             *)

TypeOK ==
    /\ memo \in RentValues \cup {Undefined}
    /\ pc \in [Callers -> {"idle", "awaiting"}]
    /\ served \in [Callers -> RentValues \cup {NotServed}]
    /\ result \in [Callers -> RentValues \cup {NoResult, Failed}]

\* The concurrent cache implements RentExemptSpec, where each call that
\* fetches ends atomically with a rent the chain had while it was
\* outstanding, written to the memo and returned.  The node's answer is
\* hidden (RpcServe is a stutter of the abstract spec); RpcResolve is End
\* with the served rent.  It rests on the continuation writing the memo
\* and returning it with no await in between, and on refresh forcing the
\* fetch.  Answers that settle out of order make the memo regress to an
\* older rent, which the abstract spec allows only within the window of
\* the call that wrote it.
Abstract == INSTANCE RentExemptSpec
RentExemptAbstract == Abstract!Spec

=============================================================================
