------------------------------ MODULE LockFunc ------------------------------
(***************************************************************************)
(* The contract of a lock implementation, the function type LockFunc of    *)
(* auth-js: a caller asks for the lock and hands over an operation fn; the *)
(* lock runs fn while no other caller holds it, or refuses the caller.     *)
(* This is the abstract specification that ProcessLock and NavigatorLock   *)
(* are shown to implement and that ClientLock is built on.                 *)
(*                                                                         *)
(* A lock that may steal (the recovery path of navigatorLock) can take the *)
(* lock away from its holder.  The operation of an evicted caller goes on  *)
(* running, without the lock.                                              *)
(***************************************************************************)
CONSTANTS
    Call,       \* the calls to the lock function, for one lock name
    Stealing    \* TRUE iff the implementation may steal a held lock

VARIABLE phase  \* phase[c] is where call c stands

Phases == {"idle", "waiting", "holding", "evicted", "done", "refused"}

Holders == {c \in Call : phase[c] = "holding"}

\* The calls whose operation is executing.
Executing == {c \in Call : phase[c] \in {"holding", "evicted"}}

Init == phase = [c \in Call |-> "idle"]

Request(c) ==
    /\ phase[c] = "idle"
    /\ phase' = [phase EXCEPT ![c] = "waiting"]

Grant(c) ==
    /\ phase[c] = "waiting"
    /\ Holders = {}
    /\ phase' = [phase EXCEPT ![c] = "holding"]

Refuse(c) ==
    /\ phase[c] = "waiting"
    /\ phase' = [phase EXCEPT ![c] = "refused"]

Steal(c) ==
    /\ Stealing
    /\ phase[c] = "waiting"
    /\ phase' = [x \in Call |-> IF x = c THEN "holding"
                                ELSE IF phase[x] = "holding" THEN "evicted"
                                ELSE phase[x]]

\* fn settles, with a value or an error.
Finish(c) ==
    /\ phase[c] \in {"holding", "evicted"}
    /\ phase' = [phase EXCEPT ![c] = "done"]

Next == \E c \in Call : \/ Request(c) \/ Grant(c) \/ Refuse(c)
                        \/ Steal(c) \/ Finish(c)

Spec == Init /\ [][Next]_phase
=============================================================================
