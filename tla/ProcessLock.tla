----------------------------- MODULE ProcessLock -----------------------------
(***************************************************************************)
(* processLock of auth-js/src/lib/locks.ts for one lock name.  Each call   *)
(* captures the promise stored in PROCESS_LOCKS[name], stores its own      *)
(* promise there, and runs fn when the captured promise has settled or     *)
(* gives up when its timer fires first.  The lock is the chain of these    *)
(* promises; there is no owner field.                                      *)
(*                                                                         *)
(* A call is named by its position in call order.  Reading the old promise *)
(* and storing the new one happen in one synchronous stretch of            *)
(* processLock, so they are one action.  A promise reaction (microtask) is *)
(* a step of its own, except that no timer fires while one is pending.     *)
(***************************************************************************)
EXTENDS Naturals

CONSTANT MaxCalls               \* bound on the number of calls
ASSUME MaxCallsAssumption == MaxCalls \in Nat

Calls == 1..MaxCalls
NoCall == 0                     \* stands for the settled promise that the
                                \* first call finds (?? Promise.resolve())

VARIABLES
    tail,       \* the call whose promise PROCESS_LOCKS[name] holds
    previous,   \* previous[c]: the call whose promise c captured
    bounded,    \* bounded[c]: acquireTimeout >= 0, so c has a timer
    op,         \* op[c]: where currentOperation of call c stands
    chain       \* chain[c]: the promise c stored in PROCESS_LOCKS[name]

vars == <<tail, previous, bounded, op, chain>>

\* "nested": fn itself rejected with an error carrying isAcquireTimeout, as
\* it does when fn waits for another lock and gives up.
OpStates == {"idle", "waiting", "running", "resolved", "rejected", "nested",
             "timedOut"}
FnOutcomes == {"resolved", "rejected", "nested"}
ChainStates == {"pending", "fulfilled", "rejected"}

Init ==
    /\ tail = NoCall
    /\ previous = [c \in Calls |-> NoCall]
    /\ bounded = [c \in Calls |-> FALSE]
    /\ op = [c \in Calls |-> "idle"]
    /\ chain = [c \in {NoCall} \cup Calls |->
                    IF c = NoCall THEN "fulfilled" ELSE "pending"]

Settled(c) == chain[c] # "pending"
-----------------------------------------------------------------------------
Enter(c, timer) ==
    /\ c = tail + 1
    /\ tail' = c
    /\ previous' = [previous EXCEPT ![c] = tail]
    /\ bounded' = [bounded EXCEPT ![c] = timer]
    /\ op' = [op EXCEPT ![c] = "waiting"]
    /\ UNCHANGED chain

\* Mutant: the successor of a failed operation never starts.
Start_OnlyAfterSuccess(c) ==
    /\ op[c] = "waiting"
    /\ chain[previous[c]] = "fulfilled"
    /\ op' = [op EXCEPT ![c] = "running"]
    /\ UNCHANGED <<tail, previous, bounded, chain>>

\* Mutant: a call behind one that timed out does not wait any longer.
Start_BehindTimeout(c) ==
    /\ op[c] = "waiting"
    /\ \/ Settled(previous[c])
       \/ \E d \in Calls : d = previous[c] /\ op[d] = "timedOut"
    /\ op' = [op EXCEPT ![c] = "running"]
    /\ UNCHANGED <<tail, previous, bounded, chain>>

\* previousOperationHandled wins the race: the timer is cleared and fn starts.
Start(c) ==
    /\ op[c] = "waiting"
    /\ Settled(previous[c])
    /\ op' = [op EXCEPT ![c] = "running"]
    /\ UNCHANGED <<tail, previous, bounded, chain>>

\* Mutant: the timer is cleared before the race.
GiveUp_Never(c) ==
    /\ op[c] = "waiting"
    /\ bounded[c]
    /\ Settled(previous[c])
    /\ op' = [op EXCEPT ![c] = "running"]
    /\ UNCHANGED <<tail, previous, bounded, chain>>

\* The timer wins the race.
GiveUp(c) ==
    /\ op[c] = "waiting"
    /\ bounded[c]
    /\ ~Settled(previous[c])
    /\ op' = [op EXCEPT ![c] = "timedOut"]
    /\ UNCHANGED <<tail, previous, bounded, chain>>

FnSettles(c, outcome) ==
    /\ op[c] = "running"
    /\ op' = [op EXCEPT ![c] = outcome]
    /\ UNCHANGED <<tail, previous, bounded, chain>>

\* Mutant: a call that timed out settles its stored promise at once.
ChainSettles_WithoutWaiting(c) ==
    /\ chain[c] = "pending"
    /\ \/ /\ op[c] \in {"resolved", "timedOut", "nested"}
          /\ chain' = [chain EXCEPT ![c] = "fulfilled"]
       \/ /\ op[c] = "rejected"
          /\ chain' = [chain EXCEPT ![c] = "rejected"]
    /\ UNCHANGED <<tail, previous, bounded, op>>

\* Mutant: the stored promise takes over the state of currentOperation as is.
ChainSettles_ForwardsOutcome(c) ==
    /\ chain[c] = "pending"
    /\ op[c] \in FnOutcomes \cup {"timedOut"}
    /\ chain' = [chain EXCEPT ![c] = op[c]]
    /\ UNCHANGED <<tail, previous, bounded, op>>

\* The promise stored in PROCESS_LOCKS[name] follows currentOperation, except
\* that after an acquire timeout it first waits for the captured promise.
ChainSettles(c) ==
    /\ chain[c] = "pending"
    /\ \/ /\ op[c] = "resolved"
          /\ chain' = [chain EXCEPT ![c] = "fulfilled"]
       \/ /\ op[c] \in {"timedOut", "nested"}
          /\ Settled(previous[c])
          /\ chain' = [chain EXCEPT ![c] = "fulfilled"]
       \/ /\ op[c] = "rejected"
          /\ chain' = [chain EXCEPT ![c] = "rejected"]
    /\ UNCHANGED <<tail, previous, bounded, op>>

Next == \E c \in Calls :
            \/ \E timer \in BOOLEAN : Enter(c, timer)
            \/ Start(c)
            \/ GiveUp(c)
            \/ \E outcome \in FnOutcomes : FnSettles(c, outcome)
            \/ ChainSettles(c)

Spec == Init /\ [][Next]_vars

\* The event loop runs every pending reaction and every due timer.
Scheduling == \A c \in Calls : /\ WF_vars(Start(c))
                               /\ WF_vars(GiveUp(c))
                               /\ WF_vars(ChainSettles(c))

FairSpec == Spec /\ Scheduling

\* Assumed only where it is said: every operation handed to the lock settles.
FnsSettle == \A c \in Calls :
    WF_vars(\E outcome \in FnOutcomes : FnSettles(c, outcome))
-----------------------------------------------------------------------------
\* Every variable holds a value of its type.
TypeOK ==
    /\ tail \in {NoCall} \cup Calls
    /\ previous \in [Calls -> {NoCall} \cup Calls]
    /\ bounded \in [Calls -> BOOLEAN]
    /\ op \in [Calls -> OpStates]
    /\ chain \in [{NoCall} \cup Calls -> ChainStates]

Over(c) == op[c] \in FnOutcomes \cup {"timedOut"}

\* processLock runs one operation at a time, also when calls between the
\* running one and the next have timed out and left the chain.
MutualExclusion ==
    \A c, d \in Calls : op[c] = "running" /\ op[d] = "running" => c = d

\* Operations run in the order of the calls: when fn of a call runs, every
\* earlier call has run to its end or has given up.
CallOrder ==
    \A c, d \in Calls : op[d] = "running" /\ c < d => Over(c)

\* A call with a timer gets an answer or starts even if the operation ahead
\* of it hangs for ever.
BoundedCallsAnswered ==
    \A c \in Calls : (op[c] = "waiting" /\ bounded[c]) ~> (op[c] # "waiting")

\* If operations settle, every call settles, whatever the outcome (failures
\* and timeouts included) of the calls ahead of it.
EveryCallSettles ==
    FnsSettle => \A c \in Calls : (op[c] = "waiting") ~> Over(c)

\* processLock implements the lock contract without stealing.
PhaseOf == [s \in OpStates |->
    IF s = "running" THEN "holding"
    ELSE IF s = "timedOut" THEN "refused"
    ELSE IF s \in FnOutcomes THEN "done"
    ELSE s]

lockPhases == [c \in Calls |-> PhaseOf[op[c]]]

Contract == INSTANCE LockFunc WITH Call <- Calls, Stealing <- FALSE,
                                   phase <- lockPhases

\* Every behaviour of processLock is one the LockFunc contract allows.
ImplementsLockFunc == Contract!Spec
=============================================================================
