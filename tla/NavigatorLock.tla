---------------------------- MODULE NavigatorLock ----------------------------
(***************************************************************************)
(* navigatorLock of auth-js/src/lib/locks.ts: the lock of browser clients, *)
(* on top of the Web Locks API (navigator.locks), for one lock name and    *)
(* the callers of all tabs.                                                *)
(*                                                                         *)
(* The lock manager is external.  It is modelled from how the code uses    *)
(* it: exclusive requests are granted first come first served, a request   *)
(* with ifAvailable is answered at once, an aborted request leaves the     *)
(* queue, and a request with steal takes the lock from its holder, whose   *)
(* request then rejects with an AbortError while its callback goes on      *)
(* running.  A grant and the callback's first statement are one step.      *)
(***************************************************************************)
EXTENDS Naturals

CONSTANTS
    Caller,         \* the calls to navigatorLock
    NoCaller        \* no caller: the lock is free
ASSUME NavigatorLockAssumption == NoCaller \notin Caller

\* acquireTimeout: negative, zero or positive.
Patience == {"forever", "none", "timed"}

VARIABLES
    caller,     \* caller[c]: where the call stands
    patience,   \* patience[c]: the sign of its acquireTimeout
    timer,      \* timer[c]: its acquire timer is armed
    aborted,    \* aborted[c]: abortController.signal.aborted
    starts,     \* starts[c]: how often fn was started
    bodies,     \* bodies[c]: executions of fn under way
    answer,     \* answer[c]: what the caller's promise settled with
    holder,     \* the lock manager: who holds the lock
    ahead,      \* the lock manager: ahead[c] is who waits for it before c
    nullLocks   \* the browser may grant a null lock to a request without
                \* ifAvailable, against the Web Locks specification

vars == <<caller, patience, timer, aborted, starts, bodies, answer, holder, ahead,
          nullLocks>>

CallerStates == {"idle", "asking", "queued", "held", "unlocked", "recovering",
                 "thief", "answered"}
Answers == {"none", "value", "error", "timeoutError", "abortError"}

Init ==
    /\ caller = [c \in Caller |-> "idle"]
    /\ patience = [c \in Caller |-> "forever"]
    /\ timer = [c \in Caller |-> FALSE]
    /\ aborted = [c \in Caller |-> FALSE]
    /\ starts = [c \in Caller |-> 0]
    /\ bodies = [c \in Caller |-> 0]
    /\ answer = [c \in Caller |-> "none"]
    /\ holder = NoCaller
    /\ ahead = [c \in Caller |-> {}]
    /\ nullLocks \in BOOLEAN

\* The lock manager's queue, served in the order of arrival: its requests, the
\* request at its head, and how a request joins and leaves it.
Queued == {c \in Caller : caller[c] = "queued"}

IsHead(c) == c \in Queued /\ ahead[c] = {}

Joins(c) == ahead' = [ahead EXCEPT ![c] = Queued]

Leaves(c) == ahead' = [d \in Caller |-> IF d = c THEN {} ELSE ahead[d] \ {c}]

\* The statements every path shares: fn starts, the caller gets its answer.
FnStarts(c) ==
    /\ starts' = [starts EXCEPT ![c] = @ + 1]
    /\ bodies' = [bodies EXCEPT ![c] = @ + 1]

Answered(c, a) ==
    /\ caller' = [caller EXCEPT ![c] = "answered"]
    /\ answer' = [answer EXCEPT ![c] = a]
-----------------------------------------------------------------------------
\* Mutant: a zero timeout arms the timer as well.
Enter_ZeroArmsTimer(c, p) ==
    /\ caller[c] = "idle"
    /\ caller' = [caller EXCEPT ![c] = "asking"]
    /\ patience' = [patience EXCEPT ![c] = p]
    /\ timer' = [timer EXCEPT ![c] = (p # "forever")]
    /\ UNCHANGED <<aborted, starts, bodies, answer, holder, ahead, nullLocks>>

\* The call: the timer is armed for a positive timeout; the request follows
\* after the await of Promise.resolve().
Enter(c, p) ==
    /\ caller[c] = "idle"
    /\ caller' = [caller EXCEPT ![c] = "asking"]
    /\ patience' = [patience EXCEPT ![c] = p]
    /\ timer' = [timer EXCEPT ![c] = (p = "timed")]
    /\ UNCHANGED <<aborted, starts, bodies, answer, holder, ahead, nullLocks>>

\* navigator.locks.request with a signal: the request joins the queue.
RequestQueued(c) ==
    /\ caller[c] = "asking"
    /\ patience[c] # "none"
    /\ caller' = [caller EXCEPT ![c] = "queued"]
    /\ Joins(c)
    /\ UNCHANGED <<patience, timer, aborted, starts, bodies, answer, holder, nullLocks>>

\* navigator.locks.request with ifAvailable: the lock at once, or a null lock
\* for which the callback throws the acquire timeout error.
RequestIfAvailable(c) ==
    /\ caller[c] = "asking"
    /\ patience[c] = "none"
    /\ \/ /\ holder = NoCaller /\ Queued = {}
          /\ holder' = c
          /\ caller' = [caller EXCEPT ![c] = "held"]
          /\ FnStarts(c)
          /\ UNCHANGED answer
       \/ /\ holder # NoCaller \/ Queued # {}
          /\ Answered(c, "timeoutError")
          /\ UNCHANGED <<holder, starts, bodies>>
    /\ UNCHANGED <<patience, timer, aborted, ahead, nullLocks>>

\* Mutant: the timer is left running when the lock has been granted.
Granted_KeepsTimer(c) ==
    /\ holder = NoCaller
    /\ IsHead(c)
    /\ Leaves(c)
    /\ holder' = c
    /\ caller' = [caller EXCEPT ![c] = "held"]
    /\ FnStarts(c)
    /\ UNCHANGED <<patience, timer, aborted, answer, nullLocks>>

\* The lock manager grants the oldest request; the callback clears the timer
\* and starts fn.
Granted(c) ==
    /\ holder = NoCaller
    /\ IsHead(c)
    /\ Leaves(c)
    /\ holder' = c
    /\ caller' = [caller EXCEPT ![c] = "held"]
    /\ timer' = [timer EXCEPT ![c] = FALSE]
    /\ FnStarts(c)
    /\ UNCHANGED <<patience, aborted, answer, nullLocks>>

\* A browser that grants a null lock, to a queued request or even to a
\* stealing one: fn runs without the lock.
GrantedNullLock(c) ==
    /\ nullLocks
    /\ \/ /\ caller[c] = "queued"
          /\ caller' = [caller EXCEPT ![c] = "unlocked"]
       \/ /\ caller[c] = "recovering"
          /\ caller' = [caller EXCEPT ![c] = "thief"]
    /\ Leaves(c)
    /\ timer' = [timer EXCEPT ![c] = FALSE]
    /\ FnStarts(c)
    /\ UNCHANGED <<patience, aborted, answer, holder, nullLocks>>

\* The timer aborts the signal.  A request still queued is rejected with an
\* AbortError, and the catch block decides to recover.
TimerFires(c) ==
    /\ timer[c]
    /\ caller[c] # "asking"     \* no timer runs before the queued microtask
    /\ timer' = [timer EXCEPT ![c] = FALSE]
    /\ aborted' = [aborted EXCEPT ![c] = TRUE]
    /\ Leaves(c)
    /\ caller' = [caller EXCEPT ![c] = IF @ = "queued" THEN "recovering" ELSE @]
    /\ UNCHANGED <<patience, starts, bodies, answer, holder, nullLocks>>

\* The catch block, for a request of c that rejected with an AbortError.  Only
\* the first request of a caller with a positive timeout is looked into: its own
\* signal aborted means recover by stealing, otherwise the lock was stolen and
\* the error becomes an acquire timeout.  Every other AbortError is passed on.
Inspected(c) == patience[c] = "timed" /\ caller[c] \in {"held", "unlocked"}

AfterAbortError(c) ==
    IF Inspected(c) /\ aborted[c] THEN "recovering" ELSE "answered"

AbortErrorAnswer(c) ==
    IF Inspected(c) THEN IF aborted[c] THEN answer[c] ELSE "timeoutError"
    ELSE "abortError"

\* Mutant: a caller that lost the lock steals it back.
AfterAbortError_StealBack(c) ==
    IF Inspected(c) THEN "recovering" ELSE "answered"

\* Mutant: a caller whose timer fired gets an error and does not recover.
Steal_GivesUp(c) ==
    /\ caller[c] = "recovering"
    /\ Answered(c, "timeoutError")
    /\ UNCHANGED <<patience, timer, aborted, starts, bodies, holder, ahead, nullLocks>>

\* Mutant: the stealing request leaves the former holder in the held set.
Steal_KeepsHolder(c) ==
    /\ caller[c] = "recovering"
    /\ caller' = [caller EXCEPT ![c] = "thief"]
    /\ holder' = c
    /\ FnStarts(c)
    /\ UNCHANGED <<patience, timer, aborted, answer, ahead, nullLocks>>

\* navigator.locks.request with steal: the holder, if any, loses the lock and
\* its request rejects; its fn is not stopped.
Steal(c) ==
    /\ caller[c] = "recovering"
    /\ caller' = [d \in Caller |-> IF d = c THEN "thief"
                                   ELSE IF d = holder THEN AfterAbortError(d)
                                   ELSE caller[d]]
    /\ answer' = [d \in Caller |-> IF d = holder THEN AbortErrorAnswer(d)
                                   ELSE answer[d]]
    /\ holder' = c
    /\ FnStarts(c)
    /\ UNCHANGED <<patience, timer, aborted, ahead, nullLocks>>

\* Mutant: an fn that rejects keeps the lock.
FnSettles_KeepsLock(c, outcome) ==
    /\ caller[c] \in {"held", "thief", "unlocked"}
    /\ bodies' = [bodies EXCEPT ![c] = @ - 1]
    /\ holder' = IF holder = c /\ outcome = "value" THEN NoCaller ELSE holder
    /\ Answered(c, outcome)
    /\ UNCHANGED <<patience, timer, aborted, starts, ahead, nullLocks>>

\* fn settles while its caller still waits for it: the lock, if held, is
\* released and the caller gets the outcome of fn.
FnSettles(c, outcome) ==
    /\ caller[c] \in {"held", "thief", "unlocked"}
    /\ bodies' = [bodies EXCEPT ![c] = @ - 1]
    /\ holder' = IF holder = c THEN NoCaller ELSE holder
    /\ IF outcome = "abortError"
       THEN /\ caller' = [caller EXCEPT ![c] = AfterAbortError(c)]
            /\ answer' = [answer EXCEPT ![c] = AbortErrorAnswer(c)]
       ELSE Answered(c, outcome)
    /\ UNCHANGED <<patience, timer, aborted, starts, ahead, nullLocks>>

\* fn of an evicted caller settles; nobody waits for it any more.
OrphanSettles(c) ==
    /\ caller[c] \in {"recovering", "answered"}
    /\ bodies[c] > 0
    /\ bodies' = [bodies EXCEPT ![c] = @ - 1]
    /\ UNCHANGED <<caller, patience, timer, aborted, starts, answer, holder, ahead,
                   nullLocks>>

FnOutcomes == {"value", "error", "abortError"}

Next == \E c \in Caller :
            \/ \E p \in Patience : Enter(c, p)
            \/ RequestQueued(c)
            \/ RequestIfAvailable(c)
            \/ Granted(c)
            \/ GrantedNullLock(c)
            \/ TimerFires(c)
            \/ Steal(c)
            \/ \E outcome \in FnOutcomes : FnSettles(c, outcome)
            \/ OrphanSettles(c)

Spec == Init /\ [][Next]_vars

\* The browser runs due timers and reactions and grants free locks.
Scheduling == \A c \in Caller : /\ WF_vars(RequestQueued(c))
                                /\ WF_vars(RequestIfAvailable(c))
                                /\ WF_vars(Granted(c))
                                /\ WF_vars(TimerFires(c))
                                /\ WF_vars(Steal(c))

FairSpec == Spec /\ Scheduling

\* Assumed only where it is said: every fn settles.
FnsSettle == \A c \in Caller :
    WF_vars(\E outcome \in FnOutcomes : FnSettles(c, outcome))
-----------------------------------------------------------------------------
\* Every variable holds a value of its type.
TypeOK ==
    /\ caller \in [Caller -> CallerStates]
    /\ patience \in [Caller -> Patience]
    /\ timer \in [Caller -> BOOLEAN]
    /\ aborted \in [Caller -> BOOLEAN]
    /\ starts \in [Caller -> Nat]
    /\ bodies \in [Caller -> Nat]
    /\ answer \in [Caller -> Answers]
    /\ holder \in Caller \cup {NoCaller}
    /\ ahead \in [Caller -> SUBSET Caller]

\* One call runs fn at most once, however often the lock changes hands: a
\* caller that was robbed never steals the lock back to run fn again.
FnRunsOnce == \A c \in Caller : starts[c] <= 1

\* The caller with a positive timeout gets to run fn even when the operation
\* that holds the lock hangs for ever: the lock is recovered.
TimedCallersRun ==
    \A c \in Caller :
        (caller[c] = "asking" /\ patience[c] = "timed") ~> (starts[c] = 1)

\* If operations settle, every call is answered.
EveryCallAnswered ==
    FnsSettle =>
        \A c \in Caller : (caller[c] = "asking") ~> (caller[c] = "answered")

-----------------------------------------------------------------------------
\* Where a call stands tells how often it started fn, and whether fn runs.
CountsFollow ==
    \A c \in Caller :
        /\ caller[c] \in {"idle", "asking", "queued", "recovering"} =>
               starts[c] = 0 /\ bodies[c] = 0
        /\ caller[c] \in {"held", "unlocked", "thief"} =>
               starts[c] = 1 /\ bodies[c] = 1
        /\ caller[c] = "answered" => bodies[c] <= starts[c] /\ starts[c] <= 1

\* The acquire timer runs only until the request is granted or recovers, and
\* an aborted signal is seen only by a call that recovers: the catch block of
\* a robbed holder never finds its own signal aborted.
TimersFollow ==
    \A c \in Caller :
        /\ timer[c] => patience[c] = "timed" /\ caller[c] \in {"asking", "queued"}
        /\ aborted[c] => caller[c] \in {"recovering", "thief", "answered"}

\* The lock manager and the callers agree on who holds the lock.
HolderFollows ==
    /\ holder # NoCaller => caller[holder] \in {"held", "thief"}
    /\ \A c \in Caller : caller[c] = "held" => holder = c
    /\ ~nullLocks => \A c \in Caller : /\ caller[c] = "thief" => holder = c
                                       /\ caller[c] # "unlocked"

\* The inductive invariant behind the theorems of NavigatorLockProofs.
LockInv == TypeOK /\ CountsFollow /\ TimersFollow /\ HolderFollows
-----------------------------------------------------------------------------
\* Robbed(c): c had the lock and another request took it while fn ran.
Robbed(c) == caller[c] = "answered" /\ bodies[c] > 0

\* "Convert to a typed error so callers (e.g. _autoRefreshTokenTick) can
\* handle/filter it without it leaking to Sentry as a raw AbortError": the tick
\* asks with a zero timeout, and when it is robbed it must get the typed error.
TheftFromTickIsTyped ==
    \A c \in Caller : Robbed(c) /\ patience[c] = "none" => answer[c] = "timeoutError"

PhaseOf(c) ==
    CASE caller[c] = "idle" -> "idle"
      [] caller[c] \in {"asking", "queued", "recovering"} -> "waiting"
      [] caller[c] \in {"held", "thief"} -> "holding"
      [] caller[c] = "answered" /\ starts[c] = 0 -> "refused"
      [] caller[c] = "answered" /\ bodies[c] > 0 -> "evicted"
      [] OTHER -> "done"

lockPhases == [c \in Caller |-> PhaseOf(c)]

Contract == INSTANCE LockFunc WITH Call <- Caller, Stealing <- TRUE,
                                   phase <- lockPhases

\* On a browser that follows the Web Locks specification, navigatorLock is a
\* lock that may steal: only an evicted operation runs beside the holder's.
ImplementsLockFunc == Contract!Init /\ [][nullLocks \/ Contract!Next]_lockPhases
=============================================================================
