------------------------- MODULE NavigatorLockProofs -------------------------
(***************************************************************************)
(* Proofs about NavigatorLock for every set of callers.                    *)
(*                                                                         *)
(* That fn runs once is not inductive: a caller that recovers starts fn    *)
(* again, and only the facts that its own timer fired while its request    *)
(* was still queued (TimersFollow) and that fn has not run then            *)
(* (CountsFollow) exclude a second start.  The refinement needs that the   *)
(* lock manager and the callers agree on the holder (HolderFollows).       *)
(***************************************************************************)
EXTENDS NavigatorLock, TLAPS

\* A caller that has not called yet satisfies every part of the invariant.
LEMMA InitLockInv == Init => LockInv
<1> SUFFICES ASSUME Init PROVE LockInv
  OBVIOUS
<1>1. TypeOK
  BY DEF Init, TypeOK, CallerStates, Patience, Answers
<1>2. CountsFollow
  BY DEF Init, CountsFollow
<1>3. TimersFollow
  BY DEF Init, TimersFollow
<1>4. HolderFollows
  BY DEF Init, HolderFollows
<1>5. QED
  BY <1>1, <1>2, <1>3, <1>4 DEF LockInv

\* What the catch block makes of a call whose request rejected: a caller that
\* has the lock never finds its own signal aborted, so that it never recovers.
LEMMA RobbedAreAnswered ==
  ASSUME LockInv, NEW c \in Caller, caller[c] \in {"held", "unlocked", "thief"}
  PROVE  /\ AfterAbortError(c) = "answered"
         /\ AbortErrorAnswer(c) \in {"timeoutError", "abortError"}
  BY DEF LockInv, TypeOK, TimersFollow, AfterAbortError, AbortErrorAnswer, Inspected

\* The step of an fn that settles, without the cases of its outcome.
LEMMA SettledIsAnswered ==
  ASSUME LockInv, NEW c \in Caller, NEW outcome \in FnOutcomes, FnSettles(c, outcome)
  PROVE  /\ caller[c] \in {"held", "thief", "unlocked"}
         /\ caller' = [caller EXCEPT ![c] = "answered"]
         /\ \E a \in Answers : answer' = [answer EXCEPT ![c] = a]
         /\ bodies' = [bodies EXCEPT ![c] = @ - 1]
         /\ holder' = IF holder = c THEN NoCaller ELSE holder
         /\ UNCHANGED <<patience, timer, aborted, starts, ahead, nullLocks>>
<1>1. caller[c] \in {"held", "thief", "unlocked"}
  BY DEF FnSettles
<1>2. CASE outcome = "abortError"
  BY <1>1, <1>2, RobbedAreAnswered DEF FnSettles, Answers
<1>3. CASE outcome # "abortError"
  BY <1>3 DEF FnSettles, FnOutcomes, Answered, Answers
<1>4. QED
  BY <1>1, <1>2, <1>3

\* The type invariant is preserved; bodies stays a natural number because an
\* fn that settles is under way (CountsFollow).
LEMMA TypeStep == LockInv /\ [Next]_vars => TypeOK'
<1> SUFFICES ASSUME LockInv, [Next]_vars PROVE TypeOK'
  OBVIOUS
<1> USE DEF LockInv, TypeOK, CallerStates, Answers
<1>1. CASE UNCHANGED vars
  BY <1>1 DEF vars
<1>2. ASSUME NEW c \in Caller, NEW p \in Patience, Enter(c, p) PROVE TypeOK'
  BY <1>2 DEF Enter
<1>3. ASSUME NEW c \in Caller, RequestQueued(c) PROVE TypeOK'
  BY <1>3 DEF RequestQueued, Joins, Queued
<1>4. ASSUME NEW c \in Caller, RequestIfAvailable(c) PROVE TypeOK'
  BY <1>4 DEF RequestIfAvailable, FnStarts, Answered
<1>5. ASSUME NEW c \in Caller, Granted(c) PROVE TypeOK'
  BY <1>5 DEF Granted, FnStarts, Leaves
<1>6. ASSUME NEW c \in Caller, GrantedNullLock(c) PROVE TypeOK'
  BY <1>6 DEF GrantedNullLock, FnStarts, Leaves
<1>7. ASSUME NEW c \in Caller, TimerFires(c) PROVE TypeOK'
  BY <1>7 DEF TimerFires, Leaves
<1>8. ASSUME NEW c \in Caller, Steal(c) PROVE TypeOK'
  BY <1>8 DEF Steal, FnStarts, AfterAbortError, AbortErrorAnswer
<1>9. ASSUME NEW c \in Caller, NEW outcome \in FnOutcomes, FnSettles(c, outcome)
      PROVE  TypeOK'
  BY <1>9, SettledIsAnswered DEF CountsFollow
<1>10. ASSUME NEW c \in Caller, OrphanSettles(c) PROVE TypeOK'
  BY <1>10 DEF OrphanSettles
<1>11. QED
  BY <1>1, <1>2, <1>3, <1>4, <1>5, <1>6, <1>7, <1>8, <1>9, <1>10 DEF Next

\* The counts follow the state of the call, also when the lock is stolen.
LEMMA CountsStep == LockInv /\ [Next]_vars => CountsFollow'
<1> SUFFICES ASSUME LockInv, [Next]_vars PROVE CountsFollow'
  OBVIOUS
<1> USE DEF LockInv, TypeOK, CountsFollow
<1>1. CASE UNCHANGED vars
  BY <1>1 DEF vars
<1>2. ASSUME NEW c \in Caller, NEW p \in Patience, Enter(c, p) PROVE CountsFollow'
  BY <1>2 DEF Enter
<1>3. ASSUME NEW c \in Caller, RequestQueued(c) PROVE CountsFollow'
  BY <1>3 DEF RequestQueued
<1>4. ASSUME NEW c \in Caller, RequestIfAvailable(c) PROVE CountsFollow'
  BY <1>4 DEF RequestIfAvailable, FnStarts, Answered
<1>5. ASSUME NEW c \in Caller, Granted(c) PROVE CountsFollow'
  BY <1>5 DEF Granted, IsHead, Queued, FnStarts
<1>6. ASSUME NEW c \in Caller, GrantedNullLock(c) PROVE CountsFollow'
  BY <1>6 DEF GrantedNullLock, FnStarts
<1>7. ASSUME NEW c \in Caller, TimerFires(c) PROVE CountsFollow'
  BY <1>7 DEF TimerFires
<1>8. ASSUME NEW c \in Caller, Steal(c) PROVE CountsFollow'
  <2>1. holder # c /\ (holder # NoCaller => AfterAbortError(holder) = "answered")
    BY <1>8, RobbedAreAnswered, NavigatorLockAssumption DEF Steal, HolderFollows
  <2>2. ASSUME NEW d \in Caller
        PROVE  /\ caller'[d] = IF d = c THEN "thief"
                               ELSE IF d = holder THEN "answered" ELSE caller[d]
               /\ starts'[d] = IF d = c THEN 1 ELSE starts[d]
               /\ bodies'[d] = IF d = c THEN 1 ELSE bodies[d]
    BY <1>8, <2>1, NavigatorLockAssumption DEF Steal, FnStarts
  <2>3. \A d \in Caller : d = holder => caller[d] \in {"held", "thief"}
    BY NavigatorLockAssumption DEF HolderFollows
  <2>4. starts[c] = 0 /\ bodies[c] = 0
    BY <1>8 DEF Steal
  <2>5. ASSUME NEW d \in Caller, d = holder
        PROVE  starts[d] = 1 /\ bodies[d] = 1
    BY <2>3, <2>5
  <2>6. QED
    BY <2>1, <2>2, <2>4, <2>5
<1>9. ASSUME NEW c \in Caller, NEW outcome \in FnOutcomes, FnSettles(c, outcome)
      PROVE  CountsFollow'
  BY <1>9, SettledIsAnswered
<1>10. ASSUME NEW c \in Caller, OrphanSettles(c) PROVE CountsFollow'
  BY <1>10 DEF OrphanSettles
<1>11. QED
  BY <1>1, <1>2, <1>3, <1>4, <1>5, <1>6, <1>7, <1>8, <1>9, <1>10 DEF Next

\* No timer survives its request, and only a waiting call is aborted.
LEMMA TimersStep == LockInv /\ [Next]_vars => TimersFollow'
<1> SUFFICES ASSUME LockInv, [Next]_vars PROVE TimersFollow'
  OBVIOUS
<1> USE DEF LockInv, TypeOK, TimersFollow
<1>1. CASE UNCHANGED vars
  BY <1>1 DEF vars
<1>2. ASSUME NEW c \in Caller, NEW p \in Patience, Enter(c, p) PROVE TimersFollow'
  BY <1>2 DEF Enter
<1>3. ASSUME NEW c \in Caller, RequestQueued(c) PROVE TimersFollow'
  BY <1>3 DEF RequestQueued
<1>4. ASSUME NEW c \in Caller, RequestIfAvailable(c) PROVE TimersFollow'
  BY <1>4 DEF RequestIfAvailable, Answered
<1>5. ASSUME NEW c \in Caller, Granted(c) PROVE TimersFollow'
  BY <1>5 DEF Granted, IsHead, Queued
<1>6. ASSUME NEW c \in Caller, GrantedNullLock(c) PROVE TimersFollow'
  BY <1>6 DEF GrantedNullLock
<1>7. ASSUME NEW c \in Caller, TimerFires(c) PROVE TimersFollow'
  BY <1>7 DEF TimerFires
<1>8. ASSUME NEW c \in Caller, Steal(c) PROVE TimersFollow'
  BY <1>8, RobbedAreAnswered, NavigatorLockAssumption DEF Steal, HolderFollows
<1>9. ASSUME NEW c \in Caller, NEW outcome \in FnOutcomes, FnSettles(c, outcome)
      PROVE  TimersFollow'
  BY <1>9, SettledIsAnswered
<1>10. ASSUME NEW c \in Caller, OrphanSettles(c) PROVE TimersFollow'
  BY <1>10 DEF OrphanSettles
<1>11. QED
  BY <1>1, <1>2, <1>3, <1>4, <1>5, <1>6, <1>7, <1>8, <1>9, <1>10 DEF Next

\* The lock changes hands in the lock manager and in the callers at once.
LEMMA HolderStep == LockInv /\ [Next]_vars => HolderFollows'
<1> SUFFICES ASSUME LockInv, [Next]_vars PROVE HolderFollows'
  OBVIOUS
<1> USE NavigatorLockAssumption DEF LockInv, TypeOK, HolderFollows
<1>1. CASE UNCHANGED vars
  BY <1>1 DEF vars
<1>2. ASSUME NEW c \in Caller, NEW p \in Patience, Enter(c, p) PROVE HolderFollows'
  BY <1>2 DEF Enter
<1>3. ASSUME NEW c \in Caller, RequestQueued(c) PROVE HolderFollows'
  BY <1>3 DEF RequestQueued
<1>4. ASSUME NEW c \in Caller, RequestIfAvailable(c) PROVE HolderFollows'
  BY <1>4 DEF RequestIfAvailable, Answered
<1>5. ASSUME NEW c \in Caller, Granted(c) PROVE HolderFollows'
  BY <1>5 DEF Granted
<1>6. ASSUME NEW c \in Caller, GrantedNullLock(c) PROVE HolderFollows'
  BY <1>6 DEF GrantedNullLock
<1>7. ASSUME NEW c \in Caller, TimerFires(c) PROVE HolderFollows'
  BY <1>7 DEF TimerFires
<1>8. ASSUME NEW c \in Caller, Steal(c) PROVE HolderFollows'
  BY <1>8, RobbedAreAnswered DEF Steal
<1>9. ASSUME NEW c \in Caller, NEW outcome \in FnOutcomes, FnSettles(c, outcome)
      PROVE  HolderFollows'
  BY <1>9, SettledIsAnswered
<1>10. ASSUME NEW c \in Caller, OrphanSettles(c) PROVE HolderFollows'
  BY <1>10 DEF OrphanSettles
<1>11. QED
  BY <1>1, <1>2, <1>3, <1>4, <1>5, <1>6, <1>7, <1>8, <1>9, <1>10 DEF Next

\* In every reachable state the four parts of the invariant hold together.
THEOREM Invariance == Spec => []LockInv
<1>1. LockInv /\ [Next]_vars => LockInv'
  BY TypeStep, CountsStep, TimersStep, HolderStep DEF LockInv
<1>2. QED
  BY InitLockInv, <1>1, PTL DEF Spec

\* Every variable of navigatorLock and of the lock manager keeps its type.
THEOREM TypeCorrect == Spec => []TypeOK
<1>1. LockInv => TypeOK
  BY DEF LockInv
<1>2. QED
  BY Invariance, <1>1, PTL

\* However often the lock is stolen, no call of navigatorLock starts fn twice.
THEOREM RunsOnce == Spec => []FnRunsOnce
<1>1. ASSUME LockInv, NEW c \in Caller PROVE starts[c] <= 1
  <2>1. caller[c] \in CallerStates
    BY <1>1 DEF LockInv, TypeOK
  <2>2. starts[c] \in {0, 1} \/ starts[c] <= 1
    BY <1>1, <2>1 DEF LockInv, CountsFollow, CallerStates
  <2>3. QED
    BY <2>2
<1>2. LockInv => FnRunsOnce
  BY <1>1 DEF FnRunsOnce
<1>3. QED
  BY Invariance, <1>2, PTL
-----------------------------------------------------------------------------
\* The initial states map to the initial state of the abstract lock.
LEMMA InitRefines == Init => Contract!Init
  BY DEF Init, Contract!Init, lockPhases, PhaseOf

\* An action that moves the call of c alone leaves the phases of all others.
LEMMA OthersStay ==
  ASSUME NEW c \in Caller,
         \A d \in Caller \ {c} : /\ caller'[d] = caller[d]
                                 /\ starts'[d] = starts[d]
                                 /\ bodies'[d] = bodies[d]
  PROVE  lockPhases' = [lockPhases EXCEPT ![c] = PhaseOf(c)']
<1>1. \A d \in Caller \ {c} : PhaseOf(d)' = PhaseOf(d)
  BY DEF PhaseOf
<1>2. QED
  BY <1>1 DEF lockPhases

\* Enter asks the abstract lock, a grant and a steal are its Grant and Steal,
\* a refusal its Refuse, the end of fn its Finish; the rest are stutters.
LEMMA StepRefines ==
  ASSUME LockInv, LockInv', [Next]_vars
  PROVE  [nullLocks \/ Contract!Next]_lockPhases
<1> SUFFICES ASSUME ~nullLocks PROVE Contract!Next \/ UNCHANGED lockPhases
  OBVIOUS
<1> USE DEF LockInv, TypeOK
<1>1. CASE UNCHANGED vars
  BY <1>1 DEF vars, lockPhases, PhaseOf
<1>2. ASSUME NEW c \in Caller, NEW p \in Patience, Enter(c, p) PROVE Contract!Request(c)
  <2>1. PhaseOf(c) = "idle" /\ PhaseOf(c)' = "waiting"
    BY <1>2 DEF Enter, PhaseOf
  <2>2. lockPhases' = [lockPhases EXCEPT ![c] = "waiting"]
    BY <1>2, <2>1, OthersStay DEF Enter
  <2>3. QED
    BY <2>1, <2>2 DEF Contract!Request, lockPhases
<1>3. ASSUME NEW c \in Caller, RequestQueued(c) \/ TimerFires(c)
      PROVE  UNCHANGED lockPhases
  <2>1. PhaseOf(c)' = PhaseOf(c)
    BY <1>3 DEF RequestQueued, TimerFires, PhaseOf, TimersFollow
  <2>2. lockPhases' = [lockPhases EXCEPT ![c] = PhaseOf(c)']
    BY <1>3, OthersStay DEF RequestQueued, TimerFires
  <2>3. QED
    BY <2>1, <2>2 DEF lockPhases
<1> DEFINE Free == Contract!Holders = {}
<1>4. holder = NoCaller => Free
  <2>1. ASSUME holder = NoCaller, NEW c \in Caller PROVE PhaseOf(c) # "holding"
    BY <2>1, NavigatorLockAssumption DEF HolderFollows, PhaseOf
  <2>2. QED
    BY <2>1 DEF Contract!Holders, lockPhases
<1>5. ASSUME NEW c \in Caller, RequestIfAvailable(c)
      PROVE  Contract!Grant(c) \/ Contract!Refuse(c)
  <2>1. PhaseOf(c) = "waiting"
    BY <1>5 DEF RequestIfAvailable, PhaseOf
  <2>2. lockPhases' = [lockPhases EXCEPT ![c] = PhaseOf(c)']
    BY <1>5, OthersStay DEF RequestIfAvailable, FnStarts, Answered
  <2>3. CASE holder = NoCaller /\ Queued = {}
    <3>1. PhaseOf(c)' = "holding"
      BY <1>5, <2>3 DEF RequestIfAvailable, PhaseOf
    <3>2. QED
      BY <1>4, <2>1, <2>2, <2>3, <3>1 DEF Contract!Grant, lockPhases
  <2>4. CASE ~(holder = NoCaller /\ Queued = {})
    <3>1. PhaseOf(c)' = "refused"
      BY <1>5, <2>4 DEF RequestIfAvailable, Answered, PhaseOf, CountsFollow
    <3>2. QED
      BY <2>1, <2>2, <3>1 DEF Contract!Refuse, lockPhases
  <2>5. QED
    BY <2>3, <2>4
<1>6. ASSUME NEW c \in Caller, Granted(c) PROVE Contract!Grant(c)
  <2>1. PhaseOf(c) = "waiting" /\ PhaseOf(c)' = "holding"
    BY <1>6 DEF Granted, IsHead, Queued, PhaseOf
  <2>2. lockPhases' = [lockPhases EXCEPT ![c] = "holding"]
    BY <1>6, <2>1, OthersStay DEF Granted, FnStarts
  <2>3. QED
    BY <1>4, <1>6, <2>1, <2>2 DEF Granted, Contract!Grant, lockPhases
<1>7. ASSUME NEW c \in Caller, GrantedNullLock(c) PROVE FALSE
  BY <1>7 DEF GrantedNullLock
<1>8. ASSUME NEW c \in Caller, Steal(c) PROVE Contract!Steal(c)
  <2>1. PhaseOf(c) = "waiting" /\ PhaseOf(c)' = "holding"
    BY <1>8 DEF Steal, PhaseOf
  <2>2. ASSUME NEW d \in Caller \ {c}
        PROVE  PhaseOf(d)' = IF PhaseOf(d) = "holding" THEN "evicted" ELSE PhaseOf(d)
    <3>1. starts'[d] = starts[d] /\ bodies'[d] = bodies[d]
      BY <1>8 DEF Steal, FnStarts
    <3>2. CASE d = holder
      <4>1. caller[d] \in {"held", "thief"}
        BY <3>2, NavigatorLockAssumption DEF HolderFollows
      <4>2. caller'[d] = "answered" /\ starts[d] = 1 /\ bodies[d] = 1
        BY <1>8, <3>2, <4>1, RobbedAreAnswered DEF Steal, CountsFollow
      <4>3. QED
        BY <3>1, <4>1, <4>2 DEF PhaseOf
    <3>3. CASE d # holder
      <4>1. caller'[d] = caller[d] /\ caller[d] \notin {"held", "thief"}
        BY <1>8, <3>3 DEF Steal, HolderFollows
      <4>2. QED
        BY <3>1, <4>1 DEF PhaseOf
    <3>4. QED
      BY <3>2, <3>3
  <2>3. QED
    BY <2>1, <2>2 DEF Contract!Steal, lockPhases
<1>9. ASSUME NEW c \in Caller, NEW outcome \in FnOutcomes, FnSettles(c, outcome)
      PROVE  Contract!Finish(c)
  <2>1. PhaseOf(c) = "holding"
    BY <1>9, SettledIsAnswered DEF HolderFollows, PhaseOf
  <2>2. caller'[c] = "answered" /\ starts'[c] = 1 /\ bodies'[c] = 0
    BY <1>9, SettledIsAnswered DEF CountsFollow
  <2>3. lockPhases' = [lockPhases EXCEPT ![c] = "done"]
    <3>1. PhaseOf(c)' = "done"
      BY <2>2 DEF PhaseOf
    <3>2. QED
      BY <1>9, <3>1, SettledIsAnswered, OthersStay
  <2>4. QED
    BY <2>1, <2>3 DEF Contract!Finish, lockPhases
<1>10. ASSUME NEW c \in Caller, OrphanSettles(c) PROVE Contract!Finish(c)
  <2>1. caller[c] = "answered" /\ starts[c] = 1 /\ bodies[c] = 1
    <3>1. caller[c] = "answered"
      BY <1>10 DEF OrphanSettles, CountsFollow
    <3>2. starts[c] \in Nat /\ bodies[c] \in Nat /\ bodies[c] > 0
      BY <1>10 DEF OrphanSettles
    <3>3. bodies[c] <= starts[c] /\ starts[c] <= 1
      BY <3>1 DEF CountsFollow
    <3>4. QED
      BY <3>1, <3>2, <3>3
  <2>2. caller'[c] = "answered" /\ starts'[c] = 1 /\ bodies'[c] = 0
    BY <1>10, <2>1 DEF OrphanSettles
  <2>3. PhaseOf(c) = "evicted" /\ PhaseOf(c)' = "done"
    BY <2>1, <2>2 DEF PhaseOf
  <2>4. lockPhases' = [lockPhases EXCEPT ![c] = "done"]
    BY <1>10, <2>3, OthersStay DEF OrphanSettles
  <2>5. QED
    BY <2>3, <2>4 DEF Contract!Finish, lockPhases
<1>11. QED
  BY <1>1, <1>2, <1>3, <1>5, <1>6, <1>7, <1>8, <1>9, <1>10 DEF Next, Contract!Next

\* navigatorLock on a browser without null locks implements a LockFunc that may
\* steal: at most one operation holds the lock, and only an operation the lock
\* was taken from runs beside it.
THEOREM LockRefinement == Spec => ImplementsLockFunc
<1>1. LockInv /\ LockInv' /\ [Next]_vars => [nullLocks \/ Contract!Next]_lockPhases
  BY StepRefines
<1>2. QED
  BY Invariance, InitRefines, <1>1, PTL DEF Spec, ImplementsLockFunc
=============================================================================
