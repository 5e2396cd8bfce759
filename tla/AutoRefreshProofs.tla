-------------------------- MODULE AutoRefreshProofs --------------------------
(***************************************************************************)
(* Proofs about AutoRefresh for every number of calls and of visibility    *)
(* changes.                                                                *)
(*                                                                         *)
(* That no timer leaks is not inductive: a start that has not resumed yet  *)
(* will set timers, whatever there are then.  NothingBetween says that     *)
(* there are none while a start is under way, Unmanaged and Managed who is *)
(* in charge of the timers, and Budget that every timer has a cause.       *)
(***************************************************************************)
EXTENDS AutoRefresh, TLAPS

\* The three kinds of conjuncts of TypeOK.
Flags ==
    /\ browser \in BOOLEAN /\ autoRefreshToken \in BOOLEAN
    /\ visibility \in {"visible", "hidden"} /\ initialized \in {"no", "yes"}
    /\ initializePromise \in {"pending", "resolved", "rejected"}
    /\ listening \in BOOLEAN
    /\ wanted \in {"none", "on", "off"} /\ overlapped \in BOOLEAN /\ hasty \in BOOLEAN
    /\ owed \subseteq {"interval", "timeout"}
    /\ unrecovered \in BOOLEAN /\ forgone \in BOOLEAN

Counts ==
    /\ timer \in 1 .. MaxTimer + 1
    /\ jobs \in 0 .. MaxTimer /\ early \in Nat /\ waiting \in 0 .. MaxFlips
    /\ calls \in 0 .. MaxCalls /\ flips \in 0 .. MaxFlips

Known == autoRefreshTicker \in 0 .. timer - 1 /\ autoRefreshTickTimeout \in 0 .. timer - 1

Set == intervals \subseteq 1 .. timer - 1 /\ timeouts \subseteq 1 .. timer - 1

\* Every start is caused by a call, a visibility change or initialization.
Budget ==
    timer + jobs <= 1 + calls + flips + (IF initialized = "no" THEN 0 ELSE 1)

\* The visibility callbacks on their way are at most the visibility changes.
Callbacks == waiting <= flips

\* While a start is under way, it is the only one and no timer is set.
NothingBetween ==
    ~overlapped => jobs \in {0, 1} /\ (jobs = 1 => intervals = {} /\ timeouts = {})

\* The application has taken over from the visibility callback.
Unmanaged == wanted # "none" /\ ~hasty => initialized # "no" /\ ~listening

\* The visibility callback is in charge.
Managed ==
    wanted = "none" =>
        /\ ~overlapped
        /\ listening = (browser /\ initialized # "no")
        /\ (initialized = "no" \/ ~autoRefreshToken \/ (browser /\ visibility = "hidden"))
               => jobs = 0 /\ intervals = {} /\ timeouts = {}

TimersInv ==
    /\ TypeOK /\ Budget /\ Callbacks /\ NothingBetween /\ NoTimerLeaks
    /\ Unmanaged /\ Managed /\ StopLasts
-----------------------------------------------------------------------------
\* TypeOK falls into its parts.
LEMMA TypeParts == TypeOK <=> Flags /\ Counts /\ Known /\ Set
  BY DEF TypeOK, Flags, Counts, Known, Set

\* No timer is armed at first.
LEMMA InitTimersInv == Init => TimersInv
<1> SUFFICES ASSUME Init PROVE TimersInv
  OBVIOUS
<1> USE AutoRefreshAssumption DEF Init
<1>1. Flags
  BY DEF Flags
<1>2. Counts
  BY DEF Counts, MaxTimer
<1>3. Known /\ Set
  BY DEF Known, Set
<1>4. Budget /\ Callbacks /\ NothingBetween /\ NoTimerLeaks
  BY DEF Budget, Callbacks, NothingBetween, NoTimerLeaks
<1>5. Unmanaged /\ Managed /\ StopLasts
  BY DEF Unmanaged, Managed, StopLasts
<1>6. QED
  BY <1>1, <1>2, <1>3, <1>4, <1>5, TypeParts DEF TimersInv

\* The flags and the enumerations keep their types.
LEMMA FlagsStep == Flags /\ [Next]_vars => Flags'
<1> SUFFICES ASSUME Flags, [Next]_vars PROVE Flags'
  OBVIOUS
<1> USE DEF Flags, setup, tab, init, timers, recovery, asked
<1>1. CASE UNCHANGED vars
  BY <1>1 DEF vars
<1>2. CASE startAutoRefresh
  BY <1>2 DEF startAutoRefresh, appCalls, startTimers, stopTimers
<1>3. CASE stopAutoRefresh
  BY <1>3 DEF stopAutoRefresh, appCalls, stopTimers
<1>4. CASE becomesVisible
  BY <1>4 DEF becomesVisible, flip, NewTask, startTimers, stopTimers
<1>5. CASE becomesHidden
  BY <1>5 DEF becomesHidden, flip, NewTask, stopTimers
<1>6. CASE startResumes
  BY <1>6 DEF startResumes
<1>7. CASE intervalFires
  BY <1>7 DEF intervalFires, NewTask
<1>8. CASE timeoutFires
  BY <1>8 DEF timeoutFires, NewTask
<1>9. CASE firstTick
  BY <1>9 DEF firstTick
<1>10. CASE handleVisibilityChange
  BY <1>10 DEF handleVisibilityChange, startTimers, stopTimers
<1>11. CASE initializeResolves
  BY <1>11 DEF initializeResolves
<1>12. CASE initializeRejects
  BY <1>12 DEF initializeRejects
<1>13. CASE callbackGetsLock
  BY <1>13 DEF callbackGetsLock
<1>14. CASE callbackFails
  BY <1>14 DEF callbackFails
<1>15. QED
  BY <1>1, <1>2, <1>3, <1>4, <1>5, <1>6, <1>7, <1>8,
     <1>9, <1>10, <1>11, <1>12, <1>13, <1>14 DEF Next, System

\* A timer is set by a start, and Budget bounds the starts.
LEMMA CountsStep ==
    Counts /\ Budget /\ Callbacks /\ [Next]_vars => Counts' /\ Budget' /\ Callbacks'
<1> SUFFICES ASSUME Counts /\ Budget /\ Callbacks, [Next]_vars
             PROVE  Counts' /\ Budget' /\ Callbacks'
  OBVIOUS
<1> USE AutoRefreshAssumption DEF Counts, Budget, Callbacks, MaxTimer,
            setup, tab, init, timers, recovery, asked
<1>1. CASE UNCHANGED vars
  BY <1>1 DEF vars
<1>2. CASE startAutoRefresh
  BY <1>2 DEF startAutoRefresh, appCalls, startTimers, stopTimers
<1>3. CASE stopAutoRefresh
  BY <1>3 DEF stopAutoRefresh, appCalls, stopTimers
<1>4. CASE becomesVisible
  BY <1>4 DEF becomesVisible, flip, NewTask, startTimers, stopTimers
<1>5. CASE becomesHidden
  BY <1>5 DEF becomesHidden, flip, NewTask, stopTimers
<1>6. CASE startResumes
  BY <1>6 DEF startResumes
<1>7. CASE intervalFires
  BY <1>7 DEF intervalFires, NewTask
<1>8. CASE timeoutFires
  BY <1>8 DEF timeoutFires, NewTask
<1>9. CASE firstTick
  BY <1>9 DEF firstTick
<1>10. CASE handleVisibilityChange
  BY <1>10 DEF handleVisibilityChange, startTimers, stopTimers
<1>11. CASE initializeResolves
  BY <1>11 DEF initializeResolves
<1>12. CASE initializeRejects
  BY <1>12 DEF initializeRejects
<1>13. CASE callbackGetsLock
  BY <1>13 DEF callbackGetsLock
<1>14. CASE callbackFails
  BY <1>14 DEF callbackFails
<1>15. QED
  BY <1>1, <1>2, <1>3, <1>4, <1>5, <1>6, <1>7, <1>8,
     <1>9, <1>10, <1>11, <1>12, <1>13, <1>14 DEF Next, System

\* What a step does to the timers: it clears them, leaves them alone, sets two new
\* ones, or one fires.
LEMMA TimerEffects ==
    [Next]_vars => \/ stopTimers /\ timer' = timer
                   \/ UNCHANGED <<timers, timer>>
                   \/ startResumes
                   \/ timeoutFires
<1> SUFFICES ASSUME [Next]_vars
             PROVE  \/ stopTimers /\ timer' = timer
                    \/ UNCHANGED <<timers, timer>>
                    \/ startResumes
                    \/ timeoutFires
  OBVIOUS
<1>1. CASE UNCHANGED vars
  BY <1>1 DEF vars
<1>2. CASE startAutoRefresh \/ stopAutoRefresh
  BY <1>2 DEF startAutoRefresh, stopAutoRefresh, appCalls, startTimers
<1>3. CASE becomesVisible \/ becomesHidden
  BY <1>3 DEF becomesVisible, becomesHidden, flip, startTimers
<1>4. CASE System
  BY <1>4 DEF System, intervalFires, firstTick, handleVisibilityChange, startTimers,
         initializeResolves, initializeRejects, callbackGetsLock, callbackFails
<1>5. QED
  BY <1>1, <1>2, <1>3, <1>4 DEF Next

\* The client's timers, and those that are set, have been given out.
LEMMA TimersStep == Counts /\ Known /\ Set /\ [Next]_vars => Known' /\ Set'
<1> SUFFICES ASSUME Counts, Known, Set, [Next]_vars PROVE Known' /\ Set'
  OBVIOUS
<1> USE AutoRefreshAssumption DEF Counts, Known, Set, MaxTimer
<1>1. CASE stopTimers /\ timer' = timer
  <2>1. Known'
    BY <1>1 DEF stopTimers
  <2>2. Set'
    BY <1>1 DEF stopTimers
  <2>3. QED
    BY <2>1, <2>2
<1>2. CASE UNCHANGED <<timers, timer>>
  BY <1>2 DEF timers
<1>3. CASE startResumes
  <2>1. Known'
    BY <1>3 DEF startResumes
  <2>2. (intervals \subseteq 1 .. timer - 1)'
    BY <1>3 DEF startResumes
  <2>3. (timeouts \subseteq 1 .. timer - 1)'
    BY <1>3 DEF startResumes
  <2>4. QED
    BY <2>1, <2>2, <2>3
<1>4. CASE timeoutFires
  BY <1>4 DEF timeoutFires
<1>5. QED
  BY <1>1, <1>2, <1>3, <1>4, TimerEffects

\* Unless calls overlap, the client's own timers are all there are to clear.
LEMMA StopClears == NoTimerLeaks /\ ~overlapped /\ stopTimers
                        => intervals' = {} /\ timeouts' = {}
  BY DEF NoTimerLeaks, stopTimers

\* A call that overlaps nothing comes when no start is under way.
LEMMA NoOverlap ==
    TypeOK /\ ~overlapped' /\ overlapped' = (overlapped \/ jobs > 0)
        => ~overlapped /\ jobs = 0
<1> SUFFICES ASSUME TypeOK, ~overlapped', overlapped' = (overlapped \/ jobs > 0)
             PROVE  ~overlapped /\ jobs = 0
  OBVIOUS
<1>1. ~overlapped /\ ~(jobs > 0)
  BY Zenon
<1>2. jobs \in Nat
  BY AutoRefreshAssumption DEF TypeOK, MaxTimer
<1>3. QED
  BY <1>1, <1>2

\* A start that overlaps nothing finds no timer, and sets those it remembers.
LEMMA LeakStep == TimersInv /\ [Next]_vars => NothingBetween' /\ NoTimerLeaks'
<1> SUFFICES ASSUME TimersInv, [Next]_vars PROVE NothingBetween' /\ NoTimerLeaks'
  OBVIOUS
<1> USE DEF TimersInv, TypeOK, NothingBetween, NoTimerLeaks, setup, tab, init, timers, recovery, asked
<1>1. CASE UNCHANGED vars
  BY <1>1 DEF vars
<1>2. CASE startAutoRefresh
  <2> SUFFICES ASSUME ~overlapped' PROVE NothingBetween' /\ NoTimerLeaks'
    BY DEF NothingBetween, NoTimerLeaks
  <2>1. overlapped' = (overlapped \/ jobs > 0) /\ stopTimers /\ jobs' = jobs + 1
    BY <1>2 DEF startAutoRefresh, appCalls, startTimers
  <2>2. ~overlapped /\ jobs = 0
    BY <2>1, NoOverlap
  <2>3. QED
    BY <2>1, <2>2, StopClears DEF NothingBetween, NoTimerLeaks
<1>3. CASE stopAutoRefresh
  BY <1>3 DEF stopAutoRefresh, appCalls, stopTimers
<1>4. CASE becomesVisible
  <2> SUFFICES ASSUME ~overlapped' PROVE NothingBetween' /\ NoTimerLeaks'
    BY DEF NothingBetween, NoTimerLeaks
  <2>1. ~overlapped /\ jobs = 0
    BY <1>4 DEF becomesVisible, flip, NewTask
  <2>2. \/ stopTimers /\ jobs' = 1
        \/ UNCHANGED <<timers, jobs>>
    BY <1>4, <2>1 DEF becomesVisible, startTimers
  <2>3. QED
    BY <2>1, <2>2, StopClears DEF NothingBetween, NoTimerLeaks, timers
<1>5. CASE becomesHidden
  BY <1>5 DEF becomesHidden, flip, NewTask, stopTimers
<1>6. CASE startResumes
  BY <1>6 DEF startResumes
<1>7. CASE intervalFires
  BY <1>7 DEF intervalFires, NewTask
<1>8. CASE timeoutFires
  BY <1>8 DEF timeoutFires, NewTask
<1>9. CASE firstTick
  BY <1>9 DEF firstTick
<1>10. CASE handleVisibilityChange
  <2> SUFFICES ASSUME ~overlapped' PROVE NothingBetween' /\ NoTimerLeaks'
    BY DEF NothingBetween, NoTimerLeaks
  <2>1. ~overlapped /\ jobs = 0
    <3>1. overlapped' = (overlapped \/ jobs > 0)
      BY <1>10 DEF handleVisibilityChange
    <3>2. QED
      BY <3>1, NoOverlap
  <2>2. \/ stopTimers /\ jobs' \in {0, 1}
        \/ UNCHANGED <<timers, jobs>>
    BY <1>10, <2>1 DEF handleVisibilityChange, startTimers
  <2>3. QED
    BY <2>1, <2>2, StopClears DEF NothingBetween, NoTimerLeaks, timers
<1>11. CASE initializeResolves
  BY <1>11 DEF initializeResolves
<1>12. CASE initializeRejects
  BY <1>12 DEF initializeRejects
<1>13. CASE callbackGetsLock
  BY <1>13 DEF callbackGetsLock
<1>14. CASE callbackFails
  BY <1>14 DEF callbackFails
<1>15. QED
  BY <1>1, <1>2, <1>3, <1>4, <1>5, <1>6, <1>7, <1>8,
     <1>9, <1>10, <1>11, <1>12, <1>13, <1>14 DEF Next, System

\* Only initialization puts the visibility callback in charge.
LEMMA ChargeStep == TimersInv /\ [Next]_vars => Unmanaged' /\ Managed'
<1> SUFFICES ASSUME TimersInv, [Next]_vars PROVE Unmanaged' /\ Managed'
  OBVIOUS
<1> USE DEF TimersInv, TypeOK, NothingBetween, NoTimerLeaks, Unmanaged, Managed,
            setup, tab, init, timers, recovery, asked
<1>1. CASE UNCHANGED vars
  BY <1>1 DEF vars
<1>2. CASE startAutoRefresh
  BY <1>2 DEF startAutoRefresh, appCalls, startTimers, stopTimers
<1>3. CASE stopAutoRefresh
  BY <1>3 DEF stopAutoRefresh, appCalls, stopTimers
<1>4. CASE becomesVisible
  BY <1>4 DEF becomesVisible, flip, NewTask, startTimers, stopTimers
<1>5. CASE becomesHidden
  BY <1>5 DEF becomesHidden, flip, NewTask, stopTimers
<1>6. CASE startResumes
  BY <1>6 DEF startResumes
<1>7. CASE intervalFires
  BY <1>7 DEF intervalFires, NewTask
<1>8. CASE timeoutFires
  BY <1>8 DEF timeoutFires, NewTask
<1>9. CASE firstTick
  BY <1>9 DEF firstTick
<1>10. CASE handleVisibilityChange
  <2>1. Unmanaged'
    BY <1>10 DEF handleVisibilityChange
  <2>2. ASSUME wanted = "none"
        PROVE  ~overlapped' /\ listening' = (browser' /\ initialized' # "no")
    BY <1>10, <2>2 DEF handleVisibilityChange
  <2>3. ASSUME wanted = "none", ~autoRefreshToken \/ (browser /\ visibility = "hidden")
        PROVE  jobs' = 0 /\ intervals' = {} /\ timeouts' = {}
    BY <1>10, <2>3, StopClears DEF handleVisibilityChange
  <2>4. QED
    BY <1>10, <2>1, <2>2, <2>3 DEF handleVisibilityChange
<1>11. CASE initializeResolves
  BY <1>11 DEF initializeResolves
<1>12. CASE initializeRejects
  BY <1>12 DEF initializeRejects
<1>13. CASE callbackGetsLock
  BY <1>13 DEF callbackGetsLock
<1>14. CASE callbackFails
  BY <1>14 DEF callbackFails
<1>15. QED
  BY <1>1, <1>2, <1>3, <1>4, <1>5, <1>6, <1>7, <1>8,
     <1>9, <1>10, <1>11, <1>12, <1>13, <1>14 DEF Next, System

\* A stop clears all there is, and only a call of the application undoes it.
LEMMA StopStep == TimersInv /\ [Next]_vars => StopLasts'
<1> SUFFICES ASSUME TimersInv, [Next]_vars PROVE StopLasts'
  OBVIOUS
<1> USE DEF TimersInv, TypeOK, NothingBetween, NoTimerLeaks, Unmanaged, StopLasts,
            setup, tab, init, timers, recovery, asked
<1>1. CASE UNCHANGED vars
  BY <1>1 DEF vars
<1>2. CASE startAutoRefresh
  BY <1>2 DEF startAutoRefresh, appCalls, startTimers, stopTimers
<1>3. CASE stopAutoRefresh
  <2> SUFFICES ASSUME ~overlapped' PROVE StopLasts'
    BY DEF StopLasts
  <2>1. overlapped' = (overlapped \/ jobs > 0) /\ stopTimers /\ UNCHANGED jobs
    BY <1>3 DEF stopAutoRefresh, appCalls
  <2>2. ~overlapped /\ jobs = 0
    BY <2>1, NoOverlap
  <2>3. QED
    BY <2>1, <2>2, StopClears DEF StopLasts
<1>4. CASE becomesVisible
  BY <1>4 DEF becomesVisible, flip, NewTask, startTimers, stopTimers
<1>5. CASE becomesHidden
  BY <1>5 DEF becomesHidden, flip, NewTask, stopTimers
<1>6. CASE startResumes
  BY <1>6 DEF startResumes
<1>7. CASE intervalFires
  BY <1>7 DEF intervalFires, NewTask
<1>8. CASE timeoutFires
  BY <1>8 DEF timeoutFires, NewTask
<1>9. CASE firstTick
  BY <1>9 DEF firstTick
<1>10. CASE handleVisibilityChange
  BY <1>10 DEF handleVisibilityChange, startTimers, stopTimers
<1>11. CASE initializeResolves
  BY <1>11 DEF initializeResolves
<1>12. CASE initializeRejects
  BY <1>12 DEF initializeRejects
<1>13. CASE callbackGetsLock
  BY <1>13 DEF callbackGetsLock
<1>14. CASE callbackFails
  BY <1>14 DEF callbackFails
<1>15. QED
  BY <1>1, <1>2, <1>3, <1>4, <1>5, <1>6, <1>7, <1>8,
     <1>9, <1>10, <1>11, <1>12, <1>13, <1>14 DEF Next, System

-----------------------------------------------------------------------------
\* The invariant holds in every reachable state.
LEMMA TimersInvHolds == Spec => []TimersInv
<1>1. Init => TimersInv
  BY InitTimersInv
<1>2. TimersInv /\ [Next]_vars => TimersInv'
  <2> SUFFICES ASSUME TimersInv, [Next]_vars PROVE TimersInv'
    OBVIOUS
  <2>1. TypeOK' /\ Budget' /\ Callbacks'
    <3>1. Flags /\ Counts /\ Known /\ Set /\ Budget /\ Callbacks
      BY TypeParts DEF TimersInv
    <3>2. Flags' /\ Counts' /\ Known' /\ Set' /\ Budget' /\ Callbacks'
      BY <3>1, FlagsStep, CountsStep, TimersStep
    <3>3. (Flags /\ Counts /\ Known /\ Set => TypeOK)'
      BY DEF TypeOK, Flags, Counts, Known, Set
    <3>4. QED
      BY <3>2, <3>3
  <2>2. NothingBetween' /\ NoTimerLeaks'
    BY LeakStep
  <2>3. Unmanaged' /\ Managed' /\ StopLasts'
    BY ChargeStep, StopStep
  <2>4. QED
    BY <2>1, <2>2, <2>3 DEF TimersInv
<1>3. QED
  BY <1>1, <1>2, PTL DEF Spec

\* The variables of the auto refresh keep their types, however often it is started
\* and stopped and the tab is hidden and shown.
THEOREM TimersTyped == Spec => []TypeOK
<1>1. TimersInv => TypeOK
  BY DEF TimersInv
<1>2. QED
  BY <1>1, TimersInvHolds, PTL

\* Unless calls overlap, the client can clear every timer that is set
\* (_startAutoRefresh, _stopAutoRefresh).
THEOREM NoLeaks == Spec => []NoTimerLeaks
<1>1. TimersInv => NoTimerLeaks
  BY DEF TimersInv
<1>2. QED
  BY <1>1, TimersInvHolds, PTL

\* After stopAutoRefresh there is no timer and no start under way, until the
\* application starts again, unless calls overlap or come before initialization.
THEOREM StopsForGood == Spec => []StopLasts
<1>1. TimersInv => StopLasts
  BY DEF TimersInv
<1>2. QED
  BY <1>1, TimersInvHolds, PTL

\* While the visibility callback is in charge, a hidden tab has no timer
\* (_onVisibilityChanged).
THEOREM HiddenRests == Spec => []HiddenTabRests
<1>1. TimersInv => HiddenTabRests
  BY DEF TimersInv, Managed, HiddenTabRests
<1>2. QED
  BY <1>1, TimersInvHolds, PTL
=============================================================================
