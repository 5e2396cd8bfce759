----------------------------- MODULE AutoRefresh -----------------------------
(***************************************************************************)
(* The auto refresh of one GoTrueClient: when its timers run.  They are    *)
(* started and stopped by the application, or, once _initialize has set    *)
(* that up, by the visibility of the tab.                                  *)
(*                                                                         *)
(* initializePromise rejects when the lock cannot be had in time, or is    *)
(* stolen.  In the first case _initialize never runs; in the second it     *)
(* goes on and may still set the visibility up.                            *)
(*                                                                         *)
(* _startAutoRefresh stops, awaits, and only then sets the timers: its     *)
(* second half is a microtask ("jobs").  Microtasks run before the next    *)
(* timer or window event, but code of the application that runs in one may *)
(* come first.                                                             *)
(***************************************************************************)
EXTENDS Naturals, FiniteSets

CONSTANTS
    MaxCalls,     \* bound on startAutoRefresh and stopAutoRefresh calls
    MaxFlips      \* bound on visibility changes

ASSUME AutoRefreshAssumption == MaxCalls \in Nat /\ MaxFlips \in Nat

VARIABLES
    browser,            \* window and document exist
    autoRefreshToken,   \* the option of the client
    visibility,         \* document.visibilityState
    initialized,        \* "yes" once _initialize has set the visibility up, "no"
    initializePromise,  \* "pending", "resolved", "rejected"
    listening,          \* visibilityChangedCallback is set and registered
    autoRefreshTicker,  \* the interval the client knows of, 0: null
    autoRefreshTickTimeout, \* the timeout the client knows of, 0: null
    intervals,          \* the intervals that are set
    timeouts,           \* the timeouts that are set
    jobs,               \* second halves of _startAutoRefresh still to run
    early,              \* timeouts that fired and await initializePromise
    waiting,            \* visibility callbacks on their way to the session
    timer,              \* the next timer id
    calls,              \* calls of the application
    flips,              \* visibility changes
    wanted,             \* history: what the application asked for last
    overlapped,         \* history: a start or stop came between the halves of a start
    hasty,              \* history: a call came before initialization
    owed,               \* history: the first ticks of its timers that a start still owes
    unrecovered,        \* history: in front again, session not yet recovered
    forgone             \* history: since then, the last callback on its way failed

setup == <<browser, autoRefreshToken>>
timers == <<autoRefreshTicker, autoRefreshTickTimeout, intervals, timeouts>>
asked == <<calls, wanted, hasty>>
tab == <<visibility, flips>>
init == <<initialized, initializePromise>>
recovery == <<waiting, unrecovered, forgone>>
vars == <<setup, tab, init, listening, timers, jobs, early, recovery, timer, asked,
          overlapped, owed>>

MaxTimer == MaxCalls + MaxFlips + 1

Init ==
    /\ browser \in BOOLEAN /\ autoRefreshToken \in BOOLEAN
    /\ visibility \in {"visible", "hidden"} /\ (~browser => visibility = "visible")
    /\ initialized = "no" /\ initializePromise = "pending" /\ listening = FALSE
    /\ autoRefreshTicker = 0 /\ autoRefreshTickTimeout = 0
    /\ intervals = {} /\ timeouts = {}
    /\ jobs = 0 /\ early = 0 /\ waiting = 0 /\ timer = 1
    /\ calls = 0 /\ flips = 0
    /\ wanted = "none" /\ overlapped = FALSE /\ hasty = FALSE
    /\ owed = {} /\ unrecovered = FALSE /\ forgone = FALSE
-----------------------------------------------------------------------------
\* Mutant: the interval is forgotten, not cleared.
stopTimers_Forgets ==
    /\ autoRefreshTicker' = 0 /\ autoRefreshTickTimeout' = 0
    /\ timeouts' = timeouts \ {autoRefreshTickTimeout}
    /\ owed' = {}
    /\ UNCHANGED intervals

\* _stopAutoRefresh, which has no await.
stopTimers ==
    /\ autoRefreshTicker' = 0 /\ autoRefreshTickTimeout' = 0
    /\ intervals' = intervals \ {autoRefreshTicker}
    /\ timeouts' = timeouts \ {autoRefreshTickTimeout}
    /\ owed' = {}

\* _startAutoRefresh up to its await.
startTimers == stopTimers /\ jobs' = jobs + 1

\* Mutant: the client does not remember the timeout.
startResumes_LosesTimeout ==
    /\ jobs > 0 /\ jobs' = jobs - 1
    /\ timer' = timer + 1
    /\ intervals' = intervals \cup {timer} /\ autoRefreshTicker' = timer
    /\ timeouts' = timeouts \cup {timer}
    /\ owed' = {"interval", "timeout"}
    /\ UNCHANGED <<setup, tab, init, listening, autoRefreshTickTimeout, early, recovery,
                   asked, overlapped>>

\* Mutant: a start that has set its timers starts over.
startResumes_Again ==
    /\ jobs > 0
    /\ timer' = timer + 1
    /\ intervals' = intervals \cup {timer} /\ autoRefreshTicker' = timer
    /\ timeouts' = timeouts \cup {timer} /\ autoRefreshTickTimeout' = timer
    /\ owed' = {"interval", "timeout"}
    /\ UNCHANGED <<setup, tab, init, listening, jobs, early, recovery, asked, overlapped>>

\* _startAutoRefresh after its await.
startResumes ==
    /\ jobs > 0 /\ jobs' = jobs - 1
    /\ timer' = timer + 1
    /\ intervals' = intervals \cup {timer} /\ autoRefreshTicker' = timer
    /\ timeouts' = timeouts \cup {timer} /\ autoRefreshTickTimeout' = timer
    /\ owed' = {"interval", "timeout"}
    /\ UNCHANGED <<setup, tab, init, listening, early, recovery, asked, overlapped>>

\* A call of the application; it removes the managed visibility callback.
appCalls(w) ==
    /\ calls < MaxCalls /\ calls' = calls + 1
    /\ wanted' = w
    /\ listening' = FALSE
    /\ overlapped' = (overlapped \/ jobs > 0)
    /\ hasty' = (hasty \/ initialized = "no")
    /\ unrecovered' = FALSE
    /\ UNCHANGED <<setup, tab, init, early, waiting, forgone, timer>>

startAutoRefresh == appCalls("on") /\ startTimers

\* Mutant: the managed callback stays in charge.
stopAutoRefresh_KeepsCallback ==
    /\ calls < MaxCalls /\ calls' = calls + 1
    /\ wanted' = "off"
    /\ overlapped' = (overlapped \/ jobs > 0)
    /\ hasty' = (hasty \/ initialized = "no")
    /\ stopTimers
    /\ UNCHANGED <<setup, tab, init, listening, jobs, early, recovery, timer>>

stopAutoRefresh == appCalls("off") /\ stopTimers /\ UNCHANGED jobs
-----------------------------------------------------------------------------
\* Timer callbacks and window events find no microtask left.
NewTask == jobs = 0

intervalFires ==
    /\ NewTask /\ intervals # {}
    /\ "interval" \in owed /\ owed' = owed \ {"interval"}
    /\ UNCHANGED <<setup, tab, init, listening, timers, jobs, early, recovery, timer,
                   asked, overlapped>>

\* Mutant: the first tick is skipped when it had to wait.
timeoutFires_Impatient ==
    /\ NewTask
    /\ \E t \in timeouts : timeouts' = timeouts \ {t}
    /\ early' = IF initializePromise = "pending" THEN early ELSE early + 1
    /\ UNCHANGED <<setup, tab, init, listening, autoRefreshTicker,
                   autoRefreshTickTimeout, intervals, jobs, recovery, timer, asked,
                   overlapped, owed>>

\* The client keeps the id of the timeout that fired.
timeoutFires ==
    /\ NewTask
    /\ \E t \in timeouts : timeouts' = timeouts \ {t}
    /\ early' = early + 1
    /\ UNCHANGED <<setup, tab, init, listening, autoRefreshTicker,
                   autoRefreshTickTimeout, intervals, jobs, recovery, timer, asked,
                   overlapped, owed>>

\* The first tick waits for initializePromise, and is lost when that rejects.
firstTick ==
    /\ early > 0 /\ initializePromise # "pending"
    /\ early' = early - 1
    /\ owed' = IF initializePromise = "resolved" THEN owed \ {"timeout"} ELSE owed
    /\ UNCHANGED <<setup, tab, init, listening, timers, jobs, recovery, timer, asked,
                   overlapped>>

\* The end of _initialize: without a browser the timers always run, in a browser
\* while the tab is in front.
handleVisibilityChange ==
    /\ initialized = "no" /\ initialized' = "yes"
    /\ listening' = browser
    /\ overlapped' = (overlapped \/ jobs > 0)
    /\ IF autoRefreshToken /\ visibility = "visible" THEN startTimers
       ELSE /\ IF autoRefreshToken THEN stopTimers ELSE UNCHANGED <<timers, owed>>
            /\ UNCHANGED jobs
    /\ UNCHANGED <<setup, tab, initializePromise, early, recovery, timer, asked>>

initializeResolves ==
    /\ initialized = "yes"
    /\ initializePromise = "pending" /\ initializePromise' = "resolved"
    /\ UNCHANGED <<setup, tab, initialized, listening, timers, jobs, early, recovery,
                   timer, asked, overlapped, owed>>

\* The lock is refused, or stolen in mid-initialization.
initializeRejects ==
    /\ initializePromise = "pending" /\ initializePromise' = "rejected"
    /\ UNCHANGED <<setup, tab, initialized, listening, timers, jobs, early, recovery,
                   timer, asked, overlapped, owed>>

flip(v) ==
    /\ browser /\ NewTask /\ flips < MaxFlips
    /\ visibility # v /\ visibility' = v
    /\ flips' = flips + 1
    /\ UNCHANGED <<setup, init, listening, early, timer, asked, overlapped>>

\* The tab comes to the front: start, and set off for the session.
becomesVisible ==
    /\ flip("visible")
    /\ forgone' = FALSE
    /\ IF listening
       THEN /\ IF autoRefreshToken THEN startTimers ELSE UNCHANGED <<timers, jobs, owed>>
            /\ waiting' = waiting + 1
            /\ unrecovered' = TRUE
       ELSE UNCHANGED <<timers, jobs, owed, waiting, unrecovered>>

\* Mutant: only a tab in front heeds its callback.
becomesHidden_Unheeded ==
    /\ flip("hidden")
    /\ unrecovered' = FALSE
    /\ UNCHANGED <<timers, owed, jobs, waiting, forgone>>

becomesHidden ==
    /\ flip("hidden")
    /\ unrecovered' = FALSE
    /\ IF listening /\ autoRefreshToken THEN stopTimers ELSE UNCHANGED <<timers, owed>>
    /\ UNCHANGED <<jobs, waiting, forgone>>

\* Mutant: the second look at the visibility is the wrong way round.
callbackGetsLock_Backwards ==
    /\ waiting > 0 /\ initializePromise = "resolved"
    /\ waiting' = waiting - 1
    /\ unrecovered' = (unrecovered /\ visibility = "visible")
    /\ UNCHANGED <<setup, tab, init, listening, timers, jobs, early, forgone, timer,
                   asked, overlapped, owed>>

\* A visibility callback has initializePromise and the lock.  It looks at the
\* visibility again and recovers the session, or gives up.
callbackGetsLock ==
    /\ waiting > 0 /\ initializePromise = "resolved"
    /\ waiting' = waiting - 1
    /\ unrecovered' = (unrecovered /\ visibility # "visible")
    /\ UNCHANGED <<setup, tab, init, listening, timers, jobs, early, forgone, timer,
                   asked, overlapped, owed>>

\* initializePromise was rejected, or the lock is refused: the callback swallows the
\* error, and nothing is recovered.
callbackFails ==
    /\ waiting > 0 /\ initializePromise # "pending"
    /\ waiting' = waiting - 1
    /\ forgone' = (forgone \/ waiting = 1)
    /\ UNCHANGED <<setup, tab, init, listening, timers, jobs, early, unrecovered, timer,
                   asked, overlapped, owed>>

System ==
    \/ startResumes \/ intervalFires \/ timeoutFires \/ firstTick
    \/ handleVisibilityChange \/ initializeResolves \/ initializeRejects
    \/ callbackGetsLock \/ callbackFails

Next == startAutoRefresh \/ stopAutoRefresh \/ becomesVisible \/ becomesHidden \/ System

Spec == Init /\ [][Next]_vars

\* _initialize ends while its promise is pending, one way or the other.
initializes ==
    /\ initializePromise = "pending"
    /\ handleVisibilityChange \/ initializeResolves \/ initializeRejects

\* Microtasks run, timers fire, initialization ends and the lock is granted or refused.
\* Which of the two is open, and so is whether a robbed _initialize goes on to its end.
FairSpec ==
    /\ Spec
    /\ WF_vars(startResumes) /\ WF_vars(intervalFires) /\ WF_vars(timeoutFires)
    /\ WF_vars(firstTick) /\ WF_vars(initializes)
    /\ WF_vars(callbackGetsLock \/ callbackFails)
-----------------------------------------------------------------------------
TypeOK ==
    /\ browser \in BOOLEAN /\ autoRefreshToken \in BOOLEAN
    /\ visibility \in {"visible", "hidden"} /\ initialized \in {"no", "yes"}
    /\ initializePromise \in {"pending", "resolved", "rejected"}
    /\ listening \in BOOLEAN
    /\ timer \in 1 .. MaxTimer + 1
    /\ autoRefreshTicker \in 0 .. timer - 1 /\ autoRefreshTickTimeout \in 0 .. timer - 1
    /\ intervals \subseteq 1 .. timer - 1 /\ timeouts \subseteq 1 .. timer - 1
    /\ jobs \in 0 .. MaxTimer /\ early \in Nat /\ waiting \in 0 .. MaxFlips
    /\ calls \in 0 .. MaxCalls /\ flips \in 0 .. MaxFlips
    /\ wanted \in {"none", "on", "off"} /\ overlapped \in BOOLEAN /\ hasty \in BOOLEAN
    /\ owed \subseteq {"interval", "timeout"}
    /\ unrecovered \in BOOLEAN /\ forgone \in BOOLEAN

\* Every timer that is set is one the client knows of, so that it can be cleared
\* (_startAutoRefresh, _stopAutoRefresh): none leaks, unless calls overlap.
NoTimerLeaks ==
    ~overlapped => intervals \subseteq {autoRefreshTicker}
                   /\ timeouts \subseteq {autoRefreshTickTimeout}

\* Once the application has stopped it, the client sets off no more ticks, also
\* when the tab is hidden and shown again.
StopLasts ==
    wanted = "off" /\ ~overlapped /\ ~hasty => intervals = {} /\ timeouts = {} /\ jobs = 0

\* GoTrueClient.ts:3236: "in browser environments the refresh token ticker runs
\* only on focused tabs which prevents race conditions".
HiddenTabRests ==
    browser /\ wanted = "none" /\ visibility = "hidden" => intervals = {} /\ timeouts = {}

\* A start is followed by the first tick of its interval and by that of its timeout,
\* also when it came before initialization, unless it is stopped or started anew; the
\* one of the timeout only if initialization does not reject (_startAutoRefresh).
StartedTicks ==
    /\ "interval" \in owed ~> "interval" \notin owed
    /\ "timeout" \in owed ~> "timeout" \notin owed \/ initializePromise = "rejected"

\* A tab that comes to the front recovers its session, unless it is hidden again, taken
\* over by the application, or every callback that is on its way fails, for want of the
\* lock or of initializePromise (_onVisibilityChanged).
BackInFrontRecovers == unrecovered ~> ~unrecovered \/ forgone

\* GoTrueClient.ts:3124: stopAutoRefresh "Stops an active auto refresh process
\* running in the background (if any)."  Here with no start under way.
StopStops == [][stopAutoRefresh /\ jobs = 0 => intervals' = {}]_vars
=============================================================================
