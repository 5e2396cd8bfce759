# A TLA+ model of the securesupabase-js client libraries

securesupabase-js is a fork of the Supabase JavaScript client. It consists of
libraries (`packages/core/*`) that applications use in browsers, in Node and on
edge runtimes, and of templates for edge functions. Most of its 31 000 lines turn
a method call into one HTTP request and the answer into a result. What is hard in
it is concurrent: JavaScript runs one piece of code at a time, but every `await`,
timer, window event and WebSocket message lets other code in between, several
tabs share one storage, and the server has a state of its own. This directory
models that part, component by component, checks it with TLC and proves what
matters most with TLAPS.

Line numbers in this file refer to `packages/core/auth-js/src/GoTrueClient.ts`
unless another file is named.

## Inventory

### auth-js

| component | state | operations | module |
|---|---|---|---|
| process lock (`lib/locks.ts`) | `PROCESS_LOCKS[name]`, a chain of promises | `processLock` | `ProcessLock` |
| navigator lock (`lib/locks.ts`) | the browser's lock manager, per call a timer and an `AbortController` | `navigatorLock` | `NavigatorLock` |
| client lock | `lockAcquired`, `pendingInLock` | `_acquireLock` | `ClientLock` |
| session | the stored session, the stored code verifier, `refreshingDeferred`, `initializePromise`, the subscribers | the session methods of `GoTrueClient` | `AuthSession` |
| auto refresh | `autoRefreshTicker`, `autoRefreshTickTimeout`, `visibilityChangedCallback` | `startAutoRefresh`, `stopAutoRefresh`, `_handleVisibilityChange`, `_onVisibilityChanged` | `AutoRefresh` |
| JWKS cache | `jwks`, `jwks_cached_at` | `fetchJwk`, `getClaims` | planned |
| admin, WebAuthn, Web3 | none of their own | one request each | not modelled |

They stack up. A session method awaits `initializePromise` and goes through
`_acquireLock`; that asks the lock function (`processLock`, `navigatorLock` or
none) unless the client already holds the lock, and otherwise queues behind the
holder. Inside, the method loads the session, and a session that is about to
expire is refreshed on the way: `_callRefreshToken` shares one request between
all callers of a client through `refreshingDeferred`, saves the result and tells
the subscribers. The auto refresh ticks through the same lock. Some methods, the
sign-ins and the identity methods, do not go through the lock at all.

What is hard: the lock is advisory, can be stolen, times out and rejects; a
holder can fail while others wait behind it; the session can change between the
load and the save of a method that works outside the lock; a refresh token is
good for one use, so a lost answer, a closed tab or a second refresh can cost the
session; timers and visibility events arrive around initialization.

What makes it correct: one operation at a time per storage key, with known
exceptions; every call ends; a refresh token is used once; a session that was
signed out or refused does not come back; timers can always be stopped and a
started refresh ticks.

### realtime-js

`RealtimeClient` keeps the list of channels, the access token and whether it was
set by hand; `RealtimeChannel` its bindings, its join payload and, through
`channelAdapter`, the state of a channel of the dependency `@supabase/phoenix`,
which has the socket, the reconnection and the heartbeat. Operations: `connect`,
`disconnect`, `setAuth`, `channel`, `removeChannel`, `subscribe`, `unsubscribe`,
`on`, `send`. Hard: overlapping `setAuth` calls of which one awaits a callback, a
channel that is removed while one with the same topic is created, the server's
answer to a join compared with bindings that may have changed since, a disconnect
and a connect that cross. Correct: the channels are joined with, and are sent,
the latest token; a removed channel removes only itself; a subscription reports
each status it reaches.

### supabase-js

`SupabaseClient` builds the other clients, passes the access token of the moment
to every request (`lib/fetch.ts`) and relays auth events to the realtime client
(`_handleTokenChanged`). `SecureEdgeInvoker` encrypts calls of edge functions
with a public key it fetches once, with an optional plaintext fallback;
`SecureDbProxy`, `SecureAuthProxy` and `SecureSupabaseClient` put requests into
the form the proxies take. Hard: the order of relayed tokens, a key that was
replaced, an attempt that is repeated although the first one ran. Correct: a call of
the invoker runs once, with a known exception.

### secure edge templates

`db-proxy` and `auth-proxy` check a request step by step (caller, block list,
rate limit, decryption, schema) and then run it; `_shared/rateLimit.ts` counts in
memory or in a table. Hard: the limiter reads and writes its row in two requests.
Correct: in no span of a window is more admitted than the limit, as far as the
limiter can know.

### functions-js, postgrest-js, storage-js

One request per call. Their control is in `FunctionsClient.invoke` (timeout and
signal), `PostgrestBuilder.then` (from a response to a result or an error) and
storage's `lib/common/fetch.ts`. The query builders and file methods are
translations of arguments.

## Plan

In this order, the most important first. A component's proofs are in a module of
their own.

| step | module | abstract specification, composition | status |
|---|---|---|---|
| 1 | `LockFunc` | the contract of a lock, with and without stealing | done |
| 2 | `ProcessLock`, `ProcessLockProofs` | implements `LockFunc` | done, proved |
| 3 | `NavigatorLock`, `NavigatorLockProofs` | implements `LockFunc` with stealing | done, proved |
| 4 | `ClientLock`, `ClientLockProofs` | built on `LockFunc` | done, proved |
| 5 | `AuthSession`, `AuthSessionProofs`, `AuthSessionOrderProofs` | a lock with what `ClientLock` and `NavigatorLock` leave open: theft, timeouts, calls that run without it | done, proved |
| 6 | `AutoRefresh`, `AutoRefreshProofs` | its tick is program `tick` of `AuthSession` | done, proved |
| 7 | `RealtimeAuth`, `RealtimeAuthProofs` | the access token of a realtime client, the relay of auth events into it, and the channels as far as they carry it | done, proved |
| 8 | `RealtimeChannels` | the list of channels: `removeChannel`, two channels of one topic, bindings; over a phoenix channel modelled from its use | next |
| 9 | `SecureEdge`, `SecureEdgeProofs` | invoker, proxies and rate limiter in one module, because a call goes through all three | done, proved |
| 10 | request pipelines | pure operators for `invoke`, `PostgrestBuilder.then` and storage's `fetch`, checked against tables of outcomes | |

Steps 8 and 10 add one run each, with two or three channels or callers and one lost
message. Their module parameters are the sets of topics and callers.

## Modules

**LockFunc** is the abstract specification. A call is idle, waiting, holding,
evicted, done or refused; only one call holds; a lock with `Stealing` may move
the hold to another call and leave the first one running, evicted.

**ProcessLock** models `processLock` for one name. A call is named by its
position in call order. `previous[c]` is the promise it captured and `chain[c]`
the one it stored, `Enter` being the synchronous stretch that does both. `Start`,
`GiveUp`, `FnSettles` and `ChainSettles` are the reactions and the timer. A call
that times out is answered, but its promise in the chain settles only after the
one it captured has (locks.ts:391). The error of an operation may itself say
"acquire timeout" (`nested`).

**NavigatorLock** models `navigatorLock`. The lock manager is external and is
modelled from how the code uses it: a queue, `ifAvailable`, `signal` and `steal`.
The queue is kept as `ahead[c]`, the callers whose requests were queued before
that of `c`: a free lock is granted to a request with nobody ahead.
A browser may grant null locks, against its specification (`nullLocks`), as the
code expects of some. `AfterAbortError` is the `catch` block with its two cases,
own timeout (recover by stealing) and theft.

**ClientLock** models `_acquireLock`. `callback[o]` is the progress of the
function handed to the lock: running `fn`, draining (`Drain`, whose `waitOn` is
the copy of the queue it awaits), leaving (`exit`, the continuation between the
last look at the queue and the flag), released. The lock function is an instance
of `LockFunc`, or none. `behind` and `late` are history variables that say which
turn of the lock an operation belongs to.

**AuthSession** models the session methods. An operation is a record with a
program counter over the awaits of its code; `__loadSession`,
`_callRefreshToken`, `_saveSession`, `_removeSession` and
`_notifyAllSubscribers` are steps that all operations share, and `op[o].back`
says where a shared part returns to. Storage holds one session, which is a
family of refresh tokens and a generation in it, and one code verifier. The
server keeps, per family, the current generation and whether it is revoked; the
parent of the current token may be used again, as GoTrue allows. `hour` is how
close the first access token is to expiring, `autoRefreshToken` the setting.

The lock is what the client sees of `ClientLock` over any lock function. `Acquire` is a
grant, `AcquireTimesOut` a refusal (of a tick, or by `processLock`), `LockFails` an error of the lock function itself (locks.ts:297), `Overtake` the theft
by which `navigatorLock` recovers from a holder it waited for too long, or a client
without a lock function passing by one. A call whose client has the lock queues behind
one of the calls before it (`Queue`) and starts when that is over (`LeaveQueue`), in the
lock or without it: the holder may have rejected, been robbed, or looked at the queue
before. A call inside `_acquireLock` that is not the holder is `Astray`; it goes on like
any other, and `strayed` remembers that one did. It is also set when the lock is taken
from a call between an answer of the server and its being written down (`Unstored`),
for the thief then reads a storage that lags behind. An initialization that was robbed or refused
rejects `initializePromise` for all others (`robbed`, `InitializeRejected`).

Faults are a lost answer, a closed tab, a subscriber that throws, a theft, a lock
function that fails. `mishaps`
records what the lock cannot order (a refresh outside it, a supplied token, a lost
answer, a closed tab): `Ordered` is a run without those it can be blamed for and in which
no call went on astray, and the properties say what holds in such a run, so that the
exceptions are part of the claim. Thefts and queues as such are no exception. A URL that carries a session (`urlTokenBody`) counts
as `supplied`, like a session handed to `setSession`: it can store a second time
what was signed out or refused since. `throwOnError` is at its default, and what the
subscribers are told is not kept.

**AutoRefresh** models timers by their identity. `intervals` and `timeouts` are
those that are set, `autoRefreshTicker` and `autoRefreshTickTimeout` those the
client remembers. `_startAutoRefresh` awaits between its stop and its timers;
the second half is a microtask, which runs before timers and window events but
possibly after more code of the application. `initializePromise` resolves or rejects,
the latter also before `_initialize` is through, when the lock was stolen from it. A
visibility callback waits for it and for the lock (`waiting`) and recovers the session
(`callbackGetsLock`), or fails and swallows the error (`callbackFails`). `owed` and
`unrecovered` say what is still to come, `forgone` that every callback under way failed.

**RealtimeAuth** models the access token of a `RealtimeClient` that a
`SupabaseClient` made (`RealtimeClient.ts`, `RealtimeChannel.ts`,
`supabase-js/src/SupabaseClient.ts`). `call[c]` is a call of `setAuth`, with the
await of the accessToken callback (`Read`, `Answered`, `Failed`) and the one after
`_performAuth` (`Finish`) as its places; `authPromise` is the call whose promise the
client remembers, which a later call replaces and any call's end forgets. A call
that the client makes of itself is `auto`. The channel has the payload of its next
join (`payload`), what its join under way carries (`sent`), what the server was
told (`told`), and whether the token changed during the join (`missed`). The session
is that of `AuthSession` seen from outside: it changes with an event for the relay
(`SignedIn`, `SignedOut`), or with one the relay does not look at
(`ChangedQuietly`). `handed` and `unrelayed` are history variables. The socket and the
channel's states are phoenix's, modelled from their use. A `RealtimeClient` without a
callback (used alone) is left out: its `setAuth` has no await.

**SecureEdge** models a call of `SecureEdgeInvoker` and the edge function that
answers it (`supabase-js/src/SecureEdgeInvoker.ts`, `SecureE2EE.ts`, and
`supabase-js/templates/secure-edge/functions`). `call[c]` is the call as the invoker
sees it and `request[c]` its request as the server does: after a lost connection the
request goes on without the call. The function called is a proxy of the template,
which opens envelopes, or one of the application's `own`, which knows none. Errors
are told apart as `isE2eeSetupError` does, of setup or not (`caught`). A proxy checks
(`Refuse`), limits, opens the body (`Run`, `Reject`) and answers an envelope to an
envelope. `checkRateLimit` is one synchronous step on the `store` of its isolate; in
database mode a check takes the time, reads the row and writes it (`StartCheck`,
`ReadRow`, `Decide`), and what it writes depends on the row as it was read
(`written`). `ran`, `admitted`, `counted` and `overlapped` are history variables. A key
is its version, and the server can replace it (`Rekey`).

`ProcessLockProofs`, `NavigatorLockProofs`, `ClientLockProofs`,
`AuthSessionProofs`, `AuthSessionOrderProofs`, `AutoRefreshProofs`,
`RealtimeAuthProofs` and `SecureEdgeProofs` hold the theorems about these modules, see Proofs.

`MC*.tla` are the modules TLC is started on; the constants are in the `.cfg`
files. Definitions with an underscore in their name and the comment "Mutant:"
are deliberately wrong versions of a definition, each close to a bug the code
could have. They are used by no specification: each documents the error that a
property rules out, and replacing the definition by it makes TLC report that
property violated.

## Runs

| run | bounds | states | shows |
|---|---|---|---|
| `process_lock` | 4 calls | 8 741 | `MutualExclusion`, `CallOrder`; `ImplementsLockFunc`; a call with a timer is not held up by a hanging one (`BoundedCallsAnswered`); every call settles if operations do |
| `navigator_lock` | 3 callers | 36 349 | an operation is started once (`FnRunsOnce`); `LockInv`; the lock is at worst a stealing one; it is recovered from a hanging holder (`TimedCallersRun`); every call is answered if operations settle |
| `navigator_lock_theft` | 3 callers | | violation, see below |
| `client_lock` | 2 clients, 3 operations | 78 446 | operations overlap only when one outlived its lock (`OnlyStraysOverlap`); a turn is serial (`QueueIsSerial`); what is drained before release, and what not (`DrainedBeforeRelease`); the flag is never left behind (`FlagHasHolder`); `ClientInv`; every call ends |
| `client_lock_overlap` | the same | | violation, see below |
| `auth_session` | 2 clients, 2 operations of 14 workloads, 1 fault | 767 440 | `SessionInv`, `SingleFlight`, `TokensUsedOnce`, `SignedOutStays`, `RefusedIsForgotten`, `FailedFlowLeavesNoVerifier`, each with the exceptions it names; `EveryCallEnds` |
| `auth_session_url` | one workload | | violation, see below |
| `auto_refresh` | 3 calls, 3 visibility changes | 261 240 | `NoTimerLeaks`, `StopLasts`, `HiddenTabRests`; both timers of a start tick (`StartedTicks`); the session is recovered unless initialization or the lock is refused (`BackInFrontRecovers`) |
| `auto_refresh_stop` | the same | | violation, see below |
| `realtime_auth` | 2 tokens, 1 channel, 2 calls, 3 events | 670 629 | joins carry the client's token (`JoinsWithLatest`), joined channels know it (`JoinedKnowLatest`), a token set by hand is the last one given (`HandSetStands`) and meanwhile the callback is left alone (`CallbackLeftAlone`); the token ends up as the session's (`TokenFollowsSession`) |
| `realtime_auth_hand` | the same | | violation, see below |
| `secure_edge` | 2 calls at once, 5 in all, 1 isolate, limit 2, window 2, 1 failure | 2 321 531 | a call is run once, or twice by a function that knows no envelopes (`RunsOnce`); the limiter keeps its limit, in the table one less than twice of it, unless checks overlap or a write is lost (`LimitHolds`); `EdgeInv` |

Each passing run also checks the type invariant of its module, by itself or as the
first part of the inductive invariant. `LockInv`, `ClientInv`, `SessionInv`,
`RelayInv` and `EdgeInv` are the inductive invariants of the proofs; checking them
costs a run little and tells a wrong lemma from a hard one.

Why the bounds are enough:

- Four calls of `processLock` are a running one, two neighbours that time out
  between it and the next, and that next one; the chain has no longer pattern,
  and the proof covers any number.
- Three callers of `navigatorLock` are a holder, a thief, and one that waits or
  steals in turn; the safety properties and the refinement are proved for any number.
- Three operations of two clients are a holder, one queued behind it and a
  competitor, or three operations of one client, or two that steal from one another; the
  invariants are proved for any number of clients and operations.
- Two session operations meet in every pair of places. A workload is the set of
  programs a run may draw its calls from, twice the same one included. The 14
  workloads hold every program, and each pairs programs that touch the same
  thing: two that refresh, a removal and a save, two that use the code verifier,
  a supplied and a stored token. `MaxFam` (the first session, a supplied one, and one
  per sign-in) and `MaxGen` exceed what two operations can issue; `MaxFaults` is
  one fault, a theft included, per behaviour. The invariants are proved for any number of clients,
  operations, families, generations and faults, and for any workloads: what two
  operations cannot show, the proof does, and it did (see Proofs).
- Three calls and three visibility changes cover start, stop and start again
  around a hidden tab, before and after initialization; the safety properties are
  proved for any number.
- In `RealtimeAuth`, `MaxEvents` counts what the world does: auth events, calls of the
  application, failures. Three are a token given, one that replaces it and one
  failure around either. Two calls are one that awaits the callback and one that
  overtakes it; when both slots are taken, no further call begins. The slots are alike, so
  a new call takes one that is free (`freeCall`). Channels do not act on
  one another, so one is enough. The safety properties are proved for any
  number of tokens, channels, calls and events.

- In `SecureEdge`, the limit is 2, so that the table may admit three calls in one span of
  a window and never four. Time allows two windows, which the limiter fills with four
  admissions; five calls leave one more for a limiter that is off by one. Two calls at
  once make checks overlap. Isolates share only the table, so one is enough, and a recycled
  isolate is another one. One failure, or one replaced key, falls at any place. The
  limiter has one identifier; its rows and lists have nothing to do with one another.
  The safety properties are proved for any number of calls, isolates and failures,
  any limit and any window.

Deadlock is not checked: all calls have been made and have ended in a final
state, where the system rightly stops. That calls do end is stated as liveness.

### Fairness

`FairSpec` of each module has weak fairness of what the runtime does by itself:
promise reactions run, due timers fire, a free lock is granted, and, in
`AuthSession` and `ClientLock`, a request or operation that was started ends, with
a value or an error. In `ProcessLock` and `NavigatorLock` operations may hang,
and the properties that need them to settle assume it in their statement
(`FnsSettle`). In `RealtimeAuth` the accessToken callback answers or fails, a relay
that was told of an event runs, and an open socket sends heartbeats, which the
dependency does every 25 seconds by default. In `AutoRefresh` initialization resolves or
rejects, and a visibility callback that waits gets the lock or is refused it; which, and
whether a robbed `_initialize` runs to its end, is open. `SecureEdge` states safety only. Nothing is assumed of the application: calls, visibility
changes, faults, closing tabs and thefts never have to happen.

### Where code and documentation disagree

Five runs end in a violation that is a property of the code.

- `navigator_lock_theft`: a caller with `acquireTimeout` 0, as the tick is, whose lock
  is stolen gets the raw `AbortError` (locks.ts:208), which the comment at
  locks.ts:282 wants converted for exactly that caller.
- `client_lock_overlap`: when the holder's operation rejects, `await result` (1711)
  leaves past the drain loop; the operations behind it run without the lock, beside the
  operation of another client that got it.
- `auth_session_url`: a URL login with the token of a dead session removes the
  stored session (1944), also a valid one, which the comment at 515 promises not to touch.
- `auto_refresh_stop`: two starts in one pass of the event loop set two intervals, of
  which a later stop clears one (3033).
- `realtime_auth_hand`: `connect` asks the callback, the application sets a token by
  hand, the late answer replaces it and clears the mark (RealtimeClient.ts:554). The
  comment at RealtimeClient.ts:440 promises that such a token is preserved until `setAuth()`
  is called.

The models contain more such places, for which no sentence of the repository says
otherwise; the properties carry them as exceptions. In `ClientLock`: an operation that
queues after the drain loop's last look (1714) and before the flag is cleared
(1726) runs after the release; a client that steals the lock from itself runs two
drain loops on one queue (1719). In `AuthSession`: a subscriber that throws on
`SIGNED_OUT` leaves `refreshingDeferred` unsettled (2895); a refresh outside the
lock can bring back a session that was signed out meanwhile (2531); a failing
`linkIdentity` leaves its code verifier (2557); two callers that share a refresh
get the result of the first one's token, also when they brought another (2865); an
operation that lost the lock, or ran without it, can send a token again or store a session
after another tab signed it out (locks.ts:217). In `AutoRefresh`: a stop before
initialization is undone by it (`hasty`), and overlapping starts leak (`overlapped`); once
`initializePromise` has rejected, no visibility callback recovers the session (3246) and the
first tick is lost (3059). In `RealtimeAuth`: a token that
becomes null stays in the payload, so that a channel joins again with the former one
(RealtimeClient.ts:565); a token that changes during a join reaches that channel
with the next one only (567); `_getAccessToken` takes a `getSession` that failed for
signed out (SupabaseClient.ts:511); a token the relay handed over counts as set by hand,
so that a session that changes without such an event is not followed (577). In
`SecureEdge`: checks of the table that overlap count as one, and a slow one can undo
the counts of many (rateLimit.ts:84); an insert or update that fails goes unnoticed
(rateLimit.ts:60); the windows of the table follow one another, so that one less than twice
the limit fits into one span; with `allowPlainFallback`, a function that answers no envelope is
run a second time (SecureEdgeInvoker.ts:62); the cached key is never renewed, so that
after a new key each call fails until there is a new invoker (SecureEdgeInvoker.ts:37).

## Proofs

`ProcessLockProofs`, for any number of calls: `TypeCorrect`, `Exclusive`
(`MutualExclusion`), `RunsInCallOrder` (`CallOrder`) and `RefinesLockFunc`
(`ImplementsLockFunc`). Mutual exclusion is not inductive, because it does not
say why a settled promise means that nobody runs. `ChainInv` adds that the
promises form one chain in call order (`Linked`), that a settled promise has only
finished calls behind it (`SettledMeansOver`) and that so has an operation that was
started (`StartedMeansOver`). Refinement maps each step to a step of `LockFunc`
or a stutter; `Start` needs exclusion to be a `Grant`.

`NavigatorLockProofs`, for any number of callers: `Invariance` (`LockInv`),
`TypeCorrect` (`TypeOK`), `RunsOnce` (`FnRunsOnce`) and `LockRefinement`
(`ImplementsLockFunc`). That an operation starts once follows only if one knows
which callers can still be granted a lock: `LockInv` says how often `fn` ran at each
place of a call (`CountsFollow`), that a caller whose request was aborted by its own
timer is answered or recovering (`TimersFollow`), so that the steal of the
recovery cannot meet a grant of the first request, and that the holder is at a place
where it holds (`HolderFollows`). Each step is then a step of `LockFunc` or a stutter;
that a grant finds nobody holding, and a steal one caller at most, is
`HolderFollows`.

`ClientLockProofs`, for any number of clients and operations and with either kind of
lock function: `Invariance` (`ClientInv`), `TypeCorrect`, `FlagNotLeft`
(`FlagHasHolder`), `Serial` (`QueueIsSerial`), `OverlapOnlyByStrays`
(`OnlyStraysOverlap`) and `Drained` (`DrainedBeforeRelease`). `pendingInLock` is an
array that several drain loops can edit, so the invariant is about one turn of the
lock whose holder is the only one draining (`Sole`): the callback and the lock
agree (`RolesFollow`, `HoldersAgree`), no operation is twice in the queue
(`EntriesDiffer`), what has not settled is in it (`UnsettledAreQueued`), each entry
awaits the one before it (`QueueIsChain`), the last one awaited is of this turn
(`LastInTurn`), the drain loop awaits the front (`AwaitsFront`), and at the exit
only what queued late is left (`TurnIsDrained`). `QueueIsChain` makes the queue
serial, `TurnIsDrained` gives the drain, and `HoldersAgree` with the contract of
`LockFunc` the overlap.

`AuthSessionProofs` and `AuthSessionOrderProofs`, for any number of clients,
operations, token families, generations, faults and any workloads. `SessionInv` is
the inductive invariant, in two layers.

- `ControlInv` is where the calls are: what a record can hold at each place
  (`RecordsFit`), that the lock belongs to a call whose callback runs (`LockFits`), that
  `refreshingDeferred` belongs to a call between its refresh and its announcement
  (`RefreshFits`), and who still has the code verifier ahead of it (`VerifierFits`).
  From it `TypeCorrect` (`TypeOK`), `OneRefresh` (`SingleFlight`) and
  `NoVerifierLeft` (`FailedFlowLeavesNoVerifier`). The actions are not taken one by one
  through four invariants: each is shown to be a `ControlStep` of one call, a
  settlement of the shared refresh (`Together`), a first step (`Starts`) or a closed
  tab, and the invariant is proved of these.
- The second layer is about sessions and holds while no refresh runs outside the
  lock, no session is supplied, no tab closes in mid-call and nobody goes on astray
  (`Ordered`). Whoever refreshes then has the lock or is astray, and nobody is astray with
  something to write down (`OrderFits`): a theft leaves a call behind that holds an
  old token but can do nothing with it while the run is ordered. It is therefore left out
  of the other parts: sign-ins save only sessions that
  nobody else has (`LooseSavesAreNew`), a family that was signed out or refused is
  in nobody's hands but those of the call removing it (`DeadStayDead`), and storage
  and the call under the lock have the current token until a rotated one is saved
  (`TokensCurrent`). A step that neither writes nor issues a session, a theft included, is `Calm` and
  keeps all of it at once; the others are a rotation, a refusal or sign-out, a save,
  a sign-in and a closing tab, one lemma each. This gives `TokensOnce`
  (`TokensUsedOnce`), `SignedOutForGood` (`SignedOutStays`) and `RefusedForGood`
  (`RefusedIsForgotten`).

The attempt to prove `SignedOutStays` corrected the model: with three calls a session
from a URL can be saved, signed out by a second call, and saved again by a third that
carries the same URL. Two calls, TLC's bound, never get that far. The session of a URL
is therefore one of the exceptions, `supplied`. In the other direction,
`RefusedIsForgotten` turned out to hold without its exception for writes outside the
lock, and no longer has it.

`AutoRefreshProofs`, for any number of calls and visibility changes:
`TimersTyped` (`TypeOK`), `NoLeaks` (`NoTimerLeaks`), `StopsForGood`
(`StopLasts`) and `HiddenRests` (`HiddenTabRests`). The inductive invariant
`TimersInv` adds that no timer is set while a start is under way
(`NothingBetween`), who is in charge of the timers (`Unmanaged`, `Managed`) and
that every timer has a cause (`Budget`, `Callbacks`), which bounds their number.

`RealtimeAuthProofs`, for any tokens, topics, number of calls and events:
`Invariance` (`RelayInv`), `TypeCorrect` (`TypeOK`), `JoinsLatest`
(`JoinsWithLatest`), `HandStands` (`HandSetStands`), `JoinedKnow`
(`JoinedKnowLatest`) and `LeftAlone` (`CallbackLeftAlone`). What a joined channel was
told is not inductive, because the join's answer turns what was sent into what was
told: `JoiningSendLatest` says the same of a join under way, and `RelayInv` is all of them. Every action touches
the token, the calls and the channels through few operators, so there is a lemma for
each of these (`setToken`, `begin`, a channel that joins, fails or is told), and the
actions follow from them. `LeftAlone` needs no invariant of the channels, but it is a
statement about every place that asks by itself, and `_setAuthSafely` is only one of them.

`SecureEdgeProofs`, for any number of calls, isolates and failures, any limit and any
window: `Invariance` (`EdgeInv`), `TypeCorrect` (`TypeOK`), `RunOnce` (`RunsOnce`)
and `LimitKept` (`LimitHolds`). The invariant has three parts, which have little to do
with one another; each step is shown to move one call, the memory or the table, and to
leave the others alone. How often a call ran follows from how far its request is
(`RequestsFit`): an answer that is no envelope, the one error after the request that
counts as of setup, comes only from a function that knows none. In memory, the list of
an isolate is the end of what it ever admitted, and what was pruned is a window old
(`MemoryFits`), so that a list with room means that the admission `Limit` places
before is over. For the table, the row counts the last admissions, of which the first made its
start; no earlier one came later, and all but the last `Limit - 1` of those before it came
a whole window earlier (`RowCounts`), so that `2 * Limit` in a row span a window; it needs that the check under way has read what the row still is
(`ChecksFit`), which overlapping checks break, and that a row is never deleted
(`RowStays`), which they do not.

The proofs rest only on the named assumptions of the modules: bounds are natural
numbers, and the constants that stand for nobody and nothing differ from those that
stand for somebody and something. TLC evaluates them, and has checked
each inductive invariant on the small instances.

Every invariant, every action property and both refinements that a passing run
checks are stated by a theorem. Only model-checked are the liveness properties,
because fairness and `ENABLED` are out of the prover's reach, and the five properties
the code violates.

## Not modelled

- `@supabase/phoenix`, the lock manager and the auth server are external; the latter
  two are modelled as far as the code uses them.
- Messages between tabs through `BroadcastChannel`, a separate user storage
  (`userStorage`), `resend`, `signInWithWeb3`, `getClaims`: left out of `AuthSession`. So is what subscribers are told: an emission, `INITIAL_SESSION`
  included, is an await that may throw, and nothing says which event came last. A separate
  user storage doubles each storage step.
- What `lockNoOp` allows beyond a theft: without a lock function, calls of two clients
  never wait for one another. One may pass another by (`Overtake`) once per fault.
- The identity of users in `updateUser` and `getUser`: a session stands for the user
  it belongs to.
- Reentrant calls from a callback, which the documentation forbids (2370).
- Clock skew and the expiry of sessions issued during a run, which live an hour.
- Admin, WebAuthn, Web3, presence, the query builders, the file methods and the
  command line tool: translations or pure I/O, see `PROJECT.json`.
- Example applications, tests, build scripts, generated types and the type-level query
  parser.
- Which requests the block list, the schemas and the allowlists of the edge templates
  refuse: a refusal is possible at each of these places. The request bodies that
  `SecureDbProxy`, `SecureAuthProxy` and `SecureSupabaseClient` build.
- The rest of realtime-js (bindings, messages, removal of channels) and the request
  pipelines: planned, steps 8 and 10.
