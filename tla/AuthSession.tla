----------------------------- MODULE AuthSession -----------------------------
(***************************************************************************)
(* The session of GoTrueClient: the auth clients of one storage key load,  *)
(* refresh, save and remove one stored session while their operations      *)
(* interleave at every await.  Most operations run inside the lock of the  *)
(* storage key, the sign-ins and the identity and factor operations do not.*)
(* The lock is ClientLock's over any lock function: it has one holder, but *)
(* navigatorLock takes it from a holder it waited for too long, an         *)
(* operation queued in its own client may start when the lock is already   *)
(* given back, and some clients have no lock function at all.  Whoever is  *)
(* inside _acquireLock without being the holder is astray.                 *)
(*                                                                         *)
(* An operation is a program counter over the awaits of its code.  The     *)
(* steps of __loadSession, _callRefreshToken, _saveSession, _removeSession *)
(* and _notifyAllSubscribers are shared by all of them; what is particular *)
(* to an operation is how it begins and what it does with the session it   *)
(* loaded ("body"), with an answer ("request") and after an error.         *)
(***************************************************************************)
EXTENDS Naturals, FiniteSets

CONSTANTS
    MaxClient,    \* bound on the clients with the same storage key
    MaxOp,        \* bound on the calls of their methods
    NoOp,         \* no operation
    NoSession,    \* nothing is stored
    Broken,       \* a stored value that is not a session
    Workloads,    \* bound: the sets of programs that run together
    MaxFam,       \* bound on sign-ins: families of refresh tokens
    MaxGen,       \* bound on rotations of one family
    MaxFaults     \* bound on lost messages, closed tabs, throwing callbacks, the lock's thefts and errors

ASSUME AuthSessionAssumption ==
    /\ MaxClient \in Nat /\ MaxOp \in Nat /\ NoOp \notin Nat
    /\ MaxFam \in Nat /\ MaxFam >= 2
    /\ MaxGen \in Nat /\ MaxFaults \in Nat
    /\ NoSession # Broken
    /\ {NoSession, Broken} \cap [fam : 1 .. MaxFam, gen : 0 .. MaxGen] = {}

VARIABLES
    op,           \* op[o]: what a call is and where it is, see OpState
    holder,       \* the operation inside the lock
    refreshing,   \* refreshing[c]: the operation that owns refreshingDeferred
    stored,       \* the session in storage
    verifier,     \* the code verifier in storage: the call that wrote it
    hour,         \* how close the access tokens the run starts with are to expiring
    autoRefreshToken,   \* the setting of the clients
    gen,          \* server: gen[f] is the generation of f that is current
    status,       \* server: status[f], whether f was issued and is not revoked
    faults,       \* how many of MaxFaults there were so far
    workload,     \* the programs of this run, chosen once
    robbed,       \* the initializations that navigatorLock rejected after a theft
    strayed,      \* history: an operation went on that was astray
    mishaps,      \* history: what happened that the lock does not order
    reused,       \* history: a rotated refresh token was sent again
    signedOut,    \* history: the families signOut removed
    refused       \* history: the tokens the server refused for good

server == <<gen, status>>
storage == <<stored, verifier>>
history == <<mishaps, reused, signedOut, refused>>
world == <<faults, workload, autoRefreshToken>>
theft == <<robbed, strayed>>
vars == <<op, holder, refreshing, storage, hour, server, world, history, theft>>

Op == 1 .. MaxOp            \* calls, numbered in the order they are made
Client == 1 .. MaxClient    \* numbered in the order of their first call
Fam == 1 .. MaxFam
Session == [fam : Fam, gen : 0 .. MaxGen]
Ages == {"fresh", "due", "expired"}      \* due: within the tick threshold
Mishaps == {"looseRefresh", "lost", "supplied", "closed", "threw"}
Errors == {"none", "retryable", "missing", "denied", "thrown"}

First == [fam |-> 1, gen |-> 0]          \* the session the run starts with
Foreign == [fam |-> 2, gen |-> 0]        \* one the app or the URL brings

\* The operations run inside _acquireLock, the rest run outside it.
InitPrograms == {"initialize", "urlToken", "urlCode"}
LockedPrograms == InitPrograms \cup
    {"getSession", "getUser", "updateUser", "setSession", "refreshSession",
     "refreshSupplied", "signOut", "signOutOthers", "read", "verify", "exchange",
     "tick", "recover"}
LooseSessionPrograms == {"initialSession", "use", "link", "linkOAuth"}
SignInPrograms == {"signIn", "signUp", "startFlow", "redirect", "getUserJwt"}
Programs == LockedPrograms \cup LooseSessionPrograms \cup SignInPrograms

\* The sessions issued during the run do not age in it.
AgeOf(s) == IF s \in {First, Foreign} THEN hour ELSE "fresh"

Idle == [kind |-> "none", home |-> NoOp, pc |-> "idle", got |-> NoSession,
         err |-> "none", back |-> "body", after |-> NoOp]

OpState ==
    [kind : Programs \cup {"none"}, home : Client \cup {NoOp},
     pc : {"idle", "lock", "queued", "load", "body", "verifier", "request", "rotating", "await",
           "refreshed", "stranded", "save1", "save2", "notify", "remove1", "remove2",
           "notifyOut", "dropVerifier", "removed", "timer", "done", "gone"},
     got : Session \cup {NoSession}, err : Errors,
     back : {"body", "refreshed", "dropVerifier", "removed"},
     after : Op \cup {NoOp}]      \* whom a queued call waits for

\* The programs that are _recoverAndRefresh, or become it.
Recovering == {"recover", "initialize", "urlCode"}

\* The programs that are given a session.
Supplying == {"setSession", "refreshSupplied", "getUserJwt", "urlToken"}

Init ==
    /\ workload \in Workloads
    /\ op = [o \in Op |-> Idle]
    /\ holder = NoOp
    /\ refreshing = [c \in Client |-> NoOp]
    /\ stored \in {NoSession, Broken, First}
    /\ verifier = NoOp
    /\ hour \in Ages
    /\ gen = [f \in Fam |-> 0]
    /\ status \in [Fam -> {"unused", "live", "revoked"}]
    /\ \A f \in Fam : (status[f] = "unused") <=> f > 2
    /\ "live" \in {status[1], status[2]}
    \* What nobody looks at is not varied.
    /\ stored # First => status[1] = "live"
    /\ hour = "due" => "tick" \in workload
    /\ workload \cap Supplying = {} =>
           status[2] = "live" /\ (stored # First => hour = "expired")
    /\ autoRefreshToken \in BOOLEAN
    /\ workload \cap Recovering = {} => autoRefreshToken
    /\ faults = 0 /\ robbed = {} /\ strayed = FALSE
    /\ mishaps = {} /\ reused = FALSE /\ signedOut = {} /\ refused = {}

Ended(o) == op[o].pc \in {"idle", "done", "gone"}
InRefresh(o) == op[o].kind # "none" /\ refreshing[op[o].home] = o

\* A refresh outside the lock, or of a token that was not loaded.
Refreshes(o) ==
    mishaps \cup (IF holder # o THEN {"looseRefresh"} ELSE {})
            \cup (IF op[o].kind \in {"setSession", "refreshSupplied"} THEN {"supplied"}
                                                                      ELSE {})
-----------------------------------------------------------------------------
(***************************************************************************)
(* How an operation moves, ends and waits for a refresh.                   *)
(***************************************************************************)
At(o, p) == op[o].pc = p

Go(o, p) == op' = [op EXCEPT ![o].pc = p]

GoWith(o, p, s) == op' = [op EXCEPT ![o].pc = p, ![o].got = s]

Fail(o, p, e) == op' = [op EXCEPT ![o].pc = p, ![o].got = NoSession, ![o].err = e]

\* The end of a call releases the lock it holds.
Release(o) == holder' = IF holder = o THEN NoOp ELSE holder

\* Whatever is thrown inside _recoverAndRefresh or _initialize is caught there.
Outcome(o, e) ==
    IF e = "thrown" /\ op[o].kind \in InitPrograms \cup {"recover"} THEN "denied" ELSE e

End(o, e) ==
    /\ op' = [op EXCEPT ![o].pc = "done", ![o].got = NoSession,
                        ![o].err = Outcome(o, e), ![o].back = "body"]
    /\ Release(o)

\* A call that never got to run.
Reject(o, e) ==
    /\ op' = [op EXCEPT ![o].pc = "done", ![o].got = NoSession, ![o].err = e]
    /\ UNCHANGED holder

\* A removal goes on at b afterwards.
RemoveThen(o, b, e) ==
    op' = [op EXCEPT ![o].pc = "remove1", ![o].back = b, ![o].got = NoSession,
                     ![o].err = e]

\* _callRefreshToken up to its first await; its result goes to b.  Mutant: the
\* check for a refresh in progress is gone.
CallRefreshToken_NoDedup(o, s, b) ==
    /\ mishaps' = Refreshes(o)
    /\ refreshing' = [refreshing EXCEPT ![op[o].home] = o]
    /\ op' = [op EXCEPT ![o].pc = "rotating", ![o].got = s, ![o].back = b]

\* _callRefreshToken up to its first await; its result goes to b.
CallRefreshToken(o, s, b) ==
    LET c == op[o].home IN
    /\ mishaps' = Refreshes(o)
    /\ IF refreshing[c] # NoOp
       THEN /\ op' = [op EXCEPT ![o].pc = "await", ![o].back = b]
            /\ UNCHANGED refreshing
       ELSE /\ refreshing' = [refreshing EXCEPT ![c] = o]
            /\ op' = [op EXCEPT ![o].pc = "rotating", ![o].got = s, ![o].back = b]

Sharers(o) == {o} \cup {x \in Op : op[x].home = op[o].home /\ At(x, "await")}

\* Mutant: an error leaves without settling the deferred.
Settle_OnlyOwner(o, s, e) ==
    /\ refreshing' = [refreshing EXCEPT ![op[o].home] = NoOp]
    /\ op' = [op EXCEPT ![o].pc = op[o].back, ![o].got = s, ![o].err = e]

\* The end of _callRefreshToken: refreshingDeferred settles for all who await it.
Settle(o, s, e) ==
    /\ refreshing' = [refreshing EXCEPT ![op[o].home] = NoOp]
    /\ op' = [x \in Op |->
                IF x \in Sharers(o)
                THEN [op[x] EXCEPT !.pc = op[x].back, !.got = s, !.err = e]
                ELSE op[x]]

\* The catch block left by an exception: nobody settles the deferred.
Abandon(o, e) ==
    /\ refreshing' = [refreshing EXCEPT ![op[o].home] = NoOp]
    /\ op' = [x \in Op |->
                IF x = o THEN [op[o] EXCEPT !.pc = op[o].back, !.got = NoSession, !.err = e]
                ELSE IF x \in Sharers(o) THEN [op[x] EXCEPT !.pc = "stranded"]
                ELSE op[x]]
-----------------------------------------------------------------------------
(***************************************************************************)
(* The calls.  Methods that run the same program differ in what they ask   *)
(* the server only.                                                        *)
(***************************************************************************)
NextCall(o) == op[o].kind = "none" /\ \A x \in Op : x < o => op[x].kind # "none"

NextClient(c) == c = 1 \/ \E x \in Op : op[x].home = c - 1

Begin(o, k, p, s) ==
    /\ NextCall(o) /\ k \in workload
    /\ \E c \in Client :
          /\ NextClient(c)
          /\ op' = [op EXCEPT ![o] = [Idle EXCEPT !.kind = k, !.home = c, !.pc = p,
                                                   !.got = s]]
    /\ UNCHANGED <<holder, refreshing, storage, hour, server, world, history, theft>>

\* The methods that first wait for the lock.
getSession(o) == Begin(o, "getSession", "lock", NoSession)
getUser(o) == Begin(o, "getUser", "lock", NoSession)
updateUser(o) == Begin(o, "updateUser", "lock", NoSession)
refreshSession(o) == Begin(o, "refreshSession", "lock", NoSession)
refreshSupplied(o) == Begin(o, "refreshSupplied", "lock", NoSession)
signOut(o) == Begin(o, "signOut", "lock", NoSession)
signOutOthers(o) == Begin(o, "signOutOthers", "lock", NoSession)
reauthenticate(o) == Begin(o, "read", "lock", NoSession)
challenge(o) == Begin(o, "read", "lock", NoSession)
verify(o) == Begin(o, "verify", "lock", NoSession)
exchangeCodeForSession(o) == Begin(o, "exchange", "lock", NoSession)
autoRefreshTokenTick(o) == Begin(o, "tick", "lock", NoSession)
recoverAndRefresh(o) == Begin(o, "recover", "lock", NoSession)
onAuthStateChange(o) == Begin(o, "initialSession", "lock", NoSession)

\* setSession with tokens the application kept.
setSession(o) == \E s \in {First, Foreign} : Begin(o, "setSession", "lock", s)

\* The first thing a client does, with or without a session in the URL.
initialize(o) ==
    /\ \E c \in Client :
          /\ NextClient(c)
          /\ \A x \in Op : op[x].home = c => op[x].kind \notin InitPrograms \/ At(x, "gone")
          /\ \E k \in InitPrograms \cap workload :
                op' = [op EXCEPT ![o] = [Idle EXCEPT !.kind = k, !.home = c, !.pc = "lock"]]
    /\ NextCall(o)
    /\ UNCHANGED <<holder, refreshing, storage, hour, server, world, history, theft>>

\* The methods that use the session outside the lock.
linkIdentityIdToken(o) == Begin(o, "link", "load", NoSession)
linkIdentityOAuth(o) == Begin(o, "linkOAuth", "load", NoSession)
unlinkIdentity(o) == Begin(o, "use", "load", NoSession)
enroll(o) == Begin(o, "use", "load", NoSession)
unenroll(o) == Begin(o, "use", "load", NoSession)

\* The methods that only ask the server, and perhaps store what it answers.
signInWithPassword(o) == Begin(o, "signIn", "request", NoSession)
signInAnonymously(o) == Begin(o, "signIn", "request", NoSession)
signInWithIdToken(o) == Begin(o, "signIn", "request", NoSession)
verifyOtp(o) == Begin(o, "signIn", "request", NoSession)
signUp(o) == Begin(o, "signUp", "verifier", NoSession)
signInWithOtp(o) == Begin(o, "startFlow", "verifier", NoSession)
signInWithSSO(o) == Begin(o, "startFlow", "verifier", NoSession)
resetPasswordForEmail(o) == Begin(o, "startFlow", "verifier", NoSession)
signInWithOAuth(o) == Begin(o, "redirect", "verifier", NoSession)
getUserJwt(o) == \E s \in {First, Foreign} : Begin(o, "getUserJwt", "request", s)

Call(o) ==
    \/ getSession(o) \/ getUser(o) \/ updateUser(o) \/ setSession(o)
    \/ refreshSession(o) \/ refreshSupplied(o) \/ signOut(o) \/ signOutOthers(o)
    \/ reauthenticate(o) \/ challenge(o) \/ verify(o) \/ exchangeCodeForSession(o)
    \/ autoRefreshTokenTick(o) \/ recoverAndRefresh(o) \/ onAuthStateChange(o)
    \/ initialize(o)
    \/ linkIdentityIdToken(o) \/ linkIdentityOAuth(o) \/ unlinkIdentity(o)
    \/ enroll(o) \/ unenroll(o)
    \/ signInWithPassword(o) \/ signInAnonymously(o) \/ signInWithIdToken(o)
    \/ verifyOtp(o) \/ signUp(o) \/ signInWithOtp(o) \/ signInWithSSO(o)
    \/ resetPasswordForEmail(o) \/ signInWithOAuth(o) \/ getUserJwt(o)
-----------------------------------------------------------------------------
(***************************************************************************)
(* The lock and initializePromise.                                         *)
(***************************************************************************)
Over(o) == op[o].pc \in {"timer", "done", "gone"}

Inits(o) == {x \in Op : op[x].home = op[o].home /\ op[x].kind \in InitPrograms}

\* Neither the tick nor the factor methods await initializePromise.
AwaitsInitialize(o) == op[o].kind \notin InitPrograms \cup {"tick", "verify", "read"}

\* initializePromise rejects when the lock is refused, or lost to a thief.
InitRejected(x) == x \in robbed \/ (At(x, "done") /\ op[x].err = "thrown")

Initialized(o) ==
    AwaitsInitialize(o) => \A x \in Inits(o) : Over(x) /\ ~InitRejected(x)

\* A call inside _acquireLock, whose callback runs while it is at an Inner place.
Inner == {"load", "body", "verifier", "request", "rotating", "await", "refreshed",
          "stranded", "save1", "save2", "notify", "remove1", "remove2", "notifyOut",
          "dropVerifier", "removed"}
Running(o) == op[o].kind \in LockedPrograms /\ op[o].pc \in Inner
Astray(o) == Running(o) /\ holder # o

\* o goes on from p.  History: whether it is astray.
Goes(o, p) ==
    /\ At(o, p)
    /\ strayed' = (strayed \/ Astray(o)) /\ UNCHANGED robbed

\* The callback of _acquireLock.  That of onAuthStateChange does not wait for
\* _emitInitialSession, which goes on without the lock.
Start(o) ==
    op' = [op EXCEPT ![o].pc = IF op[o].kind \in {"setSession", "exchange", "urlToken",
                                                  "urlCode"} THEN "body" ELSE "load",
                     ![o].after = NoOp]
HolderFrom(o) == IF op[o].kind = "initialSession" THEN NoOp ELSE o

\* Mutant: the lock is taken whether or not it is free.
Acquire_Unguarded(o) ==
    /\ Goes(o, "lock") /\ Initialized(o)
    /\ Start(o) /\ holder' = HolderFrom(o)
    /\ UNCHANGED <<refreshing, storage, hour, server, world, history>>

\* The lock is granted.
Acquire(o) ==
    /\ Goes(o, "lock") /\ holder = NoOp /\ Initialized(o)
    /\ Start(o) /\ holder' = HolderFrom(o)
    /\ UNCHANGED <<refreshing, storage, hour, server, world, history>>

\* A tick does not wait for the lock; processLock makes other calls wait for a while.
AcquireTimesOut(o) ==
    /\ Goes(o, "lock") /\ holder # NoOp /\ Initialized(o)
    /\ Reject(o, IF op[o].kind = "tick" THEN "none" ELSE "thrown")
    /\ UNCHANGED <<refreshing, storage, hour, server, world, history>>

\* The lock function rejects with an error of its own, whoever holds the lock: the
\* lock manager is not allowed in the document, or the application's lock fails.
LockFails(o) ==
    /\ Goes(o, "lock") /\ Initialized(o)
    /\ faults < MaxFaults /\ faults' = faults + 1
    /\ Reject(o, "thrown")
    /\ UNCHANGED <<refreshing, storage, hour, server, workload, autoRefreshToken, history>>

\* initializePromise rejected: every call that awaits it rejects.
InitializeRejected(o) ==
    /\ Goes(o, "lock") /\ AwaitsInitialize(o)
    /\ \E x \in Inits(o) : InitRejected(x)
    /\ Reject(o, "thrown")
    /\ UNCHANGED <<refreshing, storage, hour, server, world, history>>

\* While lockAcquired is set, a call of the client queues behind the last entry of
\* pendingInLock.
Queue(o) ==
    /\ Goes(o, "lock") /\ Initialized(o)
    /\ \E x \in Op : /\ op[x].home = op[o].home
                     /\ Running(x) \/ At(x, "queued")
                     /\ op' = [op EXCEPT ![o].pc = "queued", ![o].after = x]
    /\ UNCHANGED <<holder, refreshing, storage, hour, server, world, history>>

\* What it waited for is over.  The call runs in the lock of its client, or without
\* one: the holder rejected or lost the lock, or looked at the queue for the last
\* time before the call was in it.
LeaveQueue(o) ==
    /\ Goes(o, "queued") /\ Over(op[o].after)
    /\ Start(o)
    /\ \/ holder = NoOp /\ holder' = HolderFrom(o)
       \/ UNCHANGED holder
    /\ UNCHANGED <<refreshing, storage, hour, server, world, history>>

\* Between what the server did and the end of its writing down.
Unstored == {"save1", "save2", "remove1"}

\* navigatorLock takes the lock from a holder it waited for too long; a client
\* without a lock function does not look for other clients at all.  Either way
\* the former holder goes on.
Overtake(o) ==
    /\ At(o, "lock") /\ holder # NoOp /\ Initialized(o)
    /\ op[o].kind = "tick" => op[holder].home # op[o].home
    /\ faults < MaxFaults /\ faults' = faults + 1
    /\ Start(o) /\ holder' = HolderFrom(o)
    /\ strayed' = (strayed \/ op[holder].pc \in Unstored)
    /\ \/ UNCHANGED robbed
       \/ op[holder].kind \in InitPrograms /\ robbed' = robbed \cup {holder}
    /\ UNCHANGED <<refreshing, storage, hour, server, workload, autoRefreshToken, history>>
-----------------------------------------------------------------------------
(***************************************************************************)
(* __loadSession, and the reading half of _recoverAndRefresh.              *)
(***************************************************************************)
Recovers(o) == op[o].kind \in {"recover", "initialize"}

\* Mutant: with nothing in storage, a client refreshes the session it remembers.
LoadNothing_Remembers(o) ==
    /\ Goes(o, "load") /\ stored = NoSession
    /\ CallRefreshToken(o, First, "body")
    /\ UNCHANGED <<holder, storage, hour, server, world, reused, signedOut, refused>>

LoadNothing(o) ==
    /\ Goes(o, "load") /\ stored = NoSession
    /\ IF Recovers(o) THEN End(o, "none")
       ELSE GoWith(o, "body", NoSession) /\ UNCHANGED holder
    /\ UNCHANGED <<refreshing, storage, hour, server, world, history>>

LoadBroken(o) ==
    /\ Goes(o, "load") /\ stored = Broken
    /\ RemoveThen(o, IF Recovers(o) THEN "removed" ELSE "body", "none")
    /\ UNCHANGED <<holder, refreshing, storage, hour, server, world, history>>

LoadExpired(o) ==
    /\ Goes(o, "load") /\ stored \in Session /\ AgeOf(stored) = "expired"
    /\ Recovers(o) => autoRefreshToken
    /\ CallRefreshToken(o, stored, IF Recovers(o) THEN "refreshed" ELSE "body")
    /\ UNCHANGED <<holder, storage, hour, server, world, reused, signedOut, refused>>

\* Without auto refresh an expired session is neither recovered nor announced.
RecoverExpired(o) ==
    /\ Goes(o, "load") /\ stored \in Session /\ AgeOf(stored) = "expired"
    /\ Recovers(o) /\ ~autoRefreshToken
    /\ End(o, "none")
    /\ UNCHANGED <<refreshing, storage, hour, server, world, history>>

LoadValid(o) ==
    /\ Goes(o, "load") /\ stored \in Session /\ AgeOf(stored) # "expired"
    /\ ~Recovers(o)
    /\ GoWith(o, "body", stored)
    /\ UNCHANGED <<holder, refreshing, storage, hour, server, world, history>>

\* A recovered session is announced, or first completed with its user.
RecoverValid(o) ==
    /\ Goes(o, "load") /\ stored \in Session /\ AgeOf(stored) # "expired"
    /\ Recovers(o)
    /\ GoWith(o, "notify", stored) \/ GoWith(o, "request", stored)
    /\ UNCHANGED <<holder, refreshing, storage, hour, server, world, history>>
-----------------------------------------------------------------------------
(***************************************************************************)
(* _callRefreshToken and _refreshAccessToken.                              *)
(***************************************************************************)
Revoked(s) == status[s.fam] # "live"

\* Mutant: what is saved after a rotation is the token that was sent.
RefreshRotates_SavesOld(o) ==
    LET s == op[o].got IN
    /\ Goes(o, "rotating") /\ ~Revoked(s)
    /\ gen[s.fam] = s.gen /\ s.gen < MaxGen
    /\ gen' = [gen EXCEPT ![s.fam] = s.gen + 1]
    /\ GoWith(o, "save1", s)
    /\ UNCHANGED <<holder, refreshing, storage, hour, status, world, history>>

\* The server rotates the current token of a family.
RefreshRotates(o) ==
    LET s == op[o].got IN
    /\ Goes(o, "rotating") /\ ~Revoked(s)
    /\ gen[s.fam] = s.gen /\ s.gen < MaxGen
    /\ gen' = [gen EXCEPT ![s.fam] = s.gen + 1]
    /\ GoWith(o, "save1", [s EXCEPT !.gen = s.gen + 1])
    /\ UNCHANGED <<holder, refreshing, storage, hour, status, world, history>>

\* A token that was rotated: the server answers with the current one, or takes
\* the whole family for stolen.
RefreshReuses(o) ==
    LET s == op[o].got IN
    /\ Goes(o, "rotating") /\ ~Revoked(s) /\ gen[s.fam] > s.gen
    /\ reused' = TRUE
    /\ \/ /\ GoWith(o, "save1", [s EXCEPT !.gen = gen[s.fam]])
          /\ UNCHANGED <<status, refused>>
       \/ /\ status' = [status EXCEPT ![s.fam] = "revoked"]
          /\ refused' = refused \cup {s}
          /\ Fail(o, "remove1", "denied")
    /\ UNCHANGED <<holder, refreshing, storage, hour, gen, world, mishaps, signedOut>>

\* Mutant: a refused token ends the refresh, but the session stays.
RefreshRefused_Keeps(o) ==
    LET s == op[o].got IN
    /\ Goes(o, "rotating")
    /\ refused' = refused \cup {s}
    /\ \/ Settle(o, NoSession, "denied")
       \/ Revoked(s) /\ Settle(o, NoSession, "missing")
    /\ UNCHANGED <<holder, storage, hour, server, world, mishaps, reused, signedOut>>

\* Any error that is not a network error is final, also a rate limit.
RefreshRefused(o) ==
    LET s == op[o].got IN
    /\ Goes(o, "rotating")
    /\ refused' = refused \cup {s}
    /\ \/ Fail(o, "remove1", "denied")
       \/ Revoked(s) /\ Fail(o, "remove1", "missing")
    /\ UNCHANGED <<holder, refreshing, storage, hour, server, world, mishaps, reused,
                   signedOut>>

\* The network fails before or after the server acts.  _refreshAccessToken
\* sends the same token again, or gives up when the tick is over.
RefreshLost(o) ==
    LET s == op[o].got IN
    /\ Goes(o, "rotating") /\ faults < MaxFaults
    /\ faults' = faults + 1
    /\ \/ UNCHANGED <<gen, mishaps>>
       \/ /\ ~Revoked(s) /\ gen[s.fam] = s.gen /\ s.gen < MaxGen
          /\ gen' = [gen EXCEPT ![s.fam] = s.gen + 1]
          /\ mishaps' = mishaps \cup {"lost"}
    /\ \/ Settle(o, NoSession, "retryable")
       \/ UNCHANGED <<op, refreshing>>
    /\ UNCHANGED <<holder, storage, hour, status, workload, autoRefreshToken, reused,
                   signedOut, refused>>

\* What setSession, refreshSession, the tick and _recoverAndRefresh do with
\* the result.  _recoverAndRefresh removes the session a second time.
Refreshed(o) ==
    /\ Goes(o, "refreshed")
    /\ IF Recovers(o) /\ op[o].err \in {"missing", "denied"}
       THEN RemoveThen(o, "removed", op[o].err) /\ UNCHANGED holder
       ELSE End(o, op[o].err)
    /\ UNCHANGED <<refreshing, storage, hour, server, world, history>>
-----------------------------------------------------------------------------
(***************************************************************************)
(* _saveSession, _removeSession, _notifyAllSubscribers.                    *)
(***************************************************************************)
\* The callers that forget the code verifier when they fail.
Forgetful == {"updateUser", "link", "signUp", "startFlow", "exchange", "urlCode"}

\* Mutant: a failed call leaves the code verifier it stored.
FailOver_Keeps(o, e) == End(o, e)

FailOver(o, e) ==
    IF op[o].kind \in Forgetful THEN Fail(o, "dropVerifier", e) /\ UNCHANGED holder
                                ELSE End(o, e)

Save1(o) ==
    /\ Goes(o, "save1")
    /\ verifier' = NoOp
    /\ Go(o, "save2")
    /\ UNCHANGED <<holder, refreshing, stored, hour, server, world, history>>

\* The session of a URL is announced by a timer, when initialize has ended.
Save2(o) ==
    /\ Goes(o, "save2")
    /\ stored' = op[o].got
    /\ IF op[o].kind = "urlToken" THEN Go(o, "timer") /\ Release(o)
                                  ELSE Go(o, "notify") /\ UNCHANGED holder
    /\ UNCHANGED <<refreshing, verifier, hour, server, world, history>>

\* A subscriber's callback throws, or rejects.
Throws ==
    /\ faults < MaxFaults /\ faults' = faults + 1
    /\ mishaps' = mishaps \cup {"threw"}
    /\ UNCHANGED <<storage, hour, server, workload, autoRefreshToken, reused, signedOut,
                   refused>>

\* The subscribers have been told.  The code exchange of initialize saves its
\* session again.
SaidSignedIn(o) ==
    /\ Goes(o, "notify")
    /\ IF InRefresh(o) THEN Settle(o, op[o].got, "none") /\ UNCHANGED holder
       ELSE /\ IF op[o].kind = "urlCode"
               THEN /\ op' = [op EXCEPT ![o].pc = "save1", ![o].kind = "urlToken"]
                    /\ UNCHANGED holder
               ELSE End(o, "none")
            /\ UNCHANGED refreshing
    /\ UNCHANGED <<storage, hour, server, world, history>>

\* A callback threw: inside _callRefreshToken an AuthError of the app passes for
\* a refused token.
SignedInThrew(o) ==
    /\ Goes(o, "notify") /\ Throws
    /\ \/ /\ InRefresh(o)
          /\ \/ Settle(o, NoSession, "thrown")
             \/ Fail(o, "remove1", "denied") /\ UNCHANGED refreshing
          /\ UNCHANGED holder
       \/ /\ ~InRefresh(o)
          /\ FailOver(o, "thrown")
          /\ UNCHANGED refreshing

TimerFires(o) ==
    /\ Goes(o, "timer")
    /\ End(o, "none")
    /\ UNCHANGED <<refreshing, storage, hour, server, world, history>>

Remove1(o) ==
    /\ Goes(o, "remove1")
    /\ stored' = NoSession
    /\ Go(o, "remove2")
    /\ UNCHANGED <<holder, refreshing, verifier, hour, server, world, history>>

Remove2(o) ==
    /\ Goes(o, "remove2")
    /\ verifier' = NoOp
    /\ Go(o, "notifyOut")
    /\ UNCHANGED <<holder, refreshing, stored, hour, server, world, history>>

SaidSignedOut(o) ==
    /\ Goes(o, "notifyOut")
    /\ IF InRefresh(o) THEN Settle(o, NoSession, op[o].err)
                       ELSE Go(o, op[o].back) /\ UNCHANGED refreshing
    /\ UNCHANGED <<holder, storage, hour, server, world, history>>

\* A callback threw: in the catch block of _callRefreshToken that leaves the
\* deferred unsettled.
SignedOutThrew(o) ==
    /\ Goes(o, "notifyOut") /\ Throws
    /\ IF InRefresh(o) THEN Abandon(o, "thrown") /\ UNCHANGED holder
                       ELSE FailOver(o, "thrown") /\ UNCHANGED refreshing

\* The end of a removal, and the last removal of the code verifier.
Removed(o) ==
    /\ Goes(o, "removed")
    /\ End(o, op[o].err)
    /\ UNCHANGED <<refreshing, storage, hour, server, world, history>>

DropVerifier(o) ==
    /\ Goes(o, "dropVerifier")
    /\ verifier' = NoOp
    /\ End(o, op[o].err)
    /\ UNCHANGED <<refreshing, stored, hour, server, world, history>>
-----------------------------------------------------------------------------
(***************************************************************************)
(* What the calls do with the session they loaded.                         *)
(***************************************************************************)
InBody(o, kinds) ==
    /\ Goes(o, "body") /\ op[o].kind \in kinds
    /\ UNCHANGED <<storage, hour, server, world>>

Ok(o) == op[o].err = "none"
HasSession(o) == op[o].got \in Session

getSessionBody(o) ==
    /\ InBody(o, {"getSession", "initialSession"})
    /\ End(o, op[o].err)
    /\ UNCHANGED <<refreshing, history>>

\* _getUser removes the session when the error says that it is gone.
getUserBody(o) ==
    /\ InBody(o, {"getUser"})
    /\ IF op[o].err = "missing"
       THEN RemoveThen(o, "dropVerifier", "missing") /\ UNCHANGED holder
       ELSE IF Ok(o) /\ HasSession(o) THEN Go(o, "request") /\ UNCHANGED holder
       ELSE End(o, IF Ok(o) THEN "missing" ELSE op[o].err)
    /\ UNCHANGED <<refreshing, history>>

\* With the PKCE flow a new email starts a flow.
updateUserBody(o) ==
    /\ InBody(o, {"updateUser"})
    /\ IF Ok(o) /\ HasSession(o) THEN Go(o, "request") \/ Go(o, "verifier")
       ELSE Fail(o, "dropVerifier", IF Ok(o) THEN "missing" ELSE op[o].err)
    /\ UNCHANGED <<holder, refreshing, history>>

\* Tokens whose access token has expired are refreshed, others are checked.
setSessionBody(o) ==
    /\ InBody(o, {"setSession"})
    /\ \/ /\ AgeOf(op[o].got) = "expired"
          /\ CallRefreshToken(o, op[o].got, "refreshed")
          /\ UNCHANGED <<reused, signedOut, refused>>
       \/ /\ Go(o, "request")
          /\ mishaps' = mishaps \cup {"supplied"}
          /\ UNCHANGED <<refreshing, reused, signedOut, refused>>
    /\ UNCHANGED holder

refreshSessionBody(o) ==
    /\ InBody(o, {"refreshSession"})
    /\ IF Ok(o) /\ HasSession(o)
       THEN /\ CallRefreshToken(o, op[o].got, "refreshed")
            /\ UNCHANGED <<holder, reused, signedOut, refused>>
       ELSE /\ End(o, IF Ok(o) THEN "missing" ELSE op[o].err)
            /\ UNCHANGED <<refreshing, history>>

\* refreshSession with a token of the application, whatever was loaded.
refreshSuppliedBody(o) ==
    /\ InBody(o, {"refreshSupplied"})
    /\ IF op[o].err = "thrown" THEN End(o, "thrown") /\ UNCHANGED <<refreshing, history>>
       ELSE /\ \E s \in {First, Foreign} : CallRefreshToken(o, s, "refreshed")
            /\ UNCHANGED <<holder, reused, signedOut, refused>>

\* The signed-out session, once signOut has decided to remove it.
Forget(o) ==
    /\ RemoveThen(o, "dropVerifier", "none")
    /\ signedOut' = IF HasSession(o) THEN signedOut \cup {op[o].got.fam} ELSE signedOut
    /\ UNCHANGED <<mishaps, reused, refused>>

signOutBody(o) ==
    /\ InBody(o, {"signOut", "signOutOthers"})
    /\ IF op[o].err \notin {"none", "missing"} THEN End(o, op[o].err) /\ UNCHANGED history
       ELSE IF HasSession(o) THEN Go(o, "request") /\ UNCHANGED <<holder, history>>
       ELSE IF op[o].kind = "signOut" THEN Forget(o) /\ UNCHANGED holder
       ELSE End(o, "none") /\ UNCHANGED history
    /\ UNCHANGED refreshing

\* Factor and identity methods: some ask the server even without a session.
useSessionBody(o) ==
    /\ InBody(o, {"read", "use", "verify"})
    /\ IF ~Ok(o) THEN End(o, op[o].err)
       ELSE \/ Go(o, "request") /\ UNCHANGED holder
            \/ ~HasSession(o) /\ op[o].kind = "read" /\ End(o, "missing")
    /\ UNCHANGED <<refreshing, history>>

linkIdentityBody(o) ==
    /\ InBody(o, {"link", "linkOAuth"})
    /\ IF ~Ok(o) THEN FailOver(o, op[o].err)
       ELSE /\ Go(o, IF op[o].kind = "link" THEN "request" ELSE "verifier")
            /\ UNCHANGED holder
    /\ UNCHANGED <<refreshing, history>>

\* Without a code verifier the PKCE flow cannot be finished; a URL with a code
\* is then no callback at all.
exchangeBody(o) ==
    /\ InBody(o, {"exchange", "urlCode"})
    /\ IF verifier # NoOp THEN Go(o, "request")
       ELSE IF op[o].kind = "exchange" THEN Fail(o, "dropVerifier", "denied")
       ELSE op' = [op EXCEPT ![o].kind = "initialize", ![o].pc = "load"]
    /\ UNCHANGED <<holder, refreshing, history>>

\* The tokens of an implicit grant are checked with the server.
urlTokenBody(o) ==
    /\ InBody(o, {"urlToken"})
    /\ GoWith(o, "request", Foreign)
    /\ mishaps' = mishaps \cup {"supplied"}
    /\ UNCHANGED <<holder, refreshing, reused, signedOut, refused>>

\* The tick refreshes what expires within its threshold.
tickBody(o) ==
    /\ InBody(o, {"tick"})
    /\ IF HasSession(o) /\ AgeOf(op[o].got) # "fresh"
       THEN /\ CallRefreshToken(o, op[o].got, "refreshed")
            /\ UNCHANGED <<holder, reused, signedOut, refused>>
       ELSE End(o, "none") /\ UNCHANGED <<refreshing, history>>
-----------------------------------------------------------------------------
(***************************************************************************)
(* Requests other than the refresh.                                        *)
(***************************************************************************)
\* A code verifier is stored before the request that starts its flow.
StoreVerifier(o) ==
    /\ Goes(o, "verifier")
    /\ verifier' = o
    /\ IF op[o].kind = "redirect" THEN End(o, "none")
       ELSE Go(o, "request") /\ UNCHANGED holder
    /\ UNCHANGED <<refreshing, stored, hour, server, world, history>>

InRequest(o, kinds) == Goes(o, "request") /\ op[o].kind \in kinds

LiveToken(o) == HasSession(o) /\ ~Revoked(op[o].got)

\* The answer changes nothing on this side.
Answered(o) ==
    /\ \/ /\ InRequest(o, {"getUser", "getUserJwt", "read", "use", "signOutOthers"})
          /\ LiveToken(o)
       \/ InRequest(o, {"startFlow", "signUp", "linkOAuth"})
    /\ End(o, "none")
    /\ UNCHANGED <<refreshing, storage, hour, server, world, history>>

\* The answer confirms the session of the call, which is then stored (again).
AnsweredUser(o) ==
    /\ InRequest(o, {"updateUser", "setSession", "urlToken", "recover", "initialize"})
    /\ LiveToken(o)
    /\ Go(o, "save1")
    /\ UNCHANGED <<holder, refreshing, storage, hour, server, world, history>>

\* The answer carries a new session.
AnsweredSession(o) ==
    /\ InRequest(o, {"signIn", "signUp", "link", "exchange", "urlCode"})
    /\ \E f \in Fam :
          /\ status[f] = "unused" /\ \A x \in Fam : x < f => status[x] # "unused"
          /\ status' = [status EXCEPT ![f] = "live"]
          /\ GoWith(o, "save1", [fam |-> f, gen |-> 0])
    /\ UNCHANGED <<holder, refreshing, storage, hour, gen, world, history>>

\* A verified factor comes with new tokens of the same family.
AnsweredVerify(o) ==
    LET f == op[o].got.fam IN
    /\ InRequest(o, {"verify"}) /\ LiveToken(o) /\ gen[f] < MaxGen
    /\ gen' = [gen EXCEPT ![f] = gen[f] + 1]
    /\ GoWith(o, "save1", [fam |-> f, gen |-> gen[f] + 1])
    /\ UNCHANGED <<holder, refreshing, storage, hour, status, world, history>>

AnsweredSignOut(o) ==
    /\ InRequest(o, {"signOut"}) /\ LiveToken(o)
    /\ status' = [status EXCEPT ![op[o].got.fam] = "revoked"]
    /\ Forget(o)
    /\ UNCHANGED <<holder, refreshing, storage, hour, gen, world>>

\* The server acts but its answer is lost.
AnswerLost(o) ==
    /\ InRequest(o, {"verify", "signOut"}) /\ LiveToken(o)
    /\ faults < MaxFaults /\ gen[op[o].got.fam] < MaxGen
    /\ faults' = faults + 1
    /\ mishaps' = mishaps \cup {"lost"}
    /\ IF op[o].kind = "signOut"
       THEN status' = [status EXCEPT ![op[o].got.fam] = "revoked"] /\ UNCHANGED gen
       ELSE gen' = [gen EXCEPT ![op[o].got.fam] = @ + 1] /\ UNCHANGED status
    /\ End(o, "retryable")
    /\ UNCHANGED <<refreshing, storage, hour, workload, autoRefreshToken, reused,
                   signedOut, refused>>

\* signOut does not mind that the server no longer knows the session.
SignOutFails(o) ==
    /\ InRequest(o, {"signOut"})
    /\ \/ Forget(o) /\ UNCHANGED holder
       \/ \E e \in {"retryable", "denied"} : End(o, e) /\ UNCHANGED history
    /\ UNCHANGED <<refreshing, storage, hour, server, world>>

\* _getUser: the session of the access token is gone, so the stored one goes.
ChecksUser == {"getUser", "getUserJwt", "setSession", "urlToken", "recover", "initialize"}

GetUserMissing(o) ==
    /\ InRequest(o, ChecksUser) /\ Revoked(op[o].got)
    /\ RemoveThen(o, "dropVerifier", "missing")
    /\ UNCHANGED <<holder, refreshing, storage, hour, server, world, history>>

RequestFails(o) ==
    /\ Goes(o, "request") /\ op[o].kind # "signOut"
    /\ \E e \in {"retryable", "denied"} : FailOver(o, e)
    /\ UNCHANGED <<refreshing, storage, hour, server, world, history>>
-----------------------------------------------------------------------------
\* Time passes; a session that is due is one the run starts with.
HourPasses ==
    /\ hour # "expired" /\ hour' = "expired"
    /\ UNCHANGED <<op, holder, refreshing, storage, server, world, history, theft>>

\* A tab closes: its calls are gone, and so is its lock.
Close(c) ==
    /\ faults < MaxFaults
    /\ faults' = faults + 1
    /\ \E o \in Op : op[o].home = c /\ ~Ended(o)
    /\ op' = [o \in Op |-> IF op[o].home = c
                           THEN [Idle EXCEPT !.kind = op[o].kind, !.home = c, !.pc = "gone"]
                           ELSE op[o]]
    /\ holder' = IF holder \in Op /\ op[holder].home = c THEN NoOp ELSE holder
    /\ refreshing' = [refreshing EXCEPT ![c] = NoOp]
    /\ mishaps' = mishaps \cup {"closed"}
    /\ UNCHANGED <<storage, hour, server, workload, autoRefreshToken, reused, signedOut,
                   refused, theft>>

Body(o) ==
    \/ getSessionBody(o) \/ getUserBody(o) \/ updateUserBody(o) \/ setSessionBody(o)
    \/ refreshSessionBody(o) \/ refreshSuppliedBody(o) \/ signOutBody(o)
    \/ useSessionBody(o) \/ linkIdentityBody(o) \/ exchangeBody(o) \/ urlTokenBody(o)
    \/ tickBody(o)

Ask(o) ==
    \/ StoreVerifier(o) \/ Answered(o) \/ AnsweredUser(o) \/ AnsweredSession(o)
    \/ AnsweredVerify(o) \/ AnsweredSignOut(o) \/ SignOutFails(o) \/ GetUserMissing(o)
    \/ RequestFails(o)

Helpers(o) ==
    \/ Acquire(o) \/ AcquireTimesOut(o) \/ InitializeRejected(o) \/ Queue(o) \/ LeaveQueue(o)
    \/ LoadNothing(o) \/ LoadBroken(o) \/ LoadExpired(o) \/ RecoverExpired(o)
    \/ LoadValid(o) \/ RecoverValid(o)
    \/ RefreshRotates(o) \/ RefreshReuses(o) \/ RefreshRefused(o) \/ Refreshed(o)
    \/ Save1(o) \/ Save2(o) \/ SaidSignedIn(o) \/ TimerFires(o)
    \/ Remove1(o) \/ Remove2(o) \/ SaidSignedOut(o)
    \/ Removed(o) \/ DropVerifier(o)

Step(o) == Helpers(o) \/ Body(o) \/ Ask(o)

\* What nobody is obliged to do.
Fault(o) ==
    \/ LockFails(o) \/ RefreshLost(o) \/ AnswerLost(o)
    \/ SignedInThrew(o) \/ SignedOutThrew(o)

Next ==
    \/ \E o \in Op : Call(o) \/ Step(o) \/ Fault(o) \/ Overtake(o)
    \/ HourPasses
    \/ \E c \in Client : Close(c)

Spec == Init /\ [][Next]_vars

\* A call that can go on does: the browser runs its continuations, and every
\* request is answered or fails.
FairSpec == Spec /\ \A o \in Op : WF_vars(Step(o))
-----------------------------------------------------------------------------
TypeOK ==
    /\ op \in [Op -> OpState]
    /\ holder \in Op \cup {NoOp}
    /\ refreshing \in [Client -> Op \cup {NoOp}]
    /\ stored \in Session \cup {NoSession, Broken}
    /\ verifier \in Op \cup {NoOp}
    /\ hour \in Ages
    /\ gen \in [Fam -> 0 .. MaxGen]
    /\ status \in [Fam -> {"unused", "live", "revoked"}]
    /\ faults \in 0 .. MaxFaults /\ workload \in Workloads
    /\ autoRefreshToken \in BOOLEAN /\ robbed \subseteq Op /\ strayed \in BOOLEAN
    /\ mishaps \subseteq Mishaps
    /\ reused \in BOOLEAN /\ signedOut \subseteq Fam /\ refused \subseteq Session

\* A client has at most one refresh in flight, and refreshingDeferred is its own:
\* whoever awaits has somebody to wait for (_callRefreshToken).
SingleFlight ==
    \A c \in Client :
        /\ Cardinality({o \in Op : op[o].home = c /\ At(o, "rotating")}) <= 1
        /\ (\E o \in Op : op[o].home = c /\ op[o].pc \in {"rotating", "await"})
              => refreshing[c] # NoOp /\ op[refreshing[c]].home = c

\* The refreshes run under the lock with what they loaded, and whoever lost the
\* lock, or never had it, does not go on.
Ordered == mishaps \cap {"looseRefresh", "supplied", "closed"} = {} /\ ~strayed

\* Refresh tokens are used once, whatever the clients of a storage key do, as long
\* as every answer arrives: the lock, the load inside it and the save before its
\* release add up to that.  A lock that is taken from a holder that hangs does no
\* harm, unless the holder had an answer it did not store yet, or goes on.
TokensUsedOnce == Ordered /\ "lost" \notin mishaps => ~reused

\* A session that signOut removed does not come back by itself, also when a
\* refresh or an update of it was under way in another tab.  (It may, when that
\* refresh runs without the lock, or goes on after it lost the lock.)
SignedOutStays ==
    Ordered /\ stored \in Session /\ stored.fam \in signedOut
        => \E o \in Op : op[o].kind = "signOut" /\ At(o, "remove1")

\* A token the server refused for good does not stay in storage, where every
\* tick would send it again (_callRefreshToken removes the session); no sign-in
\* outside the lock can bring it back, nor can a lost answer.
RefusedIsForgotten ==
    Ordered /\ stored \in refused => \E o \in Op : At(o, "remove1")

\* A call that failed leaves no code verifier of its own behind for a later code
\* exchange to pick up.  (linkIdentity with OAuth does: it has no such clean-up.)
FailedFlowLeavesNoVerifier ==
    \A o \in Op :
        verifier = o /\ At(o, "done") /\ op[o].err # "none" => op[o].kind = "linkOAuth"

(***************************************************************************)
(* What every step keeps, from which the invariants above follow.          *)
(***************************************************************************)
Saving == {"save1", "save2"}
Refreshings == {"rotating", "save1", "save2", "notify", "remove1", "remove2", "notifyOut"}

\* A call that was not made is idle; one that rotates, saves or announces has a
\* session; one that brings its session does not load another.
Starters == {"updateUser", "linkOAuth", "signUp", "startFlow", "redirect"}

Fits(r) ==
    /\ (r.kind = "none" \/ r.home = NoOp \/ r.pc = "idle") => r = Idle
    /\ r.pc \in Saving \cup {"rotating", "notify"} => r.got \in Session
    /\ r.pc \in {"remove1", "remove2", "notifyOut"} => r.got = NoSession
    /\ r.pc = "load" => r.kind \notin {"setSession", "exchange", "urlToken", "urlCode"}
    /\ r.pc \in {"lock", "queued"} => /\ r.kind \in LockedPrograms \cup {"initialSession"}
                                      /\ r.got # NoSession => r.kind = "setSession"
    /\ r.pc = "queued" => r.after # NoOp
    /\ r.pc = "verifier" => r.kind \in Starters

RecordsFit == \A o \in Op : Fits(op[o])

\* The lock belongs to a call whose callback runs.
LockFits == holder # NoOp => Running(holder)

\* refreshingDeferred belongs to a call of its client that is between the refresh
\* and the announcement; nobody rotates or waits without it.
RefreshFits ==
    /\ \A c \in Client : refreshing[c] # NoOp =>
          LET r == op[refreshing[c]] IN
          r.home = c /\ r.pc \in Refreshings /\ r.kind # "urlToken"
    /\ \A o \in Op :
          /\ At(o, "rotating") => refreshing[op[o].home] = o
          /\ At(o, "await") => refreshing[op[o].home] # NoOp

\* The call that wrote the code verifier still has it ahead of it to use or to
\* remove it, unless it ended without an error.
Keeps(r) ==
    \/ r.kind = "linkOAuth"
    \/ r.pc = "request" /\ r.kind \in Forgetful
    \/ r.pc \in {"save1", "dropVerifier", "gone"}
    \/ r.pc = "done" /\ r.err = "none"

VerifierFits == verifier # NoOp => Keeps(op[verifier])

\* The part of the invariant that is about where the calls are.
ControlInv == TypeOK /\ RecordsFit /\ LockFits /\ RefreshFits /\ VerifierFits

\* Every session anybody has was issued.
Issued(s) == s \in Session => status[s.fam] # "unused"

SessionsIssued ==
    /\ status[1] # "unused" /\ status[2] # "unused"
    /\ \A f \in Fam : status[f] = "unused" => gen[f] = 0 /\ f \notin signedOut
    /\ Issued(stored)
    /\ \A o \in Op : Issued(op[o].got)
    /\ \A s \in refused : Issued(s)

\* Then nobody shares a refresh, but with one that lost the lock, no session of the
\* application is stored, and nobody is astray with something to write down.
OrderFits ==
    Ordered =>
        /\ \A c \in Client :
              refreshing[c] \in {NoOp, holder} \/ Astray(refreshing[c])
        /\ \A o \in Op :
              /\ At(o, "await") => Astray(refreshing[op[o].home])
              /\ Astray(o) => op[o].pc \notin Unstored
              /\ op[o].kind = "setSession" =>
                    op[o].pc \in {"lock", "queued", "body", "done", "gone"}

\* A sign-in saves outside the lock, but a session that nobody else has.
Apart(o, s) == s \in Session => s.fam # op[o].got.fam

LooseSavesAreNew ==
    Ordered =>
        \A o \in Op : op[o].pc \in Saving /\ holder # o =>
            /\ op[o].got.fam > 2 /\ op[o].got.gen = gen[op[o].got.fam]
            /\ Apart(o, stored)
            /\ \A x \in Op : x # o => Apart(o, op[x].got)

\* A call under the lock that has the session it loaded or was issued.
Carrying == {"body", "verifier", "request", "rotating", "save1", "save2", "notify"}

Carries(o) ==
    /\ holder = o /\ op[o].pc \in Carrying /\ op[o].kind # "setSession"
    /\ op[o].got \in Session

\* A family that was signed out or refused is removed from storage at once and
\* nobody is left to save it again.
DeadStayDead ==
    Ordered =>
        \A f \in signedOut \cup {s.fam : s \in refused} :
            /\ stored \in Session /\ stored.fam = f =>
                  \E o \in Op :
                     /\ holder = o /\ At(o, "remove1")
                     /\ f \in signedOut => op[o].kind = "signOut"
            /\ \A o \in Op : Carries(o) \/ op[o].pc \in Saving => op[o].got.fam # f

\* Storage and the call under the lock have the current token of their family,
\* until a rotated token is saved.
Current(s) == s \in Session => s.gen = gen[s.fam]

TokensCurrent ==
    Ordered /\ "lost" \notin mishaps =>
        /\ ~reused
        /\ \/ Current(stored)
           \/ \E o \in Op : holder = o /\ op[o].pc \in Saving /\ ~Apart(o, stored)
        /\ \A o \in Op : Carries(o) => Current(op[o].got)

\* All of it together is inductive: whatever the state, as long as the lock, the
\* refresh in flight, the sessions of the calls and the tokens fit, they do after
\* every step of __loadSession, _callRefreshToken, _saveSession, _removeSession and
\* the methods around them.
SessionInv ==
    /\ ControlInv /\ SessionsIssued /\ OrderFits /\ LooseSavesAreNew
    /\ DeadStayDead /\ TokensCurrent

\* No call hangs, whatever is refused, lost or closed.  (A subscriber that throws
\* can leave refreshingDeferred unsettled for those who share a refresh.)
EveryCallEnds ==
    []<>(\A o \in Op : Ended(o) \/ "threw" \in mishaps)

\* GoTrueClient.ts:515: "Don't remove existing session on URL login failure.  A
\* failed attempt (e.g. reused magic link) shouldn't invalidate a valid session."
FailedUrlLoginKeepsSession ==
    [][\A o \in Op :
          /\ op[o].kind = "urlToken" /\ At(o, "remove1") /\ op'[o].pc = "remove2"
          /\ stored \in Session /\ ~Revoked(stored) /\ AgeOf(stored) = "fresh"
          => stored' = stored]_vars
=============================================================================
