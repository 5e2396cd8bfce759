----------------------------- MODULE ClientLock -----------------------------
(***************************************************************************)
(* GoTrueClient._acquireLock: how the operations of the auth clients of    *)
(* one storage key are serialised.  A client that does not hold the lock   *)
(* asks the lock function for it (the "holder" operation).  While it has   *)
(* it, further operations of the same client do not ask again: they queue  *)
(* in pendingInLock behind one another, and the holder drains that queue   *)
(* before it lets go of the lock.                                          *)
(*                                                                         *)
(* The lock function is LockFunc, the contract ProcessLock and             *)
(* NavigatorLock implement, or no lock at all (lockNoOp).                  *)
(***************************************************************************)
EXTENDS Naturals, Sequences, SequencesExt

CONSTANTS
    Client,     \* clients with the same storage key (tabs, instances)
    Op,         \* operations handed to _acquireLock
    NoOp        \* no operation

ASSUME ClientLockAssumption == NoOp \notin Op

VARIABLES
    owner,          \* owner[o]: the client o belongs to, once called
    lockAcquired,   \* lockAcquired[c]: the flag of client c
    pendingInLock,  \* pendingInLock[c]: the queue of client c
    fn,             \* fn[o]: the promise of the operation itself
    callback,       \* callback[o]: the progress of the lock callback of o
    waitOn,         \* waitOn[o]: what the draining holder o awaits
    waitFor,        \* waitFor[o]: the queue entry a queued operation awaits
    behind,         \* history: the holders a queued operation queued behind
    late,           \* history: the operations queued after the drain loop
    phase,          \* the lock function, see LockFunc
    lockKind        \* the lock function the clients were constructed with

setup == <<owner, lockKind>>     \* chosen once
clientVars == <<owner, lockAcquired, pendingInLock, fn, callback, waitOn, waitFor,
                behind, late>>
vars == <<clientVars, phase, lockKind>>

\* "exclusive": processLock; "stealing": navigatorLock; "noop": lockNoOp.
LockKinds == {"exclusive", "stealing", "noop"}

Lock == INSTANCE LockFunc WITH Call <- Op, Stealing <- TRUE

FnStates == {"idle", "waiting", "running", "resolved", "rejected"}
CallbackStates == {"none", "asked", "fn", "drain", "exit", "released", "refused"}

Settled(o) == fn[o] \in {"resolved", "rejected"}

Init ==
    /\ owner \in [Op -> Client]
    /\ lockAcquired = [c \in Client |-> FALSE]
    /\ pendingInLock = [c \in Client |-> <<>>]
    /\ fn = [o \in Op |-> "idle"]
    /\ callback = [o \in Op |-> "none"]
    /\ waitOn = [o \in Op |-> <<>>]
    /\ waitFor = [o \in Op |-> NoOp]
    /\ behind = [o \in Op |-> {}]
    /\ late = {}
    /\ Lock!Init
    /\ lockKind \in LockKinds

\* The operations of client c whose lock callback is under way: one, or more
\* when the client stole the lock from itself.
Under(o) == callback[o] \in {"fn", "drain", "exit"}

HoldersOf(c) == {o \in Op : owner[o] = c /\ Under(o)}
-----------------------------------------------------------------------------
\* Mutant: a queued operation does not wait for the one before it.
AcquireQueued_NoWait(o) ==
    LET c == owner[o] IN
    /\ callback[o] = "none" /\ fn[o] = "idle"
    /\ lockAcquired[c]
    /\ fn' = [fn EXCEPT ![o] = "waiting"]
    /\ pendingInLock' = [pendingInLock EXCEPT ![c] = Append(@, o)]
    /\ behind' = [behind EXCEPT ![o] = HoldersOf(c)]
    /\ late' = IF \E h \in HoldersOf(c) : callback[h] = "exit"
               THEN late \cup {o} ELSE late
    /\ UNCHANGED <<setup, lockAcquired, callback, waitOn, waitFor, phase>>

\* _acquireLock while the client has the lock: wait for the last pending entry.
AcquireQueued(o) ==
    LET c == owner[o] IN
    /\ callback[o] = "none" /\ fn[o] = "idle"
    /\ lockAcquired[c]
    /\ fn' = [fn EXCEPT ![o] = "waiting"]
    /\ waitFor' = [waitFor EXCEPT ![o] = IF pendingInLock[c] = <<>> THEN NoOp
                                         ELSE Last(pendingInLock[c])]
    /\ pendingInLock' = [pendingInLock EXCEPT ![c] = Append(@, o)]
    /\ behind' = [behind EXCEPT ![o] = HoldersOf(c)]
    /\ late' = IF \E h \in HoldersOf(c) : callback[h] = "exit"
               THEN late \cup {o} ELSE late
    /\ UNCHANGED <<setup, lockAcquired, callback, waitOn, phase>>

\* _acquireLock without the lock: ask the lock function.
AcquireAsks(o) ==
    /\ lockKind # "noop"
    /\ callback[o] = "none" /\ fn[o] = "idle"
    /\ ~lockAcquired[owner[o]]
    /\ callback' = [callback EXCEPT ![o] = "asked"]
    /\ Lock!Request(o)
    /\ UNCHANGED <<setup, lockAcquired, pendingInLock, fn, waitOn, waitFor, behind, late>>

\* Mutant: the holder does not enter its own operation into the queue.
CallbackStarts_NotQueued(o) ==
    /\ lockAcquired' = [lockAcquired EXCEPT ![owner[o]] = TRUE]
    /\ fn' = [fn EXCEPT ![o] = "running"]
    /\ callback' = [callback EXCEPT ![o] = "fn"]
    /\ UNCHANGED <<setup, pendingInLock, waitOn, waitFor, behind, late>>

\* The first stretch of the lock callback.
CallbackStarts(o) ==
    LET c == owner[o] IN
    /\ lockAcquired' = [lockAcquired EXCEPT ![c] = TRUE]
    /\ fn' = [fn EXCEPT ![o] = "running"]
    /\ callback' = [callback EXCEPT ![o] = "fn"]
    /\ pendingInLock' = [pendingInLock EXCEPT ![c] = Append(@, o)]
    /\ UNCHANGED <<setup, waitOn, waitFor, behind, late>>

\* The lock function runs the callback, having waited for or stolen the lock.
Granted(o) ==
    /\ callback[o] = "asked"
    /\ Lock!Grant(o) \/ (lockKind = "stealing" /\ Lock!Steal(o))
    /\ CallbackStarts(o)

\* lockNoOp calls the callback synchronously.
AcquireNoOp(o) ==
    /\ lockKind = "noop"
    /\ callback[o] = "none" /\ fn[o] = "idle"
    /\ ~lockAcquired[owner[o]]
    /\ phase' = [phase EXCEPT ![o] = "holding"]
    /\ CallbackStarts(o)

\* The lock function gives up waiting; _acquireLock passes the error on.
Refused(o) ==
    /\ callback[o] = "asked"
    /\ Lock!Refuse(o)
    /\ callback' = [callback EXCEPT ![o] = "refused"]
    /\ UNCHANGED <<setup, lockAcquired, pendingInLock, fn, waitOn, waitFor, behind, late>>

\* Mutant: a queue entry passes on the rejection of its operation.
QueuedStarts_AfterSuccess(o) ==
    /\ fn[o] = "waiting"
    /\ waitFor[o] = NoOp \/ (waitFor[o] \in Op /\ fn[waitFor[o]] = "resolved")
    /\ fn' = [fn EXCEPT ![o] = "running"]
    /\ UNCHANGED <<setup, lockAcquired, pendingInLock, callback, waitOn, waitFor,
                   behind, late, phase>>

\* The awaited queue entry has settled (entries never reject).
QueuedStarts(o) ==
    /\ fn[o] = "waiting"
    /\ waitFor[o] = NoOp \/ (waitFor[o] \in Op /\ Settled(waitFor[o]))
    /\ fn' = [fn EXCEPT ![o] = "running"]
    /\ UNCHANGED <<setup, lockAcquired, pendingInLock, callback, waitOn, waitFor,
                   behind, late, phase>>

FnSettles(o, outcome) ==
    /\ fn[o] = "running"
    /\ fn' = [fn EXCEPT ![o] = outcome]
    /\ UNCHANGED <<setup, lockAcquired, pendingInLock, callback, waitOn, waitFor,
                   behind, late, phase>>

\* splice(0, n)
AfterFirst(n, s) == SubSeq(s, n + 1, Len(s))

\* Mutant: the holder waits for the entries it finds at first, and no others.
Drain_Once(o) ==
    LET c == owner[o]
        rest == AfterFirst(Len(waitOn[o]), pendingInLock[c])
    IN
    /\ callback[o] \in {"fn", "drain"}
    /\ fn[o] = "resolved"
    /\ \A e \in ToSet(waitOn[o]) : Settled(e)
    /\ pendingInLock' = [pendingInLock EXCEPT ![c] = rest]
    /\ waitOn' = [waitOn EXCEPT ![o] = rest]
    /\ callback' = [callback EXCEPT ![o] = IF rest = <<>> \/ @ = "drain"
                                           THEN "exit" ELSE "drain"]
    /\ UNCHANGED <<setup, lockAcquired, fn, waitFor, behind, late, phase>>

\* Mutant: the whole queue is dropped, not only the entries waited for.
Drain_DropsAll(o) ==
    /\ callback[o] \in {"fn", "drain"}
    /\ fn[o] = "resolved"
    /\ \A e \in ToSet(waitOn[o]) : Settled(e)
    /\ pendingInLock' = [pendingInLock EXCEPT ![owner[o]] = <<>>]
    /\ waitOn' = [waitOn EXCEPT ![o] = <<>>]
    /\ callback' = [callback EXCEPT ![o] = "exit"]
    /\ UNCHANGED <<setup, lockAcquired, fn, waitFor, behind, late, phase>>

\* One turn of the drain loop, after fn resolved: remove the entries waited
\* for, then copy the queue and wait again, or leave the loop when it is empty.
Drain(o) ==
    LET c == owner[o]
        rest == AfterFirst(Len(waitOn[o]), pendingInLock[c])
    IN
    /\ callback[o] \in {"fn", "drain"}
    /\ fn[o] = "resolved"
    /\ \A e \in ToSet(waitOn[o]) : Settled(e)
    /\ pendingInLock' = [pendingInLock EXCEPT ![c] = rest]
    /\ waitOn' = [waitOn EXCEPT ![o] = rest]
    /\ callback' = [callback EXCEPT ![o] = IF rest = <<>> THEN "exit" ELSE "drain"]
    /\ UNCHANGED <<setup, lockAcquired, fn, waitFor, behind, late, phase>>

\* Mutant: without finally, a rejecting fn leaves the flag set.
Release_KeepsFlag(o) ==
    /\ \/ callback[o] = "exit"
       \/ callback[o] = "fn" /\ fn[o] = "rejected"
    /\ callback' = [callback EXCEPT ![o] = "released"]
    /\ lockAcquired' = [lockAcquired EXCEPT ![owner[o]] = (callback[o] = "fn")]
    /\ Lock!Finish(o)
    /\ UNCHANGED <<setup, pendingInLock, fn, waitOn, waitFor, behind, late>>

\* finally: the flag is cleared and the callback returns the lock.  An fn that
\* rejected comes here straight away, past the drain loop.
Release(o) ==
    /\ \/ callback[o] = "exit"
       \/ callback[o] = "fn" /\ fn[o] = "rejected"
    /\ callback' = [callback EXCEPT ![o] = "released"]
    /\ lockAcquired' = [lockAcquired EXCEPT ![owner[o]] = FALSE]
    /\ Lock!Finish(o)
    /\ UNCHANGED <<setup, pendingInLock, fn, waitOn, waitFor, behind, late>>

Step(o) ==
    \/ AcquireQueued(o)
    \/ AcquireAsks(o)
    \/ AcquireNoOp(o)
    \/ Granted(o)
    \/ Refused(o)
    \/ QueuedStarts(o)
    \/ \E outcome \in {"resolved", "rejected"} : FnSettles(o, outcome)
    \/ Drain(o)
    \/ Release(o)

Next == \E o \in Op : Step(o)

Spec == Init /\ [][Next]_vars

\* Promise reactions run, the lock function serves its queue, and every fn
\* settles.
FairSpec ==
    Spec /\ \A o \in Op :
        /\ WF_vars(Granted(o))
        /\ WF_vars(QueuedStarts(o))
        /\ WF_vars(\E outcome \in {"resolved", "rejected"} :
                        FnSettles(o, outcome))
        /\ WF_vars(Drain(o))
        /\ WF_vars(Release(o))
-----------------------------------------------------------------------------
\* Every variable holds a value of its type.
TypeOK ==
    /\ owner \in [Op -> Client]
    /\ lockAcquired \in [Client -> BOOLEAN]
    /\ pendingInLock \in [Client -> Seq(Op)]
    /\ fn \in [Op -> FnStates]
    /\ callback \in [Op -> CallbackStates]
    /\ waitOn \in [Op -> Seq(Op)]
    /\ waitFor \in [Op -> Op \cup {NoOp}]
    /\ behind \in [Op -> SUBSET Op]
    /\ late \subseteq Op
    /\ phase \in [Op -> Lock!Phases]
    /\ lockKind \in LockKinds

Running == {o \in Op : fn[o] = "running"}

\* Stray operations: queued behind a holder that has let go of the lock.
Stray == {o \in Op : \E h \in behind[o] : callback[h] = "released"}

\* Operations that lost the lock to a thief, and those queued behind them.
Robbed == {o \in Op : phase[o] = "evicted" \/ \E h \in behind[o] : phase[h] = "evicted"}

\* GoTrueClient.ts:1735: getting a session "requires only one client operating on the
\* session at once across multiple tabs or processes".  Here for clients with a lock
\* function, as long as nobody steals.
OneClientAtOnce ==
    lockKind # "noop" /\ (\A o \in Op : phase[o] # "evicted") =>
        \A o, p \in Running : owner[o] = owner[p]

\* Two operations overlap only when one of them outlived the lock it ran under:
\* a stray, or a victim of a theft.  Without a lock function, the same is true
\* of the operations of one client.
OnlyStraysOverlap ==
    \A o, p \in Running \ (Stray \cup Robbed) :
        (lockKind = "noop" => owner[o] = owner[p]) => o = p

\* Operations that share a turn of the lock (a holder and the ones queued
\* behind it) never run at the same time, even after the lock has been given
\* up too early.  A client that steals from itself loses this.
QueueIsSerial ==
    lockKind # "stealing" =>
        \A o, p \in Running :
            o # p => o \notin behind[p] /\ behind[o] \cap behind[p] = {}

\* A holder whose fn resolved keeps the lock until every operation that
\* queued before its drain loop ended has settled; the only strays are the
\* ones of a failed holder and the ones that came after the loop.
DrainedBeforeRelease ==
    lockKind # "stealing" =>
        \A o \in Stray \ late : Settled(o) \/ \E h \in behind[o] : fn[h] = "rejected"

\* The lock is not left behind: when a client's flag is set, the lock callback
\* of one of its operations is under way and will clear it.
FlagHasHolder == \A c \in Client : lockAcquired[c] => HoldersOf(c) # {}

-----------------------------------------------------------------------------
\* The progress of the callback is what the lock function sees.
PhaseFollows ==
    \A o \in Op :
        /\ callback[o] = "none" => phase[o] = "idle"
        /\ callback[o] = "asked" => phase[o] = "waiting" /\ lockKind # "noop"
        /\ callback[o] = "refused" => phase[o] = "refused"
        /\ callback[o] = "released" => phase[o] = "done"
        /\ Under(o) => phase[o] \in {"holding", "evicted"}
        /\ phase[o] = "evicted" => lockKind = "stealing"

\* An operation goes one of two ways: through the lock function, with nobody
\* before it, or into the queue of its client, behind the client's holders.
RolesFollow ==
    \A o \in Op :
        /\ callback[o] \in {"asked", "refused"} => fn[o] = "idle"
        /\ callback[o] = "fn" => fn[o] \in {"running", "resolved", "rejected"}
        /\ callback[o] \in {"drain", "exit"} => fn[o] = "resolved"
        /\ callback[o] = "released" => Settled(o)
        /\ callback[o] # "none" => behind[o] = {}
        /\ callback[o] = "none" => (fn[o] = "idle" <=> behind[o] = {})
        /\ callback[o] \notin {"drain", "exit", "released"} => waitOn[o] = <<>>
        /\ \A h \in behind[o] :
               owner[h] = owner[o] /\ (Under(h) \/ callback[h] = "released")

\* h has the lock for its client alone: always so, unless the client stole the
\* lock from itself.
Sole(h) ==
    lockKind # "stealing" \/ /\ phase[h] = "holding"
                             /\ lockAcquired[owner[h]]
                             /\ HoldersOf(owner[h]) = {h}

\* One holder per lock; for lockNoOp, one per client.  A client has the flag
\* set while its holder is under way, and queues only behind a sole holder.
HoldersAgree ==
    /\ lockKind # "noop" =>
           \A g, h \in Op : phase[g] = "holding" /\ phase[h] = "holding" => g = h
    /\ lockKind # "stealing" =>
           /\ \A h \in Op : Under(h) => lockAcquired[owner[h]]
           /\ \A g, h \in Op : Under(g) /\ Under(h) /\ owner[g] = owner[h] => g = h
           /\ \A o \in Op : \A g, h \in behind[o] : g = h
    /\ \A o, h \in Op : behind[o] = {h} /\ phase[h] = "holding" => Sole(h)

\* The turn of holder h: h and the operations queued behind it.
InTurn(o, h) == o = h \/ behind[o] = {h}

\* An entry of a queue is an operation of that client, once.
EntriesDiffer ==
    \A c \in Client : \A i, j \in 1..Len(pendingInLock[c]) :
        /\ owner[pendingInLock[c][i]] = c
        /\ fn[pendingInLock[c][i]] # "idle"
        /\ pendingInLock[c][i] = pendingInLock[c][j] => i = j

\* Operations leave the queue only once they have settled.
UnsettledAreQueued ==
    \A o, h \in Op :
        /\ InTurn(o, h) /\ Sole(h)
        /\ fn[o] \in {"waiting", "running"}
        => \E i \in 1..Len(pendingInLock[owner[h]]) : pendingInLock[owner[h]][i] = o

\* The entries of a turn follow one another in the queue, each waits for the
\* entry before it, and when it starts, all entries of its turn before it have
\* settled.
QueueIsChain ==
    \A c \in Client, h \in Op : Sole(h) =>
        \A j \in 1..Len(pendingInLock[c]) :
            LET q == pendingInLock[c] IN
            behind[q[j]] = {h} =>
                /\ j > 1 => InTurn(q[j - 1], h)
                /\ j > 1 /\ fn[q[j]] = "waiting" => waitFor[q[j]] = q[j - 1]
                /\ fn[q[j]] # "waiting" =>
                       \A i \in 1..(j - 1) : InTurn(q[i], h) => Settled(q[i])
                /\ \A i \in 1..Len(q) : q[i] = h => i < j

\* The last entry of the queue belongs to the turn that is under way.
LastInTurn ==
    \A h \in Op :
        LET q == pendingInLock[owner[h]] IN
        Under(h) /\ Sole(h) /\ q # <<>> => InTurn(q[Len(q)], h)

\* What a draining holder awaits is the front of the queue.
AwaitsFront ==
    \A h \in Op :
        LET q == pendingInLock[owner[h]] IN
        callback[h] = "drain" /\ Sole(h) =>
            /\ Len(waitOn[h]) <= Len(q)
            /\ \A i \in 1..Len(waitOn[h]) : waitOn[h][i] = q[i]

\* A holder that left the drain loop left no unsettled operation of its turn,
\* but those that came after it.
TurnIsDrained ==
    \A o, h \in Op :
        /\ behind[o] = {h} /\ Sole(h) /\ o \notin late
        /\ callback[h] = "exit" \/ (callback[h] = "released" /\ fn[h] = "resolved")
        => Settled(o)

\* The inductive invariant behind the theorems of ClientLockProofs.
ClientInv ==
    /\ TypeOK /\ PhaseFollows /\ RolesFollow /\ HoldersAgree /\ FlagHasHolder
    /\ EntriesDiffer /\ UnsettledAreQueued /\ QueueIsChain /\ LastInTurn
    /\ AwaitsFront /\ TurnIsDrained
-----------------------------------------------------------------------------
\* Every call of _acquireLock ends, refused or with its operation settled.
EveryOperationSettles ==
    \A o \in Op : (callback[o] = "asked" \/ fn[o] = "waiting")
                     ~> (Settled(o) \/ callback[o] = "refused")
=============================================================================
