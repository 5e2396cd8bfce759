-------------------------- MODULE ClientLockProofs --------------------------
(***************************************************************************)
(* Proofs about ClientLock for every set of clients and operations and for *)
(* each of the three kinds of lock function.                               *)
(*                                                                         *)
(* What makes operations of one turn run one after the other is the queue  *)
(* pendingInLock: unsettled operations are in it (UnsettledAreQueued), the *)
(* entries of a turn follow one another and each waits for the one before  *)
(* it (QueueIsChain), a new entry finds an entry of its own turn at the    *)
(* end (LastInTurn), and the drain loop removes from the front only what   *)
(* it has waited for (AwaitsFront).  A client that steals the lock from    *)
(* itself drains one queue twice and loses all this; Sole says of which    *)
(* holders it is claimed, and HoldersAgree that operations which queue     *)
(* behind one holder alone queue behind a sole one.                        *)
(***************************************************************************)
EXTENDS ClientLock, SequenceTheorems, TLAPS

\* A new entry at the end of a queue leaves the other entries where they are.
LEMMA AppendFacts ==
  ASSUME NEW S, NEW s \in Seq(S), NEW e \in S
  PROVE  /\ Append(s, e) \in Seq(S)
         /\ Len(Append(s, e)) = Len(s) + 1
         /\ \A i \in 1..Len(s) : Append(s, e)[i] = s[i]
         /\ Append(s, e)[Len(s) + 1] = e
  BY AppendProperties

\* The entries after the first n move n places to the front.
LEMMA AfterFirstFacts ==
  ASSUME NEW S, NEW s \in Seq(S), NEW n \in Nat
  PROVE  /\ AfterFirst(n, s) \in Seq(S)
         /\ Len(AfterFirst(n, s)) = IF n <= Len(s) THEN Len(s) - n ELSE 0
         /\ \A i \in 1..Len(AfterFirst(n, s)) : AfterFirst(n, s)[i] = s[i + n]
<1>1. \A i \in (n + 1)..Len(s) : s[i] \in S
  OBVIOUS
<1>2. Len(s) \in Nat
  OBVIOUS
<1> DEFINE rest == SubSeq(s, n + 1, Len(s))
<1>3. /\ rest \in Seq(S)
      /\ Len(rest) = IF n + 1 <= Len(s) THEN Len(s) - (n + 1) + 1 ELSE 0
      /\ \A i \in 1..(Len(s) - (n + 1) + 1) : rest[i] = s[n + 1 + i - 1]
  BY <1>1, <1>2, SubSeqProperties
<1>4. QED
  BY <1>2, <1>3 DEF AfterFirst

\* What the start of a lock callback does, whichever lock function runs it.
LEMMA StartEffect ==
  ASSUME ClientInv, NEW o \in Op, Granted(o) \/ AcquireNoOp(o)
  PROVE  /\ CallbackStarts(o)
         /\ callback[o] \in {"none", "asked"} /\ fn[o] = "idle"
         /\ behind[o] = {} /\ waitOn[o] = <<>>
         /\ phase' \in [Op -> Lock!Phases] /\ phase'[o] = "holding"
         /\ \A p \in Op \ {o} : \/ phase'[p] = phase[p]
                                \/ /\ lockKind = "stealing"
                                   /\ phase[p] = "holding" /\ phase'[p] = "evicted"
         /\ lockKind # "noop" => \A p \in Op \ {o} : phase'[p] # "holding"
         /\ lockKind = "exclusive" => \A p \in Op : phase[p] # "holding"
         /\ lockKind = "noop" => ~lockAcquired[owner[o]]
<1> USE DEF ClientInv, TypeOK, PhaseFollows, RolesFollow, Lock!Phases
<1>1. CASE AcquireNoOp(o)
  <2>1. /\ lockKind = "noop" /\ callback[o] = "none" /\ fn[o] = "idle"
        /\ ~lockAcquired[owner[o]] /\ CallbackStarts(o)
        /\ phase' = [phase EXCEPT ![o] = "holding"]
    BY <1>1 DEF AcquireNoOp
  <2>2. behind[o] = {} /\ waitOn[o] = <<>>
    BY <2>1
  <2>3. /\ phase' \in [Op -> Lock!Phases] /\ phase'[o] = "holding"
        /\ \A p \in Op \ {o} : phase'[p] = phase[p]
    BY <2>1
  <2>4. QED
    BY <2>1, <2>2, <2>3
<1>2. CASE Granted(o) /\ Lock!Grant(o)
  <2>1. \A p \in Op : phase[p] # "holding"
    BY <1>2 DEF Lock!Grant, Lock!Holders
  <2>2. phase' = [phase EXCEPT ![o] = "holding"]
    BY <1>2 DEF Lock!Grant
  <2>3. CallbackStarts(o) /\ callback[o] = "asked"
    BY <1>2 DEF Granted
  <2>4. lockKind # "noop"
    BY <2>3
  <2>5. fn[o] = "idle" /\ behind[o] = {} /\ waitOn[o] = <<>>
    BY <2>3
  <2>6. /\ phase' \in [Op -> Lock!Phases] /\ phase'[o] = "holding"
        /\ \A p \in Op \ {o} : phase'[p] = phase[p]
    BY <2>2
  <2>7. QED
    BY <2>1, <2>3, <2>4, <2>5, <2>6
<1>3. CASE Granted(o) /\ lockKind = "stealing" /\ Lock!Steal(o)
  <2>1. CallbackStarts(o) /\ callback[o] = "asked"
    BY <1>3 DEF Granted
  <2>2. phase' = [x \in Op |-> IF x = o THEN "holding"
                               ELSE IF phase[x] = "holding" THEN "evicted"
                               ELSE phase[x]]
    BY <1>3 DEF Lock!Steal
  <2>3. phase[o] = "waiting"
    BY <1>3 DEF Lock!Steal
  <2>4. QED
    BY <1>3, <2>1, <2>2, <2>3
<1>4. QED
  BY <1>1, <1>2, <1>3 DEF Granted

\* The type invariant is preserved.
LEMMA TypeStep == ClientInv /\ [Next]_vars => TypeOK'
<1> SUFFICES ASSUME ClientInv, [Next]_vars PROVE TypeOK'
  OBVIOUS
<1> USE DEF ClientInv, TypeOK, FnStates, CallbackStates, Lock!Phases, setup
<1>1. CASE UNCHANGED vars
  BY <1>1 DEF vars, clientVars
<1>2. ASSUME NEW o \in Op, AcquireQueued(o) PROVE TypeOK'
  <2> DEFINE q == pendingInLock[owner[o]]
  <2>1. q \in Seq(Op) /\ Append(q, o) \in Seq(Op)
    BY AppendFacts
  <2>2. q # <<>> => Last(q) \in Op
    BY <2>1 DEF Last
  <2>3. pendingInLock' \in [Client -> Seq(Op)] /\ waitFor' \in [Op -> Op \cup {NoOp}]
    BY <1>2, <2>1, <2>2 DEF AcquireQueued
  <2>4. behind' \in [Op -> SUBSET Op] /\ late' \subseteq Op
    BY <1>2 DEF AcquireQueued, HoldersOf
  <2>5. QED
    BY <1>2, <2>3, <2>4 DEF AcquireQueued
<1>3. ASSUME NEW o \in Op, AcquireAsks(o) PROVE TypeOK'
  BY <1>3 DEF AcquireAsks, Lock!Request
<1>4. ASSUME NEW o \in Op, Granted(o) \/ AcquireNoOp(o) PROVE TypeOK'
  <2>1. CallbackStarts(o) /\ phase' \in [Op -> Lock!Phases]
    BY <1>4, StartEffect
  <2>2. pendingInLock' \in [Client -> Seq(Op)]
    BY <2>1, AppendFacts DEF CallbackStarts
  <2>3. QED
    BY <2>1, <2>2 DEF CallbackStarts
<1>5. ASSUME NEW o \in Op, Refused(o) PROVE TypeOK'
  BY <1>5 DEF Refused, Lock!Refuse
<1>6. ASSUME NEW o \in Op, QueuedStarts(o) PROVE TypeOK'
  BY <1>6 DEF QueuedStarts
<1>7. ASSUME NEW o \in Op, NEW outcome \in {"resolved", "rejected"}, FnSettles(o, outcome)
      PROVE  TypeOK'
  BY <1>7 DEF FnSettles
<1>8. ASSUME NEW o \in Op, Drain(o) PROVE TypeOK'
  <2> DEFINE rest == AfterFirst(Len(waitOn[o]), pendingInLock[owner[o]])
  <2>1. pendingInLock[owner[o]] \in Seq(Op) /\ Len(waitOn[o]) \in Nat
    BY LenProperties
  <2>2. rest \in Seq(Op)
    BY <2>1, AfterFirstFacts
  <2>3. QED
    BY <1>8, <2>2 DEF Drain
<1>9. ASSUME NEW o \in Op, Release(o) PROVE TypeOK'
  BY <1>9 DEF Release, Lock!Finish
<1>10. QED
  BY <1>1, <1>2, <1>3, <1>4, <1>5, <1>6, <1>7, <1>8, <1>9 DEF Next, Step

\* The callback and the phase of the lock function move together.
LEMMA PhaseStep == ClientInv /\ [Next]_vars => PhaseFollows'
<1> SUFFICES ASSUME ClientInv, [Next]_vars PROVE PhaseFollows'
  OBVIOUS
<1> USE DEF ClientInv, TypeOK, PhaseFollows, Under, setup
<1>1. CASE UNCHANGED vars
  BY <1>1 DEF vars, clientVars
<1>2. ASSUME NEW o \in Op, AcquireQueued(o) PROVE PhaseFollows'
  BY <1>2 DEF AcquireQueued
<1>3. ASSUME NEW o \in Op, AcquireAsks(o) PROVE PhaseFollows'
  BY <1>3 DEF AcquireAsks, Lock!Request
<1>4. ASSUME NEW o \in Op, Granted(o) \/ AcquireNoOp(o) PROVE PhaseFollows'
  <2>1. CallbackStarts(o)
    BY <1>4, StartEffect
  <2>2. ASSUME NEW p \in Op \ {o}
        PROVE  /\ callback'[p] = callback[p] /\ lockKind' = lockKind
               /\ \/ phase'[p] = phase[p]
                  \/ /\ lockKind = "stealing"
                     /\ phase[p] = "holding" /\ phase'[p] = "evicted"
    BY <1>4, <2>1, StartEffect DEF CallbackStarts
  <2>3. callback'[o] = "fn" /\ phase'[o] = "holding"
    BY <1>4, <2>1, StartEffect DEF CallbackStarts
  <2>4. \A p \in Op : phase[p] = "holding" => Under(p)
    BY DEF CallbackStates
  <2>5. QED
    BY <2>2, <2>3, <2>4
<1>5. ASSUME NEW o \in Op, Refused(o) PROVE PhaseFollows'
  BY <1>5 DEF Refused, Lock!Refuse
<1>6. ASSUME NEW o \in Op, QueuedStarts(o) PROVE PhaseFollows'
  BY <1>6 DEF QueuedStarts
<1>7. ASSUME NEW o \in Op, NEW outcome \in {"resolved", "rejected"}, FnSettles(o, outcome)
      PROVE  PhaseFollows'
  BY <1>7 DEF FnSettles
<1>8. ASSUME NEW o \in Op, Drain(o) PROVE PhaseFollows'
  BY <1>8 DEF Drain
<1>9. ASSUME NEW o \in Op, Release(o) PROVE PhaseFollows'
  BY <1>9 DEF Release, Lock!Finish
<1>10. QED
  BY <1>1, <1>2, <1>3, <1>4, <1>5, <1>6, <1>7, <1>8, <1>9 DEF Next, Step

\* An operation never changes from one way through _acquireLock to the other.
LEMMA RolesStep == ClientInv /\ [Next]_vars => RolesFollow'
<1> SUFFICES ASSUME ClientInv, [Next]_vars PROVE RolesFollow'
  OBVIOUS
<1> USE DEF ClientInv, TypeOK, RolesFollow, Under, Settled, setup
<1>1. CASE UNCHANGED vars
  BY <1>1 DEF vars, clientVars
<1>2. ASSUME NEW o \in Op, AcquireQueued(o) PROVE RolesFollow'
  <2>1. HoldersOf(owner[o]) # {}
    BY <1>2 DEF AcquireQueued, FlagHasHolder
  <2>2. \A h \in HoldersOf(owner[o]) : h \in Op /\ owner[h] = owner[o] /\ Under(h)
    BY DEF HoldersOf
  <2>3. QED
    BY <1>2, <2>1, <2>2 DEF AcquireQueued
<1>3. ASSUME NEW o \in Op, AcquireAsks(o) PROVE RolesFollow'
  BY <1>3 DEF AcquireAsks
<1>4. ASSUME NEW o \in Op, Granted(o) \/ AcquireNoOp(o) PROVE RolesFollow'
  <2>1. /\ CallbackStarts(o) /\ fn[o] = "idle" /\ behind[o] = {} /\ waitOn[o] = <<>>
        /\ callback[o] \in {"none", "asked"}
    BY <1>4, StartEffect
  <2>2. /\ fn' = [fn EXCEPT ![o] = "running"] /\ callback' = [callback EXCEPT ![o] = "fn"]
        /\ UNCHANGED <<owner, waitOn, behind>>
    BY <2>1 DEF CallbackStarts
  <2>3. QED
    BY <2>1, <2>2
<1>5. ASSUME NEW o \in Op, Refused(o) PROVE RolesFollow'
  BY <1>5 DEF Refused
<1>6. ASSUME NEW o \in Op, QueuedStarts(o) PROVE RolesFollow'
  BY <1>6 DEF QueuedStarts
<1>7. ASSUME NEW o \in Op, NEW outcome \in {"resolved", "rejected"}, FnSettles(o, outcome)
      PROVE  RolesFollow'
  BY <1>7 DEF FnSettles
<1>8. ASSUME NEW o \in Op, Drain(o) PROVE RolesFollow'
  BY <1>8 DEF Drain
<1>9. ASSUME NEW o \in Op, Release(o) PROVE RolesFollow'
  BY <1>9 DEF Release
<1>10. QED
  BY <1>1, <1>2, <1>3, <1>4, <1>5, <1>6, <1>7, <1>8, <1>9 DEF Next, Step

\* The flag is set with a holder, and cleared before the last one goes.
LEMMA FlagStep == ClientInv /\ [Next]_vars => FlagHasHolder'
<1> SUFFICES ASSUME ClientInv, [Next]_vars, NEW c \in Client, lockAcquired'[c]
             PROVE  \E h \in Op : owner'[h] = c /\ Under(h)'
  BY DEF FlagHasHolder, HoldersOf, Under
<1> USE DEF ClientInv, TypeOK, RolesFollow, Under, setup
<1> DEFINE Held == \E h \in Op : owner'[h] = c /\ Under(h)'
<1>0. lockAcquired[c] => \E h \in Op : owner[h] = c /\ Under(h)
  BY DEF FlagHasHolder, HoldersOf
<1>1. CASE UNCHANGED vars
  BY <1>0, <1>1 DEF vars, clientVars
<1>2. ASSUME NEW o \in Op, AcquireQueued(o) PROVE Held
  BY <1>0, <1>2 DEF AcquireQueued
<1>3. ASSUME NEW o \in Op, AcquireAsks(o) PROVE Held
  BY <1>0, <1>3 DEF AcquireAsks
<1>4. ASSUME NEW o \in Op, Granted(o) \/ AcquireNoOp(o) PROVE Held
  <2>1. CallbackStarts(o)
    BY <1>4, StartEffect
  <2>2. QED
    BY <1>0, <2>1 DEF CallbackStarts
<1>5. ASSUME NEW o \in Op, Refused(o) PROVE Held
  BY <1>0, <1>5 DEF Refused
<1>6. ASSUME NEW o \in Op, QueuedStarts(o) PROVE Held
  BY <1>0, <1>6 DEF QueuedStarts
<1>7. ASSUME NEW o \in Op, NEW outcome \in {"resolved", "rejected"}, FnSettles(o, outcome)
      PROVE  Held
  BY <1>0, <1>7 DEF FnSettles
<1>8. ASSUME NEW o \in Op, Drain(o) PROVE Held
  BY <1>0, <1>8 DEF Drain
<1>9. ASSUME NEW o \in Op, Release(o) PROVE Held
  BY <1>0, <1>9 DEF Release
<1>10. QED
  BY <1>1, <1>2, <1>3, <1>4, <1>5, <1>6, <1>7, <1>8, <1>9 DEF Next, Step

\* The holders change only when a lock callback starts or ends.
LEMMA HoldersEffect ==
  ASSUME ClientInv, [Next]_vars
  PROVE  /\ owner' = owner /\ lockKind' = lockKind
         /\ \/ /\ lockAcquired' = lockAcquired
               /\ \A p \in Op : /\ Under(p)' <=> Under(p)
                                /\ phase'[p] = "holding" <=> phase[p] = "holding"
            \/ \E o \in Op : Granted(o) \/ AcquireNoOp(o)
            \/ \E o \in Op : Release(o)
<1> USE DEF ClientInv, TypeOK, PhaseFollows, Under, setup
<1> DEFINE Same == /\ owner' = owner /\ lockKind' = lockKind
                   /\ lockAcquired' = lockAcquired
                   /\ \A p \in Op : /\ Under(p)' <=> Under(p)
                                    /\ phase'[p] = "holding" <=> phase[p] = "holding"
<1>1. CASE UNCHANGED vars
  BY <1>1 DEF vars, clientVars
<1>2. ASSUME NEW o \in Op, AcquireQueued(o) PROVE Same
  BY <1>2 DEF AcquireQueued
<1>3. ASSUME NEW o \in Op, AcquireAsks(o) PROVE Same
  BY <1>3 DEF AcquireAsks, Lock!Request
<1>4. ASSUME NEW o \in Op, Granted(o) \/ AcquireNoOp(o)
      PROVE  owner' = owner /\ lockKind' = lockKind
  <2>1. CallbackStarts(o)
    BY <1>4, StartEffect
  <2>2. QED
    BY <2>1 DEF CallbackStarts
<1>5. ASSUME NEW o \in Op, Refused(o) PROVE Same
  BY <1>5 DEF Refused, Lock!Refuse
<1>6. ASSUME NEW o \in Op, QueuedStarts(o) PROVE Same
  BY <1>6 DEF QueuedStarts
<1>7. ASSUME NEW o \in Op, NEW outcome \in {"resolved", "rejected"}, FnSettles(o, outcome)
      PROVE  Same
  BY <1>7 DEF FnSettles
<1>8. ASSUME NEW o \in Op, Drain(o) PROVE Same
  BY <1>8 DEF Drain
<1>9. ASSUME NEW o \in Op, Release(o) PROVE owner' = owner /\ lockKind' = lockKind
  BY <1>9 DEF Release
<1>10. QED
  BY <1>1, <1>2, <1>3, <1>4, <1>5, <1>6, <1>7, <1>8, <1>9 DEF Next, Step

\* A sole holder, without the set of holders.
LEMMA SoleMeans ==
  ASSUME NEW h \in Op, lockKind = "stealing"
  PROVE  Sole(h) <=> /\ phase[h] = "holding" /\ lockAcquired[owner[h]] /\ Under(h)
                     /\ \A p \in Op : Under(p) /\ owner[p] = owner[h] => p = h
BY DEF Sole, HoldersOf

\* What a release does to the flags and the holders.
LEMMA ReleaseEffect ==
  ASSUME ClientInv, NEW o \in Op, Release(o)
  PROVE  /\ Under(o) /\ callback'[o] = "released" /\ ~Under(o)' /\ phase'[o] = "done"
         /\ \A p \in Op \ {o} : callback'[p] = callback[p] /\ phase'[p] = phase[p]
         /\ lockAcquired' = [lockAcquired EXCEPT ![owner[o]] = FALSE]
         /\ callback[o] = "fn" => fn[o] = "rejected"
         /\ UNCHANGED <<owner, lockKind, pendingInLock, fn, waitOn, waitFor, behind, late>>
BY DEF ClientInv, TypeOK, Release, Under, Lock!Finish, setup

\* Only the start of its own callback makes h a sole holder.
LEMMA SoleIsOld ==
  ASSUME ClientInv, [Next]_vars, NEW h \in Op, Sole(h)'
  PROVE  Sole(h) \/ Granted(h) \/ AcquireNoOp(h)
<1> USE DEF ClientInv, TypeOK
<1>1. CASE lockKind # "stealing"
  BY <1>1 DEF Sole
<1>2. CASE lockKind = "stealing"
  <2>1. owner' = owner /\ lockKind' = "stealing"
    BY <1>2, HoldersEffect
  <2>2. /\ phase'[h] = "holding" /\ lockAcquired'[owner[h]] /\ Under(h)'
        /\ \A p \in Op : Under(p)' /\ owner[p] = owner[h] => p = h
    <3>1. /\ phase'[h] = "holding" /\ lockAcquired'[owner[h]]
          /\ {p \in Op : owner[p] = owner[h] /\ Under(p)'} = {h}
      BY <2>1 DEF Sole, HoldersOf
    <3>2. QED
      BY <3>1
  <2>3. ASSUME lockAcquired' = lockAcquired,
               \A p \in Op : /\ Under(p)' <=> Under(p)
                             /\ phase'[p] = "holding" <=> phase[p] = "holding"
        PROVE  Sole(h)
    <3>1. phase[h] = "holding" /\ lockAcquired[owner[h]] /\ Under(h)
      BY <2>2, <2>3
    <3>2. \A p \in Op : Under(p) /\ owner[p] = owner[h] => p = h
      BY <2>2, <2>3
    <3>3. QED
      BY <1>2, <3>1, <3>2, SoleMeans
  <2>4. ASSUME NEW o \in Op, Granted(o) \/ AcquireNoOp(o) PROVE o = h
    BY <1>2, <2>2, <2>4, StartEffect
  <2>5. ASSUME NEW o \in Op, Release(o) PROVE Sole(h)
    <3>1. owner[o] # owner[h] /\ o # h
      BY <2>2, <2>5, ReleaseEffect
    <3>2. \A p \in Op : owner[p] = owner[h] => (Under(p)' <=> Under(p))
      BY <2>5, <3>1, ReleaseEffect DEF Under
    <3>3. phase[h] = "holding" /\ lockAcquired[owner[h]]
      BY <2>2, <2>5, <3>1, ReleaseEffect
    <3>4. QED
      BY <1>2, <2>2, <3>2, <3>3, SoleMeans
  <2>6. QED
    BY <2>3, <2>4, <2>5, HoldersEffect
<1>3. QED
  BY <1>1, <1>2

\* Only AcquireQueued changes what operations queued behind.
LEMMA BehindEffect ==
  ASSUME ClientInv, [Next]_vars
  PROVE  \/ behind' = behind /\ late' = late
         \/ \E o \in Op : AcquireQueued(o)
<1> USE DEF setup
<1>1. CASE UNCHANGED vars
  BY <1>1 DEF vars, clientVars
<1>2. ASSUME NEW o \in Op, Granted(o) \/ AcquireNoOp(o)
      PROVE  behind' = behind /\ late' = late
  <2>1. CallbackStarts(o)
    BY <1>2, StartEffect
  <2>2. QED
    BY <2>1 DEF CallbackStarts
<1>3. QED
  BY <1>1, <1>2 DEF Next, Step, AcquireAsks, Refused, QueuedStarts, FnSettles,
                    Drain, Release

\* What AcquireQueued does to the history variables.
LEMMA QueuedEffect ==
  ASSUME ClientInv, NEW o \in Op, AcquireQueued(o)
  PROVE  /\ lockAcquired[owner[o]] /\ callback[o] = "none" /\ fn[o] = "idle"
         /\ behind[o] = {}
         /\ behind' = [behind EXCEPT ![o] = HoldersOf(owner[o])]
         /\ fn' = [fn EXCEPT ![o] = "waiting"]
         /\ UNCHANGED <<owner, lockKind, phase, lockAcquired, callback, waitOn>>
BY DEF ClientInv, TypeOK, RolesFollow, AcquireQueued, setup

\* A second holder appears only by theft, and then nobody queues behind it alone.
LEMMA HoldersStep == ClientInv /\ [Next]_vars => HoldersAgree'
<1> SUFFICES ASSUME ClientInv, [Next]_vars PROVE HoldersAgree'
  OBVIOUS
<1> USE DEF ClientInv, TypeOK
<1>1. lockKind' = lockKind /\ owner' = owner
  BY HoldersEffect
<1>2. ASSUME lockKind # "noop", NEW g \in Op, NEW h \in Op,
             phase'[g] = "holding", phase'[h] = "holding"
      PROVE  g = h
  <2>1. ASSUME NEW o \in Op, Granted(o) \/ AcquireNoOp(o) PROVE g = o /\ h = o
    BY <1>2, <2>1, StartEffect
  <2>2. ASSUME NEW o \in Op, Release(o) PROVE g = h
    <3>1. phase[g] = "holding" /\ phase[h] = "holding"
      BY <1>2, <2>2, ReleaseEffect
    <3>2. QED
      BY <1>2, <3>1 DEF HoldersAgree
  <2>3. QED
    BY <1>2, <2>1, <2>2, HoldersEffect DEF HoldersAgree
<1>3. ASSUME lockKind # "stealing", NEW h \in Op, Under(h)'
      PROVE  lockAcquired'[owner[h]]
  <2>1. ASSUME NEW o \in Op, Granted(o) \/ AcquireNoOp(o) PROVE lockAcquired'[owner[h]]
    <3>1. CallbackStarts(o)
      BY <2>1, StartEffect
    <3>2. QED
      BY <1>3, <3>1 DEF CallbackStarts, HoldersAgree, Under
  <2>2. ASSUME NEW o \in Op, Release(o) PROVE lockAcquired'[owner[h]]
    <3>1. h # o /\ Under(h)
      BY <1>3, <2>2, ReleaseEffect DEF Under
    <3>2. owner[h] # owner[o]
      BY <1>3, <2>2, <3>1, ReleaseEffect DEF HoldersAgree, Under
    <3>3. QED
      BY <1>3, <2>2, <3>1, <3>2, ReleaseEffect DEF HoldersAgree, Under
  <2>3. QED
    BY <1>3, <2>1, <2>2, HoldersEffect DEF HoldersAgree, Under
<1>4. ASSUME lockKind # "stealing", NEW g \in Op, NEW h \in Op,
             Under(g)', Under(h)', owner[g] = owner[h]
      PROVE  g = h
  <2>1. ASSUME NEW o \in Op, Granted(o) \/ AcquireNoOp(o) PROVE g = h
    <3>1. \A p \in Op : Under(p)' => p = o \/ Under(p)
      <4>1. CallbackStarts(o)
        BY <2>1, StartEffect
      <4>2. QED
        BY <4>1 DEF CallbackStarts, Under
    <3>2. CASE lockKind = "exclusive"
      <4>1. \A p \in Op : ~Under(p)
        BY <2>1, <3>2, StartEffect DEF PhaseFollows
      <4>2. QED
        BY <1>4, <3>1, <4>1
    <3>3. CASE lockKind = "noop"
      <4>1. \A p \in Op : Under(p) => owner[p] # owner[o]
        BY <1>4, <2>1, <3>3, StartEffect DEF HoldersAgree
      <4>2. QED
        BY <1>4, <3>1, <4>1 DEF HoldersAgree
    <3>4. QED
      BY <1>4, <3>2, <3>3 DEF LockKinds
  <2>2. ASSUME NEW o \in Op, Release(o) PROVE g = h
    <3>1. Under(g) /\ Under(h)
      BY <1>4, <2>2, ReleaseEffect DEF Under
    <3>2. QED
      BY <1>4, <3>1 DEF HoldersAgree
  <2>3. QED
    BY <1>4, <2>1, <2>2, HoldersEffect DEF HoldersAgree, Under
<1>5. ASSUME lockKind # "stealing", NEW o \in Op, NEW g \in behind'[o], NEW h \in behind'[o]
      PROVE  g = h
  <2>1. ASSUME NEW p \in Op, AcquireQueued(p) PROVE g = h
    <3>1. \A x, y \in HoldersOf(owner[p]) : x = y
      BY <1>5 DEF HoldersAgree, HoldersOf
    <3>2. behind' = [behind EXCEPT ![p] = HoldersOf(owner[p])]
      BY <2>1, QueuedEffect
    <3>3. CASE o = p
      BY <3>1, <3>2, <3>3
    <3>4. CASE o # p
      <4>1. g \in behind[o] /\ h \in behind[o]
        BY <3>2, <3>4
      <4>2. QED
        BY <1>5, <4>1 DEF HoldersAgree
    <3>5. QED
      BY <3>3, <3>4
  <2>2. QED
    BY <1>5, <2>1, BehindEffect DEF HoldersAgree
<1>6. ASSUME NEW o \in Op, NEW h \in Op, behind'[o] = {h}, phase'[h] = "holding"
      PROVE  Sole(h)'
  <2>1. CASE lockKind # "stealing"
    BY <1>1, <2>1 DEF Sole
  <2>2. CASE lockKind = "stealing"
    <3>1. ASSUME NEW p \in Op, AcquireQueued(p) PROVE Sole(h)'
      <4>1. /\ behind' = [behind EXCEPT ![p] = HoldersOf(owner[p])]
            /\ UNCHANGED <<owner, lockKind, phase, lockAcquired, callback>>
            /\ lockAcquired[owner[p]]
        BY <3>1, QueuedEffect
      <4>2. Sole(h)
        <5>1. CASE o = p
          <6>1. HoldersOf(owner[p]) = {h}
            BY <1>6, <4>1, <5>1
          <6>2. owner[h] = owner[p]
            BY <6>1 DEF HoldersOf
          <6>3. QED
            BY <1>6, <4>1, <6>1, <6>2 DEF Sole
        <5>2. CASE o # p
          BY <1>6, <4>1, <5>2 DEF HoldersAgree
        <5>3. QED
          BY <5>1, <5>2
      <4>3. QED
        BY <4>1, <4>2 DEF Sole, HoldersOf, Under
    <3>2. CASE behind' = behind
      <4>1. Under(h) \/ callback[h] = "released"
        BY <1>6, <3>2 DEF RolesFollow
      <4>2. ASSUME NEW p \in Op, Granted(p) \/ AcquireNoOp(p) PROVE FALSE
        <5>1. h # p /\ phase'[h] # "holding"
          BY <2>2, <4>1, <4>2, StartEffect DEF Under
        <5>2. QED
          BY <1>6, <5>1
      <4>3. ASSUME phase[h] = "holding" PROVE Sole(h)
        BY <1>6, <3>2, <4>3 DEF HoldersAgree
      <4>4. ASSUME NEW p \in Op, Release(p) PROVE Sole(h)'
        <5>1. h # p /\ phase[h] = "holding"
          BY <1>6, <4>4, ReleaseEffect
        <5>2. owner[h] # owner[p]
          BY <2>2, <4>3, <4>4, <5>1, SoleMeans, ReleaseEffect
        <5>3. lockAcquired'[owner[h]] = lockAcquired[owner[h]]
          BY <4>4, <5>2, ReleaseEffect
        <5>4. HoldersOf(owner[h])' = HoldersOf(owner[h])
          BY <1>1, <4>4, <5>2, ReleaseEffect DEF HoldersOf, Under
        <5>5. QED
          BY <1>1, <1>6, <2>2, <4>3, <5>1, <5>3, <5>4 DEF Sole
      <4>5. ASSUME lockAcquired' = lockAcquired,
                   \A p \in Op : /\ Under(p)' <=> Under(p)
                                 /\ phase'[p] = "holding" <=> phase[p] = "holding"
            PROVE  Sole(h)'
        <5>1. HoldersOf(owner[h])' = HoldersOf(owner[h])
          BY <1>1, <4>5 DEF HoldersOf
        <5>2. QED
          BY <1>1, <1>6, <4>3, <4>5, <5>1 DEF Sole
      <4>6. QED
        BY <4>2, <4>4, <4>5, HoldersEffect
    <3>3. QED
      BY <3>1, <3>2, BehindEffect
  <2>3. QED
    BY <2>1, <2>2
<1>7. QED
  BY <1>1, <1>2, <1>3, <1>4, <1>5, <1>6 DEF HoldersAgree

\* How the promise of an operation moves on; one that has settled stays so.
LEMMA FnEffect ==
  ASSUME ClientInv, [Next]_vars, NEW p \in Op
  PROVE  \/ fn'[p] = fn[p]
         \/ fn[p] = "idle" /\ (AcquireQueued(p) \/ Granted(p) \/ AcquireNoOp(p))
         \/ fn[p] = "waiting" /\ fn'[p] = "running" /\ QueuedStarts(p)
         \/ fn[p] = "running" /\ Settled(p)'
<1> USE DEF ClientInv, TypeOK, setup
<1>1. CASE UNCHANGED vars
  BY <1>1 DEF vars, clientVars
<1>2. ASSUME NEW o \in Op, Granted(o) \/ AcquireNoOp(o)
      PROVE  IF p = o THEN fn[p] = "idle" ELSE fn'[p] = fn[p]
  <2>1. CallbackStarts(o) /\ fn[o] = "idle"
    BY <1>2, StartEffect
  <2>2. QED
    BY <2>1 DEF CallbackStarts
<1>3. ASSUME NEW o \in Op, AcquireQueued(o)
      PROVE  IF p = o THEN fn[p] = "idle" ELSE fn'[p] = fn[p]
  BY <1>3 DEF AcquireQueued
<1>4. ASSUME NEW o \in Op, QueuedStarts(o)
      PROVE  IF p = o THEN fn[p] = "waiting" /\ fn'[p] = "running" ELSE fn'[p] = fn[p]
  BY <1>4 DEF QueuedStarts
<1>5. ASSUME NEW o \in Op, NEW outcome \in {"resolved", "rejected"}, FnSettles(o, outcome)
      PROVE  IF p = o THEN fn[p] = "running" /\ Settled(p)' ELSE fn'[p] = fn[p]
  BY <1>5 DEF FnSettles, Settled
<1>6. ASSUME NEW o \in Op, AcquireAsks(o) \/ Refused(o) \/ Drain(o) \/ Release(o)
      PROVE  fn'[p] = fn[p]
  BY <1>6 DEF AcquireAsks, Refused, Drain, Release
<1>7. QED
  BY <1>1, <1>2, <1>3, <1>4, <1>5, <1>6 DEF Next, Step

\* An operation joins the queue of its client, whichever way it came.
Joins(o) == AcquireQueued(o) \/ Granted(o) \/ AcquireNoOp(o)

\* Who joins was idle, in nobody's queue, and becomes the last entry.
LEMMA JoinEffect ==
  ASSUME ClientInv, NEW o \in Op, Joins(o)
  PROVE  /\ callback[o] \in {"none", "asked"} /\ fn[o] = "idle" /\ behind[o] = {}
         /\ fn'[o] # "idle" /\ owner' = owner
         /\ \A p \in Op \ {o} : fn'[p] = fn[p] /\ behind'[p] = behind[p]
         /\ pendingInLock' = [pendingInLock EXCEPT ![owner[o]] =
                                  Append(pendingInLock[owner[o]], o)]
<1> USE DEF ClientInv, TypeOK, setup
<1>1. CASE AcquireQueued(o)
  <2>1. /\ callback[o] = "none" /\ fn[o] = "idle" /\ owner' = owner
        /\ fn' = [fn EXCEPT ![o] = "waiting"]
        /\ behind' = [behind EXCEPT ![o] = HoldersOf(owner[o])]
        /\ pendingInLock' = [pendingInLock EXCEPT ![owner[o]] =
                                 Append(pendingInLock[owner[o]], o)]
    BY <1>1 DEF AcquireQueued
  <2>2. behind[o] = {}
    BY <1>1, QueuedEffect
  <2>3. QED
    BY <2>1, <2>2
<1>2. CASE Granted(o) \/ AcquireNoOp(o)
  <2>1. CallbackStarts(o) /\ callback[o] \in {"none", "asked"} /\ fn[o] = "idle" /\ behind[o] = {}
    BY <1>2, StartEffect
  <2>2. QED
    BY <2>1 DEF CallbackStarts
<1>3. QED
  BY <1>1, <1>2 DEF Joins

\* The queue of a client changes at its two ends only.
LEMMA QueueEffect ==
  ASSUME ClientInv, [Next]_vars
  PROVE  \/ pendingInLock' = pendingInLock
         \/ \E o \in Op : Joins(o)
         \/ \E o \in Op : Drain(o)
<1>1. CASE UNCHANGED vars
  BY <1>1 DEF vars, clientVars
<1>2. QED
  BY <1>1 DEF Joins, Next, Step, AcquireAsks, Refused, QueuedStarts, FnSettles, Release

\* One turn of the drain loop.
LEMMA DrainEffect ==
  ASSUME ClientInv, NEW d \in Op, Drain(d), Sole(d), NEW c \in Client, owner[d] = c
  PROVE  /\ Len(pendingInLock[c]) \in Nat /\ Len(waitOn[d]) \in Nat
         /\ pendingInLock'[c] \in Seq(Op)
         /\ Len(waitOn[d]) <= Len(pendingInLock[c])
         /\ Len(pendingInLock'[c]) = Len(pendingInLock[c]) - Len(waitOn[d])
         /\ \A i \in 1..Len(waitOn[d]) : Settled(pendingInLock[c][i])
         /\ \A i \in 1..Len(pendingInLock'[c]) :
                pendingInLock'[c][i] = pendingInLock[c][i + Len(waitOn[d])]
         /\ waitOn' = [waitOn EXCEPT ![d] = pendingInLock'[c]]
         /\ callback' = [callback EXCEPT ![d] = IF pendingInLock'[c] = <<>>
                                                THEN "exit" ELSE "drain"]
         /\ callback[d] \in {"fn", "drain"} /\ fn[d] = "resolved"
         /\ UNCHANGED <<owner, fn, waitFor, behind, late>>
<1> DEFINE q == pendingInLock[c]
           n == Len(waitOn[d])
           r == AfterFirst(n, q)
<1> USE DEF ClientInv, TypeOK, setup
<1>1. q \in Seq(Op) /\ waitOn[d] \in Seq(Op) /\ n \in Nat /\ Len(q) \in Nat
  BY LenProperties
<1>2. /\ n <= Len(q)
      /\ \A i \in 1..n : waitOn[d][i] = q[i]
  <2>1. CASE callback[d] = "drain"
    BY <2>1 DEF AwaitsFront
  <2>2. CASE callback[d] = "fn"
    <3>1. waitOn[d] = <<>>
      BY <2>2 DEF RolesFollow
    <3>2. n = 0
      BY <3>1
    <3>3. QED
      BY <1>1, <3>2
  <2>3. QED
    BY <2>1, <2>2 DEF Drain
<1>3. \A i \in 1..n : Settled(waitOn[d][i])
  <2>1. \A i \in 1..n : waitOn[d][i] \in ToSet(waitOn[d])
    BY <1>1 DEF ToSet
  <2>2. QED
    BY <2>1 DEF Drain
<1>4. /\ r \in Seq(Op) /\ Len(r) = Len(q) - n
      /\ \A i \in 1..Len(r) : r[i] = q[i + n]
  BY <1>1, <1>2, AfterFirstFacts
<1>5. /\ pendingInLock' = [pendingInLock EXCEPT ![c] = r]
      /\ waitOn' = [waitOn EXCEPT ![d] = r]
      /\ callback' = [callback EXCEPT ![d] = IF r = <<>> THEN "exit" ELSE "drain"]
      /\ callback[d] \in {"fn", "drain"} /\ fn[d] = "resolved"
      /\ UNCHANGED <<owner, fn, waitFor, behind, late>>
  BY DEF Drain
<1>6. pendingInLock'[c] = r
  BY <1>1, <1>5
<1> HIDE DEF r
<1>7. \A i \in 1..n : Settled(q[i])
  BY <1>2, <1>3
<1>8. QED
  BY <1>1, <1>2, <1>4, <1>5, <1>6, <1>7

\* While a client has a sole holder, nobody else drains its queue.
LEMMA DrainerIsSole ==
  ASSUME ClientInv, NEW d \in Op, Drain(d), NEW h \in Op, Sole(h), owner[d] = owner[h]
  PROVE  Sole(d) /\ Under(d) /\ (Under(h) => d = h) /\ (lockKind = "stealing" => d = h)
<1>1. Under(d)
  BY DEF Drain, Under
<1>2. CASE lockKind = "stealing"
  BY <1>1, <1>2, SoleMeans
<1>3. CASE lockKind # "stealing"
  <2>1. Sole(d)
    BY <1>3 DEF Sole
  <2>2. QED
    BY <1>1, <1>3, <2>1 DEF ClientInv, HoldersAgree
<1>4. QED
  BY <1>2, <1>3

\* An operation that queued behind h did so while h was under way.
LEMMA BehindMeans ==
  ASSUME ClientInv, NEW o \in Op, NEW h \in Op, behind[o] = {h}
  PROVE  /\ callback[o] = "none" /\ fn[o] # "idle" /\ owner[h] = owner[o]
         /\ Under(h) \/ callback[h] = "released"
  BY DEF ClientInv, RolesFollow

\* Only operations that have not been called before join a queue.
LEMMA EntriesStep == ClientInv /\ [Next]_vars => EntriesDiffer'
<1> SUFFICES ASSUME ClientInv, [Next]_vars, NEW c \in Client,
                    NEW i \in 1..Len(pendingInLock'[c]), NEW j \in 1..Len(pendingInLock'[c])
             PROVE  /\ owner'[pendingInLock'[c][i]] = c
                    /\ fn'[pendingInLock'[c][i]] # "idle"
                    /\ pendingInLock'[c][i] = pendingInLock'[c][j] => i = j
  BY DEF EntriesDiffer
<1> DEFINE q == pendingInLock[c]
           r == pendingInLock'[c]
<1>1. q \in Seq(Op) /\ owner' = owner
  BY HoldersEffect DEF ClientInv, TypeOK
<1>2. \A k \in 1..Len(q) : /\ q[k] \in Op /\ owner[q[k]] = c /\ fn[q[k]] # "idle"
                           /\ \A l \in 1..Len(q) : q[k] = q[l] => k = l
  BY <1>1 DEF ClientInv, EntriesDiffer
<1>3. \A k \in 1..Len(q) : fn'[q[k]] # "idle"
  <2>1. \A p \in Op : fn[p] # "idle" => fn'[p] # "idle"
    BY FnEffect DEF Settled
  <2>2. QED
    BY <1>2, <2>1
<1>4. CASE r = q
  BY <1>1, <1>2, <1>3, <1>4
<1>5. ASSUME NEW o \in Op, Joins(o), r # q
      PROVE  /\ owner'[r[i]] = c /\ fn'[r[i]] # "idle"
             /\ r[i] = r[j] => i = j
  <2>1. owner[o] = c /\ r = Append(q, o) /\ fn[o] = "idle" /\ fn'[o] # "idle"
    BY <1>5, JoinEffect DEF ClientInv, TypeOK
  <2>2. /\ Len(r) = Len(q) + 1
        /\ \A k \in 1..Len(q) : r[k] = q[k]
        /\ r[Len(q) + 1] = o
    BY <1>1, <2>1, AppendFacts
  <2>3. owner' = owner /\ \A p \in Op \ {o} : fn'[p] = fn[p]
    BY <1>5, JoinEffect
  <2>4. QED
    BY <1>1, <1>2, <1>3, <2>1, <2>2, <2>3
<1>6. ASSUME NEW d \in Op, Drain(d), r # q
      PROVE  /\ owner'[r[i]] = c /\ fn'[r[i]] # "idle"
             /\ r[i] = r[j] => i = j
  <2> DEFINE n == Len(waitOn[d])
  <2>1. n \in Nat /\ r = AfterFirst(n, q)
    BY <1>6 DEF ClientInv, TypeOK, Drain
  <2>2. Len(r) = IF n <= Len(q) THEN Len(q) - n ELSE 0
    BY <1>1, <2>1, AfterFirstFacts
  <2>3. \A k \in 1..Len(r) : r[k] = q[k + n]
    BY <1>1, <2>1, AfterFirstFacts
  <2> HIDE DEF n
  <2>4. Len(q) \in Nat
    BY <1>1, LenProperties
  <2>5. i + n \in 1..Len(q) /\ j + n \in 1..Len(q) /\ r[i] = q[i + n] /\ r[j] = q[j + n]
    BY <2>1, <2>2, <2>3, <2>4
  <2>6. /\ owner[q[i + n]] = c /\ fn'[q[i + n]] # "idle"
        /\ q[i + n] = q[j + n] => i + n = j + n
    BY <1>2, <1>3, <2>5
  <2>7. i + n = j + n => i = j
    BY <2>1, <1>1
  <2>8. QED
    BY <1>1, <2>5, <2>6, <2>7
<1>7. QED
  BY <1>4, <1>5, <1>6, QueueEffect

\* What an operation queued behind is fixed when it is called.
LEMMA BehindIsFixed ==
  ASSUME ClientInv, [Next]_vars, NEW o \in Op, fn[o] # "idle"
  PROVE  behind'[o] = behind[o]
BY BehindEffect, QueuedEffect DEF ClientInv, TypeOK

\* A sole holder is an old one, or its callback has just started and nobody
\* queued behind it yet.
LEMMA SoleCases ==
  ASSUME ClientInv, [Next]_vars, NEW h \in Op, Sole(h)'
  PROVE  \/ Sole(h)
         \/ /\ Joins(h) /\ behind' = behind
            /\ \A o \in Op : behind[o] # {h}
<1>1. ASSUME Granted(h) \/ AcquireNoOp(h)
      PROVE  /\ Joins(h) /\ behind' = behind
             /\ \A o \in Op : behind[o] # {h}
  <2>1. CallbackStarts(h) /\ callback[h] \in {"none", "asked"}
    BY <1>1, StartEffect
  <2>2. \A o \in Op : behind[o] # {h}
    BY <2>1, BehindMeans DEF Under
  <2>3. QED
    BY <1>1, <2>1, <2>2 DEF Joins, CallbackStarts
<1>2. QED
  BY <1>1, SoleIsOld

\* Nothing but the drain loop removes entries, and only settled ones.
LEMMA UnsettledStep == ClientInv /\ [Next]_vars => UnsettledAreQueued'
<1> SUFFICES ASSUME ClientInv, [Next]_vars, NEW o \in Op, NEW h \in Op,
                    InTurn(o, h)', Sole(h)', fn'[o] \in {"waiting", "running"}
             PROVE  \E i \in 1..Len(pendingInLock'[owner'[h]]) :
                        pendingInLock'[owner'[h]][i] = o
  BY DEF UnsettledAreQueued
<1> DEFINE q == pendingInLock[owner[h]]
           r == pendingInLock'[owner[h]]
<1>1. q \in Seq(Op) /\ owner' = owner /\ owner[h] \in Client /\ Len(q) \in Nat
  BY HoldersEffect, LenProperties DEF ClientInv, TypeOK
<1> SUFFICES \E i \in 1..Len(r) : r[i] = o
  BY <1>1
<1>2. CASE Joins(o)
  <2>1. /\ pendingInLock' = [pendingInLock EXCEPT ![owner[o]] =
                                 Append(pendingInLock[owner[o]], o)]
        /\ behind[o] = {} /\ callback[o] \in {"none", "asked"}
    BY <1>2, JoinEffect
  <2>2. owner[h] = owner[o]
    <3>1. CASE AcquireQueued(o) /\ o # h
      <4>1. HoldersOf(owner[o]) = {h}
        BY <3>1, QueuedEffect DEF InTurn, ClientInv, TypeOK
      <4>2. QED
        BY <4>1 DEF HoldersOf
    <3>2. CASE Granted(o) \/ AcquireNoOp(o)
      <4>1. CallbackStarts(o)
        BY <3>2, StartEffect
      <4>2. QED
        BY <2>1, <4>1 DEF CallbackStarts, InTurn
    <3>3. QED
      BY <1>2, <3>1, <3>2 DEF Joins
  <2>3. r = Append(q, o)
    BY <1>1, <2>1, <2>2 DEF ClientInv, TypeOK
  <2>4. QED
    BY <1>1, <2>3, AppendFacts
<1>3. CASE ~Joins(o)
  <2>1. fn[o] \in {"waiting", "running"}
    BY <1>3, FnEffect DEF Joins, Settled
  <2>2. Sole(h) /\ InTurn(o, h)
    BY <1>3, <2>1, BehindIsFixed, SoleCases DEF InTurn
  <2>3. PICK i \in 1..Len(q) : q[i] = o
    BY <2>1, <2>2 DEF ClientInv, UnsettledAreQueued
  <2>4. ASSUME NEW p \in Op, Joins(p) PROVE \E k \in 1..Len(r) : r[k] = o
    <3>1. pendingInLock' = [pendingInLock EXCEPT ![owner[p]] =
                                Append(pendingInLock[owner[p]], p)]
      BY <2>4, JoinEffect
    <3>2. CASE owner[p] = owner[h]
      <4>1. r = Append(q, p)
        BY <1>1, <3>1, <3>2 DEF ClientInv, TypeOK
      <4>2. QED
        BY <1>1, <2>3, <4>1, AppendFacts
    <3>3. CASE owner[p] # owner[h]
      BY <2>3, <3>1, <3>3 DEF ClientInv, TypeOK
    <3>4. QED
      BY <3>2, <3>3
  <2>5. ASSUME NEW d \in Op, Drain(d) PROVE \E k \in 1..Len(r) : r[k] = o
    <3>1. CASE owner[d] # owner[h]
      BY <1>1, <2>3, <2>5, <3>1 DEF Drain, ClientInv, TypeOK
    <3>2. CASE owner[d] = owner[h]
      <4> DEFINE n == Len(waitOn[d])
      <4>1. Sole(d)
        BY <2>2, <2>5, <3>2, DrainerIsSole
      <4>2. /\ n \in Nat /\ n <= Len(q) /\ Len(r) = Len(q) - n
            /\ \A k \in 1..n : Settled(q[k])
            /\ \A k \in 1..Len(r) : r[k] = q[k + n]
        BY <1>1, <2>5, <3>2, <4>1, DrainEffect
      <4> HIDE DEF n
      <4>3. ~(i \in 1..n)
        BY <2>1, <2>3, <4>2 DEF Settled
      <4>4. i - n \in 1..Len(r) /\ (i - n) + n = i
        BY <1>1, <4>2, <4>3
      <4>5. QED
        BY <2>3, <4>2, <4>4
    <3>3. QED
      BY <3>1, <3>2
  <2>6. QED
    BY <2>3, <2>4, <2>5, QueueEffect
<1>4. QED
  BY <1>2, <1>3

\* Which steps move the lock callback of p on, and where to.
LEMMA CallbackEffect ==
  ASSUME ClientInv, [Next]_vars, NEW p \in Op
  PROVE  \/ callback'[p] = callback[p] /\ waitOn'[p] = waitOn[p]
         \/ callback'[p] \in {"asked", "refused"}
         \/ callback'[p] = "fn" /\ Joins(p)
         \/ Drain(p)
         \/ callback'[p] = "released" /\ Release(p)
<1> USE DEF ClientInv, TypeOK, setup
<1>1. CASE UNCHANGED vars
  BY <1>1 DEF vars, clientVars
<1>2. ASSUME NEW o \in Op, Granted(o) \/ AcquireNoOp(o)
      PROVE  /\ waitOn' = waitOn
             /\ IF p = o THEN callback'[p] = "fn" ELSE callback'[p] = callback[p]
  <2>1. CallbackStarts(o)
    BY <1>2, StartEffect
  <2>2. QED
    BY <2>1 DEF CallbackStarts
<1>3. ASSUME NEW o \in Op, AcquireAsks(o) \/ Refused(o)
      PROVE  /\ waitOn' = waitOn
             /\ IF p = o THEN callback'[p] \in {"asked", "refused"}
                         ELSE callback'[p] = callback[p]
  BY <1>3 DEF AcquireAsks, Refused
<1>4. ASSUME NEW o \in Op, Drain(o), p # o
      PROVE  callback'[p] = callback[p] /\ waitOn'[p] = waitOn[p]
  BY <1>4 DEF Drain
<1>5. ASSUME NEW o \in Op, Release(o)
      PROVE  /\ waitOn' = waitOn
             /\ IF p = o THEN callback'[p] = "released" ELSE callback'[p] = callback[p]
  BY <1>5 DEF Release
<1>6. ASSUME NEW o \in Op, AcquireQueued(o) \/ QueuedStarts(o)
      PROVE  waitOn' = waitOn /\ callback' = callback
  BY <1>6 DEF AcquireQueued, QueuedStarts
<1>7. ASSUME NEW o \in Op, NEW outcome \in {"resolved", "rejected"}, FnSettles(o, outcome)
      PROVE  waitOn' = waitOn /\ callback' = callback
  BY <1>7 DEF FnSettles
<1>8. QED
  BY <1>1, <1>2, <1>3, <1>4, <1>5, <1>6, <1>7 DEF Next, Step, Joins

\* The queue of one client stays, grows at its end or is drained at its front.
LEMMA QueueCases ==
  ASSUME ClientInv, [Next]_vars, NEW c \in Client
  PROVE  \/ pendingInLock'[c] = pendingInLock[c]
         \/ \E o \in Op : /\ Joins(o) /\ owner[o] = c
                          /\ pendingInLock'[c] = Append(pendingInLock[c], o)
         \/ \E d \in Op : Drain(d) /\ owner[d] = c
<1> USE DEF ClientInv, TypeOK
<1>1. ASSUME NEW o \in Op, Joins(o)
      PROVE  \/ pendingInLock'[c] = pendingInLock[c]
             \/ owner[o] = c /\ pendingInLock'[c] = Append(pendingInLock[c], o)
  BY <1>1, JoinEffect
<1>2. ASSUME NEW d \in Op, Drain(d)
      PROVE  pendingInLock'[c] = pendingInLock[c] \/ owner[d] = c
  BY <1>2 DEF Drain
<1>3. QED
  BY <1>1, <1>2, QueueEffect

\* What a holder waits for stays the front of the queue until its next turn.
LEMMA FrontStep == ClientInv /\ [Next]_vars => AwaitsFront'
<1> SUFFICES ASSUME ClientInv, [Next]_vars, NEW h \in Op,
                    callback'[h] = "drain", Sole(h)'
             PROVE  /\ Len(waitOn'[h]) <= Len(pendingInLock'[owner'[h]])
                    /\ \A i \in 1..Len(waitOn'[h]) :
                           waitOn'[h][i] = pendingInLock'[owner'[h]][i]
  BY DEF AwaitsFront
<1> DEFINE q == pendingInLock[owner[h]]
           r == pendingInLock'[owner[h]]
           w == waitOn[h]
<1>1. /\ q \in Seq(Op) /\ owner' = owner /\ owner[h] \in Client /\ Len(q) \in Nat
      /\ w \in Seq(Op) /\ Len(w) \in Nat
  BY HoldersEffect, LenProperties DEF ClientInv, TypeOK
<1>2. CASE Drain(h)
  <2>1. Sole(h)
    <3>1. callback[h] \in {"fn", "drain"}
      BY <1>2 DEF Drain
    <3>2. ~Joins(h)
      BY <3>1, JoinEffect
    <3>3. QED
      BY <3>2, SoleCases
  <2>2. waitOn'[h] = r /\ Len(r) \in Nat
    BY <1>1, <1>2, <2>1, DrainEffect, LenProperties DEF ClientInv, TypeOK
  <2>3. QED
    BY <1>1, <2>2
<1>3. CASE ~Drain(h)
  <2>1. callback[h] = "drain" /\ waitOn'[h] = w
    BY <1>3, CallbackEffect
  <2>2. Sole(h)
    BY <2>1, SoleCases, JoinEffect
  <2>3. Len(w) <= Len(q) /\ \A i \in 1..Len(w) : w[i] = q[i]
    BY <2>1, <2>2 DEF ClientInv, AwaitsFront
  <2>4. ASSUME NEW d \in Op, Drain(d), owner[d] = owner[h] PROVE FALSE
    <3>1. Under(h)
      BY <2>1 DEF Under
    <3>2. QED
      BY <1>3, <2>2, <2>4, <3>1, DrainerIsSole
  <2>5. ASSUME NEW o \in Op, r = Append(q, o)
        PROVE  Len(w) <= Len(r) /\ \A i \in 1..Len(w) : w[i] = r[i]
    <3>1. Len(r) = Len(q) + 1 /\ \A i \in 1..Len(q) : r[i] = q[i]
      BY <1>1, <2>5, AppendFacts
    <3>2. QED
      BY <1>1, <2>3, <3>1
  <2>6. Len(w) <= Len(r) /\ \A i \in 1..Len(w) : w[i] = r[i]
    BY <1>1, <2>3, <2>4, <2>5, QueueCases
  <2>7. QED
    BY <1>1, <2>1, <2>6
<1>4. QED
  BY <1>2, <1>3

\* The drain loop ends with an empty queue; who comes later is late.
LEMMA DrainedStep == ClientInv /\ [Next]_vars => TurnIsDrained'
<1> SUFFICES ASSUME ClientInv, [Next]_vars, NEW o \in Op, NEW h \in Op,
                    behind'[o] = {h}, Sole(h)', o \notin late',
                    \/ callback'[h] = "exit"
                    \/ callback'[h] = "released" /\ fn'[h] = "resolved"
             PROVE  Settled(o)'
  BY DEF TurnIsDrained
<1>1. owner' = owner
  BY HoldersEffect
<1>2. ASSUME AcquireQueued(o) PROVE FALSE
  <2>1. HoldersOf(owner[o]) = {h} /\ callback' = callback
    BY <1>2, QueuedEffect DEF ClientInv, TypeOK
  <2>2. Under(h)
    BY <2>1 DEF HoldersOf
  <2>3. callback[h] = "exit"
    BY <2>1, <2>2 DEF Under
  <2>4. QED
    BY <1>2, <2>1, <2>3 DEF AcquireQueued
<1>3. behind[o] = {h} /\ o \notin late
  <2>1. ASSUME NEW p \in Op, AcquireQueued(p)
        PROVE  behind'[o] = behind[o] /\ late \subseteq late'
    <3>1. behind' = [behind EXCEPT ![p] = HoldersOf(owner[p])] /\ p # o
      BY <1>2, <2>1, QueuedEffect
    <3>2. late \subseteq late'
      BY <2>1 DEF AcquireQueued
    <3>3. behind \in [Op -> SUBSET Op]
      BY DEF ClientInv, TypeOK
    <3>4. QED
      BY <3>1, <3>2, <3>3
  <2>2. QED
    BY <2>1, BehindEffect
<1>4. Sole(h)
  BY <1>3, SoleCases
<1>5. Settled(o) => Settled(o)'
  BY FnEffect, JoinEffect DEF Settled, Joins
<1>6. ASSUME ~Drain(h) PROVE Settled(o)
  <2>1. \/ callback[h] = "exit"
        \/ callback[h] = "released" /\ fn'[h] = "resolved"
        \/ Release(h) /\ callback[h] \in {"exit", "fn"} /\ fn'[h] = "resolved"
    BY <1>6, CallbackEffect DEF Release
  <2>2. CASE callback[h] = "exit"
    BY <1>3, <1>4, <2>2 DEF ClientInv, TurnIsDrained
  <2>3. CASE callback[h] = "released" /\ fn'[h] = "resolved"
    <3>1. fn[h] = "resolved"
      BY <2>3, FnEffect, JoinEffect DEF Joins, Settled, ClientInv, RolesFollow
    <3>2. QED
      BY <1>3, <1>4, <2>3, <3>1 DEF ClientInv, TurnIsDrained
  <2>4. CASE Release(h) /\ callback[h] = "fn" /\ fn'[h] = "resolved"
    BY <2>4, ReleaseEffect
  <2>5. QED
    BY <2>1, <2>2, <2>3, <2>4
<1>7. ASSUME Drain(h) PROVE Settled(o)
  <2> DEFINE q == pendingInLock[owner[h]]
             r == pendingInLock'[owner[h]]
             n == Len(waitOn[h])
  <2>1. owner[h] \in Client
    BY DEF ClientInv, TypeOK
  <2>2. /\ Len(q) \in Nat /\ n \in Nat /\ n <= Len(q) /\ Len(r) = Len(q) - n
        /\ \A i \in 1..n : Settled(q[i])
        /\ callback' = [callback EXCEPT ![h] = IF r = <<>> THEN "exit" ELSE "drain"]
    BY <1>4, <1>7, <2>1, DrainEffect
  <2>3. callback'[h] = IF r = <<>> THEN "exit" ELSE "drain"
    BY <2>2 DEF ClientInv, TypeOK
  <2>4. Len(r) = 0
    <3>1. r = <<>>
      BY <2>3
    <3>2. QED
      BY <3>1, EmptySeq
  <2> HIDE DEF q, r, n
  <2>5. Len(q) = n
    BY <2>2, <2>4
  <2> SUFFICES ASSUME ~Settled(o) PROVE FALSE
    OBVIOUS
  <2>6. fn[o] \in {"waiting", "running"}
    BY <1>3, BehindMeans DEF Settled, ClientInv, TypeOK, FnStates
  <2>7. PICK i \in 1..Len(q) : q[i] = o
    BY <1>3, <1>4, <2>6 DEF ClientInv, UnsettledAreQueued, InTurn, q
  <2>8. QED
    BY <2>2, <2>5, <2>7
<1>8. QED
  BY <1>5, <1>6, <1>7

\* The last entry changes with a new holder, or by one that queues behind it.
LEMMA LastStep == ClientInv /\ HoldersAgree' /\ [Next]_vars => LastInTurn'
<1> SUFFICES ASSUME ClientInv, HoldersAgree', [Next]_vars, NEW h \in Op,
                    Under(h)', Sole(h)', pendingInLock'[owner'[h]] # <<>>
             PROVE  LET e == pendingInLock'[owner'[h]][Len(pendingInLock'[owner'[h]])]
                    IN  e = h \/ behind'[e] = {h}
  BY DEF LastInTurn, InTurn
<1> DEFINE q == pendingInLock[owner[h]]
           r == pendingInLock'[owner[h]]
           Member(e) == e = h \/ behind'[e] = {h}
<1>1. /\ owner' = owner /\ lockKind' = lockKind
      /\ q \in Seq(Op) /\ owner[h] \in Client /\ Len(q) \in Nat
  BY HoldersEffect, LenProperties DEF ClientInv, TypeOK
<1>2. ASSUME NEW o \in Op, Joins(o), owner[o] = owner[h], r = Append(q, o)
      PROVE  Member(r[Len(r)])
  <2>1. r[Len(r)] = o
    BY <1>1, <1>2, AppendFacts
  <2>2. Member(o)
    <3>1. CASE AcquireQueued(o)
      <4>1. /\ behind'[o] = HoldersOf(owner[h]) /\ callback' = callback
            /\ lockKind # "stealing" \/ Sole(h)
        <5>1. callback[o] = "none" /\ callback' = callback
          BY <3>1, QueuedEffect
        <5>2. behind'[o] = HoldersOf(owner[h])
          BY <1>2, <3>1, QueuedEffect DEF ClientInv, TypeOK
        <5>3. Joins(h) => ~Under(h)
          BY JoinEffect DEF Under
        <5>4. Sole(h)
          BY <5>1, <5>3, SoleCases DEF Under
        <5>5. QED
          BY <5>1, <5>2, <5>4
      <4>2. Under(h)
        BY <4>1 DEF Under
      <4>3. \A p \in HoldersOf(owner[h]) : p = h
        <5>1. CASE lockKind # "stealing"
          BY <4>2, <5>1 DEF ClientInv, HoldersAgree, HoldersOf
        <5>2. CASE lockKind = "stealing"
          BY <4>1, <5>2 DEF Sole
        <5>3. QED
          BY <5>1, <5>2
      <4>4. h \in HoldersOf(owner[h])
        BY <4>2 DEF HoldersOf
      <4>5. behind'[o] = {h}
        BY <4>1, <4>3, <4>4
      <4>6. QED
        BY <4>5
    <3>2. CASE Granted(o) \/ AcquireNoOp(o)
      <4>1. CallbackStarts(o) /\ phase'[o] = "holding"
        BY <3>2, StartEffect
      <4>2. Under(o)'
        BY <4>1 DEF CallbackStarts, Under, ClientInv, TypeOK
      <4>3. o = h
        <5>1. CASE lockKind # "stealing"
          BY <1>1, <1>2, <4>2, <5>1 DEF HoldersAgree
        <5>2. CASE lockKind = "stealing"
          BY <1>1, <3>2, <5>2, StartEffect DEF Sole
        <5>3. QED
          BY <5>1, <5>2
      <4>4. QED
        BY <4>3
    <3>3. QED
      BY <1>2, <3>1, <3>2 DEF Joins
  <2>3. QED
    BY <2>1, <2>2
<1>3. ASSUME Sole(h), Under(h), q # <<>>, r # <<>>, r[Len(r)] = q[Len(q)]
      PROVE  Member(r[Len(r)])
  <2>1. InTurn(q[Len(q)], h)
    BY <1>3 DEF ClientInv, LastInTurn
  <2>2. Len(q) \in 1..Len(q)
    BY <1>1, <1>3, EmptySeq
  <2>3. q[Len(q)] \in Op /\ fn[q[Len(q)]] # "idle"
    BY <1>1, <2>2 DEF ClientInv, EntriesDiffer
  <2>4. QED
    BY <1>3, <2>1, <2>3, BehindIsFixed DEF InTurn
<1>4. ASSUME ~(\E o \in Op : Joins(o) /\ owner[o] = owner[h])
      PROVE  Sole(h) /\ Under(h)
  <2>1. ~Joins(h)
    BY <1>4
  <2>2. QED
    <3>1. Sole(h)
      BY <2>1, SoleCases
    <3>2. Under(h)
      BY <2>1, CallbackEffect DEF Under, Drain
    <3>3. QED
      BY <3>1, <3>2
<1>5. CASE r = q /\ ~(\E o \in Op : Joins(o) /\ owner[o] = owner[h])
  BY <1>1, <1>3, <1>4, <1>5
<1>6. ASSUME NEW o \in Op, Joins(o), owner[o] = owner[h]
      PROVE  Member(r[Len(r)])
  <2>1. r = Append(q, o)
    BY <1>6, JoinEffect DEF ClientInv, TypeOK
  <2>2. QED
    BY <1>2, <1>6, <2>1
<1>7. ASSUME NEW d \in Op, Drain(d), owner[d] = owner[h],
             ~(\E o \in Op : Joins(o) /\ owner[o] = owner[h])
      PROVE  Member(r[Len(r)])
  <2> DEFINE n == Len(waitOn[d])
  <2>1. Sole(h) /\ Under(h) /\ Sole(d)
    BY <1>4, <1>7, DrainerIsSole
  <2>2. /\ n \in Nat /\ n <= Len(q) /\ Len(r) = Len(q) - n /\ r \in Seq(Op)
        /\ \A k \in 1..Len(r) : r[k] = q[k + n]
    BY <1>1, <1>7, <2>1, DrainEffect
  <2> HIDE DEF n
  <2>3. Len(r) # 0
    BY <1>1, <2>2, EmptySeq
  <2>4. Len(r) \in 1..Len(r) /\ Len(r) + n = Len(q) /\ Len(q) # 0
    BY <1>1, <2>2, <2>3
  <2>5. r[Len(r)] = q[Len(q)]
    BY <2>2, <2>4
  <2>6. QED
    BY <1>1, <1>3, <2>1, <2>4, <2>5, EmptySeq
<1>8. QED
  BY <1>1, <1>5, <1>6, <1>7, QueueCases

\* What an operation waits for is fixed when it is called.
LEMMA WaitForIsFixed ==
  ASSUME ClientInv, [Next]_vars, NEW o \in Op, fn[o] # "idle"
  PROVE  waitFor'[o] = waitFor[o]
<1> USE DEF ClientInv, TypeOK
<1>1. CASE UNCHANGED vars
  BY <1>1 DEF vars, clientVars
<1>2. ASSUME NEW p \in Op, Granted(p) \/ AcquireNoOp(p) PROVE waitFor' = waitFor
  <2>1. CallbackStarts(p)
    BY <1>2, StartEffect
  <2>2. QED
    BY <2>1 DEF CallbackStarts
<1>3. ASSUME NEW p \in Op, AcquireQueued(p) PROVE waitFor'[o] = waitFor[o]
  BY <1>3 DEF AcquireQueued
<1>4. QED
  BY <1>1, <1>2, <1>3 DEF Next, Step, AcquireAsks, Refused, QueuedStarts, FnSettles,
                          Drain, Release

\* What a step does to the links of the chain, before the queue itself changes.
\* The one step that needs an argument is QueuedStarts: the entry it awaited has
\* settled, and by the invariant so had all entries before that one.
LEMMA ChainKept ==
  ASSUME ClientInv, [Next]_vars, NEW c \in Client, NEW h \in Op, Sole(h),
         NEW k \in 1..Len(pendingInLock[c]), behind[pendingInLock[c][k]] = {h}
  PROVE  /\ k > 1 => InTurn(pendingInLock[c][k - 1], h)
         /\ k > 1 /\ fn'[pendingInLock[c][k]] = "waiting" =>
                waitFor'[pendingInLock[c][k]] = pendingInLock[c][k - 1]
         /\ fn'[pendingInLock[c][k]] # "waiting" =>
                \A i \in 1..(k - 1) : InTurn(pendingInLock[c][i], h) =>
                    fn'[pendingInLock[c][i]] \in {"resolved", "rejected"}
         /\ \A i \in 1..Len(pendingInLock[c]) : pendingInLock[c][i] = h => i < k
<1> DEFINE q == pendingInLock[c]
           x == q[k]
<1>1. q \in Seq(Op) /\ Len(q) \in Nat
  BY LenProperties DEF ClientInv, TypeOK
<1>2. /\ \A i \in 1..Len(q) : q[i] \in Op /\ fn[q[i]] # "idle"
      /\ \A i, j \in 1..Len(q) : q[i] = q[j] => i = j
  BY <1>1 DEF ClientInv, EntriesDiffer
<1> DEFINE Link(j) == /\ j > 1 => InTurn(q[j - 1], h)
                      /\ j > 1 /\ fn[q[j]] = "waiting" => waitFor[q[j]] = q[j - 1]
                      /\ fn[q[j]] # "waiting" =>
                             \A i \in 1..(j - 1) : InTurn(q[i], h) => Settled(q[i])
                      /\ \A i \in 1..Len(q) : q[i] = h => i < j
<1>3. \A j \in 1..Len(q) : behind[q[j]] = {h} => Link(j)
  BY DEF ClientInv, QueueIsChain
<1>4. Link(k)
  BY <1>3
<1>5. ASSUME NEW p \in Op, fn[p] # "idle"
      PROVE  /\ Settled(p) => fn'[p] \in {"resolved", "rejected"}
             /\ fn'[p] = "waiting" => fn[p] = "waiting"
             /\ fn[p] = "waiting" /\ fn'[p] # "waiting" => QueuedStarts(p)
  BY <1>5, FnEffect DEF Settled
<1>6. x \in Op /\ fn[x] # "idle"
  BY <1>2
<1>7. k > 1 /\ fn'[x] = "waiting" => waitFor'[x] = q[k - 1]
  BY <1>4, <1>5, <1>6, WaitForIsFixed
<1>8. ASSUME fn'[x] # "waiting", NEW i \in 1..(k - 1), InTurn(q[i], h)
      PROVE  Settled(q[i])
  <2>1. CASE fn[x] # "waiting"
    BY <1>4, <1>8, <2>1
  <2>2. CASE fn[x] = "waiting"
    <3>1. QueuedStarts(x)
      BY <1>5, <1>6, <1>8, <2>2
    <3>2. k - 1 \in 1..Len(q) /\ k > 1 /\ i \in 1..Len(q)
      BY <1>1
    <3>3. waitFor[x] = q[k - 1] /\ q[k - 1] \in Op
      BY <1>2, <1>4, <2>2, <3>2
    <3>4. Settled(q[k - 1])
      BY <3>1, <3>3, ClientLockAssumption DEF QueuedStarts
    <3>5. CASE i = k - 1
      BY <3>4, <3>5
    <3>6. CASE i # k - 1
      <4>1. i \in 1..((k - 1) - 1) /\ i < k - 1
        BY <1>1, <3>6
      <4>2. behind[q[k - 1]] = {h}
        <5>1. q[k - 1] # h
          <6>1. ASSUME q[k - 1] = h PROVE FALSE
            <7>1. q[i] # h
              BY <1>2, <3>2, <4>1, <6>1
            <7>2. behind[q[i]] = {h}
              BY <1>8, <7>1 DEF InTurn
            <7>3. k - 1 < i
              BY <1>3, <3>2, <6>1, <7>2
            <7>4. QED
              BY <4>1, <7>3
          <6>2. QED
            BY <6>1
        <5>2. InTurn(q[k - 1], h)
          BY <1>4, <3>2
        <5>3. QED
          BY <5>1, <5>2 DEF InTurn
      <4>3. Link(k - 1)
        BY <1>3, <3>2, <4>2
      <4>4. fn[q[k - 1]] # "waiting"
        BY <3>4 DEF Settled
      <4>5. QED
        BY <1>8, <4>1, <4>3, <4>4
    <3>7. QED
      BY <3>5, <3>6
  <2>3. QED
    BY <2>1, <2>2
<1>9. ASSUME fn'[x] # "waiting", NEW i \in 1..(k - 1), InTurn(q[i], h)
      PROVE  fn'[q[i]] \in {"resolved", "rejected"}
  <2>1. i \in 1..Len(q)
    BY <1>1
  <2>2. QED
    BY <1>2, <1>5, <1>8, <1>9, <2>1
<1>10. QED
  BY <1>4, <1>7, <1>9

\* The links between entries survive growing at the end and draining at the front.
LEMMA ChainStep == ClientInv /\ [Next]_vars => QueueIsChain'
<1> SUFFICES ASSUME ClientInv, [Next]_vars, NEW c \in Client, NEW h \in Op, Sole(h)',
                    NEW j \in 1..Len(pendingInLock'[c]),
                    behind'[pendingInLock'[c][j]] = {h}
             PROVE  LET r == pendingInLock'[c]
                        Member(e) == e = h \/ behind'[e] = {h}
                    IN  /\ j > 1 => Member(r[j - 1])
                        /\ j > 1 /\ fn'[r[j]] = "waiting" => waitFor'[r[j]] = r[j - 1]
                        /\ fn'[r[j]] # "waiting" =>
                               \A i \in 1..(j - 1) : Member(r[i]) =>
                                   fn'[r[i]] \in {"resolved", "rejected"}
                        /\ \A i \in 1..Len(r) : r[i] = h => i < j
  BY DEF QueueIsChain, InTurn, Settled
<1> DEFINE q == pendingInLock[c]
           r == pendingInLock'[c]
           Member(e) == e = h \/ behind'[e] = {h}
           LinkNext == /\ j > 1 => Member(r[j - 1])
                       /\ j > 1 /\ fn'[r[j]] = "waiting" => waitFor'[r[j]] = r[j - 1]
                       /\ fn'[r[j]] # "waiting" =>
                              \A i \in 1..(j - 1) : Member(r[i]) =>
                                  fn'[r[i]] \in {"resolved", "rejected"}
                       /\ \A i \in 1..Len(r) : r[i] = h => i < j
<1> SUFFICES LinkNext
  OBVIOUS
<1>1. q \in Seq(Op) /\ Len(q) \in Nat /\ owner' = owner
  BY HoldersEffect, LenProperties DEF ClientInv, TypeOK
<1>2. \A i \in 1..Len(q) : /\ q[i] \in Op /\ fn[q[i]] # "idle" /\ owner[q[i]] = c
                           /\ behind'[q[i]] = behind[q[i]]
                           /\ Member(q[i]) <=> InTurn(q[i], h)
  <2>1. \A i \in 1..Len(q) : q[i] \in Op /\ fn[q[i]] # "idle" /\ owner[q[i]] = c
    BY <1>1 DEF ClientInv, EntriesDiffer
  <2>2. \A i \in 1..Len(q) : behind'[q[i]] = behind[q[i]]
    BY <2>1, BehindIsFixed
  <2>3. QED
    BY <2>1, <2>2 DEF InTurn
<1>3. ASSUME NEW k \in 1..Len(q), behind[q[k]] = {h}
      PROVE  /\ Sole(h)
             /\ k > 1 => Member(q[k - 1])
             /\ k > 1 /\ fn'[q[k]] = "waiting" => waitFor'[q[k]] = q[k - 1]
             /\ fn'[q[k]] # "waiting" =>
                    \A i \in 1..(k - 1) : Member(q[i]) =>
                        fn'[q[i]] \in {"resolved", "rejected"}
             /\ \A i \in 1..Len(q) : q[i] = h => i < k
  <2>1. Sole(h)
    BY <1>2, <1>3, SoleCases
  <2>2. \A i \in 1..(k - 1) : i \in 1..Len(q) /\ (Member(q[i]) <=> InTurn(q[i], h))
    BY <1>1, <1>2
  <2>3. k > 1 => k - 1 \in 1..Len(q) /\ (Member(q[k - 1]) <=> InTurn(q[k - 1], h))
    BY <1>1, <1>2
  <2>4. QED
    BY <1>3, <2>1, <2>2, <2>3, ChainKept
<1>4. CASE r = q
  BY <1>2, <1>3, <1>4
<1>5. ASSUME NEW o \in Op, Joins(o), owner[o] = c, r = Append(q, o)
      PROVE  LinkNext
  <2>1. /\ Len(r) = Len(q) + 1 /\ r[Len(q) + 1] = o
        /\ \A i \in 1..Len(q) : r[i] = q[i]
    BY <1>1, <1>5, AppendFacts
  <2>2. /\ fn[o] = "idle" /\ callback[o] \in {"none", "asked"} /\ behind[o] = {}
        /\ behind'[o] = {} \/ AcquireQueued(o)
    <3>1. Granted(o) \/ AcquireNoOp(o) => behind' = behind
      <4>1. Granted(o) \/ AcquireNoOp(o) => CallbackStarts(o)
        BY StartEffect
      <4>2. QED
        BY <4>1 DEF CallbackStarts
    <3>2. QED
      BY <1>5, <3>1, JoinEffect DEF Joins
  <2>3. CASE j \in 1..Len(q)
    <3>1. behind[q[j]] = {h} /\ r[j] = q[j]
      BY <1>2, <2>1, <2>3
    <3>2. o # h
      BY <1>2, <2>2, <2>3, <3>1, BehindMeans DEF Under
    <3>3. \A i \in 1..(j - 1) : i \in 1..Len(q) /\ r[i] = q[i]
      BY <1>1, <2>1, <2>3
    <3>4. j > 1 => r[j - 1] = q[j - 1]
      BY <1>1, <2>1, <2>3
    <3>5. \A i \in 1..Len(r) : r[i] = h => i < j
      BY <1>1, <1>3, <2>1, <2>3, <3>1, <3>2
    <3>6. QED
      BY <1>3, <2>3, <3>1, <3>3, <3>4, <3>5
  <2>4. CASE j = Len(q) + 1
    <3>1. r[j] = o /\ AcquireQueued(o)
      BY <2>1, <2>2, <2>4
    <3>2. behind'[o] = HoldersOf(c) /\ fn'[o] = "waiting" /\ callback' = callback
      BY <1>5, <3>1, QueuedEffect DEF ClientInv, TypeOK
    <3>3. Under(h) /\ owner[h] = c
      BY <3>1, <3>2 DEF HoldersOf
    <3>4. Sole(h)
      BY <3>3, SoleCases, JoinEffect DEF Under
    <3>5. waitFor'[o] = IF q = <<>> THEN NoOp ELSE q[Len(q)]
      BY <1>5, <3>1 DEF AcquireQueued, Last, ClientInv, TypeOK
    <3>6. j > 1 => /\ q # <<>> /\ r[j - 1] = q[Len(q)]
                   /\ Len(q) \in 1..Len(q)
      BY <1>1, <2>1, <2>4, EmptySeq
    <3>7. j > 1 => Member(q[Len(q)])
      BY <1>2, <3>3, <3>4, <3>6 DEF ClientInv, LastInTurn
    <3>8. o # h
      BY <3>2, <3>3, <2>2, <3>1, QueuedEffect DEF Under
    <3>9. \A i \in 1..Len(r) : r[i] = h => i < j
      BY <1>1, <2>1, <2>4, <3>8
    <3>10. QED
      BY <3>1, <3>2, <3>5, <3>6, <3>7, <3>9
  <2>5. j \in 1..Len(r)
    OBVIOUS
  <2>6. j \in 1..Len(q) \/ j = Len(q) + 1
    <3> HIDE DEF r, q
    <3>1. QED
      BY <1>1, <2>1, <2>5
  <2>7. QED
    BY <2>3, <2>4, <2>6
<1>6. ASSUME NEW d \in Op, Drain(d), owner[d] = c, r # q
      PROVE  LinkNext
  <2> DEFINE n == Len(waitOn[d])
  <2>1. n \in Nat /\ r = AfterFirst(n, q)
    BY <1>6, LenProperties DEF ClientInv, TypeOK, Drain
  <2>2. /\ Len(r) = IF n <= Len(q) THEN Len(q) - n ELSE 0
        /\ \A i \in 1..Len(r) : r[i] = q[i + n]
    <3>1. Len(AfterFirst(n, q)) = IF n <= Len(q) THEN Len(q) - n ELSE 0
      BY <1>1, <2>1, AfterFirstFacts
    <3>2. \A i \in 1..Len(AfterFirst(n, q)) : AfterFirst(n, q)[i] = q[i + n]
      BY <1>1, <2>1, AfterFirstFacts
    <3>3. QED
      BY <2>1, <3>1, <3>2
  <2> HIDE DEF n
  <2>3. /\ r[j] = q[j + n] /\ j \in Nat /\ j >= 1 /\ j <= Len(r)
        /\ \A i \in 1..Len(r) : i + n \in 1..Len(q) /\ r[i] = q[i + n]
    <3>1. Len(r) \in Nat
      BY <1>1, <2>1, <2>2
    <3>2. j \in 1..Len(r)
      OBVIOUS
    <3> HIDE DEF r
    <3>3. j \in Nat /\ j >= 1 /\ j <= Len(r)
      BY <3>1, <3>2
    <3>4. \A i \in 1..Len(r) : i + n \in 1..Len(q)
      BY <1>1, <2>1, <2>2, <3>1
    <3>5. QED
      BY <2>2, <3>2, <3>3, <3>4
  <2>4. j + n \in 1..Len(q) /\ behind[q[j + n]] = {h}
    <3>1. j + n \in 1..Len(q)
      BY <2>3
    <3>2. behind'[r[j]] = {h}
      OBVIOUS
    <3>3. QED
      BY <1>2, <2>3, <3>1, <3>2
  <2>5. \A i \in 1..(j - 1) : i + n \in 1..((j + n) - 1) /\ r[i] = q[i + n]
    <3>1. \A i \in 1..(j - 1) : i \in 1..Len(r) /\ i + n \in 1..((j + n) - 1)
      <4> HIDE DEF r, q
      <4>1. Len(r) \in Nat
        BY <1>1, <2>1, <2>2
      <4>2. QED
        BY <2>1, <2>3, <4>1
    <3>2. QED
      BY <2>3, <3>1
  <2>6. j > 1 => j + n > 1 /\ r[j - 1] = q[(j + n) - 1]
    <3>1. j > 1 => j - 1 \in 1..(j - 1) /\ (j - 1) + n = (j + n) - 1 /\ j + n > 1
      <4> HIDE DEF r, q
      <4>1. QED
        BY <2>1, <2>3
    <3>2. QED
      BY <2>5, <3>1
  <2>7. \A i \in 1..Len(r) : r[i] = h => i < j
    <3>1. \A i \in 1..Len(r) : r[i] = h => i + n < j + n
      BY <1>3, <2>3, <2>4
    <3>2. QED
      BY <1>1, <2>1, <2>2, <2>3, <3>1
  <2>8. QED
    BY <1>3, <2>3, <2>4, <2>5, <2>6, <2>7
<1>7. QED
  BY <1>4, <1>5, <1>6, QueueCases
-----------------------------------------------------------------------------
\* Before any call nobody holds, waits or queues.
LEMMA InitClientInv == Init => ClientInv
<1> SUFFICES ASSUME Init PROVE ClientInv
  OBVIOUS
<1>1. \A c \in Client : pendingInLock[c] = <<>> /\ Len(pendingInLock[c]) = 0 /\ ~lockAcquired[c]
  BY EmptySeq DEF Init
<1>2. \A o \in Op : /\ fn[o] = "idle" /\ callback[o] = "none" /\ waitOn[o] = <<>>
                    /\ behind[o] = {} /\ phase[o] = "idle" /\ owner[o] \in Client
  BY DEF Init, Lock!Init
<1>3. TypeOK
  BY EmptySeq DEF Init, TypeOK, FnStates, CallbackStates, Lock!Init, Lock!Phases
<1>4. PhaseFollows /\ RolesFollow /\ HoldersAgree /\ FlagHasHolder
  BY <1>1, <1>2 DEF PhaseFollows, RolesFollow, HoldersAgree, FlagHasHolder, Under
<1>5. EntriesDiffer /\ UnsettledAreQueued /\ LastInTurn /\ AwaitsFront /\ TurnIsDrained
  BY <1>1, <1>2 DEF EntriesDiffer, UnsettledAreQueued, LastInTurn, AwaitsFront,
                    TurnIsDrained, Under
<1>6. QueueIsChain
  BY <1>1 DEF QueueIsChain
<1>7. QED
  BY <1>3, <1>4, <1>5, <1>6 DEF ClientInv

\* In every reachable state all parts of the invariant hold together.
THEOREM Invariance == Spec => []ClientInv
<1>1. ClientInv /\ [Next]_vars => ClientInv'
  BY TypeStep, PhaseStep, RolesStep, HoldersStep, FlagStep, EntriesStep,
     UnsettledStep, ChainStep, LastStep, FrontStep, DrainedStep DEF ClientInv
<1>2. QED
  BY InitClientInv, <1>1, PTL DEF Spec

\* Two operations of one turn never run at the same time.
LEMMA TurnIsSerial ==
  ASSUME ClientInv, NEW h \in Op, Sole(h), NEW o \in Op, NEW p \in Op,
         InTurn(o, h), InTurn(p, h), fn[o] = "running", fn[p] = "running"
  PROVE  o = p
<1> DEFINE q == pendingInLock[owner[h]]
<1>1. /\ owner[h] \in Client /\ Len(q) \in Nat
  BY LenProperties DEF ClientInv, TypeOK
<1>2. PICK i \in 1..Len(q) : q[i] = o
  BY DEF ClientInv, UnsettledAreQueued
<1>3. PICK j \in 1..Len(q) : q[j] = p
  BY DEF ClientInv, UnsettledAreQueued
<1>4. ASSUME NEW a \in 1..Len(q), NEW b \in 1..Len(q), a < b,
             fn[q[a]] = "running", fn[q[b]] = "running", InTurn(q[a], h), InTurn(q[b], h)
      PROVE  FALSE
  <2> DEFINE Link(k) == behind[q[k]] = {h} =>
                 /\ fn[q[k]] # "waiting" =>
                        \A l \in 1..(k - 1) : InTurn(q[l], h) => Settled(q[l])
                 /\ \A l \in 1..Len(q) : q[l] = h => l < k
  <2>1. Link(a) /\ Link(b)
    BY <1>1 DEF ClientInv, QueueIsChain
  <2>2. a \in 1..(b - 1) /\ ~(b < a)
    BY <1>1, <1>4
  <2>3. CASE behind[q[b]] = {h}
    <3>1. Settled(q[a])
      BY <1>4, <2>1, <2>2, <2>3
    <3>2. QED
      BY <1>4, <3>1 DEF Settled
  <2>4. CASE q[b] = h /\ behind[q[a]] = {h}
    BY <1>4, <2>1, <2>2, <2>4
  <2>5. CASE q[b] = h /\ q[a] = h
    BY <1>1, <1>4, <2>5 DEF ClientInv, EntriesDiffer
  <2>6. QED
    BY <1>4, <2>3, <2>4, <2>5 DEF InTurn
<1>5. i < j \/ j < i \/ i = j
  BY <1>1
<1>6. QED
  BY <1>2, <1>3, <1>4, <1>5

\* Every variable of the clients and of the lock function keeps its type; the
\* entry a queued operation awaits is an operation, not the whole queue.
THEOREM TypeCorrect == Spec => []TypeOK
<1>1. ClientInv => TypeOK
  BY DEF ClientInv
<1>2. QED
  BY Invariance, <1>1, PTL

\* The flag lockAcquired is never left behind by a holder that has gone: else
\* every later operation of the client would queue behind nobody, for ever.
THEOREM FlagNotLeft == Spec => []FlagHasHolder
<1>1. ClientInv => FlagHasHolder
  BY DEF ClientInv
<1>2. QED
  BY Invariance, <1>1, PTL

\* On a lock that does not steal, the operations that share a turn of the lock
\* run one after the other.
THEOREM Serial == Spec => []QueueIsSerial
<1>1. ASSUME ClientInv, lockKind # "stealing", NEW o \in Running, NEW p \in Running, o # p
      PROVE  o \notin behind[p] /\ behind[o] \cap behind[p] = {}
  <2>1. /\ o \in Op /\ p \in Op /\ fn[o] = "running" /\ fn[p] = "running"
        /\ behind[o] \subseteq Op /\ behind[p] \subseteq Op
    BY <1>1 DEF Running, ClientInv, TypeOK
  <2>2. \A h \in Op : Sole(h)
    BY <1>1 DEF Sole
  <2>3. \A e, h \in Op : h \in behind[e] => behind[e] = {h}
    BY <1>1 DEF ClientInv, TypeOK, HoldersAgree
  <2>4. o \notin behind[p]
    BY <1>1, <2>1, <2>2, <2>3, TurnIsSerial DEF InTurn
  <2>5. ASSUME NEW h \in behind[o] \cap behind[p] PROVE FALSE
    BY <1>1, <2>1, <2>2, <2>3, TurnIsSerial DEF InTurn
  <2>6. QED
    BY <2>4, <2>5
<1>2. ClientInv => QueueIsSerial
  BY <1>1 DEF QueueIsSerial
<1>3. QED
  BY Invariance, <1>2, PTL

\* A running operation that neither outlived its turn nor lost the lock belongs
\* to the turn of a holder of its client that still has the lock.
LEMMA TurnOfRunning ==
  ASSUME ClientInv, NEW o \in Running, o \notin Stray, o \notin Robbed
  PROVE  \E h \in Op : /\ owner[h] = owner[o] /\ Under(h) /\ phase[h] = "holding"
                       /\ o = h \/ (callback[o] = "none" /\ h \in behind[o])
                       /\ \A g \in behind[o] : Under(g) /\ phase[g] = "holding"
<1>1. o \in Op /\ fn[o] = "running" /\ behind[o] \subseteq Op
  BY DEF Running, ClientInv, TypeOK
<1>2. callback[o] \in {"none", "fn"}
  BY <1>1 DEF ClientInv, RolesFollow, TypeOK, CallbackStates, Settled
<1>3. \A g \in behind[o] : owner[g] = owner[o] /\ Under(g) /\ phase[g] = "holding"
  BY <1>1 DEF ClientInv, RolesFollow, PhaseFollows, Stray, Robbed
<1>4. CASE callback[o] = "fn"
  <2>1. Under(o) /\ phase[o] = "holding"
    BY <1>1, <1>4 DEF Under, ClientInv, PhaseFollows, Robbed
  <2>2. QED
    BY <1>1, <1>3, <2>1
<1>5. CASE callback[o] = "none"
  <2>1. behind[o] # {}
    BY <1>1, <1>5 DEF ClientInv, RolesFollow
  <2>2. QED
    BY <1>1, <1>3, <1>5, <2>1
<1>6. QED
  BY <1>2, <1>4, <1>5

\* Operations overlap only when one of them outlived the turn of the lock it
\* ran under or was robbed of the lock; this holds for every lock function.
THEOREM OverlapOnlyByStrays == Spec => []OnlyStraysOverlap
<1>1. ASSUME ClientInv, NEW o \in Running \ (Stray \cup Robbed),
             NEW p \in Running \ (Stray \cup Robbed),
             lockKind = "noop" => owner[o] = owner[p]
      PROVE  o = p
  <2>1. o \in Op /\ p \in Op /\ fn[o] = "running" /\ fn[p] = "running"
    BY DEF Running
  <2>2. PICK h \in Op : /\ owner[h] = owner[o] /\ Under(h) /\ phase[h] = "holding"
                        /\ o = h \/ (callback[o] = "none" /\ h \in behind[o])
                        /\ \A g \in behind[o] : Under(g) /\ phase[g] = "holding"
    BY <1>1, TurnOfRunning
  <2>3. PICK k \in Op : /\ owner[k] = owner[p] /\ Under(k) /\ phase[k] = "holding"
                        /\ p = k \/ (callback[p] = "none" /\ k \in behind[p])
                        /\ \A g \in behind[p] : Under(g) /\ phase[g] = "holding"
    BY <1>1, TurnOfRunning
  <2>4. ASSUME NEW x \in Op, NEW y \in Op, Under(x), Under(y),
               phase[x] = "holding", phase[y] = "holding",
               lockKind = "noop" => owner[x] = owner[y]
        PROVE  x = y
    <3>1. CASE lockKind = "noop"
      BY <1>1, <2>4, <3>1 DEF ClientInv, HoldersAgree
    <3>2. CASE lockKind # "noop"
      BY <1>1, <2>4, <3>2 DEF ClientInv, HoldersAgree
    <3>3. QED
      BY <3>1, <3>2
  <2>5. h = k
    BY <1>1, <2>2, <2>3, <2>4
  <2>6. ASSUME NEW e \in Op, h \in behind[e],
               \A g \in behind[e] : Under(g) /\ phase[g] = "holding"
        PROVE  behind[e] = {h}
    <3>1. ASSUME NEW g \in behind[e] PROVE g = h
      <4>1. g \in Op /\ owner[g] = owner[e] /\ owner[h] = owner[e]
        BY <1>1, <2>6, <3>1 DEF ClientInv, TypeOK, RolesFollow
      <4>2. QED
        BY <2>2, <2>4, <2>6, <3>1, <4>1
    <3>2. QED
      BY <2>6, <3>1
  <2>7. InTurn(o, h) /\ InTurn(p, h)
    BY <2>1, <2>2, <2>3, <2>5, <2>6 DEF InTurn
  <2>8. CASE o = h /\ p = h
    BY <2>8
  <2>9. CASE behind[o] = {h} \/ behind[p] = {h}
    <3>1. Sole(h)
      BY <1>1, <2>1, <2>2, <2>9 DEF ClientInv, HoldersAgree
    <3>2. QED
      BY <1>1, <2>1, <2>7, <3>1, TurnIsSerial
  <2>10. QED
    BY <2>7, <2>8, <2>9 DEF InTurn
<1>2. ClientInv => OnlyStraysOverlap
  BY <1>1 DEF OnlyStraysOverlap
<1>3. QED
  BY Invariance, <1>2, PTL

\* A holder whose fn resolved drains its queue before it releases the lock.
THEOREM Drained == Spec => []DrainedBeforeRelease
<1>1. ASSUME ClientInv, lockKind # "stealing", NEW o \in Stray, o \notin late
      PROVE  Settled(o) \/ \E h \in behind[o] : fn[h] = "rejected"
  <2>1. PICK h \in behind[o] : callback[h] = "released"
    BY <1>1 DEF Stray
  <2>2. o \in Op /\ h \in Op
    BY <1>1, <2>1 DEF Stray, ClientInv, TypeOK
  <2>3. behind[o] = {h} /\ Sole(h)
    BY <1>1, <2>1, <2>2 DEF ClientInv, TypeOK, HoldersAgree, Sole
  <2>4. fn[h] \in {"resolved", "rejected"}
    BY <1>1, <2>1, <2>2 DEF ClientInv, RolesFollow, Settled
  <2>5. CASE fn[h] = "resolved"
    BY <1>1, <2>1, <2>2, <2>3, <2>5 DEF ClientInv, TurnIsDrained
  <2>6. QED
    BY <2>1, <2>4, <2>5
<1>2. ClientInv => DrainedBeforeRelease
  BY <1>1 DEF DrainedBeforeRelease
<1>3. QED
  BY Invariance, <1>2, PTL
=============================================================================
