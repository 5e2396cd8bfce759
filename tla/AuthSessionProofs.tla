-------------------------- MODULE AuthSessionProofs --------------------------
(***************************************************************************)
(* Where the calls of AuthSession are: types, the lock, refreshingDeferred *)
(* and the code verifier, for any number of clients and calls.             *)
(*                                                                         *)
(* A step moves one call (Alone), or settles refreshingDeferred for all    *)
(* who await it (Together), or is the first of a call (Starts), or closes  *)
(* a tab.  ControlStep says of the first kind all that the invariant needs *)
(* to know; each action is shown to be one, and the invariant is proved    *)
(* from it once.                                                           *)
(***************************************************************************)
EXTENDS AuthSession, FiniteSetTheorems, TLAPS

Pcs == Inner \cup {"idle", "lock", "queued", "timer", "done", "gone"}
Backs == {"body", "refreshed", "dropVerifier", "removed"}

\* o moves, the other calls stay where they are.
Alone(o) ==
    /\ op' \in [Op -> OpState]
    /\ op'[o].home = op[o].home
    /\ \A x \in Op : x # o => op'[x] = op[x]

Moved(o, k, p, s, e, b) ==
    /\ Alone(o)
    /\ op'[o].kind = k /\ op'[o].pc = p /\ op'[o].got = s /\ op'[o].err = e
    /\ op'[o].back = b

\* What a step of o does to the lock.
Stays(o) ==
    /\ op[o].pc \in Inner /\ op'[o].pc \in Inner /\ holder' = holder
    /\ op[o].kind \in LockedPrograms <=> op'[o].kind \in LockedPrograms

Leaves(o) ==
    /\ op[o].pc \in Inner \cup {"lock", "timer"} /\ op'[o].pc \in {"done", "timer", "queued"}
    /\ holder' = IF holder = o THEN NoOp ELSE holder

Enters(o) ==
    /\ op[o].pc \in {"lock", "queued"} /\ op'[o].pc \in {"load", "body"}
    /\ \/ holder' \in {NoOp, holder}
       \/ op'[o].kind \in LockedPrograms /\ holder' = o
    /\ holder \notin {NoOp, holder'} /\ op[holder].pc \in Unstored => strayed'

LockStep(o) == Stays(o) \/ Leaves(o) \/ Enters(o)

\* What a step of o does to refreshingDeferred.
RefreshStep(o) ==
    LET c == op[o].home IN
    \/ /\ refreshing' = refreshing
       /\ InRefresh(o) => op'[o].pc \in Refreshings /\ op'[o].kind # "urlToken"
       /\ op'[o].pc \in {"rotating", "await"} => op[o].pc = op'[o].pc
    \/ /\ refreshing[c] = NoOp /\ refreshing' = [refreshing EXCEPT ![c] = o]
       /\ op'[o].pc = "rotating" /\ op'[o].kind # "urlToken"
    \/ /\ refreshing[c] # NoOp /\ refreshing' = refreshing /\ ~InRefresh(o)
       /\ op'[o].pc = "await"

\* What a step of o does to the code verifier.
VerifierStep(o) ==
    \/ verifier' = NoOp
    \/ verifier' = o /\ Keeps(op'[o])
    \/ verifier' = verifier /\ verifier # o

ControlStep(o) ==
    /\ Alone(o) /\ op[o].kind # "none" /\ Fits(op'[o])
    /\ LockStep(o) /\ RefreshStep(o) /\ VerifierStep(o)

\* The step of o moves those who await its refresh, too.
Together(o) ==
    /\ op' \in [Op -> OpState]
    /\ InRefresh(o) /\ op[o].pc \in Refreshings \ {"save1"}
    /\ refreshing' = [refreshing EXCEPT ![op[o].home] = NoOp]
    /\ \A x \in Op : x \notin Sharers(o) => op'[x] = op[x]
    /\ \A x \in Sharers(o) :
          /\ op'[x].home = op[x].home /\ op'[x].kind = op[x].kind
          /\ op'[x].pc \in Backs \cup {"stranded"}
    /\ holder' = holder /\ verifier' = verifier
-----------------------------------------------------------------------------
\* The constants the sessions are made of.
LEMMA Constants ==
    /\ NoOp \notin Op /\ NoOp \notin Client
    /\ First \in Session /\ Foreign \in Session
    /\ NoSession \notin Session /\ Broken \notin Session /\ NoSession # Broken
BY AuthSessionAssumption DEF Op, Client, First, Foreign, Session, Fam

\* The record of a call, its places taken together.
LEMMA OpStates ==
    /\ OpState = [kind : Programs \cup {"none"}, home : Client \cup {NoOp}, pc : Pcs,
                  got : Session \cup {NoSession}, err : Errors, back : Backs,
                  after : Op \cup {NoOp}]
    /\ "body" \in Backs /\ Backs \subseteq Pcs
    /\ {"done", "remove1", "stranded", "await", "rotating", "load"} \subseteq Pcs
<1>1. Pcs = {"idle", "lock", "queued", "load", "body", "verifier", "request", "rotating", "await",
             "refreshed", "stranded", "save1", "save2", "notify", "remove1", "remove2",
             "notifyOut", "dropVerifier", "removed", "timer", "done", "gone"}
  BY DEF Pcs, Inner
<1>2. OpState = [kind : Programs \cup {"none"}, home : Client \cup {NoOp}, pc : Pcs,
                 got : Session \cup {NoSession}, err : Errors, back : Backs,
                 after : Op \cup {NoOp}]
  BY <1>1 DEF OpState, Backs
<1> QED BY <1>1, <1>2 DEF Backs

\* Where the callback of a program starts.
Entrance(k) ==
    IF k \in {"setSession", "exchange", "urlToken", "urlCode"} THEN "body" ELSE "load"

\* How the helpers move a call.
LEMMA Moves ==
    ASSUME TypeOK, NEW o \in Op, NEW p \in Pcs, NEW s \in Session \cup {NoSession},
           NEW e \in Errors, NEW b \in Backs
    PROVE  /\ Go(o, p) => Moved(o, op[o].kind, p, op[o].got, op[o].err, op[o].back)
           /\ GoWith(o, p, s) => Moved(o, op[o].kind, p, s, op[o].err, op[o].back)
           /\ Fail(o, p, e) => Moved(o, op[o].kind, p, NoSession, e, op[o].back)
           /\ End(o, e) =>
                 /\ Moved(o, op[o].kind, "done", NoSession, Outcome(o, e), "body")
                 /\ holder' = IF holder = o THEN NoOp ELSE holder
           /\ Reject(o, e) => /\ Moved(o, op[o].kind, "done", NoSession, e, op[o].back)
                              /\ holder' = holder
           /\ Start(o) =>
                 Moved(o, op[o].kind, Entrance(op[o].kind), op[o].got, op[o].err, op[o].back)
           /\ RemoveThen(o, b, e) => Moved(o, op[o].kind, "remove1", NoSession, e, b)
<1>1. /\ op \in [Op -> OpState] /\ op[o] \in OpState
      /\ op[o].kind \in Programs \cup {"none"} /\ op[o].home \in Client \cup {NoOp}
      /\ op[o].got \in Session \cup {NoSession} /\ op[o].err \in Errors
      /\ op[o].back \in Backs
  BY OpStates DEF TypeOK
<1>2. ASSUME NEW r \in OpState, r.home = op[o].home, op' = [op EXCEPT ![o] = r]
      PROVE  Moved(o, r.kind, r.pc, r.got, r.err, r.back)
  BY <1>1, <1>2 DEF Moved, Alone
<1>3. ASSUME Go(o, p)
      PROVE  Moved(o, op[o].kind, p, op[o].got, op[o].err, op[o].back)
  <2> DEFINE r == [op[o] EXCEPT !.pc = p]
  <2>1. r.home = op[o].home /\ r.kind = op[o].kind /\ r.pc = p
       /\ r.got = op[o].got /\ r.err = op[o].err /\ r.back = op[o].back
    BY <1>1, OpStates
  <2>2. r \in OpState
    BY <1>1, OpStates
  <2>3. op' = [op EXCEPT ![o] = r]
    BY <1>1, <1>3 DEF Go
  <2> HIDE DEF r
  <2> QED BY <1>2, <2>1, <2>2, <2>3
<1>4. ASSUME GoWith(o, p, s)
      PROVE  Moved(o, op[o].kind, p, s, op[o].err, op[o].back)
  <2> DEFINE r == [op[o] EXCEPT !.pc = p, !.got = s]
  <2>1. r.home = op[o].home /\ r.kind = op[o].kind /\ r.pc = p
       /\ r.got = s /\ r.err = op[o].err /\ r.back = op[o].back
    BY <1>1, OpStates
  <2>2. r \in OpState
    BY <1>1, OpStates
  <2>3. op' = [op EXCEPT ![o] = r]
    BY <1>1, <1>4 DEF GoWith
  <2> HIDE DEF r
  <2> QED BY <1>2, <2>1, <2>2, <2>3
<1>5. ASSUME Fail(o, p, e)
      PROVE  Moved(o, op[o].kind, p, NoSession, e, op[o].back)
  <2> DEFINE r == [op[o] EXCEPT !.pc = p, !.got = NoSession, !.err = e]
  <2>1. r.home = op[o].home /\ r.kind = op[o].kind /\ r.pc = p
       /\ r.got = NoSession /\ r.err = e /\ r.back = op[o].back
    BY <1>1, OpStates
  <2>2. r \in OpState
    BY <1>1, OpStates
  <2>3. op' = [op EXCEPT ![o] = r]
    BY <1>1, <1>5 DEF Fail
  <2> HIDE DEF r
  <2> QED BY <1>2, <2>1, <2>2, <2>3
<1>6. ASSUME End(o, e)
      PROVE  Moved(o, op[o].kind, "done", NoSession, Outcome(o, e), "body")
  <2> DEFINE f == Outcome(o, e)
             r == [op[o] EXCEPT !.pc = "done", !.got = NoSession, !.err = f,
                                !.back = "body"]
  <2>0. f \in Errors
    BY DEF Outcome, Errors
  <2>1. r.home = op[o].home /\ r.kind = op[o].kind /\ r.pc = "done"
       /\ r.got = NoSession /\ r.err = f /\ r.back = "body"
    BY <1>1, <2>0, OpStates
  <2>2. r \in OpState
    BY <1>1, <2>0, OpStates
  <2>3. op' = [op EXCEPT ![o] = r]
    BY <1>1, <1>6 DEF End
  <2> HIDE DEF r
  <2> QED BY <1>2, <2>1, <2>2, <2>3
<1>7. ASSUME RemoveThen(o, b, e)
      PROVE  Moved(o, op[o].kind, "remove1", NoSession, e, b)
  <2> DEFINE r == [op[o] EXCEPT !.pc = "remove1", !.back = b, !.got = NoSession,
                                !.err = e]
  <2>1. r.home = op[o].home /\ r.kind = op[o].kind /\ r.pc = "remove1"
       /\ r.got = NoSession /\ r.err = e /\ r.back = b
    BY <1>1, OpStates
  <2>2. r \in OpState
    BY <1>1, OpStates
  <2>3. op' = [op EXCEPT ![o] = r]
    BY <1>1, <1>7 DEF RemoveThen
  <2> HIDE DEF r
  <2> QED BY <1>2, <2>1, <2>2, <2>3
<1>8. ASSUME Reject(o, e)
      PROVE  Moved(o, op[o].kind, "done", NoSession, e, op[o].back)
  <2> DEFINE r == [op[o] EXCEPT !.pc = "done", !.got = NoSession, !.err = e]
  <2>1. r.home = op[o].home /\ r.kind = op[o].kind /\ r.pc = "done"
       /\ r.got = NoSession /\ r.err = e /\ r.back = op[o].back
    BY <1>1, OpStates
  <2>2. r \in OpState
    BY <1>1, OpStates
  <2>3. op' = [op EXCEPT ![o] = r]
    BY <1>1, <1>8 DEF Reject
  <2> HIDE DEF r
  <2> QED BY <1>2, <2>1, <2>2, <2>3
<1>9. ASSUME Start(o)
      PROVE  Moved(o, op[o].kind, Entrance(op[o].kind), op[o].got, op[o].err, op[o].back)
  <2> DEFINE q == Entrance(op[o].kind)
             r == [op[o] EXCEPT !.pc = q, !.after = NoOp]
  <2>1. q \in Pcs
    BY DEF Entrance, Pcs, Inner
  <2>2. op' = [op EXCEPT ![o] = r]
    BY <1>1, <1>9 DEF Start, Entrance
  <2> HIDE DEF q
  <2>3. r.home = op[o].home /\ r.kind = op[o].kind /\ r.pc = q
       /\ r.got = op[o].got /\ r.err = op[o].err /\ r.back = op[o].back
    BY <1>1, <2>1, OpStates
  <2>4. r \in OpState
    BY <1>1, <2>1, OpStates
  <2> HIDE DEF r
  <2>5. Moved(o, op[o].kind, q, op[o].got, op[o].err, op[o].back)
    BY <1>2, <2>2, <2>3, <2>4
  <2> QED BY <2>5 DEF q
<1> QED BY <1>3, <1>4, <1>5, <1>6, <1>7, <1>8, <1>9 DEF End, Release, Reject

\* How the refresh starts, or joins the one in flight.
LEMMA Calls ==
    ASSUME TypeOK, NEW o \in Op, op[o].home \in Client, NEW s \in Session,
           NEW b \in Backs, CallRefreshToken(o, s, b)
    PROVE  /\ mishaps' = Refreshes(o)
           /\ \/ /\ refreshing[op[o].home] # NoOp /\ refreshing' = refreshing
                 /\ Moved(o, op[o].kind, "await", op[o].got, op[o].err, b)
              \/ /\ refreshing[op[o].home] = NoOp
                 /\ refreshing' = [refreshing EXCEPT ![op[o].home] = o]
                 /\ Moved(o, op[o].kind, "rotating", s, op[o].err, b)
<1>1. /\ op \in [Op -> OpState] /\ op[o] \in OpState
      /\ op[o].kind \in Programs \cup {"none"} /\ op[o].home \in Client \cup {NoOp}
      /\ op[o].got \in Session \cup {NoSession} /\ op[o].err \in Errors
  BY OpStates DEF TypeOK
<1>2. CASE refreshing[op[o].home] # NoOp
  <2> DEFINE r == [op[o] EXCEPT !.pc = "await", !.back = b]
  <2>1. r \in OpState /\ op' = [op EXCEPT ![o] = r]
    BY <1>1, <1>2, OpStates DEF CallRefreshToken
  <2> QED BY <1>1, <1>2, <2>1, OpStates DEF CallRefreshToken, Moved, Alone
<1>3. CASE refreshing[op[o].home] = NoOp
  <2> DEFINE r == [op[o] EXCEPT !.pc = "rotating", !.got = s, !.back = b]
  <2>1. r \in OpState /\ op' = [op EXCEPT ![o] = r]
    BY <1>1, <1>3, OpStates DEF CallRefreshToken
  <2> QED BY <1>1, <1>3, <2>1, OpStates DEF CallRefreshToken, Moved, Alone
<1> QED BY <1>2, <1>3

\* How refreshingDeferred settles, or is left unsettled.
LEMMA Settles ==
    ASSUME ControlInv, NEW o \in Op, InRefresh(o), op[o].pc # "save1",
           NEW s \in Session \cup {NoSession}, NEW e \in Errors,
           UNCHANGED <<holder, verifier>>
    PROVE  /\ Settle(o, s, e) =>
                 /\ Together(o)
                 /\ \A x \in Sharers(o) : op'[x].pc \in Backs /\ op'[x].got = s
           /\ Abandon(o, e) =>
                 /\ Together(o)
                 /\ \A x \in Sharers(o) : op'[x].got \in {op[x].got, NoSession}
                 /\ op'[o].got = NoSession /\ op'[o].pc \in Backs
                 /\ \A x \in Sharers(o) : x # o => op'[x].pc = "stranded"
<1>1. /\ op \in [Op -> OpState] /\ refreshing \in [Client -> Op \cup {NoOp}]
      /\ \A x \in Op : /\ op[x] \in OpState /\ op[x].kind \in Programs \cup {"none"}
                       /\ op[x].home \in Client \cup {NoOp} /\ op[x].back \in Backs
                       /\ op[x].got \in Session \cup {NoSession} /\ op[x].err \in Errors
  BY OpStates DEF ControlInv, TypeOK
<1>2. op[o].home \in Client
  BY <1>1 DEF ControlInv, RecordsFit, Fits, Idle, InRefresh
<1>3. op[o].pc \in Refreshings \ {"save1"}
  BY <1>1, <1>2, Constants DEF ControlInv, RefreshFits, InRefresh
<1>4. Sharers(o) \subseteq Op /\ o \in Sharers(o)
  BY DEF Sharers
<1>5. ASSUME Settle(o, s, e)
      PROVE  /\ Together(o)
             /\ \A x \in Sharers(o) : op'[x].pc \in Backs /\ op'[x].got = s
  <2> DEFINE r(x) == [op[x] EXCEPT !.pc = op[x].back, !.got = s, !.err = e]
  <2>1. \A x \in Op : /\ r(x).home = op[x].home /\ r(x).kind = op[x].kind
                      /\ r(x).pc = op[x].back /\ r(x).got = s
    BY <1>1, OpStates
  <2>2. \A x \in Op : r(x) \in OpState
    BY <1>1, OpStates
  <2>3. /\ refreshing' = [refreshing EXCEPT ![op[o].home] = NoOp]
        /\ op' = [x \in Op |-> IF x \in Sharers(o) THEN r(x) ELSE op[x]]
    BY <1>5 DEF Settle
  <2> HIDE DEF r
  <2> QED BY <1>1, <1>3, <1>4, <2>1, <2>2, <2>3 DEF Together
<1>6. ASSUME Abandon(o, e)
      PROVE  /\ Together(o)
             /\ \A x \in Sharers(o) : op'[x].got \in {op[x].got, NoSession}
             /\ op'[o].got = NoSession /\ op'[o].pc \in Backs
             /\ \A x \in Sharers(o) : x # o => op'[x].pc = "stranded"
  <2> DEFINE r == [op[o] EXCEPT !.pc = op[o].back, !.got = NoSession, !.err = e]
             q(x) == [op[x] EXCEPT !.pc = "stranded"]
  <2>1. /\ r.home = op[o].home /\ r.kind = op[o].kind /\ r.pc = op[o].back
        /\ r.got = NoSession
        /\ \A x \in Op : /\ q(x).home = op[x].home /\ q(x).kind = op[x].kind
                         /\ q(x).pc = "stranded" /\ q(x).got = op[x].got
    BY <1>1, OpStates
  <2>2. r \in OpState /\ \A x \in Op : q(x) \in OpState
    BY <1>1, OpStates
  <2>3. /\ refreshing' = [refreshing EXCEPT ![op[o].home] = NoOp]
        /\ op' = [x \in Op |-> IF x = o THEN r
                               ELSE IF x \in Sharers(o) THEN q(x) ELSE op[x]]
    BY <1>6 DEF Abandon
  <2> HIDE DEF r, q
  <2> QED BY <1>1, <1>3, <1>4, <2>1, <2>2, <2>3 DEF Together
<1> QED BY <1>5, <1>6
-----------------------------------------------------------------------------
\* What is known of a call that takes a step.
LEMMA Known ==
    ASSUME ControlInv, NEW o \in Op
    PROVE  /\ op \in [Op -> OpState]
           /\ op[o].kind \in Programs \cup {"none"} /\ op[o].home \in Client \cup {NoOp}
           /\ op[o].pc \in Pcs /\ op[o].got \in Session \cup {NoSession}
           /\ op[o].err \in Errors /\ op[o].back \in Backs
           /\ op[o].pc # "idle" => op[o].kind # "none" /\ op[o].home \in Client
           /\ op[o].kind # "none" => op[o].home \in Client /\ op[o].pc # "idle"
           /\ InRefresh(o) => op[o].pc \in Refreshings /\ op[o].kind # "urlToken"
           /\ op[o].pc = "rotating" => InRefresh(o) /\ op[o].got \in Session
           /\ op[o].pc \in Saving => op[o].got \in Session
           /\ op[o].pc \in {"remove1", "remove2", "notifyOut"} => op[o].got = NoSession
           /\ holder = o => op[o].kind \in LockedPrograms /\ op[o].pc \in Inner
           /\ verifier = o => Keeps(op[o])
<1>1. /\ op \in [Op -> OpState] /\ op[o] \in OpState
      /\ op[o].kind \in Programs \cup {"none"} /\ op[o].home \in Client \cup {NoOp}
      /\ op[o].pc \in Pcs /\ op[o].got \in Session \cup {NoSession}
      /\ op[o].err \in Errors /\ op[o].back \in Backs
  BY OpStates DEF ControlInv, TypeOK
<1>2. Fits(op[o])
  BY DEF ControlInv, RecordsFit
<1>3. /\ op[o].pc # "idle" => op[o].kind # "none" /\ op[o].home \in Client
      /\ op[o].kind # "none" => op[o].home \in Client /\ op[o].pc # "idle"
  BY <1>1, <1>2 DEF Fits, Idle
<1>4. InRefresh(o) => op[o].pc \in Refreshings /\ op[o].kind # "urlToken"
  BY <1>1, <1>3, Constants DEF InRefresh, ControlInv, RefreshFits
<1>5. /\ op[o].pc = "rotating" => InRefresh(o) /\ op[o].got \in Session
      /\ op[o].pc \in Saving => op[o].got \in Session
      /\ op[o].pc \in {"remove1", "remove2", "notifyOut"} => op[o].got = NoSession
  BY <1>2, <1>3 DEF ControlInv, RefreshFits, InRefresh, Fits, At
<1>6. /\ holder = o => op[o].kind \in LockedPrograms /\ op[o].pc \in Inner
      /\ verifier = o => Keeps(op[o])
  BY Constants DEF ControlInv, LockFits, Running, VerifierFits
<1> QED BY <1>1, <1>3, <1>4, <1>5, <1>6

\* A move to another await of the same call, which neither starts nor ends a refresh.
LEMMA InnerControl ==
    ASSUME ControlInv, NEW o \in Op, op[o].pc \in Inner,
           NEW p \in Inner \ {"load", "rotating", "await"},
           op'[o].pc = p, op'[o].kind = op[o].kind, Alone(o),
           p \in Saving \cup {"notify"} => op'[o].got \in Session,
           p \in {"remove1", "remove2", "notifyOut"} => op'[o].got = NoSession,
           p = "verifier" => op[o].kind \in Starters,
           InRefresh(o) => p \in Refreshings,
           op[o].pc \notin {"save1", "dropVerifier"},
           op[o].pc = "request" /\ op[o].kind \in Forgetful => p \in {"save1", "dropVerifier"},
           UNCHANGED <<holder, refreshing, verifier>>
    PROVE  ControlStep(o)
<1>1. op[o].kind # "none" /\ op[o].home \in Client /\ "idle" \notin Inner /\ "lock" \notin Inner
      /\ "queued" \notin Inner
  BY Known DEF Inner
<1>2. Fits(op'[o])
  BY <1>1, Constants DEF Fits, Alone
<1>3. LockStep(o)
  BY DEF LockStep, Stays
<1>4. RefreshStep(o)
  BY Known DEF RefreshStep
<1>5. VerifierStep(o)
  BY Known DEF VerifierStep, Keeps, Inner
<1> QED BY <1>1, <1>2, <1>3, <1>4, <1>5 DEF ControlStep

\* Go, which leaves the session of the call ...
LEMMA GoControl ==
    ASSUME ControlInv, NEW o \in Op, op[o].pc \in Inner,
           NEW p \in Inner \ {"load", "rotating", "await"}, Go(o, p),
           p \in Saving \cup {"notify"} => op[o].got \in Session,
           p \in {"remove1", "remove2", "notifyOut"} => op[o].got = NoSession,
           p = "verifier" => op[o].kind \in Starters,
           InRefresh(o) => p \in Refreshings,
           op[o].pc \notin {"save1", "dropVerifier"},
           op[o].pc = "request" /\ op[o].kind \in Forgetful => p \in {"save1", "dropVerifier"},
           UNCHANGED <<holder, refreshing, verifier>>
    PROVE  ControlStep(o)
<1>1. Moved(o, op[o].kind, p, op[o].got, op[o].err, op[o].back)
  <2>1. TypeOK /\ p \in Pcs /\ op[o].got \in Session \cup {NoSession}
        /\ op[o].err \in Errors /\ op[o].back \in Backs
    BY Known DEF ControlInv, Pcs
  <2> QED BY <2>1, Moves
<1>2. op'[o].pc = p /\ op'[o].kind = op[o].kind /\ Alone(o) /\ op'[o].got = op[o].got
  BY <1>1 DEF Moved
<1> QED BY <1>2, InnerControl

\* The same, with a write of the code verifier.
LEMMA GoWritesControl ==
    ASSUME ControlInv, NEW o \in Op, op[o].pc \in Inner,
           NEW p \in Inner \ {"load", "verifier", "rotating", "await"}, Go(o, p),
           p \in Saving \cup {"notify"} => op[o].got \in Session,
           p \in {"remove1", "remove2", "notifyOut"} => op[o].got = NoSession,
           InRefresh(o) => p \in Refreshings,
           \/ verifier' = NoOp
           \/ /\ verifier' = o /\ p = "request"
              /\ op[o].kind \in Forgetful \cup {"linkOAuth"},
           UNCHANGED <<holder, refreshing>>
    PROVE  ControlStep(o)
<1>1. Moved(o, op[o].kind, p, op[o].got, op[o].err, op[o].back)
  <2>1. TypeOK /\ p \in Pcs /\ op[o].got \in Session \cup {NoSession}
        /\ op[o].err \in Errors /\ op[o].back \in Backs
    BY Known DEF ControlInv, Pcs
  <2> QED BY <2>1, Moves
<1>2. op'[o].pc = p /\ op'[o].kind = op[o].kind /\ Alone(o) /\ op'[o].got = op[o].got
  BY <1>1 DEF Moved
<1>3. op[o].kind # "none" /\ op[o].home \in Client /\ "idle" \notin Inner /\ "lock" \notin Inner
      /\ "queued" \notin Inner
  BY Known DEF Inner
<1>4. Fits(op'[o])
  BY <1>2, <1>3, Constants DEF Fits, Alone
<1>5. LockStep(o)
  BY <1>2 DEF LockStep, Stays
<1>6. RefreshStep(o)
  BY <1>2, Known DEF RefreshStep
<1>7. VerifierStep(o)
  BY <1>2 DEF VerifierStep, Keeps
<1> QED BY <1>2, <1>3, <1>4, <1>5, <1>6, <1>7 DEF ControlStep

\* GoWith, which gives it another ...
LEMMA GoWithControl ==
    ASSUME ControlInv, NEW o \in Op, op[o].pc \in Inner, NEW s \in Session \cup {NoSession},
           NEW p \in Inner \ {"load", "verifier", "rotating", "await"}, GoWith(o, p, s),
           p \in Saving \cup {"notify"} => s \in Session,
           p \notin {"remove1", "remove2", "notifyOut"},
           InRefresh(o) => p \in Refreshings,
           op[o].pc \notin {"save1", "dropVerifier"},
           op[o].pc = "request" /\ op[o].kind \in Forgetful => p \in {"save1", "dropVerifier"},
           UNCHANGED <<holder, refreshing, verifier>>
    PROVE  ControlStep(o)
<1>1. Moved(o, op[o].kind, p, s, op[o].err, op[o].back)
  <2>1. TypeOK /\ p \in Pcs /\ op[o].err \in Errors /\ op[o].back \in Backs
    BY Known DEF ControlInv, Pcs
  <2> QED BY <2>1, Moves
<1>2. op'[o].pc = p /\ op'[o].kind = op[o].kind /\ Alone(o) /\ op'[o].got = s
  BY <1>1 DEF Moved
<1> QED BY <1>2, InnerControl

\* Fail, which takes it ...
LEMMA FailControl ==
    ASSUME ControlInv, NEW o \in Op, op[o].pc \in Inner, NEW e \in Errors,
           NEW p \in {"remove1", "dropVerifier"}, Fail(o, p, e),
           InRefresh(o) => p = "remove1",
           op[o].pc \notin {"save1", "dropVerifier"},
           op[o].pc = "request" /\ op[o].kind \in Forgetful => p = "dropVerifier",
           UNCHANGED <<holder, refreshing, verifier>>
    PROVE  ControlStep(o)
<1>1. Moved(o, op[o].kind, p, NoSession, e, op[o].back)
  <2>1. TypeOK /\ p \in Pcs /\ op[o].got \in Session \cup {NoSession} /\ op[o].back \in Backs
    BY Known DEF ControlInv, Pcs, Inner
  <2> QED BY <2>1, Moves
<1>2. op'[o].pc = p /\ op'[o].kind = op[o].kind /\ Alone(o) /\ op'[o].got = NoSession
  BY <1>1 DEF Moved
<1>3. p \in Inner \ {"load", "rotating", "await"} /\ p \notin Saving
  BY DEF Inner, Saving
<1>4. InRefresh(o) => p \in Refreshings
  BY DEF Refreshings
<1> QED BY <1>2, <1>3, <1>4, InnerControl

\* ... and RemoveThen, which goes on to remove the stored one.
LEMMA RemoveControl ==
    ASSUME ControlInv, NEW o \in Op, op[o].pc \in Inner, NEW e \in Errors,
           NEW b \in Backs, RemoveThen(o, b, e),
           op[o].pc \notin {"save1", "dropVerifier"},
           op[o].pc = "request" => op[o].kind \notin Forgetful,
           UNCHANGED <<holder, refreshing, verifier>>
    PROVE  ControlStep(o)
<1>1. Moved(o, op[o].kind, "remove1", NoSession, e, b)
  <2>1. TypeOK /\ op[o].got \in Session \cup {NoSession} /\ "done" \in Pcs
    BY Known DEF ControlInv, Pcs
  <2> QED BY <2>1, Moves
<1>2. op'[o].pc = "remove1" /\ op'[o].kind = op[o].kind /\ Alone(o)
      /\ op'[o].got = NoSession
  BY <1>1 DEF Moved
<1>3. "remove1" \in Inner \ {"load", "rotating", "await"} /\ "remove1" \notin Saving
      /\ "remove1" \in Refreshings
  BY DEF Inner, Saving, Refreshings
<1> QED BY <1>2, <1>3, InnerControl

\* The end of a call.
LEMMA EndControl ==
    ASSUME ControlInv, NEW o \in Op, op[o].pc \in Inner \cup {"lock", "timer"},
           NEW e \in Errors, End(o, e), ~InRefresh(o),
           \/ verifier' = NoOp
           \/ verifier' = o /\ e = "none"
           \/ /\ verifier' = verifier
              /\ op[o].pc \notin {"save1", "dropVerifier"}
              /\ op[o].pc = "request" /\ op[o].kind \in Forgetful => e = "none",
           UNCHANGED refreshing
    PROVE  ControlStep(o)
<1>0. e = "none" => Outcome(o, e) = "none"
  BY DEF Outcome
<1>1. /\ Moved(o, op[o].kind, "done", NoSession, Outcome(o, e), "body")
      /\ holder' = IF holder = o THEN NoOp ELSE holder
  <2>1. TypeOK /\ "done" \in Pcs /\ op[o].got \in Session \cup {NoSession}
        /\ op[o].back \in Backs
    BY Known DEF ControlInv, Pcs
  <2> QED BY <2>1, Moves
<1>2. /\ op'[o].pc = "done" /\ op'[o].kind = op[o].kind /\ Alone(o)
      /\ op'[o].err = Outcome(o, e) /\ op'[o].home = op[o].home
  BY <1>1 DEF Moved, Alone
<1>3. op[o].kind # "none" /\ op[o].home \in Client
  BY Known DEF Inner
<1>4. Fits(op'[o])
  BY <1>2, <1>3, Constants DEF Fits, Saving
<1>5. LockStep(o)
  BY <1>1, <1>2 DEF LockStep, Leaves
<1>6. RefreshStep(o)
  BY <1>2 DEF RefreshStep
<1>7. VerifierStep(o)
  BY <1>0, <1>2, Known DEF VerifierStep, Keeps, Inner
<1> QED BY <1>2, <1>3, <1>4, <1>5, <1>6, <1>7 DEF ControlStep

\* The start of a refresh, or its sharing.
LEMMA CallControl ==
    ASSUME ControlInv, NEW o \in Op, op[o].pc \in {"load", "body"}, NEW s \in Session,
           NEW b \in Backs, CallRefreshToken(o, s, b), op[o].kind # "urlToken",
           UNCHANGED <<holder, verifier>>
    PROVE  ControlStep(o)
<1>1. TypeOK /\ op[o].home \in Client /\ op[o].kind # "none" /\ ~InRefresh(o)
      /\ "rotating" \in Inner /\ "await" \in Inner /\ op[o].pc \in Inner
  BY Known DEF ControlInv, Inner, Refreshings
<1>2. /\ Alone(o) /\ op'[o].kind = op[o].kind /\ op'[o].home = op[o].home
      /\ \/ /\ refreshing[op[o].home] # NoOp /\ refreshing' = refreshing
            /\ op'[o].pc = "await"
         \/ /\ refreshing[op[o].home] = NoOp
            /\ refreshing' = [refreshing EXCEPT ![op[o].home] = o]
            /\ op'[o].pc = "rotating" /\ op'[o].got = s
  BY <1>1, Calls DEF Moved, Alone
<1>3. Fits(op'[o])
  BY <1>1, <1>2, Constants DEF Fits, Saving
<1>4. LockStep(o)
  BY <1>1, <1>2 DEF LockStep, Stays
<1>5. RefreshStep(o)
  BY <1>1, <1>2 DEF RefreshStep
<1>6. VerifierStep(o)
  BY <1>1, <1>2, Known DEF VerifierStep, Keeps
<1> QED BY <1>1, <1>2, <1>3, <1>4, <1>5, <1>6 DEF ControlStep
-----------------------------------------------------------------------------
\* A callback of _acquireLock starts, whoever holds the lock.
LEMMA StartControl ==
    ASSUME ControlInv, NEW o \in Op, op[o].pc \in {"lock", "queued"}, Start(o),
           holder' = HolderFrom(o) \/ holder' = holder, UNCHANGED <<refreshing, verifier>>,
           holder \notin {NoOp, holder'} /\ op[holder].pc \in Unstored => strayed'
    PROVE  ControlStep(o)
<1> DEFINE p == Entrance(op[o].kind)
<1>1. p \in {"load", "body"} /\ {"load", "body"} \subseteq Inner
  BY DEF Entrance, Inner
<1>2. Moved(o, op[o].kind, p, op[o].got, op[o].err, op[o].back)
  <2>1. /\ TypeOK /\ "done" \in Pcs /\ op[o].got \in Session \cup {NoSession}
        /\ op[o].err \in Errors /\ op[o].back \in Backs
    BY Known DEF ControlInv, Pcs
  <2> QED BY <2>1, Moves
<1>3. /\ Alone(o) /\ op'[o].kind = op[o].kind /\ op'[o].pc = p /\ op'[o].home = op[o].home
  BY <1>2 DEF Moved, Alone
<1>4. /\ Fits(op[o]) /\ op[o].kind # "none" /\ op[o].home \in Client
      /\ op[o].kind \in LockedPrograms \cup {"initialSession"}
  BY Known DEF ControlInv, RecordsFit, Fits
<1>5. p = "load" => op[o].kind \notin {"setSession", "exchange", "urlToken", "urlCode"}
  BY DEF Entrance
<1> HIDE DEF p
<1>6. Fits(op'[o])
  BY <1>1, <1>3, <1>4, <1>5, Constants DEF Fits, Saving
<1>7. LockStep(o)
  BY <1>1, <1>3, <1>4 DEF LockStep, Enters, HolderFrom
<1>8. RefreshStep(o)
  BY <1>1, <1>3, Known DEF RefreshStep, Refreshings
<1>9. VerifierStep(o)
  BY <1>4, Known DEF VerifierStep, Keeps, LockedPrograms, InitPrograms
<1> QED BY <1>3, <1>4, <1>6, <1>7, <1>8, <1>9 DEF ControlStep

\* The lock and initializePromise.
LEMMA LockControl ==
    ASSUME ControlInv, NEW o \in Op,
           \/ Acquire(o) \/ AcquireTimesOut(o) \/ InitializeRejected(o) \/ Queue(o)
           \/ LeaveQueue(o) \/ Overtake(o) \/ LockFails(o)
    PROVE  ControlStep(o)
<1>1. /\ TypeOK /\ op[o].got \in Session \cup {NoSession} /\ op[o].back \in Backs
      /\ op[o].err \in Errors /\ "done" \in Pcs /\ "queued" \in Pcs
  BY Known DEF ControlInv, Pcs
<1>2. CASE Acquire(o) \/ LeaveQueue(o) \/ Overtake(o)
  BY <1>2, StartControl DEF Acquire, LeaveQueue, Overtake, Goes, At, storage
<1>3. ASSUME NEW e \in Errors, Reject(o, e), op[o].pc = "lock",
             UNCHANGED <<refreshing, verifier>>
      PROVE  ControlStep(o)
  <2>1. /\ Alone(o) /\ op'[o].kind = op[o].kind /\ op'[o].pc = "done"
        /\ op'[o].home = op[o].home /\ holder' = holder
    BY <1>1, <1>3, Moves DEF Moved, Alone
  <2>2. /\ op[o].kind # "none" /\ op[o].home \in Client /\ holder # o /\ ~InRefresh(o)
        /\ op[o].kind \in LockedPrograms \cup {"initialSession"}
    BY <1>3, Known DEF Inner, Refreshings, ControlInv, RecordsFit, Fits
  <2>3. Fits(op'[o])
    BY <2>1, <2>2, Constants DEF Fits, Saving
  <2>4. LockStep(o) /\ RefreshStep(o)
    BY <1>3, <2>1, <2>2 DEF LockStep, Leaves, RefreshStep
  <2>5. VerifierStep(o)
    BY <1>3, <2>2, Known DEF VerifierStep, Keeps, LockedPrograms, InitPrograms
  <2> QED BY <2>1, <2>2, <2>3, <2>4, <2>5 DEF ControlStep
<1>4. CASE AcquireTimesOut(o) \/ LockFails(o)
  BY <1>3, <1>4 DEF AcquireTimesOut, LockFails, Goes, At, Errors, storage
<1>5. CASE InitializeRejected(o)
  BY <1>3, <1>5 DEF InitializeRejected, Goes, At, Errors, storage
<1>6. CASE Queue(o)
  <2>1. PICK y \in Op : op' = [op EXCEPT ![o].pc = "queued", ![o].after = y]
    BY <1>6 DEF Queue
  <2> DEFINE r == [op[o] EXCEPT !.pc = "queued", !.after = y]
  <2>2. op[o] \in OpState /\ op \in [Op -> OpState] /\ op[o].pc = "lock"
    BY <1>1, <1>6 DEF TypeOK, Queue, Goes, At
  <2>3. /\ r \in OpState /\ r.kind = op[o].kind /\ r.home = op[o].home /\ r.pc = "queued"
        /\ r.got = op[o].got /\ r.after = y
    BY <2>2, OpStates DEF Pcs
  <2>4. op' = [op EXCEPT ![o] = r]
    BY <2>1, <2>2
  <2> HIDE DEF r
  <2>5. Alone(o) /\ op'[o] = r
    BY <2>2, <2>3, <2>4 DEF Alone
  <2>6. Fits(op[o]) /\ op[o].kind # "none" /\ op[o].home \in Client /\ holder # o
        /\ ~InRefresh(o)
    BY <2>2, Known DEF ControlInv, RecordsFit, Inner, Refreshings
  <2>7. Fits(op'[o])
    BY <2>2, <2>3, <2>5, <2>6, Constants DEF Fits, Saving
  <2>8. UNCHANGED <<holder, refreshing, verifier>>
    BY <1>6 DEF Queue, storage
  <2>9. LockStep(o) /\ RefreshStep(o)
    BY <2>2, <2>3, <2>5, <2>6, <2>8 DEF LockStep, Leaves, RefreshStep
  <2>10. VerifierStep(o)
    BY <2>2, <2>6, <2>8, Known DEF VerifierStep, Keeps, Fits, LockedPrograms, InitPrograms
  <2> QED BY <2>5, <2>6, <2>7, <2>9, <2>10 DEF ControlStep
<1> QED BY <1>2, <1>4, <1>5, <1>6

\* What the calls do with the session they loaded.
LEMMA BodyControl ==
    ASSUME ControlInv, NEW o \in Op, Body(o)
    PROVE  ControlStep(o)
<1>1. At(o, "body") => ~InRefresh(o)
  BY Known DEF At, Refreshings
<1> USE <1>1, Known, GoControl, GoWithControl, FailControl, EndControl, RemoveControl,
        CallControl, Constants
    DEF Goes, At, InBody, storage, Inner, Errors, Backs, Saving
<1>2. CASE getSessionBody(o)
  BY <1>2 DEF getSessionBody
<1>3. CASE getUserBody(o)
  BY <1>3 DEF getUserBody, Ok
<1>4. CASE updateUserBody(o)
  BY <1>4 DEF updateUserBody, Forgetful, Starters, Ok
<1>5. CASE setSessionBody(o)
  BY <1>5 DEF setSessionBody, AgeOf
<1>6. CASE refreshSessionBody(o)
  BY <1>6 DEF refreshSessionBody, HasSession, Ok
<1>7. CASE refreshSuppliedBody(o)
  BY <1>7 DEF refreshSuppliedBody
<1>8. CASE signOutBody(o)
  BY <1>8 DEF signOutBody, Forget
<1>9. CASE useSessionBody(o)
  BY <1>9 DEF useSessionBody, Ok
<1>10. CASE linkIdentityBody(o)
  BY <1>10 DEF linkIdentityBody, FailOver, Forgetful, Starters, Ok
<1>11. CASE exchangeBody(o)
  <2>1. CASE op[o].kind = "urlCode" /\ op' = [op EXCEPT ![o].kind = "initialize", ![o].pc = "load"]
    <3> DEFINE r == [op[o] EXCEPT !.kind = "initialize", !.pc = "load"]
    <3>1. op[o] \in OpState /\ op \in [Op -> OpState]
      BY DEF ControlInv, TypeOK
    <3>2. /\ r.kind = "initialize" /\ r.pc = "load" /\ r.home = op[o].home
          /\ r \in OpState /\ op' = [op EXCEPT ![o] = r]
      BY <2>1, <3>1, OpStates DEF Programs, LockedPrograms, InitPrograms
    <3> HIDE DEF r
    <3>3. Alone(o) /\ op'[o].kind = "initialize" /\ op'[o].pc = "load"
      BY <3>1, <3>2 DEF Alone
    <3>4. Fits(op'[o])
      BY <1>11, <3>3 DEF Fits, Alone, exchangeBody
    <3>5. LockStep(o)
      BY <1>11, <2>1, <3>3 DEF LockStep, Stays, exchangeBody, LockedPrograms, InitPrograms
    <3>6. RefreshStep(o)
      BY <1>11, <3>3 DEF RefreshStep, exchangeBody
    <3>7. VerifierStep(o)
      BY <1>11, <2>1, <3>3 DEF VerifierStep, exchangeBody, Keeps
    <3> QED BY <1>11, <3>3, <3>4, <3>5, <3>6, <3>7 DEF ControlStep, exchangeBody
  <2> QED BY <1>11, <2>1 DEF exchangeBody, Forgetful
<1>12. CASE urlTokenBody(o)
  BY <1>12 DEF urlTokenBody
<1>13. CASE tickBody(o)
  BY <1>13 DEF tickBody, HasSession, AgeOf
<1> QED BY <1>2, <1>3, <1>4, <1>5, <1>6, <1>7, <1>8, <1>9, <1>10, <1>11, <1>12, <1>13 DEF Body

\* __loadSession.
LEMMA LoadControl ==
    ASSUME ControlInv, NEW o \in Op,
           \/ LoadNothing(o) \/ LoadBroken(o) \/ LoadExpired(o) \/ RecoverExpired(o)
           \/ LoadValid(o) \/ RecoverValid(o)
    PROVE  ControlStep(o)
<1>1. At(o, "load") => ~InRefresh(o) /\ op[o].kind # "urlToken"
  BY Known DEF At, Refreshings, ControlInv, RecordsFit, Fits
<1> USE <1>1, Known, GoControl, GoWithControl, EndControl, RemoveControl, CallControl,
        Constants
    DEF Goes, At, storage, Inner, Errors, Backs, Saving
<1>2. CASE LoadNothing(o)
  BY <1>2 DEF LoadNothing
<1>3. CASE LoadBroken(o)
  BY <1>3 DEF LoadBroken
<1>4. CASE LoadExpired(o)
  BY <1>4 DEF LoadExpired
<1>5. CASE LoadValid(o)
  BY <1>5 DEF LoadValid
<1>6. CASE RecoverValid(o)
  BY <1>6 DEF RecoverValid
<1>7. CASE RecoverExpired(o)
  BY <1>7 DEF RecoverExpired
<1> QED BY <1>2, <1>3, <1>4, <1>5, <1>6, <1>7

\* A family is issued with a generation.
LEMMA Generations ==
    ASSUME TypeOK, NEW s \in Session
    PROVE  /\ s.fam \in Fam /\ s.gen \in Nat /\ gen[s.fam] \in 0 .. MaxGen
           /\ \A g \in 0 .. MaxGen : /\ [s EXCEPT !.gen = g] \in Session
                                     /\ [s EXCEPT !.gen = g].fam = s.fam
                                     /\ [s EXCEPT !.gen = g].gen = g
           /\ \A f \in Fam, g \in 0 .. MaxGen : [fam |-> f, gen |-> g] \in Session
           /\ s.gen < MaxGen => s.gen + 1 \in 0 .. MaxGen
           /\ gen[s.fam] < MaxGen => gen[s.fam] + 1 \in 0 .. MaxGen
BY AuthSessionAssumption DEF TypeOK, Session

\* _callRefreshToken, as long as it moves one call.
LEMMA RefreshControl ==
    ASSUME ControlInv, NEW o \in Op,
           RefreshRotates(o) \/ RefreshReuses(o) \/ RefreshRefused(o) \/ Refreshed(o)
    PROVE  ControlStep(o)
<1>1. /\ TypeOK
      /\ At(o, "refreshed") => ~InRefresh(o)
      /\ At(o, "rotating") => op[o].got \in Session
  BY Known DEF At, Refreshings, ControlInv
<1> USE <1>1, Known, GoWithControl, FailControl, EndControl, RemoveControl
    DEF Goes, At, storage, Inner, Errors, Backs, Saving
<1>2. CASE RefreshRotates(o)
  BY <1>2, Generations DEF RefreshRotates, Refreshings
<1>3. CASE RefreshReuses(o)
  <2>1. /\ op[o].got \in Session /\ op[o].pc = "rotating" /\ UNCHANGED <<stored, verifier>>
        /\ [op[o].got EXCEPT !.gen = gen[op[o].got.fam]] \in Session
        /\ UNCHANGED <<holder, refreshing>>
    BY <1>3, Generations DEF RefreshReuses
  <2>2. CASE GoWith(o, "save1", [op[o].got EXCEPT !.gen = gen[op[o].got.fam]])
    BY <2>1, <2>2 DEF Refreshings
  <2>3. CASE Fail(o, "remove1", "denied")
    BY <2>1, <2>3 DEF Refreshings
  <2> QED BY <1>3, <2>2, <2>3 DEF RefreshReuses
<1>4. CASE RefreshRefused(o)
  BY <1>4 DEF RefreshRefused
<1>5. CASE Refreshed(o)
  BY <1>5 DEF Refreshed
<1> QED BY <1>2, <1>3, <1>4, <1>5

\* Requests other than the refresh.
LEMMA AskControl ==
    ASSUME ControlInv, NEW o \in Op, Ask(o) \/ AnswerLost(o)
    PROVE  ControlStep(o)
<1>1. /\ TypeOK
      /\ op[o].pc \in {"request", "verifier"} => ~InRefresh(o)
  BY Known DEF At, Refreshings, ControlInv
<1> USE <1>1, Known, GoControl, GoWithControl, FailControl, EndControl, RemoveControl
    DEF Goes, At, InRequest, storage, Inner, Errors, Backs, Saving, Forgetful, Forget
<1>2. CASE StoreVerifier(o)
  <2>1. CASE op[o].kind = "redirect"
    BY <1>2, <2>1 DEF StoreVerifier
  <2>2. CASE op[o].kind # "redirect"
    <3>1. op[o].kind \in Starters
      BY <1>2 DEF StoreVerifier, ControlInv, RecordsFit, Fits
    <3> QED BY <1>2, <2>2, <3>1, GoWritesControl DEF StoreVerifier, Starters
  <2> QED BY <2>1, <2>2
<1>3. CASE Answered(o)
  BY <1>3 DEF Answered
<1>4. CASE AnsweredUser(o)
  BY <1>4 DEF AnsweredUser, LiveToken, HasSession
<1>5. CASE AnsweredSession(o)
  BY <1>5, AuthSessionAssumption DEF AnsweredSession, Session
<1>6. CASE AnsweredVerify(o)
  BY <1>6, Generations DEF AnsweredVerify, LiveToken, HasSession
<1>7. CASE AnsweredSignOut(o)
  BY <1>7 DEF AnsweredSignOut
<1>8. CASE SignOutFails(o)
  BY <1>8 DEF SignOutFails
<1>9. CASE GetUserMissing(o)
  BY <1>9 DEF GetUserMissing, ChecksUser
<1>10. CASE RequestFails(o)
  BY <1>10 DEF RequestFails, FailOver
<1>11. CASE AnswerLost(o)
  BY <1>11 DEF AnswerLost
<1> QED BY <1>2, <1>3, <1>4, <1>5, <1>6, <1>7, <1>8, <1>9, <1>10, <1>11 DEF Ask

\* _saveSession, _removeSession and _notifyAllSubscribers, as long as they move
\* one call.
LEMMA SaveControl ==
    ASSUME ControlInv, NEW o \in Op,
           \/ Save1(o) \/ Save2(o) \/ TimerFires(o) \/ Remove1(o) \/ Remove2(o)
           \/ Removed(o) \/ DropVerifier(o)
           \/ ~InRefresh(o) /\ (SaidSignedIn(o) \/ SignedInThrew(o))
           \/ ~InRefresh(o) /\ (SaidSignedOut(o) \/ SignedOutThrew(o))
           \/ At(o, "notify") /\ Throws /\ Fail(o, "remove1", "denied")
              /\ UNCHANGED <<refreshing, holder>>
    PROVE  ControlStep(o)
<1>1. /\ TypeOK
      /\ op[o].pc \in {"removed", "dropVerifier", "timer"} => ~InRefresh(o)
      /\ op[o].pc \in Saving => op[o].got \in Session
      /\ \A p \in Pcs : Go(o, p) => Moved(o, op[o].kind, p, op[o].got, op[o].err, op[o].back)
  <2>1. /\ TypeOK /\ op[o].got \in Session \cup {NoSession}
        /\ op[o].err \in Errors /\ op[o].back \in Backs
    BY Known DEF ControlInv
  <2> QED BY <2>1, Known, Moves DEF Refreshings
<1> USE <1>1, Known, GoControl, FailControl, EndControl
    DEF Goes, At, storage, history, Inner, Errors, Backs, Saving, Refreshings, Throws
<1>2. CASE Save1(o)
  BY <1>2, GoWritesControl DEF Save1
<1>3. CASE Save2(o)
  <2>1. CASE op[o].kind = "urlToken"
    <3>1. Moved(o, op[o].kind, "timer", op[o].got, op[o].err, op[o].back)
      BY <1>3, <2>1 DEF Save2, Pcs
    <3>2. /\ Alone(o) /\ op'[o].kind = op[o].kind /\ op'[o].pc = "timer"
          /\ op'[o].home = op[o].home
      BY <3>1 DEF Moved, Alone
    <3>3. op[o].pc = "save2" /\ op[o].kind # "none" /\ op[o].home \in Client /\ ~InRefresh(o)
      BY <1>3, <2>1 DEF Save2
    <3>4. Fits(op'[o])
      BY <3>2, <3>3, Constants DEF Fits
    <3>5. LockStep(o)
      BY <1>3, <2>1, <3>2 DEF Save2, LockStep, Leaves, Release
    <3>6. RefreshStep(o)
      BY <1>3, <3>2, <3>3 DEF Save2, RefreshStep
    <3>7. VerifierStep(o)
      BY <1>3, <2>1 DEF Save2, VerifierStep, Keeps
    <3> QED BY <3>2, <3>3, <3>4, <3>5, <3>6, <3>7 DEF ControlStep
  <2>2. CASE op[o].kind # "urlToken"
    BY <1>3, <2>2 DEF Save2
  <2> QED BY <2>1, <2>2
<1>4. CASE TimerFires(o)
  BY <1>4 DEF TimerFires
<1>5. CASE Remove1(o)
  BY <1>5 DEF Remove1
<1>6. CASE Remove2(o)
  BY <1>6, GoWritesControl DEF Remove2
<1>7. CASE Removed(o)
  BY <1>7 DEF Removed
<1>8. CASE DropVerifier(o)
  BY <1>8 DEF DropVerifier
<1>9. CASE ~InRefresh(o) /\ SaidSignedIn(o)
  <2>1. CASE op[o].kind = "urlCode" /\ op' = [op EXCEPT ![o].pc = "save1", ![o].kind = "urlToken"]
    <3> DEFINE r == [op[o] EXCEPT !.pc = "save1", !.kind = "urlToken"]
    <3>1. op[o] \in OpState /\ op \in [Op -> OpState]
      BY DEF TypeOK
    <3>2. /\ r.kind = "urlToken" /\ r.pc = "save1" /\ r.home = op[o].home
          /\ r.got = op[o].got /\ r \in OpState /\ op' = [op EXCEPT ![o] = r]
      BY <2>1, <3>1, OpStates DEF Programs, LockedPrograms, InitPrograms
    <3> HIDE DEF r
    <3>3. /\ Alone(o) /\ op'[o].kind = "urlToken" /\ op'[o].pc = "save1"
          /\ op'[o].home = op[o].home /\ op'[o].got = op[o].got
      BY <3>1, <3>2 DEF Alone
    <3>4. /\ op[o].pc = "notify" /\ op[o].got \in Session
          /\ UNCHANGED <<holder, refreshing, verifier>>
      <4>1. op[o].pc = "notify" /\ verifier' = verifier
        BY <1>9 DEF SaidSignedIn
      <4>2. op[o].got \in Session
        BY <4>1 DEF ControlInv, RecordsFit, Fits
      <4>3. UNCHANGED <<holder, refreshing>>
        BY <1>9, <2>1 DEF SaidSignedIn
      <4> QED BY <4>1, <4>2, <4>3
    <3>5. Fits(op'[o])
      <4>1. op[o].home # NoOp
        BY <3>4, Constants
      <4> QED BY <3>3, <3>4, <4>1 DEF Fits
    <3>6. LockStep(o)
      BY <2>1, <3>3, <3>4 DEF LockStep, Stays, LockedPrograms, InitPrograms
    <3>7. RefreshStep(o)
      BY <1>9, <3>3, <3>4 DEF RefreshStep
    <3>8. VerifierStep(o)
      BY <2>1, <3>3, <3>4 DEF VerifierStep, Keeps
    <3> QED BY <3>3, <3>4, <3>5, <3>6, <3>7, <3>8 DEF ControlStep
  <2> QED BY <1>9, <2>1 DEF SaidSignedIn
<1>10. CASE ~InRefresh(o) /\ SignedInThrew(o)
  BY <1>10 DEF SignedInThrew, FailOver
<1>11. CASE ~InRefresh(o) /\ SaidSignedOut(o)
  BY <1>11 DEF SaidSignedOut
<1>12. CASE ~InRefresh(o) /\ SignedOutThrew(o)
  BY <1>12 DEF SignedOutThrew, FailOver
<1>13. CASE At(o, "notify") /\ Throws /\ Fail(o, "remove1", "denied")
            /\ UNCHANGED <<refreshing, holder>>
  BY <1>13
<1> QED BY <1>2, <1>3, <1>4, <1>5, <1>6, <1>7, <1>8, <1>9, <1>10, <1>11, <1>12, <1>13

\* What ends a refresh moves all who await it.
Settling(o) ==
    \/ RefreshLost(o)
    \/ SaidSignedIn(o) \/ SignedInThrew(o) \/ SaidSignedOut(o) \/ SignedOutThrew(o)

\* A step that ends a refresh moves one call, all who share it, or none.
LEMMA SettlingControl ==
    ASSUME ControlInv, NEW o \in Op, Settling(o)
    PROVE  \/ ControlStep(o)
           \/ Together(o)
           \/ UNCHANGED <<op, holder, refreshing, verifier>>
<1> USE Known, Settles, SaveControl
    DEF Goes, At, storage, Errors, Throws
<1>1. CASE RefreshLost(o)
  BY <1>1, NoSession \in Session \cup {NoSession} DEF RefreshLost
<1>2. CASE SaidSignedIn(o)
  BY <1>2 DEF SaidSignedIn
<1>3. CASE SignedInThrew(o)
  BY <1>3, NoSession \in Session \cup {NoSession} DEF SignedInThrew
<1>4. CASE SaidSignedOut(o)
  BY <1>4, NoSession \in Session \cup {NoSession} DEF SaidSignedOut
<1>5. CASE SignedOutThrew(o)
  BY <1>5, NoSession \in Session \cup {NoSession} DEF SignedOutThrew
<1> QED BY <1>1, <1>2, <1>3, <1>4, <1>5 DEF Settling
-----------------------------------------------------------------------------
\* The first step of a call.
Starts(o) ==
    /\ op[o].kind = "none"
    /\ op' \in [Op -> OpState]
    /\ \A x \in Op : x # o => op'[x] = op[x]
    /\ op'[o].home \in Client /\ op'[o].kind \in Programs
    /\ op'[o].got \in {NoSession, First, Foreign}
    /\ op'[o].pc \in {"lock", "load", "request", "verifier"}
    /\ Fits(op'[o])
    /\ op'[o].kind \in LockedPrograms => op'[o].pc = "lock"
    /\ UNCHANGED <<holder, refreshing, storage, hour, server, world, history, theft>>

\* Begin starts a call that fits its program.
LEMMA BeginStarts ==
    ASSUME ControlInv, NEW o \in Op, NEW k \in Programs,
           NEW p \in {"lock", "load", "request", "verifier"},
           NEW s \in {NoSession, First, Foreign}, Begin(o, k, p, s),
           k \in LockedPrograms => p = "lock",
           p = "load" => k \notin {"setSession", "exchange", "urlToken", "urlCode"},
           p = "lock" => k \in LockedPrograms \cup {"initialSession"},
           p = "lock" /\ s # NoSession => k = "setSession",
           p = "verifier" => k \in Starters
    PROVE  Starts(o)
<1>1. PICK c \in Client :
         op' = [op EXCEPT ![o] = [Idle EXCEPT !.kind = k, !.home = c, !.pc = p, !.got = s]]
  BY DEF Begin
<1> DEFINE r == [Idle EXCEPT !.kind = k, !.home = c, !.pc = p, !.got = s]
<1>2. /\ r.kind = k /\ r.home = c /\ r.pc = p /\ r.got = s
  BY DEF Idle
<1>3. r \in OpState
  BY Constants DEF Idle, OpState, Errors
<1>4. op \in [Op -> OpState] /\ op' = [op EXCEPT ![o] = r]
  BY <1>1 DEF ControlInv, TypeOK
<1> HIDE DEF r
<1>5. op'[o] = r /\ op' \in [Op -> OpState] /\ \A x \in Op : x # o => op'[x] = op[x]
  BY <1>3, <1>4
<1>6. Fits(r)
  BY <1>2, Constants DEF Fits, Saving, Programs, LockedPrograms, InitPrograms,
                         LooseSessionPrograms, SignInPrograms
<1> QED BY <1>2, <1>5, <1>6 DEF Starts, Begin, NextCall

\* Every method starts a call.
LEMMA CallStarts ==
    ASSUME ControlInv, NEW o \in Op, Call(o)
    PROVE  Starts(o)
<1> USE BeginStarts DEF Programs, LockedPrograms, InitPrograms, LooseSessionPrograms,
                        SignInPrograms, Starters
<1>1. CASE getSession(o) \/ getUser(o) \/ updateUser(o) \/ setSession(o)
  BY <1>1 DEF getSession, getUser, updateUser, setSession
<1>2. CASE refreshSession(o) \/ refreshSupplied(o) \/ signOut(o) \/ signOutOthers(o)
  BY <1>2 DEF refreshSession, refreshSupplied, signOut, signOutOthers
<1>3. CASE reauthenticate(o) \/ challenge(o) \/ verify(o) \/ exchangeCodeForSession(o)
  BY <1>3 DEF reauthenticate, challenge, verify, exchangeCodeForSession
<1>4. CASE autoRefreshTokenTick(o) \/ recoverAndRefresh(o) \/ onAuthStateChange(o)
  BY <1>4 DEF autoRefreshTokenTick, recoverAndRefresh, onAuthStateChange
<1>5. CASE initialize(o)
  <2>1. PICK c \in Client, k \in InitPrograms :
           op' = [op EXCEPT ![o] = [Idle EXCEPT !.kind = k, !.home = c, !.pc = "lock"]]
    BY <1>5 DEF initialize
  <2> DEFINE r == [Idle EXCEPT !.kind = k, !.home = c, !.pc = "lock"]
  <2>2. /\ r.kind = k /\ r.home = c /\ r.pc = "lock" /\ r.got = NoSession
    BY DEF Idle
  <2>3. r \in OpState
    BY Constants DEF Idle, OpState, Errors
  <2>4. op \in [Op -> OpState] /\ op' = [op EXCEPT ![o] = r]
    BY <2>1 DEF ControlInv, TypeOK
  <2> HIDE DEF r
  <2>5. op'[o] = r /\ op' \in [Op -> OpState] /\ \A x \in Op : x # o => op'[x] = op[x]
    BY <2>3, <2>4
  <2>6. Fits(r)
    BY <2>2, Constants DEF Fits, Saving
  <2> QED BY <1>5, <2>2, <2>5, <2>6 DEF Starts, initialize, NextCall
<1>6. CASE linkIdentityIdToken(o) \/ linkIdentityOAuth(o) \/ unlinkIdentity(o)
           \/ enroll(o) \/ unenroll(o)
  BY <1>6 DEF linkIdentityIdToken, linkIdentityOAuth, unlinkIdentity, enroll, unenroll
<1>7. CASE signInWithPassword(o) \/ signInAnonymously(o) \/ signInWithIdToken(o)
           \/ verifyOtp(o) \/ signUp(o)
  BY <1>7 DEF signInWithPassword, signInAnonymously, signInWithIdToken, verifyOtp, signUp
<1>8. CASE signInWithOtp(o) \/ signInWithSSO(o) \/ resetPasswordForEmail(o)
           \/ signInWithOAuth(o) \/ getUserJwt(o)
  BY <1>8 DEF signInWithOtp, signInWithSSO, resetPasswordForEmail, signInWithOAuth,
              getUserJwt
<1> QED BY <1>1, <1>2, <1>3, <1>4, <1>5, <1>6, <1>7, <1>8 DEF Call
-----------------------------------------------------------------------------
\* Every step is of one of these kinds.
LEMMA Kinds ==
    ASSUME ControlInv, [Next]_vars
    PROVE  \/ \E o \in Op : Starts(o) \/ ControlStep(o) \/ Together(o)
           \/ UNCHANGED <<op, holder, refreshing, verifier>>
           \/ \E c \in Client : Close(c)
<1>1. CASE UNCHANGED vars
  BY <1>1 DEF vars, storage
<1>2. ASSUME NEW o \in Op, Call(o)
      PROVE  Starts(o)
  BY <1>2, CallStarts
<1>3. ASSUME NEW o \in Op, Step(o) \/ Fault(o) \/ Overtake(o)
      PROVE  \/ ControlStep(o) \/ Together(o)
             \/ UNCHANGED <<op, holder, refreshing, verifier>>
  <2> USE LockControl, LoadControl, RefreshControl, SaveControl, BodyControl, AskControl,
          SettlingControl
  <2>1. CASE Helpers(o)
    BY <2>1 DEF Helpers, Settling
  <2>2. CASE Body(o) \/ Ask(o)
    BY <2>2
  <2>3. CASE Fault(o)
    BY <2>3 DEF Fault, Settling
  <2>4. CASE Overtake(o)
    BY <2>4
  <2> QED BY <1>3, <2>1, <2>2, <2>3, <2>4 DEF Step
<1>4. CASE HourPasses
  BY <1>4 DEF HourPasses, storage
<1> QED BY <1>1, <1>2, <1>3, <1>4 DEF Next

\* How a closed tab leaves its calls.
LEMMA CloseEffect ==
    ASSUME ControlInv, NEW c \in Client, Close(c)
    PROVE  /\ op' \in [Op -> OpState]
           /\ \A x \in Op : op[x].home # c => op'[x] = op[x]
           /\ \A x \in Op : op[x].home = c =>
                 /\ op'[x].pc = "gone" /\ op'[x].home = c /\ op'[x].kind = op[x].kind
                 /\ op'[x].got = NoSession
           /\ holder' = IF holder \in Op /\ op[holder].home = c THEN NoOp ELSE holder
           /\ refreshing' = [refreshing EXCEPT ![c] = NoOp]
           /\ verifier' = verifier
<1> DEFINE r(x) == [Idle EXCEPT !.kind = op[x].kind, !.home = c, !.pc = "gone"]
<1>1. \A x \in Op : op[x].kind \in Programs \cup {"none"}
  BY Known
<1>2. \A x \in Op : r(x).kind = op[x].kind /\ r(x).home = c /\ r(x).pc = "gone"
                    /\ r(x).got = NoSession
  BY DEF Idle
<1>3. \A x \in Op : r(x) \in OpState
  BY <1>1 DEF Idle, OpState, Errors
<1>4. op' = [x \in Op |-> IF op[x].home = c THEN r(x) ELSE op[x]]
  BY DEF Close
<1>5. op \in [Op -> OpState]
  BY DEF ControlInv, TypeOK
<1> HIDE DEF r
<1> QED BY <1>2, <1>3, <1>4, <1>5 DEF Close, storage

\* Every step of a call marks whether it was astray.
LEMMA StepMarks ==
    ASSUME NEW o \in Op, Step(o) \/ Fault(o)
    PROVE  /\ robbed' = robbed /\ strayed' = (strayed \/ Astray(o))
           /\ op[o].pc \in Pcs \ {"idle", "done", "gone", "await", "stranded"}
<1>1. ASSUME NEW p \in Pcs \ {"idle", "done", "gone", "await", "stranded"}, Goes(o, p)
      PROVE  /\ robbed' = robbed /\ strayed' = (strayed \/ Astray(o))
             /\ op[o].pc \in Pcs \ {"idle", "done", "gone", "await", "stranded"}
  BY <1>1 DEF Goes, At
<1>2. {"lock", "queued", "load", "body", "verifier", "request", "rotating", "refreshed",
       "save1", "save2", "notify", "remove1", "remove2", "notifyOut", "dropVerifier",
       "removed", "timer"} \subseteq Pcs \ {"idle", "done", "gone", "await", "stranded"}
  BY DEF Pcs, Inner
<1>3. CASE \/ Acquire(o) \/ AcquireTimesOut(o) \/ InitializeRejected(o) \/ Queue(o)
           \/ LeaveQueue(o)
  BY <1>1, <1>2, <1>3 DEF Acquire, AcquireTimesOut, InitializeRejected, Queue, LeaveQueue
<1>4. CASE \/ LoadNothing(o) \/ LoadBroken(o) \/ LoadExpired(o) \/ RecoverExpired(o)
           \/ LoadValid(o) \/ RecoverValid(o)
  BY <1>1, <1>2, <1>4 DEF LoadNothing, LoadBroken, LoadExpired, RecoverExpired, LoadValid,
     RecoverValid
<1>5. CASE RefreshRotates(o) \/ RefreshReuses(o) \/ RefreshRefused(o) \/ Refreshed(o)
  BY <1>1, <1>2, <1>5 DEF RefreshRotates, RefreshReuses, RefreshRefused, Refreshed
<1>6. CASE Save1(o) \/ Save2(o) \/ SaidSignedIn(o) \/ TimerFires(o)
  BY <1>1, <1>2, <1>6 DEF Save1, Save2, SaidSignedIn, TimerFires
<1>7. CASE Remove1(o) \/ Remove2(o) \/ SaidSignedOut(o) \/ Removed(o) \/ DropVerifier(o)
  BY <1>1, <1>2, <1>7 DEF Remove1, Remove2, SaidSignedOut, Removed, DropVerifier
<1>8. CASE Body(o)
  <2>1. Goes(o, "body")
    BY <1>8 DEF Body, InBody, getSessionBody, getUserBody, updateUserBody, setSessionBody,
       refreshSessionBody, refreshSuppliedBody, signOutBody, useSessionBody,
       linkIdentityBody, exchangeBody, urlTokenBody, tickBody
  <2> QED BY <1>1, <1>2, <2>1
<1>9. CASE Ask(o)
  BY <1>1, <1>2, <1>9 DEF Ask, InRequest, StoreVerifier, Answered, AnsweredUser,
     AnsweredSession, AnsweredVerify, AnsweredSignOut, SignOutFails, GetUserMissing,
     RequestFails
<1>10. CASE Fault(o)
  BY <1>1, <1>2, <1>10 DEF Fault, LockFails, InRequest, RefreshLost, AnswerLost, SignedInThrew,
     SignedOutThrew
<1> QED BY <1>3, <1>4, <1>5, <1>6, <1>7, <1>8, <1>9, <1>10 DEF Step, Helpers

\* The variables that are not about where the calls are.
LEMMA DataType ==
    ASSUME ControlInv, [Next]_vars
    PROVE  /\ stored' \in Session \cup {NoSession, Broken} /\ hour' \in Ages
           /\ gen' \in [Fam -> 0 .. MaxGen]
           /\ status' \in [Fam -> {"unused", "live", "revoked"}]
           /\ faults' \in 0 .. MaxFaults /\ workload' \in Workloads
           /\ autoRefreshToken' \in BOOLEAN /\ mishaps' \subseteq Mishaps
           /\ robbed' \subseteq Op /\ strayed' \in BOOLEAN
           /\ reused' \in BOOLEAN /\ signedOut' \subseteq Fam /\ refused' \subseteq Session
<1>1. TypeOK
  BY DEF ControlInv
<1> DEFINE D ==
       /\ stored' \in Session \cup {NoSession, Broken} /\ hour' \in Ages
       /\ gen' \in [Fam -> 0 .. MaxGen]
       /\ status' \in [Fam -> {"unused", "live", "revoked"}]
       /\ faults' \in 0 .. MaxFaults /\ workload' \in Workloads
       /\ autoRefreshToken' \in BOOLEAN /\ mishaps' \subseteq Mishaps
       /\ reused' \in BOOLEAN /\ signedOut' \subseteq Fam /\ refused' \subseteq Session
<1>2. /\ stored \in Session \cup {NoSession, Broken} /\ hour \in Ages
       /\ gen \in [Fam -> 0 .. MaxGen]
       /\ status \in [Fam -> {"unused", "live", "revoked"}]
       /\ faults \in 0 .. MaxFaults /\ workload \in Workloads
       /\ mishaps \subseteq Mishaps /\ signedOut \subseteq Fam /\ refused \subseteq Session
  BY <1>1 DEF TypeOK
<1>3. ASSUME UNCHANGED <<stored, gen, status, faults, workload, mishaps, signedOut, refused>>
       PROVE  /\ stored' \in Session \cup {NoSession, Broken}
              /\ gen' \in [Fam -> 0 .. MaxGen]
              /\ status' \in [Fam -> {"unused", "live", "revoked"}]
              /\ faults' \in 0 .. MaxFaults /\ workload' \in Workloads
              /\ mishaps' \subseteq Mishaps /\ signedOut' \subseteq Fam
              /\ refused' \subseteq Session
  BY <1>2, <1>3
<1>4. ASSUME UNCHANGED <<stored, hour, server, world, history>>
      PROVE  D
  <2>1. autoRefreshToken' = autoRefreshToken /\ reused' = reused
    BY <1>4 DEF world, history
  <2>2. autoRefreshToken' \in BOOLEAN /\ reused' \in BOOLEAN
    BY <1>1, <2>1 DEF TypeOK
  <2>3. UNCHANGED <<stored, hour, gen, status, faults, workload, mishaps, signedOut, refused>>
    BY <1>4 DEF server, world, history
  <2>4. hour' \in Ages
    BY <2>3, <1>2
  <2> QED BY <2>2, <2>3, <2>4, <1>2, <1>3
<1>5. ASSUME NEW o \in Op
      PROVE  /\ Refreshes(o) \subseteq Mishaps /\ mishaps \cup {"threw"} \subseteq Mishaps
             /\ mishaps \cup {"supplied"} \subseteq Mishaps
             /\ mishaps \cup {"lost"} \subseteq Mishaps
             /\ mishaps \cup {"closed"} \subseteq Mishaps
  BY <1>1 DEF TypeOK, Refreshes, Mishaps
<1>6. faults < MaxFaults => faults + 1 \in 0 .. MaxFaults
  BY <1>1, AuthSessionAssumption DEF TypeOK
<1>7. ASSUME NEW o \in Op, Call(o)
      PROVE  D
  BY <1>4, <1>7, CallStarts DEF Starts, storage
<1>8. ASSUME NEW o \in Op, Helpers(o)
      PROVE  D
  <2>1. CASE \/ Acquire(o) \/ AcquireTimesOut(o) \/ InitializeRejected(o) \/ Queue(o)
             \/ LeaveQueue(o) \/ LoadNothing(o) \/ LoadBroken(o) \/ RecoverExpired(o)
             \/ LoadValid(o) \/ RecoverValid(o) \/ Refreshed(o)
             \/ Save1(o) \/ Remove2(o) \/ Removed(o) \/ DropVerifier(o)
    BY <1>4, <2>1 DEF Acquire, AcquireTimesOut, InitializeRejected, Queue, LeaveQueue,
       LoadNothing, LoadBroken, RecoverExpired, LoadValid, RecoverValid, Refreshed, Save1,
       Remove2, Removed, DropVerifier, storage
  <2>2. CASE LoadExpired(o)
    BY <1>1, <1>5, <2>2 DEF LoadExpired, CallRefreshToken, TypeOK, storage, server, world
  <2>3. CASE RefreshRotates(o)
    <3>1. op[o].got \in Session /\ gen \in [Fam -> 0 .. MaxGen]
      BY <1>1, <2>3, Known DEF RefreshRotates, Goes, At, TypeOK
    <3>2. gen' \in [Fam -> 0 .. MaxGen]
      BY <1>1, <2>3, <3>1, Generations DEF RefreshRotates
    <3> QED BY <1>1, <2>3, <3>2 DEF RefreshRotates, TypeOK, storage, world, history
  <2>4. CASE RefreshReuses(o)
    <3>1. op[o].got \in Session
      BY <2>4, Known DEF RefreshReuses, Goes, At
    <3>2. status' \in [Fam -> {"unused", "live", "revoked"}] /\ refused' \subseteq Session
      BY <1>1, <2>4, <3>1 DEF RefreshReuses, TypeOK
    <3> QED BY <1>1, <2>4, <3>2 DEF RefreshReuses, TypeOK, storage, world
  <2>5. CASE RefreshRefused(o)
    <3>1. op[o].got \in Session
      BY <2>5, Known DEF RefreshRefused, Goes, At
    <3> QED BY <1>1, <2>5, <3>1 DEF RefreshRefused, TypeOK, storage, server, world
  <2>6. CASE Save2(o)
    <3>1. op[o].got \in Session
      BY <2>6, Known DEF Save2, Goes, At, Saving
    <3> QED BY <1>1, <1>5, <2>6, <3>1 DEF Save2, TypeOK, server, world, history
  <2>7. CASE Remove1(o)
    BY <1>1, <1>5, <2>7 DEF Remove1, TypeOK, server, world, history
  <2>8. CASE SaidSignedIn(o) \/ TimerFires(o) \/ SaidSignedOut(o)
    BY <1>4, <2>8 DEF SaidSignedIn, TimerFires, SaidSignedOut, storage
  <2> QED BY <1>8, <2>1, <2>2, <2>3, <2>4, <2>5, <2>6, <2>7, <2>8 DEF Helpers
<1>9. ASSUME NEW o \in Op, Body(o)
      PROVE  D
  <2>1. UNCHANGED <<storage, hour, server, world>>
    BY <1>9 DEF Body, InBody, getSessionBody, getUserBody, updateUserBody, setSessionBody,
       refreshSessionBody, refreshSuppliedBody, signOutBody, useSessionBody,
       linkIdentityBody, exchangeBody, urlTokenBody, tickBody
  <2>2. /\ UNCHANGED <<reused, refused>>
        /\ \/ mishaps' = mishaps
           \/ mishaps' = Refreshes(o)
           \/ mishaps' = mishaps \cup {"supplied"}
    BY <1>9 DEF Body, getSessionBody, getUserBody, updateUserBody, setSessionBody,
       refreshSessionBody, refreshSuppliedBody, signOutBody, useSessionBody,
       linkIdentityBody, exchangeBody, urlTokenBody, tickBody, history, Forget,
       CallRefreshToken
  <2>3. \/ signedOut' = signedOut
        \/ HasSession(o) /\ signedOut' = signedOut \cup {op[o].got.fam}
    BY <1>9 DEF Body, getSessionBody, getUserBody, updateUserBody, setSessionBody,
       refreshSessionBody, refreshSuppliedBody, signOutBody, useSessionBody,
       linkIdentityBody, exchangeBody, urlTokenBody, tickBody, history, Forget,
       CallRefreshToken
  <2> QED BY <1>1, <1>5, <2>1, <2>2, <2>3 DEF TypeOK, storage, server, world, HasSession,
                                              Session
<1>10. ASSUME NEW o \in Op, Ask(o)
      PROVE  D
  <2>1. CASE \/ StoreVerifier(o) \/ Answered(o) \/ AnsweredUser(o) \/ GetUserMissing(o)
             \/ RequestFails(o)
    BY <1>4, <2>1 DEF StoreVerifier, Answered, AnsweredUser, GetUserMissing, RequestFails,
       storage
  <2>2. CASE AnsweredSession(o)
    BY <1>1, <2>2 DEF AnsweredSession, TypeOK, storage, world, history
  <2>3. CASE AnsweredVerify(o)
    <3>1. gen' \in [Fam -> 0 .. MaxGen]
      BY <1>1, <2>3, Generations DEF AnsweredVerify, LiveToken, HasSession, TypeOK
    <3> QED BY <1>1, <2>3, <3>1 DEF AnsweredVerify, TypeOK, storage, world, history
  <2>4. CASE AnsweredSignOut(o)
    BY <1>1, <2>4 DEF AnsweredSignOut, Forget, HasSession, LiveToken, TypeOK, storage, world,
       Session
  <2>5. CASE SignOutFails(o)
    BY <1>1, <2>5 DEF SignOutFails, Forget, HasSession, TypeOK, storage, server, world,
       history, Session
  <2> QED BY <1>10, <2>1, <2>2, <2>3, <2>4, <2>5 DEF Ask
<1>11. ASSUME NEW o \in Op, Fault(o)
      PROVE  D
  <2>1. CASE RefreshLost(o)
    <3>1. gen' \in [Fam -> 0 .. MaxGen]
      BY <1>1, <2>1, Generations, Known DEF RefreshLost, TypeOK, Goes, At
    <3> QED BY <1>1, <1>5, <1>6, <2>1, <3>1 DEF RefreshLost, TypeOK, storage
  <2>2. CASE AnswerLost(o)
    <3>1. gen' \in [Fam -> 0 .. MaxGen] /\ status' \in [Fam -> {"unused", "live", "revoked"}]
      BY <1>1, <2>2, Generations DEF AnswerLost, TypeOK, LiveToken, HasSession
    <3> QED BY <1>1, <1>5, <1>6, <2>2, <3>1 DEF AnswerLost, TypeOK, storage
  <2>3. CASE SignedInThrew(o) \/ SignedOutThrew(o)
    BY <1>1, <1>5, <1>6, <2>3 DEF SignedInThrew, SignedOutThrew, Throws,
       TypeOK, storage, server
  <2>4. CASE LockFails(o)
    BY <1>1, <1>6, <2>4 DEF LockFails, TypeOK, storage, server, history
  <2> QED BY <1>11, <2>1, <2>2, <2>3, <2>4 DEF Fault
<1>12. ASSUME NEW c \in Client, Close(c)
       PROVE  D
  BY <1>1, <1>6, <1>12 DEF Close, TypeOK, Mishaps, storage, server
<1>13. ASSUME HourPasses
       PROVE  D
  <2>1. UNCHANGED <<stored, server, world, history>> /\ hour' = "expired"
    BY <1>13 DEF HourPasses, storage
  <2>2. autoRefreshToken' = autoRefreshToken /\ reused' = reused
    BY <2>1 DEF world, history
  <2>3. autoRefreshToken' \in BOOLEAN /\ reused' \in BOOLEAN
    BY <1>1, <2>2 DEF TypeOK
  <2>4. UNCHANGED <<stored, gen, status, faults, workload, mishaps, signedOut, refused>>
    BY <2>1 DEF server, world, history
  <2>5. hour' \in Ages
    BY <2>1 DEF Ages
  <2> QED BY <2>3, <2>4, <2>5, <1>2, <1>3
<1>14. ASSUME UNCHANGED vars
       PROVE  D
  BY <1>4, <1>14 DEF vars, storage
<1>15. ASSUME NEW o \in Op, Overtake(o)
       PROVE  D
  BY <1>1, <1>6, <1>15 DEF Overtake, TypeOK, storage, server, history
<1>16. robbed' \subseteq Op /\ strayed' \in BOOLEAN
  <2>1. robbed \subseteq Op /\ strayed \in BOOLEAN /\ holder \in Op \cup {NoOp}
    BY <1>1 DEF TypeOK
  <2>2. ASSUME NEW o \in Op, Call(o)
        PROVE  UNCHANGED theft
    BY <2>2, CallStarts DEF Starts
  <2>3. ASSUME NEW o \in Op, Step(o) \/ Fault(o)
        PROVE  robbed' = robbed /\ strayed' = (strayed \/ Astray(o))
    BY <2>3, StepMarks
  <2>4. ASSUME NEW o \in Op, Overtake(o)
        PROVE  robbed' \subseteq Op /\ strayed' \in BOOLEAN
    <3>1. holder \in Op
      BY <2>1, <2>4 DEF Overtake
    <3> QED BY <2>1, <2>4, <3>1 DEF Overtake
  <2>5. CASE HourPasses \/ (\E c \in Client : Close(c)) \/ UNCHANGED vars
    BY <2>1, <2>5 DEF HourPasses, Close, vars, theft
  <2> QED BY <2>1, <2>2, <2>3, <2>4, <2>5 DEF Next, theft
<1> QED BY <1>7, <1>8, <1>9, <1>10, <1>11, <1>12, <1>13, <1>14, <1>15, <1>16 DEF Next, Step

\* The control part of the invariant is kept by every kind of step.
LEMMA ControlKept ==
    ASSUME ControlInv, [Next]_vars
    PROVE  ControlInv'
<1>1. CASE UNCHANGED <<op, holder, refreshing, verifier>>
  BY <1>1, DataType DEF ControlInv, TypeOK, RecordsFit, LockFits, Running, RefreshFits,
     VerifierFits, At
<1>2. ASSUME NEW o \in Op, ControlStep(o)
      PROVE  ControlInv'
  <2>1. TypeOK'
    <3>1. op' \in [Op -> OpState]
      BY <1>2 DEF ControlStep, Alone
    <3>2. holder' \in Op \cup {NoOp}
      BY <1>2 DEF ControlStep, LockStep, Stays, Leaves, Enters, ControlInv, TypeOK
    <3>3. refreshing' \in [Client -> Op \cup {NoOp}]
      BY <1>2 DEF ControlStep, RefreshStep, ControlInv, TypeOK
    <3>4. verifier' \in Op \cup {NoOp}
      BY <1>2 DEF ControlStep, VerifierStep, ControlInv, TypeOK
    <3> QED BY <3>1, <3>2, <3>3, <3>4, DataType DEF TypeOK
  <2>2. RecordsFit'
    BY <1>2 DEF ControlStep, Alone, ControlInv, RecordsFit
  <2>3. LockFits'
    <3>1. \A x \in Op : x # o => op'[x] = op[x]
      BY <1>2 DEF ControlStep, Alone
    <3>2. /\ "done" \notin Inner /\ "timer" \notin Inner /\ {"lock", "queued"} \cap Inner = {}
          /\ {"load", "body"} \subseteq Inner
      BY DEF Inner
    <3>3. LockStep(o)
      BY <1>2 DEF ControlStep
    <3>4. /\ holder \in Op \cup {NoOp}
          /\ \A x \in Op : holder = x => op[x].kind \in LockedPrograms /\ op[x].pc \in Inner
      BY Known DEF ControlInv, TypeOK
    <3> QED BY <3>1, <3>2, <3>3, <3>4, Constants
            DEF LockFits, Running, LockStep, Stays, Leaves, Enters
  <2>4. RefreshFits'
    <3>1. /\ \A x \in Op : x # o => op'[x] = op[x]
          /\ op'[o].home = op[o].home /\ op[o].kind # "none"
      BY <1>2 DEF ControlStep, Alone
    <3>2. /\ op[o].home \in Client
          /\ \A x \in Op : op[x].pc \in {"rotating", "await"} => op[x].home \in Client
      BY <3>1, Known
    <3>3. RefreshStep(o)
      BY <1>2 DEF ControlStep
    <3>4. /\ refreshing \in [Client -> Op \cup {NoOp}]
          /\ refreshing' \in [Client -> Op \cup {NoOp}]
      BY <2>1 DEF ControlInv, TypeOK
    <3>5. RefreshFits
      BY DEF ControlInv
    <3>6. ASSUME NEW c \in Client, refreshing'[c] # NoOp
          PROVE  /\ op'[refreshing'[c]].home = c /\ op'[refreshing'[c]].pc \in Refreshings
                 /\ op'[refreshing'[c]].kind # "urlToken"
      BY <3>1, <3>2, <3>3, <3>4, <3>5, <3>6, Constants
         DEF RefreshStep, RefreshFits, InRefresh, Refreshings
    <3>7. ASSUME NEW x \in Op
          PROVE  /\ op'[x].pc = "rotating" => refreshing'[op'[x].home] = x
                 /\ op'[x].pc = "await" => refreshing'[op'[x].home] # NoOp
      BY <3>1, <3>2, <3>3, <3>4, <3>5, Constants
         DEF RefreshStep, RefreshFits, InRefresh, At
    <3> QED BY <3>6, <3>7 DEF RefreshFits, At
  <2>5. VerifierFits'
    BY <1>2, Constants DEF ControlStep, Alone, VerifierStep, ControlInv, TypeOK, VerifierFits
  <2> QED BY <2>1, <2>2, <2>3, <2>4, <2>5 DEF ControlInv
<1>3. ASSUME NEW o \in Op, Together(o)
      PROVE  ControlInv'
  <2>1. TypeOK'
    BY <1>3, DataType DEF Together, ControlInv, TypeOK
  <2>2. /\ Sharers(o) \subseteq Op /\ o \in Sharers(o)
        /\ \A x \in Op :
              x \in Sharers(o) <=> x = o \/ (op[x].home = op[o].home /\ op[x].pc = "await")
        /\ op[o].pc \in Refreshings \ {"save1"}
        /\ \A x \in Sharers(o) : op'[x].home = op[x].home /\ op'[x].kind = op[x].kind
                                 /\ op'[x].pc \in Backs \cup {"stranded"}
        /\ \A x \in Op : x \notin Sharers(o) => op'[x] = op[x]
    BY <1>3 DEF Sharers, At, Together
  <2>3. \A x \in Sharers(o) : op[x].kind # "none" /\ op[x].home \in Client /\ op[x].home # NoOp
                              /\ op[x].pc \in Inner
    BY <2>2, Known, Constants DEF Refreshings, Inner
  <2>4. RecordsFit'
    BY <2>2, <2>3 DEF ControlInv, RecordsFit, Fits, Backs, Saving
  <2>5. LockFits'
    <3>1. /\ holder \in Op \cup {NoOp}
          /\ \A x \in Op : holder = x => op[x].kind \in LockedPrograms /\ op[x].pc \in Inner
      BY Known DEF ControlInv, TypeOK
    <3>2. Backs \cup {"stranded"} \subseteq Inner /\ holder' = holder
      BY <1>3 DEF Backs, Inner, Together
    <3> QED BY <2>2, <2>3, <3>1, <3>2 DEF LockFits, Running
  <2>6. RefreshFits'
    <3>1. refreshing' = [refreshing EXCEPT ![op[o].home] = NoOp]
          /\ refreshing \in [Client -> Op \cup {NoOp}] /\ refreshing[op[o].home] = o
      BY <1>3 DEF Together, InRefresh, ControlInv, TypeOK
    <3>2. RefreshFits
      BY DEF ControlInv
    <3>3. \A x \in Op : op[x].pc \in {"rotating", "await"} => op[x].home \in Client
      BY Known
    <3>4. ASSUME NEW c \in Client, refreshing'[c] # NoOp
          PROVE  /\ op'[refreshing'[c]].home = c /\ op'[refreshing'[c]].pc \in Refreshings
                 /\ op'[refreshing'[c]].kind # "urlToken"
      <4>1. c # op[o].home /\ refreshing[c] = refreshing'[c] /\ refreshing[c] \in Op
        BY <2>3, <3>1, <3>4
      <4>2. op[refreshing[c]].home = c /\ op[refreshing[c]].pc \in Refreshings
            /\ op[refreshing[c]].kind # "urlToken"
        BY <3>2, <4>1, Constants DEF RefreshFits
      <4>3. refreshing[c] \notin Sharers(o)
        BY <2>2, <4>1, <4>2
      <4> QED BY <2>2, <4>1, <4>2, <4>3
    <3>5. ASSUME NEW x \in Op
          PROVE  /\ op'[x].pc = "rotating" => refreshing'[op'[x].home] = x
                 /\ op'[x].pc = "await" => refreshing'[op'[x].home] # NoOp
      <4>1. CASE x \in Sharers(o)
        BY <2>2, <4>1 DEF Backs
      <4>2. CASE x \notin Sharers(o)
        BY <2>2, <2>3, <3>1, <3>2, <3>3, <4>2 DEF RefreshFits, At
      <4> QED BY <4>1, <4>2
    <3> QED BY <3>4, <3>5 DEF RefreshFits, At
  <2>7. VerifierFits'
    <3>1. verifier' = verifier /\ verifier \in Op \cup {NoOp} /\ VerifierFits
      BY <1>3 DEF Together, ControlInv, TypeOK
    <3>2. \A x \in Sharers(o) : Keeps(op[x]) => Keeps(op'[x])
      BY <2>2 DEF Keeps, Refreshings
    <3> QED BY <2>2, <3>1, <3>2 DEF VerifierFits
  <2> QED BY <2>1, <2>4, <2>5, <2>6, <2>7 DEF ControlInv
<1>4. ASSUME NEW o \in Op, Starts(o)
      PROVE  ControlInv'
  <2>1. /\ \A x \in Op : x # o => op'[x] = op[x]
        /\ op[o].kind = "none" /\ op[o].pc = "idle" /\ Fits(op'[o])
        /\ op'[o].pc \in {"lock", "load", "request", "verifier"}
        /\ op'[o].kind \in LockedPrograms => op'[o].pc = "lock"
        /\ UNCHANGED <<holder, refreshing, verifier>>
    BY <1>4, Known DEF Starts, storage
  <2>2. TypeOK'
    BY <1>4, <2>1, DataType DEF Starts, ControlInv, TypeOK
  <2>3. RecordsFit'
    BY <2>1 DEF ControlInv, RecordsFit
  <2>4. LockFits'
    BY <2>1 DEF ControlInv, TypeOK, LockFits, Running, Inner
  <2>5. RefreshFits'
    BY <2>1, Constants DEF ControlInv, TypeOK, RefreshFits, At, Refreshings
  <2>6. VerifierFits'
    BY <2>1, Constants DEF ControlInv, TypeOK, VerifierFits, Keeps
  <2> QED BY <2>2, <2>3, <2>4, <2>5, <2>6 DEF ControlInv
<1>5. ASSUME NEW c \in Client, Close(c)
      PROVE  ControlInv'
  <2>1. /\ op' \in [Op -> OpState]
        /\ \A x \in Op : op[x].home # c => op'[x] = op[x]
        /\ \A x \in Op : op[x].home = c =>
              op'[x].pc = "gone" /\ op'[x].home = c /\ op'[x].kind = op[x].kind
        /\ holder' = IF holder \in Op /\ op[holder].home = c THEN NoOp ELSE holder
        /\ refreshing' = [refreshing EXCEPT ![c] = NoOp]
        /\ verifier' = verifier
    BY <1>5, CloseEffect
  <2>2. TypeOK'
    BY <2>1, DataType DEF ControlInv, TypeOK
  <2>3. RecordsFit'
    <3>1. \A x \in Op : op[x].home = c => op[x].kind # "none"
      BY Known, Constants DEF ControlInv, RecordsFit, Fits, Idle
    <3> QED BY <2>1, <3>1, Constants DEF ControlInv, RecordsFit, Fits, Saving
  <2>4. LockFits'
    BY <2>1, Constants DEF ControlInv, TypeOK, LockFits, Running, Inner
  <2>5. RefreshFits'
    <3>1. \A x \in Op : op[x].pc \in {"rotating", "await"} => op[x].home \in Client
      BY Known
    <3> QED BY <2>1, <3>1 DEF ControlInv, TypeOK, RefreshFits, At
  <2>6. VerifierFits'
    BY <2>1 DEF ControlInv, TypeOK, VerifierFits, Keeps
  <2> QED BY <2>2, <2>3, <2>4, <2>5, <2>6 DEF ControlInv
<1> QED BY <1>1, <1>2, <1>3, <1>4, <1>5, Kinds

\* It holds in the initial states.
LEMMA ControlInit ==
    Init => ControlInv
<1> SUFFICES ASSUME Init PROVE ControlInv
  OBVIOUS
<1>1. /\ \A o \in Op : op[o] = Idle
      /\ holder = NoOp /\ verifier = NoOp /\ \A c \in Client : refreshing[c] = NoOp
  BY DEF Init
<1>2. /\ Idle \in OpState
      /\ Idle.pc = "idle" /\ Idle.kind = "none"
  BY DEF Idle, OpState, Errors
<1>3. TypeOK
  <2>1. op \in [Op -> OpState]
    BY <1>2 DEF Init
  <2>2. 0 \in 0 .. MaxGen /\ 0 \in 0 .. MaxFaults
    BY AuthSessionAssumption
  <2>3. /\ gen \in [Fam -> 0 .. MaxGen] /\ status \in [Fam -> {"unused", "live", "revoked"}]
        /\ faults \in 0 .. MaxFaults
    BY <2>2 DEF Init
  <2>4. stored \in Session \cup {NoSession, Broken}
    BY Constants DEF Init
  <2>5. /\ holder \in Op \cup {NoOp} /\ verifier \in Op \cup {NoOp}
        /\ refreshing \in [Client -> Op \cup {NoOp}] /\ hour \in Ages
        /\ workload \in Workloads /\ autoRefreshToken \in BOOLEAN
        /\ robbed \subseteq Op /\ strayed \in BOOLEAN
        /\ mishaps \subseteq Mishaps /\ reused \in BOOLEAN /\ signedOut \subseteq Fam
        /\ refused \subseteq Session
    BY DEF Init
  <2> QED BY <2>1, <2>3, <2>4, <2>5 DEF TypeOK
<1>4. RecordsFit
  BY <1>1, <1>2 DEF RecordsFit, Fits, Saving
<1>5. LockFits
  BY <1>1, <1>2, Constants DEF LockFits, Inner
<1>6. RefreshFits /\ VerifierFits
  BY <1>1, <1>2 DEF RefreshFits, VerifierFits, At
<1> QED BY <1>3, <1>4, <1>5, <1>6 DEF ControlInv

\* The calls of a client, the lock, refreshingDeferred and the code verifier fit
\* together in every reachable state (ControlInv is the inductive invariant).
THEOREM Control == Spec => []ControlInv
<1>1. Init => ControlInv
  BY ControlInit
<1>2. ControlInv /\ [Next]_vars => ControlInv'
  BY ControlKept
<1> QED BY <1>1, <1>2, PTL DEF Spec

\* Every variable keeps its type.
THEOREM TypeCorrect == Spec => []TypeOK
<1>1. ControlInv => TypeOK
  BY DEF ControlInv
<1> QED BY <1>1, Control, PTL

\* A client has one refresh in flight, and whoever awaits has one to wait for.
THEOREM OneRefresh == Spec => []SingleFlight
<1>1. ASSUME ControlInv PROVE SingleFlight
  <2> SUFFICES ASSUME NEW c \in Client
               PROVE  /\ Cardinality({o \in Op : op[o].home = c /\ At(o, "rotating")}) <= 1
                      /\ (\E o \in Op : op[o].home = c /\ op[o].pc \in {"rotating", "await"})
                            => refreshing[c] # NoOp /\ op[refreshing[c]].home = c
    BY DEF SingleFlight
  <2> DEFINE R == {o \in Op : op[o].home = c /\ At(o, "rotating")}
  <2>1. RefreshFits
    BY <1>1 DEF ControlInv
  <2>2. R \subseteq {refreshing[c]}
    BY <2>1 DEF RefreshFits
  <2>3. Cardinality(R) <= 1
    <3>1. IsFiniteSet({refreshing[c]}) /\ Cardinality({refreshing[c]}) = 1
      BY FS_Singleton
    <3>2. Cardinality(R) <= Cardinality({refreshing[c]})
      BY <2>2, <3>1, FS_Subset
    <3> QED BY <3>1, <3>2
  <2>4. ASSUME NEW o \in Op, op[o].home = c, op[o].pc \in {"rotating", "await"}
        PROVE  refreshing[c] # NoOp /\ op[refreshing[c]].home = c
    BY <2>1, <2>4, Constants DEF RefreshFits, At
  <2> QED BY <2>3, <2>4
<1> QED BY <1>1, Control, PTL

\* A call that failed leaves no code verifier of its own behind.
THEOREM NoVerifierLeft == Spec => []FailedFlowLeavesNoVerifier
<1>1. ASSUME ControlInv PROVE FailedFlowLeavesNoVerifier
  BY <1>1, Constants DEF ControlInv, VerifierFits, Keeps, FailedFlowLeavesNoVerifier, At
<1> QED BY <1>1, Control, PTL
=============================================================================
