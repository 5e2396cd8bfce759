----------------------- MODULE AuthSessionOrderProofs -----------------------
(***************************************************************************)
(* What happens to the tokens of AuthSession as long as whoever lost the   *)
(* lock does not go on: no token is used twice, what was signed out or     *)
(* refused is not stored again.                                            *)
(*                                                                         *)
(* Most steps are Calm: they move a call and leave storage, the server and *)
(* the history alone, so that the invariant follows from where the calls   *)
(* have their sessions from.  The others are taken one by one.             *)
(***************************************************************************)
EXTENDS AuthSessionProofs

\* Where the sessions of the calls come from.
Given == {NoSession, First, Foreign}
Held == {op[x].got : x \in Op}

\* A step that leaves storage, the server and the history of the tokens alone.
Still ==
    /\ UNCHANGED <<stored, gen, status, signedOut, refused, reused>>
    /\ mishaps \subseteq mishaps'

\* The server rotates the token of a call that does not learn of it.
Loses(y) ==
    /\ "lost" \in mishaps' /\ op[y].got \in Session /\ op[y].pc \notin Saving
    /\ status[op[y].got.fam] # "unused"
    /\ \A f \in Fam : f # op[y].got.fam => gen'[f] = gen[f]

\* A step that may also empty storage, lose a rotation or revoke a family.
Kept ==
    /\ UNCHANGED <<signedOut, refused, reused>>
    /\ mishaps \subseteq mishaps'
    /\ stored' \in {stored, NoSession}
    /\ gen' = gen \/ \E y \in Op : Loses(y)
    /\ \A f \in Fam : status'[f] = "unused" <=> status[f] = "unused"

\* A step after which nobody has a session that was not his or in storage.
Calm ==
    /\ Kept
    /\ \A x \in Op : op'[x].got \in Given \cup {stored} \cup Held
    /\ Ordered' =>
          /\ OrderFits'
          /\ \A x \in Op :
                /\ op'[x].got \in Given \cup {stored, op[x].got}
                /\ Carries(x)' =>
                      \/ Carries(x) /\ op'[x].got = op[x].got
                      \/ holder = x /\ op[x].pc = "load" /\ op'[x].got = stored
                /\ op'[x].pc \in Saving =>
                      \/ op[x].pc \in Saving /\ op'[x].got = op[x].got
                         /\ (holder' = x <=> holder = x)
                      \/ holder' = x
                /\ holder = x /\ op[x].pc \in Saving =>
                      holder' = x /\ op'[x].pc \in Saving /\ op'[x].got = op[x].got
                /\ holder = x /\ op[x].pc = "remove1" /\ stored' \in Session =>
                      holder' = x /\ op'[x].pc = "remove1" /\ op'[x].kind = op[x].kind

\* Families are named and issued.
LEMMA Families ==
    ASSUME ControlInv
    PROVE  /\ 1 \in Fam /\ 2 \in Fam /\ First.fam = 1 /\ Foreign.fam = 2
           /\ \A s \in Session : s.fam \in Fam /\ s.gen \in Nat
           /\ stored \in Session \cup {NoSession, Broken}
           /\ \A x \in Op : op[x].got \in Session \cup {NoSession}
           /\ signedOut \subseteq Fam /\ refused \subseteq Session
           /\ \A c \in Client : refreshing[c] \in Op \cup {NoOp}
           /\ holder \in Op \cup {NoOp}
<1>1. /\ 1 \in Fam /\ 2 \in Fam /\ First.fam = 1 /\ Foreign.fam = 2
      /\ \A s \in Session : s.fam \in Fam /\ s.gen \in Nat
  BY AuthSessionAssumption DEF Fam, First, Foreign, Session
<1> QED BY <1>1, Known DEF ControlInv, TypeOK

\* A calm step keeps the invariant.
LEMMA CalmKeeps ==
    ASSUME SessionInv, ControlInv', Calm, strayed => strayed'
    PROVE  SessionInv'
<1>1. /\ UNCHANGED <<signedOut, refused, reused>>
      /\ stored' \in {stored, NoSession}
      /\ gen' = gen \/ \E y \in Op : Loses(y)
      /\ \A f \in Fam : status'[f] = "unused" <=> status[f] = "unused"
      /\ Ordered' => Ordered
      /\ "lost" \notin mishaps' => "lost" \notin mishaps /\ gen' = gen
      /\ NoOp \notin Op /\ NoSession \notin Session
  BY Constants DEF Calm, Kept, Ordered, Loses
<1>2. SessionsIssued'
  <2>1. \A s \in Given \cup {stored} \cup Held : Issued(s)
    BY Families, Constants DEF SessionInv, SessionsIssued, Given, Held, Issued
  <2>2. \A s : Issued(s) => Issued(s)'
    BY <1>1, Families DEF Issued, SessionInv
  <2>3. \A x \in Op : Issued(op[x].got)'
    BY <2>1, <2>2 DEF Calm, Issued
  <2>4. Issued(stored)'
    BY <1>1, <2>1, <2>2 DEF Issued
  <2>5. \A s \in refused' : Issued(s)'
    BY <1>1, <2>2 DEF SessionInv, SessionsIssued
  <2>6. status'[1] # "unused" /\ status'[2] # "unused"
    BY <1>1, Families DEF SessionInv, SessionsIssued
  <2>7. \A f \in Fam : status'[f] = "unused" => gen'[f] = 0 /\ f \notin signedOut'
    BY <1>1 DEF SessionInv, SessionsIssued, Loses
  <2> QED BY <2>3, <2>4, <2>5, <2>6, <2>7 DEF SessionsIssued
<1>3. OrderFits'
  BY DEF Calm, OrderFits
<1>4. LooseSavesAreNew'
  <2> SUFFICES ASSUME Ordered', NEW o \in Op, op'[o].pc \in Saving, holder' # o
               PROVE  /\ op'[o].got.fam > 2 /\ op'[o].got.gen = gen'[op'[o].got.fam]
                      /\ Apart(o, stored)'
                      /\ \A x \in Op : x # o =>
                            (op'[x].got \in Session => op'[x].got.fam # op'[o].got.fam)
    BY DEF LooseSavesAreNew, Apart
  <2>1. op[o].pc \in Saving /\ holder # o /\ op'[o].got = op[o].got
    BY DEF Calm
  <2>2. /\ op[o].got.fam > 2 /\ op[o].got.gen = gen[op[o].got.fam]
        /\ Apart(o, stored)
        /\ \A x \in Op : x # o => Apart(o, op[x].got)
    BY <1>1, <2>1 DEF SessionInv, LooseSavesAreNew
  <2>3. Apart(o, NoSession) /\ Apart(o, First) /\ Apart(o, Foreign)
    <3>1. First.fam = 1 /\ Foreign.fam = 2 /\ NoSession \notin Session
      BY Families, Constants DEF SessionInv
    <3>2. op[o].got.fam \in Int /\ op[o].got.fam # 1 /\ op[o].got.fam # 2
      BY <2>1, <2>2, Families, Known DEF SessionInv, Fam
    <3> QED BY <3>1, <3>2 DEF Apart
  <2>4. ASSUME NEW x \in Op, x # o
        PROVE  Apart(o, op'[x].got)
    <3>1. op'[x].got \in Given \cup {stored, op[x].got}
      BY DEF Calm
    <3> QED BY <2>2, <2>3, <2>4, <3>1 DEF Given
  <2>5. gen'[op[o].got.fam] = gen[op[o].got.fam]
    <3>1. \A y \in Op : Loses(y) => y # o /\ op[y].got \in Session
      BY <2>1 DEF Loses
    <3>2. op[o].got.fam \in Fam
      BY <2>1, Known, Families DEF SessionInv
    <3> QED BY <1>1, <2>2, <3>1, <3>2 DEF Apart, Loses
  <2> QED BY <1>1, <2>1, <2>2, <2>4, <2>5 DEF Apart
<1>5. DeadStayDead'
  <2> SUFFICES ASSUME Ordered', NEW f \in signedOut \cup {s.fam : s \in refused}
               PROVE  /\ stored' \in Session /\ stored'.fam = f =>
                            \E o \in Op : /\ holder' = o /\ At(o, "remove1")'
                                          /\ f \in signedOut => op'[o].kind = "signOut"
                      /\ \A o \in Op : Carries(o)' \/ op'[o].pc \in Saving => op'[o].got.fam # f
    BY <1>1 DEF DeadStayDead
  <2>1. /\ stored \in Session /\ stored.fam = f =>
              \E o \in Op : /\ holder = o /\ op[o].pc = "remove1"
                            /\ f \in signedOut => op[o].kind = "signOut"
        /\ \A o \in Op : Carries(o) \/ op[o].pc \in Saving => op[o].got.fam # f
    BY <1>1 DEF SessionInv, DeadStayDead, At
  <2>4. stored' \in Session /\ stored'.fam = f =>
              \E o \in Op : /\ holder' = o /\ op'[o].pc = "remove1"
                            /\ f \in signedOut => op'[o].kind = "signOut"
    BY <1>1, <2>1 DEF Calm
  <2>2. ASSUME NEW o \in Op, Carries(o)'
        PROVE  op'[o].got.fam # f
    <3>1. CASE Carries(o) /\ op'[o].got = op[o].got
      BY <2>1, <3>1
    <3>2. CASE holder = o /\ op[o].pc = "load" /\ op'[o].got = stored
      <4>1. op'[o].got \in Session
        BY <2>2 DEF Carries
      <4> QED BY <2>1, <3>2, <4>1
    <3> QED BY <2>2, <3>1, <3>2 DEF Calm
  <2>3. ASSUME NEW o \in Op, op'[o].pc \in Saving
        PROVE  op'[o].got.fam # f
    <3>1. CASE op[o].pc \in Saving /\ op'[o].got = op[o].got
      BY <2>1, <3>1
    <3>2. CASE holder' = o
      <4>1. op'[o].kind # "setSession"
        BY <2>3 DEF Calm, OrderFits, Saving
      <4>2. op'[o].got \in Session
        BY <2>3 DEF ControlInv, RecordsFit, Fits
      <4> QED BY <2>2, <2>3, <3>2, <4>1, <4>2 DEF Carries, Carrying, Saving
    <3> QED BY <2>3, <3>1, <3>2 DEF Calm
  <2> QED BY <2>2, <2>3, <2>4 DEF At
<1>6. TokensCurrent'
  <2> SUFFICES ASSUME Ordered', "lost" \notin mishaps'
               PROVE  /\ ~reused'
                      /\ \/ Current(stored)'
                         \/ \E o \in Op : holder' = o /\ op'[o].pc \in Saving /\ ~Apart(o, stored)'
                      /\ \A o \in Op : Carries(o)' => Current(op[o].got)'
    BY DEF TokensCurrent
  <2>1. /\ ~reused
        /\ \/ Current(stored)
           \/ \E o \in Op : holder = o /\ op[o].pc \in Saving /\ ~Apart(o, stored)
        /\ \A o \in Op : Carries(o) => Current(op[o].got)
    BY <1>1 DEF SessionInv, TokensCurrent
  <2>2. /\ gen' = gen /\ (Current(stored) => Current(stored)')
        /\ stored' # stored => Current(stored)'
        /\ stored' = stored =>
              \A o \in Op : op'[o].got = op[o].got => (Apart(o, stored)' <=> Apart(o, stored))
    BY <1>1 DEF Current, Apart
  <2>3. \/ Current(stored)'
        \/ \E o \in Op : holder' = o /\ op'[o].pc \in Saving /\ ~Apart(o, stored)'
    BY <2>1, <2>2 DEF Calm
  <2>4. ASSUME NEW o \in Op, Carries(o)'
        PROVE  Current(op[o].got)'
    <3>1. CASE Carries(o) /\ op'[o].got = op[o].got
      BY <1>1, <2>1, <3>1 DEF Current
    <3>2. CASE holder = o /\ op[o].pc = "load" /\ op'[o].got = stored
      BY <1>1, <2>1, <3>2 DEF Current, Saving
    <3> QED BY <2>4, <3>1, <3>2 DEF Calm
  <2> QED BY <1>1, <2>1, <2>3, <2>4
<1> QED BY <1>2, <1>3, <1>4, <1>5, <1>6 DEF SessionInv
-----------------------------------------------------------------------------
\* A step that changes none of it keeps it.
LEMMA StillKept == Still => Kept
BY DEF Still, Kept

\* A step of o, as long as things are in order: o is not astray.
Firm(o) ==
    /\ strayed => strayed'
    /\ Ordered' => ~Astray(o)

LEMMA Firmness ==
    ASSUME ControlInv, NEW o \in Op, Step(o) \/ Fault(o) \/ Overtake(o)
    PROVE  Firm(o)
<1>1. strayed \in BOOLEAN
  BY DEF ControlInv, TypeOK
<1>2. CASE Step(o) \/ Fault(o)
  <2>1. strayed' = (strayed \/ Astray(o))
    BY <1>2, StepMarks
  <2> QED BY <1>1, <2>1 DEF Firm, Ordered
<1>3. CASE Overtake(o)
  <2>1. strayed => strayed'
    BY <1>1, <1>3 DEF Overtake
  <2>2. op[o].pc = "lock"
    BY <1>3 DEF Overtake, At
  <2>3. ~Astray(o)
    BY <2>2 DEF Astray, Running, Inner
  <2> QED BY <2>1, <2>3 DEF Firm
<1> QED BY <1>2, <1>3

\* x is astray after the step; what it takes to be in order then.
StraysNext(x) ==
    /\ op'[x].kind \in LockedPrograms /\ op'[x].pc \in Inner
    /\ holder' # x

OrderNext ==
    /\ \A c \in Client : refreshing'[c] \in {NoOp, holder'} \/ StraysNext(refreshing'[c])
    /\ \A x \in Op :
          /\ op'[x].pc = "await" => StraysNext(refreshing'[op'[x].home])
          /\ StraysNext(x) => op'[x].pc \notin Unstored
          /\ op'[x].kind = "setSession" =>
                op'[x].pc \in {"lock", "queued", "body", "done", "gone"}

LEMMA OrderFollows == (Ordered' => OrderNext) => OrderFits'
BY DEF OrderNext, StraysNext, OrderFits, Astray, Running, At

\* A step of one call leaves the lock and refreshingDeferred in order.
LEMMA OrderKept ==
    ASSUME SessionInv, NEW o \in Op, ControlStep(o), Firm(o), mishaps \subseteq mishaps',
           Ordered' =>
              /\ op'[o].pc \in {"await", "rotating"} => holder = o
              /\ op'[o].kind = "setSession" =>
                    op'[o].pc \in {"lock", "queued", "body", "done", "gone"}
    PROVE  /\ OrderFits'
           /\ \A x \in Op : x # o =>
                 /\ op'[x] = op[x] /\ (holder' = x => holder = x)
                 /\ Ordered' /\ holder = x => holder' = x \/ op[x].pc \notin Unstored
           /\ op'[o].pc \in Inner /\ op[o].pc \in Inner => holder' = holder
           /\ op[o].pc \in Inner => \A x \in Op : x # o => (holder' = x <=> holder = x)
<1>1. /\ Alone(o) /\ LockStep(o) /\ RefreshStep(o) /\ op[o].kind # "none"
      /\ op'[o].home = op[o].home
      /\ \A x \in Op : x # o => op'[x] = op[x]
  BY DEF ControlStep, Alone
<1>2. /\ op[o].home \in Client
      /\ \A x \in Op : holder = x => op[x].kind \in LockedPrograms /\ op[x].pc \in Inner
      /\ InRefresh(o) => op[o].pc \in Refreshings
      /\ \A x \in Op : op[x].pc = "await" => op[x].home \in Client
  BY <1>1, Known DEF SessionInv
<1>3. /\ Refreshings \subseteq Inner /\ Unstored \subseteq Inner /\ "await" \in Inner
      /\ "done" \notin Inner /\ "timer" \notin Inner
      /\ "lock" \notin Inner /\ "queued" \notin Inner
      /\ "load" \notin Unstored /\ "body" \notin Unstored
      /\ "rotating" \in Inner
  BY DEF Refreshings, Inner, Unstored
<1>4. \A x \in Op : x # o =>
         /\ holder' = x => holder = x
         /\ Ordered' /\ holder = x => holder' = x \/ op[x].pc \notin Unstored
  BY <1>1, Constants DEF LockStep, Stays, Leaves, Enters, Ordered
<1>5. op'[o].pc \in Inner /\ op[o].pc \in Inner => holder' = holder
  BY <1>1, <1>3 DEF LockStep, Stays, Leaves, Enters
<1>6. op[o].pc \in Inner => \A x \in Op : x # o => (holder' = x <=> holder = x)
  BY <1>1, <1>3, Constants DEF LockStep, Stays, Leaves, Enters
<1>7. Ordered' => Ordered /\ ~Astray(o)
  BY DEF Ordered, Firm
<1>8. ASSUME Ordered'
      PROVE  OrderNext
  <2>1. /\ \A c \in Client : refreshing[c] \in {NoOp, holder} \/ Astray(refreshing[c])
        /\ \A x \in Op : /\ op[x].pc = "await" => Astray(refreshing[op[x].home])
                         /\ Astray(x) => op[x].pc \notin Unstored
                         /\ op[x].kind = "setSession" =>
                               op[x].pc \in {"lock", "queued", "body", "done", "gone"}
    BY <1>7, <1>8 DEF SessionInv, OrderFits, At
  <2>2. /\ refreshing \in [Client -> Op \cup {NoOp}] /\ holder \in Op \cup {NoOp}
        /\ \A c \in Client : refreshing[c] # NoOp => op[refreshing[c]].home = c
        /\ \A x \in Op : op[x].pc = "await" => refreshing[op[x].home] # NoOp
    BY DEF SessionInv, ControlInv, TypeOK, RefreshFits, At
  <2>3. ASSUME NEW x \in Op, x # o
        PROVE  /\ StraysNext(x) <=> Running(x) /\ holder' # x
               /\ Astray(x) => StraysNext(x)
               /\ holder = x /\ holder' # x => StraysNext(x)
    BY <1>1, <1>2, <1>4, <2>3 DEF Astray, Running, StraysNext
  <2>4. ASSUME NEW c \in Client, refreshing'[c] = refreshing[c], refreshing[c] # NoOp
        PROVE  refreshing'[c] = holder' \/ StraysNext(refreshing'[c])
    <3> DEFINE r == refreshing[c]
    <3>1. r \in Op /\ (r = holder \/ Astray(r))
      BY <2>1, <2>2, <2>4
    <3>2. CASE r # o
      <4>1. r = holder' \/ StraysNext(r)
        BY <2>3, <3>1, <3>2
      <4> QED BY <2>4, <4>1
    <3>3. CASE r = o
      <4>1. InRefresh(o) /\ holder = o
        BY <1>1, <1>7, <1>8, <2>2, <2>4, <3>1, <3>3 DEF InRefresh
      <4>2. op'[o].pc \in Refreshings \/ op'[o].pc = "rotating"
        BY <1>1, <2>2, <4>1, Constants DEF RefreshStep, InRefresh
      <4>3. holder' = o
        BY <1>2, <1>3, <1>5, <4>1, <4>2
      <4> QED BY <2>4, <3>3, <4>3
    <3> QED BY <3>2, <3>3
  <2>5. ASSUME NEW c \in Client
        PROVE  refreshing'[c] \in {NoOp, holder'} \/ StraysNext(refreshing'[c])
    <3>1. CASE refreshing'[c] = refreshing[c]
      BY <2>4, <3>1
    <3>2. CASE refreshing'[c] # refreshing[c]
      <4>1. refreshing'[c] = o /\ op'[o].pc = "rotating"
        BY <1>1, <1>2, <2>2, <3>2 DEF RefreshStep
      <4>2. holder' = o
        BY <1>2, <1>3, <1>5, <1>8, <4>1
      <4> QED BY <4>1, <4>2
    <3> QED BY <3>1, <3>2
  <2>6. ASSUME NEW x \in Op, op'[x].pc = "await"
        PROVE  StraysNext(refreshing'[op'[x].home])
    <3> DEFINE c == op[x].home
    <3>1. c \in Client /\ op'[x].home = c
      BY <1>1, <1>2, <2>6
    <3>2. refreshing[c] # NoOp /\ Astray(refreshing[c])
      <4>1. CASE op[x].pc = "await"
        BY <2>1, <2>2, <4>1
      <4>2. CASE op[x].pc # "await"
        <5>1. x = o /\ refreshing[c] # NoOp /\ ~InRefresh(o) /\ holder = o
          BY <1>1, <1>8, <2>6, <4>2 DEF RefreshStep
        <5>2. refreshing[c] # o
          BY <1>1, <5>1 DEF InRefresh
        <5> QED BY <2>1, <3>1, <5>1, <5>2
      <4> QED BY <4>1, <4>2
    <3>3. refreshing[c] \in Op /\ refreshing[c] # o
      BY <1>7, <1>8, <2>2, <3>1, <3>2
    <3>4. refreshing'[c] = refreshing[c]
      BY <1>1, <1>2, <2>2, <3>1, <3>2 DEF RefreshStep
    <3>5. StraysNext(refreshing[c])
      BY <2>3, <3>2, <3>3, <3>4
    <3> QED BY <3>1, <3>4, <3>5
  <2>7. ASSUME NEW x \in Op, StraysNext(x)
        PROVE  op'[x].pc \notin Unstored
    <3>1. CASE x # o
      <4>1. Running(x) /\ holder' # x /\ op'[x] = op[x]
        BY <1>1, <2>3, <2>7, <3>1
      <4> QED BY <1>4, <1>8, <2>1, <3>1, <4>1 DEF Astray
    <3>2. CASE x = o
      <4>1. op'[o].kind \in LockedPrograms /\ op'[o].pc \in Inner /\ holder' # o
        BY <2>7, <3>2 DEF StraysNext
      <4>2. CASE Stays(o)
        <5>1. Astray(o)
          BY <4>1, <4>2 DEF Stays, Astray, Running
        <5> QED BY <1>7, <1>8, <5>1
      <4>3. CASE Leaves(o)
        BY <1>3, <4>1, <4>3 DEF Leaves
      <4>4. CASE Enters(o)
        BY <1>3, <3>2, <4>4 DEF Enters
      <4> QED BY <1>1, <4>2, <4>3, <4>4 DEF LockStep
    <3> QED BY <3>1, <3>2
  <2>8. \A x \in Op : op'[x].kind = "setSession" =>
                         op'[x].pc \in {"lock", "queued", "body", "done", "gone"}
    BY <1>1, <1>8, <2>1
  <2> QED BY <2>5, <2>6, <2>7, <2>8 DEF OrderNext
<1>9. OrderFits'
  BY <1>8, OrderFollows
<1> QED BY <1>1, <1>4, <1>5, <1>9, <1>6

\* A step of one call is calm if it takes its session from where it had it, or
\* from storage.
LEMMA AloneCalm ==
    ASSUME SessionInv, ControlInv', NEW o \in Op, ControlStep(o), Firm(o), Kept,
           op'[o].got \in Given \cup {stored, op[o].got},
           Ordered' =>
              /\ op'[o].pc \in {"await", "rotating"} => holder = o
              /\ op'[o].kind = "setSession" =>
                    op'[o].pc \in {"lock", "queued", "body", "done", "gone"}
              /\ op'[o].pc \in Carrying /\ op'[o].got \in Session
                    /\ op'[o].kind # "setSession" =>
                    \/ /\ op'[o].got = op[o].got /\ op[o].pc \in Carrying
                       /\ op[o].kind # "setSession"
                    \/ op[o].pc = "load" /\ op'[o].got = stored
              /\ op'[o].pc \in Saving =>
                    (op[o].pc \in Saving /\ op'[o].got = op[o].got) \/ holder = o,
           op[o].pc \in Saving => op'[o].pc \in Saving /\ op'[o].got = op[o].got,
           op[o].pc = "remove1" => stored' = NoSession
    PROVE  Calm
<1>1. /\ Alone(o) /\ LockStep(o) /\ RefreshStep(o) /\ op[o].kind # "none"
      /\ op'[o].home = op[o].home
      /\ \A x \in Op : x # o => op'[x] = op[x]
  BY DEF ControlStep, Alone
<1>2. /\ op[o].home \in Client
      /\ \A x \in Op : holder = x => op[x].kind \in LockedPrograms /\ op[x].pc \in Inner
  BY <1>1, Known DEF SessionInv
<1>3. /\ Saving \subseteq Inner /\ Carrying \subseteq Inner /\ Saving \subseteq Unstored
      /\ "load" \notin Carrying /\ Saving \subseteq Carrying /\ "load" \in Inner
      /\ "remove1" \in Unstored
  BY DEF Inner, Saving, Carrying, Unstored
<1>4. /\ OrderFits'
      /\ \A x \in Op : x # o =>
            /\ op'[x] = op[x] /\ (holder' = x => holder = x)
            /\ Ordered' /\ holder = x => holder' = x \/ op[x].pc \notin Unstored
      /\ op'[o].pc \in Inner /\ op[o].pc \in Inner => (holder' = o <=> holder = o)
  BY OrderKept DEF Kept
<1>5. \A x \in Op : op'[x].got \in Given \cup {stored, op[x].got}
  BY <1>1
<1>6. ASSUME Ordered', NEW x \in Op
      PROVE  /\ Carries(x)' =>
                   \/ Carries(x) /\ op'[x].got = op[x].got
                   \/ holder = x /\ op[x].pc = "load" /\ op'[x].got = stored
             /\ op'[x].pc \in Saving =>
                   \/ op[x].pc \in Saving /\ op'[x].got = op[x].got
                      /\ (holder' = x <=> holder = x)
                   \/ holder' = x
             /\ holder = x /\ op[x].pc \in Saving =>
                   holder' = x /\ op'[x].pc \in Saving /\ op'[x].got = op[x].got
             /\ holder = x /\ op[x].pc = "remove1" /\ stored' \in Session =>
                   holder' = x /\ op'[x].pc = "remove1" /\ op'[x].kind = op[x].kind
  <2>1. CASE x # o
    <3>1. op'[x] = op[x] /\ (holder' = x => holder = x)
      BY <1>4, <2>1
    <3>2. holder = x /\ op[x].pc \in Unstored => holder' = x
      BY <1>4, <1>6, <2>1
    <3> QED BY <1>3, <3>1, <3>2 DEF Carries
  <2>2. CASE x = o
    <3>1. Carries(o)' =>
                   \/ Carries(o) /\ op'[o].got = op[o].got
                   \/ holder = o /\ op[o].pc = "load" /\ op'[o].got = stored
      <4> SUFFICES ASSUME Carries(o)'
                   PROVE  \/ Carries(o) /\ op'[o].got = op[o].got
                          \/ holder = o /\ op[o].pc = "load" /\ op'[o].got = stored
        OBVIOUS
      <4>1. holder' = o /\ op'[o].pc \in Carrying /\ op'[o].kind # "setSession"
            /\ op'[o].got \in Session
        BY DEF Carries
      <4>2. CASE /\ op'[o].got = op[o].got /\ op[o].pc \in Carrying
                 /\ op[o].kind # "setSession"
        <5>1. holder = o
          BY <1>3, <1>4, <4>1, <4>2
        <5> QED BY <4>1, <4>2, <5>1 DEF Carries
      <4>3. CASE op[o].pc = "load" /\ op'[o].got = stored
        BY <1>3, <1>4, <4>1, <4>3
      <4> QED BY <1>6, <4>1, <4>2, <4>3
    <3>2. op'[o].pc \in Saving =>
                   \/ op[o].pc \in Saving /\ op'[o].got = op[o].got
                      /\ (holder' = o <=> holder = o)
                   \/ holder' = o
      <4>1. CASE holder = o /\ op'[o].pc \in Saving
        BY <1>2, <1>3, <1>4, <4>1
      <4>2. CASE op[o].pc \in Saving /\ op'[o].pc \in Saving /\ op'[o].got = op[o].got
        BY <1>3, <1>4, <4>2
      <4> QED BY <1>6, <4>1, <4>2
    <3>3. holder = o /\ op[o].pc \in Saving =>
                   holder' = o /\ op'[o].pc \in Saving /\ op'[o].got = op[o].got
      BY <1>3, <1>4
    <3>4. ~(op[o].pc = "remove1" /\ stored' \in Session)
      BY Constants
    <3> QED BY <2>2, <3>1, <3>2, <3>3, <3>4
  <2> QED BY <2>1, <2>2
<1> QED BY <1>5, <1>4, <1>6 DEF Calm, Held
-----------------------------------------------------------------------------
\* The common forms of calm steps: without a session afterwards ...
LEMMA ClearCalm ==
    ASSUME SessionInv, ControlInv', NEW o \in Op, ControlStep(o), Firm(o), Kept,
           op'[o].got = NoSession, op'[o].kind = op[o].kind,
           op'[o].pc \in {"done", "remove1", "body", "refreshed", "dropVerifier", "removed"},
           op[o].kind = "setSession" /\ op[o].pc \in {"lock", "queued", "body"} =>
              op'[o].pc = "done",
           op[o].pc \notin Saving, op[o].pc # "remove1"
    PROVE  Calm
<1>1. NoSession \notin Session /\ NoSession \in Given
  BY Constants DEF Given
<1>2. ASSUME Ordered', op[o].kind = "setSession"
      PROVE  op'[o].pc = "done"
  <2>1. op[o].pc \in {"lock", "queued", "body", "done", "gone"}
    BY <1>2 DEF Kept, Ordered, Firm, SessionInv, OrderFits
  <2>2. op[o].pc \notin {"done", "gone"}
    BY DEF ControlStep, LockStep, Stays, Leaves, Enters, Inner
  <2> QED BY <1>2, <2>1, <2>2
<1> QED BY <1>1, <1>2, AloneCalm DEF Saving

\* ... with the one it had ...
LEMMA SameCalm ==
    ASSUME SessionInv, ControlInv', NEW o \in Op, ControlStep(o), Firm(o), Kept,
           op'[o].got = op[o].got,
           op[o].kind = "setSession" <=> op'[o].kind = "setSession",
           op'[o].pc \notin {"await", "rotating"},
           op[o].kind = "setSession" /\ op[o].pc \in {"lock", "queued"} =>
              op'[o].pc \in {"queued", "body"},
           op[o].kind = "setSession" => op[o].pc # "body",
           op'[o].pc \in Carrying /\ op'[o].got \in Session /\ op[o].kind # "setSession" =>
              op[o].pc \in Carrying,
           Ordered' /\ op'[o].pc \in Saving => op[o].pc \in Saving \/ holder = o,
           op[o].pc \in Saving => op'[o].pc \in Saving,
           op[o].pc = "remove1" => stored' = NoSession
    PROVE  Calm
<1>1. ASSUME Ordered', op[o].kind = "setSession"
      PROVE  op'[o].pc \in {"queued", "body"}
  <2>1. op[o].pc \in {"lock", "queued", "body", "done", "gone"}
    BY <1>1 DEF Kept, Ordered, Firm, SessionInv, OrderFits
  <2>2. op[o].pc \notin {"done", "gone"}
    BY DEF ControlStep, LockStep, Stays, Leaves, Enters, Inner
  <2> QED BY <1>1, <2>1, <2>2
<1> QED BY <1>1, AloneCalm

\* ... with the stored one ...
LEMMA LoadCalm ==
    ASSUME SessionInv, ControlInv', NEW o \in Op, ControlStep(o), Firm(o), Still,
           op[o].pc = "load", op'[o].got = stored, op'[o].kind = op[o].kind,
           op'[o].pc \notin {"await", "rotating"} \cup Saving
    PROVE  Calm
<1>1. op[o].kind # "setSession" /\ op[o].pc \notin Saving
  BY DEF SessionInv, ControlInv, RecordsFit, Fits, Saving
<1> QED BY <1>1, StillKept, AloneCalm

\* ... and the start of a refresh.
LEMMA CallCalm ==
    ASSUME SessionInv, ControlInv', NEW o \in Op, ControlStep(o), Firm(o),
           NEW s \in Session, NEW b \in Backs, CallRefreshToken(o, s, b),
           UNCHANGED <<stored, gen, status, signedOut, refused, reused>>,
           \/ op[o].pc = "load" /\ s = stored
           \/ op[o].pc = "body" /\ s \in Given \cup {op[o].got},
           op[o].pc = "body" => s = op[o].got \/ op[o].kind = "refreshSupplied"
    PROVE  Calm
<1>1. /\ mishaps' = Refreshes(o) /\ Alone(o)
      /\ op'[o].kind = op[o].kind
      /\ \/ op'[o].pc = "await" /\ op'[o].got = op[o].got /\ refreshing[op[o].home] # NoOp
         \/ op'[o].pc = "rotating" /\ op'[o].got = s
  <2>1. TypeOK /\ op[o].home \in Client
    BY Known DEF SessionInv, ControlInv
  <2> QED BY <2>1, Calls DEF Moved
<1>2. Still
  BY <1>1 DEF Still, Refreshes
<1>3. ASSUME Ordered'
      PROVE  holder = o /\ op[o].kind \notin {"setSession", "refreshSupplied"}
  BY <1>1, <1>3 DEF Ordered, Refreshes
<1>4. op'[o].got \in Given \cup {stored, op[o].got}
  BY <1>1
<1>5. op'[o].pc \notin Saving /\ op[o].pc \notin Saving /\ op[o].pc # "remove1"
  BY <1>1 DEF Saving
<1>6. op[o].pc = "body" => op[o].pc \in Carrying
  BY DEF Carrying
<1>7. op'[o].pc \in Carrying => op'[o].got = s
  BY <1>1 DEF Carrying
<1> QED BY <1>1, <1>2, <1>3, <1>4, <1>5, <1>6, <1>7, StillKept, AloneCalm

\* The end of a refresh: if they are ordered, nobody shares it.
LEMMA TogetherCalm ==
    ASSUME SessionInv, ControlInv', NEW o \in Op, Together(o), Firm(o), Kept,
           \A x \in Op : op'[x].got \in {NoSession, op[o].got, op[x].got},
           op'[o].got = NoSession \/ (op[o].pc = "notify" /\ op'[o].got = op[o].got),
           op[o].pc \notin {"remove1", "save2"}
    PROVE  Calm
<1>1. /\ op[o].pc \in Refreshings \ {"save1", "save2", "remove1"} /\ o \in Sharers(o)
      /\ refreshing[op[o].home] = o /\ refreshing' = [refreshing EXCEPT ![op[o].home] = NoOp]
      /\ refreshing \in [Client -> Op \cup {NoOp}] /\ holder' = holder
      /\ op'[o].kind = op[o].kind /\ op'[o].home = op[o].home
      /\ op'[o].pc \in Backs \cup {"stranded"}
      /\ \A x \in Op : x \notin Sharers(o) => op'[x] = op[x]
  BY DEF Together, InRefresh, Sharers, SessionInv, ControlInv, TypeOK
<1>2. op[o].home \in Client
  BY <1>1, Known DEF SessionInv, Refreshings
<1>3. ASSUME Ordered'
      PROVE  /\ \A x \in Op : x # o => op'[x] = op[x]
             /\ \A x \in Op : op[x].pc = "await" => op[x].home # op[o].home
             /\ ~Astray(o)
  <2>1. Ordered /\ ~Astray(o)
    BY <1>3 DEF Kept, Ordered, Firm
  <2>2. \A x \in Op : op[x].pc = "await" => op[x].home # op[o].home
    BY <1>1, <2>1 DEF SessionInv, OrderFits, At
  <2>3. Sharers(o) = {o}
    BY <2>2 DEF Sharers, At
  <2> QED BY <1>1, <2>1, <2>2, <2>3
<1>4. ASSUME Ordered'
      PROVE  OrderNext
  <2>0. Ordered
    BY <1>4 DEF Kept, Ordered, Firm
  <2>1. /\ \A c \in Client : refreshing[c] \in {NoOp, holder} \/ Astray(refreshing[c])
        /\ \A x \in Op : /\ op[x].pc = "await" => Astray(refreshing[op[x].home])
                         /\ Astray(x) => op[x].pc \notin Unstored
                         /\ op[x].kind = "setSession" =>
                               op[x].pc \in {"lock", "queued", "body", "done", "gone"}
    BY <2>0 DEF SessionInv, OrderFits, At
  <2>2. \A x \in Op : x # o => (StraysNext(x) <=> Astray(x))
    BY <1>1, <1>3, <1>4 DEF Astray, Running, StraysNext
  <2>3. ~StraysNext(o)
    BY <1>1, <1>3, <1>4 DEF Astray, Running, StraysNext, Backs, Refreshings, Inner
  <2>4. \A c \in Client : refreshing[c] # NoOp => op[refreshing[c]].home = c
    BY DEF SessionInv, ControlInv, RefreshFits
  <2>5. ASSUME NEW c \in Client
        PROVE  refreshing'[c] \in {NoOp, holder'} \/ StraysNext(refreshing'[c])
    <3>1. CASE c = op[o].home
      BY <1>1, <1>2, <3>1
    <3>2. CASE c # op[o].home
      <4>1. refreshing'[c] = refreshing[c]
        BY <1>1, <3>2
      <4>2. refreshing[c] # o
        BY <1>1, <2>4, <3>2, Constants
      <4>3. refreshing[c] \in Op \cup {NoOp}
        BY <1>1
      <4> QED BY <1>1, <2>1, <2>2, <4>1, <4>2, <4>3
    <3> QED BY <3>1, <3>2
  <2>6. ASSUME NEW x \in Op, op'[x].pc = "await"
        PROVE  StraysNext(refreshing'[op'[x].home])
    <3>1. x # o
      BY <1>1, <2>6 DEF Backs
    <3>2. op'[x] = op[x] /\ op[x].pc = "await" /\ op[x].home # op[o].home
      BY <1>3, <1>4, <2>6, <3>1
    <3>3. op[x].home \in Client
      BY <3>2, Known DEF SessionInv
    <3>4. refreshing'[op[x].home] = refreshing[op[x].home] /\ Astray(refreshing[op[x].home])
      BY <1>1, <2>1, <3>2, <3>3
    <3>5. refreshing[op[x].home] \in Op
      BY <1>1, <3>2, <3>3 DEF SessionInv, ControlInv, RefreshFits, At
    <3>6. refreshing[op[x].home] # o
      BY <1>3, <1>4, <3>4
    <3> QED BY <2>2, <3>2, <3>4, <3>5, <3>6
  <2>7. \A x \in Op : /\ StraysNext(x) => op'[x].pc \notin Unstored
                      /\ op'[x].kind = "setSession" =>
                            op'[x].pc \in {"lock", "queued", "body", "done", "gone"}
    BY <1>1, <1>3, <1>4, <2>1, <2>2, <2>3 DEF Backs, Refreshings
  <2> QED BY <2>5, <2>6, <2>7 DEF OrderNext
<1>5. ASSUME Ordered', NEW x \in Op
      PROVE  /\ op'[x].got \in Given \cup {stored, op[x].got}
             /\ Carries(x)' => Carries(x) /\ op'[x].got = op[x].got
             /\ op'[x].pc \in Saving => op[x].pc \in Saving /\ op'[x].got = op[x].got
             /\ op[x].pc \in Saving => op'[x].pc \in Saving /\ op'[x].got = op[x].got
             /\ op[x].pc = "remove1" => op'[x].pc = "remove1" /\ op'[x].kind = op[x].kind
  <2>1. CASE x # o
    BY <1>1, <1>3, <1>5, <2>1 DEF Carries
  <2>2. CASE x = o
    BY <1>1, <2>2, Constants DEF Carries, Saving, Backs, Given, Carrying
  <2> QED BY <2>1, <2>2
<1>6. \A x \in Op : op'[x].got \in Given \cup {stored} \cup Held
  BY DEF Given, Held
<1>7. OrderFits'
  BY <1>4, OrderFollows
<1> QED BY <1>1, <1>5, <1>6, <1>7 DEF Calm, Kept

\* The first step of a call is calm ...
LEMMA StartsCalm ==
    ASSUME SessionInv, ControlInv', NEW o \in Op, Starts(o)
    PROVE  Calm
<1>1. /\ Still /\ mishaps' = mishaps /\ UNCHANGED <<holder, refreshing, strayed>>
      /\ op[o].kind = "none" /\ op'[o].got \in Given
      /\ op'[o].pc \in {"lock", "load", "request", "verifier"}
      /\ op'[o].kind \in LockedPrograms => op'[o].pc = "lock"
      /\ \A x \in Op : x # o => op'[x] = op[x]
  BY DEF Starts, Still, storage, server, history, theft, Given
<1>2. holder # o /\ op[o].pc = "idle"
  BY <1>1, Known DEF SessionInv, LockedPrograms, InitPrograms
<1>3. OrderFits'
  <2> SUFFICES ASSUME Ordered'
               PROVE  OrderNext
    BY OrderFollows
  <2>1. /\ \A c \in Client : refreshing[c] \in {NoOp, holder} \/ Astray(refreshing[c])
        /\ \A x \in Op : /\ op[x].pc = "await" => Astray(refreshing[op[x].home])
                         /\ Astray(x) => op[x].pc \notin Unstored
                         /\ op[x].kind = "setSession" =>
                               op[x].pc \in {"lock", "queued", "body", "done", "gone"}
    BY <1>1 DEF Ordered, SessionInv, OrderFits, At
  <2>2. \A x \in Op : StraysNext(x) <=> Astray(x)
    BY <1>1, <1>2 DEF Astray, Running, StraysNext, Inner
  <2>3. \A x \in Op : Astray(x) => x # o
    BY <1>2 DEF Astray, Running, Inner
  <2>4. /\ \A c \in Client : refreshing[c] \in Op \cup {NoOp}
        /\ \A x \in Op : op[x].pc = "await" => /\ op[x].home \in Client
                                               /\ refreshing[op[x].home] # NoOp
    BY Families, Known DEF SessionInv, ControlInv, RefreshFits, At
  <2>5. ASSUME NEW x \in Op, op'[x].pc = "await"
        PROVE  StraysNext(refreshing'[op'[x].home])
    <3>1. op'[x] = op[x]
      BY <1>1, <2>5
    <3> QED BY <1>1, <2>1, <2>2, <2>4, <2>5, <3>1
  <2>6. \A c \in Client : refreshing'[c] \in {NoOp, holder'} \/ StraysNext(refreshing'[c])
    BY <1>1, <2>1, <2>2, <2>4
  <2>7. \A x \in Op : /\ StraysNext(x) => op'[x].pc \notin Unstored
                      /\ op'[x].kind = "setSession" =>
                            op'[x].pc \in {"lock", "queued", "body", "done", "gone"}
    <3>1. "setSession" \in LockedPrograms
      BY DEF LockedPrograms
    <3> QED BY <1>1, <2>1, <2>2, <2>3, <3>1
  <2> QED BY <2>5, <2>6, <2>7 DEF OrderNext
<1>4. \A x \in Op : op'[x].got \in Given \cup {op[x].got}
  BY <1>1
<1>5. ASSUME NEW x \in Op
      PROVE  /\ Carries(x)' => Carries(x) /\ op'[x].got = op[x].got
             /\ op'[x].pc \in Saving => op[x].pc \in Saving /\ op'[x].got = op[x].got
             /\ holder = x => op'[x] = op[x]
  BY <1>1, <1>2 DEF Carries, Saving
<1> QED BY <1>1, <1>3, <1>4, <1>5, StillKept DEF Calm, Still, Held

\* ... and one that moves no call.
LEMMA StutterCalm ==
    ASSUME SessionInv, UNCHANGED <<op, holder, refreshing>>, Kept, strayed => strayed'
    PROVE  Calm
<1>1. OrderFits'
  BY DEF SessionInv, OrderFits, Kept, Ordered, At, Astray, Running
<1> QED BY <1>1 DEF Calm, Kept, Held, Carries

\* The fields that the helpers leave.
LEMMA Fields ==
    ASSUME ControlInv, NEW o \in Op
    PROVE  /\ \A p \in Pcs : Go(o, p) =>
                 op'[o].pc = p /\ op'[o].kind = op[o].kind /\ op'[o].got = op[o].got
           /\ \A p \in Pcs, s \in Session \cup {NoSession} : GoWith(o, p, s) =>
                 op'[o].pc = p /\ op'[o].kind = op[o].kind /\ op'[o].got = s
           /\ \A p \in Pcs, e \in Errors : Fail(o, p, e) =>
                 op'[o].pc = p /\ op'[o].kind = op[o].kind /\ op'[o].got = NoSession
           /\ \A e \in Errors : End(o, e) =>
                 op'[o].pc = "done" /\ op'[o].kind = op[o].kind /\ op'[o].got = NoSession
           /\ \A b \in Backs, e \in Errors : RemoveThen(o, b, e) =>
                 op'[o].pc = "remove1" /\ op'[o].kind = op[o].kind /\ op'[o].got = NoSession
           /\ \A e \in Errors : Reject(o, e) =>
                 op'[o].pc = "done" /\ op'[o].kind = op[o].kind /\ op'[o].got = NoSession
           /\ Start(o) => /\ op'[o].pc = Entrance(op[o].kind)
                          /\ op'[o].kind = op[o].kind /\ op'[o].got = op[o].got
<1>1. /\ TypeOK /\ NoSession \in Session \cup {NoSession}
      /\ "none" \in Errors /\ "body" \in Backs /\ "done" \in Pcs
  BY DEF ControlInv, Errors, Backs, Pcs
<1> QED BY <1>1, Moves DEF Moved

\* The names of the places and of the errors.
LEMMA Places ==
    /\ "load" \in Pcs /\ "body" \in Pcs /\ "verifier" \in Pcs /\ "request" \in Pcs
    /\ "rotating" \in Pcs /\ "await" \in Pcs /\ "refreshed" \in Pcs /\ "save1" \in Pcs
    /\ "save2" \in Pcs /\ "notify" \in Pcs /\ "remove1" \in Pcs /\ "remove2" \in Pcs
    /\ "notifyOut" \in Pcs /\ "dropVerifier" \in Pcs /\ "removed" \in Pcs
    /\ "lock" \in Pcs /\ "queued" \in Pcs /\ "timer" \in Pcs /\ "done" \in Pcs
    /\ "none" \in Errors /\ "retryable" \in Errors /\ "missing" \in Errors
    /\ "denied" \in Errors /\ "thrown" \in Errors
    /\ "body" \in Backs /\ "refreshed" \in Backs /\ "dropVerifier" \in Backs
    /\ "removed" \in Backs
BY DEF Pcs, Inner, Errors, Backs

\* __loadSession is calm.
LEMMA LoadIsCalm ==
    ASSUME SessionInv, ControlInv', NEW o \in Op,
           \/ LoadNothing(o) \/ LoadBroken(o) \/ LoadExpired(o) \/ RecoverExpired(o)
           \/ LoadValid(o) \/ RecoverValid(o),
           Firm(o)
    PROVE  Calm
<1>1. ControlInv /\ ControlStep(o)
  BY LoadControl DEF SessionInv
<1>2. op[o].pc = "load" => op[o].kind # "setSession"
  BY <1>1 DEF ControlInv, RecordsFit, Fits
<1> USE <1>1, <1>2, StillKept DEF At, Goes, Still, storage, server, history
<1>3. CASE LoadNothing(o)
  BY <1>3, Fields, ClearCalm, Places DEF LoadNothing, Saving
<1>4. CASE LoadBroken(o)
  BY <1>4, Fields, ClearCalm, Places DEF LoadBroken, Saving
<1>5. CASE LoadExpired(o)
  BY <1>5, CallCalm DEF LoadExpired, Backs
<1>6. CASE LoadValid(o)
  BY <1>6, Fields, LoadCalm, Places DEF LoadValid, Saving
<1>7. CASE RecoverValid(o)
  BY <1>7, Fields, LoadCalm, Places DEF RecoverValid, Saving
<1>8. CASE RecoverExpired(o)
  BY <1>8, Fields, ClearCalm, Places DEF RecoverExpired, Saving
<1> QED BY <1>3, <1>4, <1>5, <1>6, <1>7, <1>8

\* The lock is calm.
LEMMA LockIsCalm ==
    ASSUME SessionInv, ControlInv', NEW o \in Op, Firm(o),
           \/ Acquire(o) \/ AcquireTimesOut(o) \/ InitializeRejected(o) \/ Queue(o)
           \/ LeaveQueue(o) \/ Overtake(o) \/ LockFails(o)
    PROVE  Calm
<1>1. ControlInv /\ ControlStep(o)
  BY LockControl DEF SessionInv
<1>2. op[o].pc \in {"lock", "queued"} /\ op[o].kind # "setSession" => op[o].got = NoSession
  BY <1>1 DEF ControlInv, RecordsFit, Fits
<1>3. Still
  BY DEF Acquire, AcquireTimesOut, InitializeRejected, Queue, LeaveQueue, Overtake,
         LockFails, Still, storage, server, history
<1>4. CASE Acquire(o) \/ LeaveQueue(o) \/ Overtake(o)
  <2>1. op[o].pc \in {"lock", "queued"} /\ Start(o)
    BY <1>4 DEF Acquire, LeaveQueue, Overtake, Goes, At
  <2>2. /\ op'[o].pc = Entrance(op[o].kind) /\ op'[o].kind = op[o].kind
        /\ op'[o].got = op[o].got
    BY <1>1, <2>1, Fields
  <2>3. /\ op'[o].pc \in {"load", "body"}
        /\ op[o].kind = "setSession" => op'[o].pc = "body"
    BY <2>2 DEF Entrance
  <2> QED BY <1>1, <1>2, <1>3, <2>1, <2>2, <2>3, SameCalm, StillKept, Constants
          DEF Saving, Carrying
<1>5. CASE Queue(o)
  <2>1. op[o].pc = "lock"
    BY <1>5 DEF Queue, Goes, At
  <2>2. PICK x \in Op : op' = [op EXCEPT ![o].pc = "queued", ![o].after = x]
    BY <1>5 DEF Queue
  <2>3. op \in [Op -> OpState] /\ op[o] \in OpState
    BY <1>1 DEF ControlInv, TypeOK
  <2>4. op'[o].pc = "queued" /\ op'[o].kind = op[o].kind /\ op'[o].got = op[o].got
    BY <2>2, <2>3 DEF OpState
  <2> QED BY <1>1, <1>3, <2>1, <2>4, SameCalm, StillKept DEF Saving, Carrying
<1>6. CASE AcquireTimesOut(o) \/ InitializeRejected(o) \/ LockFails(o)
  <2>1. op[o].pc = "lock" /\ \E e \in Errors : Reject(o, e)
    BY <1>6, Places DEF AcquireTimesOut, InitializeRejected, LockFails, Goes, At
  <2>2. op'[o].pc = "done" /\ op'[o].kind = op[o].kind /\ op'[o].got = NoSession
    BY <1>1, <2>1, Fields
  <2> QED BY <1>1, <1>3, <2>1, <2>2, ClearCalm, StillKept DEF Saving
<1> QED BY <1>4, <1>5, <1>6

\* A session that the application or the URL brings is not ordered.
LEMMA SuppliedCalm ==
    ASSUME SessionInv, ControlInv', NEW o \in Op, ControlStep(o), Firm(o),
           UNCHANGED <<stored, gen, status, signedOut, refused, reused>>,
           mishaps' = mishaps \cup {"supplied"}, op[o].pc = "body",
           op'[o].pc = "request", op'[o].got \in {op[o].got, Foreign}
    PROVE  Calm
<1>1. Still /\ ~Ordered'
  BY DEF Still, Ordered
<1> QED BY <1>1, StillKept, AloneCalm DEF Saving, Given

\* What the calls do with the session they loaded is calm.
LEMMA BodyIsCalm ==
    ASSUME SessionInv, ControlInv', NEW o \in Op, Body(o), Firm(o)
    PROVE  Calm
<1>1. ControlInv /\ ControlStep(o)
  BY BodyControl DEF SessionInv
<1> USE <1>1, StillKept DEF At, Goes, InBody, Still, storage, server, history
<1>2. CASE getSessionBody(o)
  BY <1>2, Fields, ClearCalm, Known, Places DEF getSessionBody, Saving
<1>3. CASE getUserBody(o)
  <2>1. CASE Go(o, "request") /\ UNCHANGED holder
    BY <1>3, <2>1, Fields, SameCalm, Places DEF getUserBody, Saving, Carrying
  <2>2. CASE ~(Go(o, "request") /\ UNCHANGED holder)
    BY <1>3, <2>2, Fields, ClearCalm, Known, Places DEF getUserBody, Saving
  <2> QED BY <2>1, <2>2
<1>4. CASE updateUserBody(o)
  <2>1. CASE Ok(o) /\ HasSession(o)
    BY <1>4, <2>1, Fields, SameCalm, Places DEF updateUserBody, Saving, Carrying
  <2>2. CASE ~(Ok(o) /\ HasSession(o))
    BY <1>4, <2>2, Fields, ClearCalm, Known, Places DEF updateUserBody, Saving
  <2> QED BY <2>1, <2>2
<1>5. CASE setSessionBody(o)
  <2>1. CASE CallRefreshToken(o, op[o].got, "refreshed") /\ AgeOf(op[o].got) = "expired"
    <3>1. op[o].got \in Session
      BY <2>1, Constants DEF AgeOf
    <3> QED BY <1>5, <2>1, <3>1, CallCalm DEF setSessionBody, Backs
  <2>2. CASE Go(o, "request") /\ mishaps' = mishaps \cup {"supplied"}
             /\ UNCHANGED <<reused, signedOut, refused>>
    BY <1>5, <2>2, Fields, SuppliedCalm, Places DEF setSessionBody
  <2> QED BY <1>5, <2>1, <2>2 DEF setSessionBody
<1>6. CASE refreshSessionBody(o)
  <2>1. CASE Ok(o) /\ HasSession(o)
    BY <1>6, <2>1, CallCalm DEF refreshSessionBody, HasSession, Backs
  <2>2. CASE ~(Ok(o) /\ HasSession(o))
    BY <1>6, <2>2, Fields, ClearCalm, Known, Places DEF refreshSessionBody, Saving
  <2> QED BY <2>1, <2>2
<1>7. CASE refreshSuppliedBody(o)
  <2>1. CASE op[o].err = "thrown"
    BY <1>7, <2>1, Fields, ClearCalm, Places DEF refreshSuppliedBody, Saving
  <2>2. CASE op[o].err # "thrown"
    BY <1>7, <2>2, CallCalm, Constants DEF refreshSuppliedBody, Backs, Given
  <2> QED BY <2>1, <2>2
<1>8. CASE useSessionBody(o)
  <2>1. CASE Go(o, "request")
    BY <1>8, <2>1, Fields, SameCalm, Places DEF useSessionBody, Saving, Carrying
  <2>2. CASE ~Go(o, "request")
    BY <1>8, <2>2, Fields, ClearCalm, Known, Places DEF useSessionBody, Saving
  <2> QED BY <2>1, <2>2
<1>9. CASE linkIdentityBody(o)
  <2>1. CASE Ok(o)
    BY <1>9, <2>1, Fields, SameCalm, Places DEF linkIdentityBody, Saving, Carrying
  <2>2. CASE ~Ok(o)
    BY <1>9, <2>2, Fields, ClearCalm, Known, Places DEF linkIdentityBody, FailOver, Saving
  <2> QED BY <2>1, <2>2
<1>10. CASE exchangeBody(o)
  <2>1. CASE Go(o, "request")
    BY <1>10, <2>1, Fields, SameCalm, Places DEF exchangeBody, Saving, Carrying
  <2>2. CASE Fail(o, "dropVerifier", "denied")
    BY <1>10, <2>2, Fields, ClearCalm, Places DEF exchangeBody, Saving
  <2>3. CASE /\ op[o].kind # "exchange"
             /\ op' = [op EXCEPT ![o].kind = "initialize", ![o].pc = "load"]
    <3>1. op'[o].kind = "initialize" /\ op'[o].pc = "load" /\ op'[o].got = op[o].got
      <4>1. op \in [Op -> OpState] /\ op[o] \in OpState
        BY DEF ControlInv, TypeOK
      <4>2. op'[o] = [op[o] EXCEPT !.kind = "initialize", !.pc = "load"]
        BY <2>3, <4>1
      <4> QED BY <4>1, <4>2 DEF OpState
    <3> QED BY <1>10, <3>1, SameCalm DEF exchangeBody, Saving, Carrying
  <2> QED BY <1>10, <2>1, <2>2, <2>3 DEF exchangeBody
<1>11. CASE urlTokenBody(o)
  BY <1>11, Fields, SuppliedCalm, Constants, Places DEF urlTokenBody
<1>12. CASE tickBody(o)
  <2>1. CASE HasSession(o) /\ AgeOf(op[o].got) # "fresh"
    BY <1>12, <2>1, CallCalm DEF tickBody, HasSession, Backs
  <2>2. CASE ~(HasSession(o) /\ AgeOf(op[o].got) # "fresh")
    BY <1>12, <2>2, Fields, ClearCalm, Places DEF tickBody, Saving
  <2> QED BY <2>1, <2>2
<1>13. CASE signOutBody(o)
  <2>1. CASE Go(o, "request") /\ UNCHANGED <<holder, history>>
    BY <1>13, <2>1, Fields, SameCalm, Places DEF signOutBody, Saving, Carrying
  <2>2. CASE Forget(o) /\ ~HasSession(o)
    BY <1>13, <2>2, Fields, ClearCalm, Places DEF signOutBody, Forget, Saving
  <2>3. CASE (\E e \in Errors : End(o, e)) /\ UNCHANGED history
    BY <1>13, <2>3, Fields, ClearCalm DEF signOutBody, Saving
  <2> QED BY <1>13, <2>1, <2>2, <2>3, Known DEF signOutBody, Errors
<1> QED BY <1>2, <1>3, <1>4, <1>5, <1>6, <1>7, <1>8, <1>9, <1>10, <1>11, <1>12, <1>13 DEF Body

\* The requests that change nothing on this side are calm.
LEMMA AskIsCalm ==
    ASSUME SessionInv, ControlInv', NEW o \in Op,
           \/ StoreVerifier(o) \/ Answered(o) \/ AnsweredUser(o) \/ GetUserMissing(o)
           \/ RequestFails(o),
           Firm(o)
    PROVE  Calm
<1>1. ControlInv /\ ControlStep(o)
  BY AskControl DEF SessionInv, Ask
<1> USE <1>1, StillKept DEF At, Goes, InRequest, Still, storage, server, history
<1>2. CASE StoreVerifier(o)
  <2>1. CASE op[o].kind = "redirect"
    BY <1>2, <2>1, Fields, ClearCalm, Places DEF StoreVerifier, Saving
  <2>2. CASE op[o].kind # "redirect"
    BY <1>2, <2>2, Fields, SameCalm, Places DEF StoreVerifier, Saving, Carrying
  <2> QED BY <2>1, <2>2
<1>3. CASE Answered(o)
  BY <1>3, Fields, ClearCalm, Places DEF Answered, Saving
<1>4. CASE AnsweredUser(o)
  <2>1. Ordered' => holder = o
    BY <1>4 DEF AnsweredUser, LockedPrograms, InitPrograms, Inner, Firm, Astray, Running
  <2> QED BY <1>4, <2>1, Fields, SameCalm, Places DEF AnsweredUser, Saving, Carrying
<1>5. CASE GetUserMissing(o)
  BY <1>5, Fields, ClearCalm, Places DEF GetUserMissing, Saving
<1>6. CASE RequestFails(o)
  BY <1>6, Fields, ClearCalm, Places DEF RequestFails, FailOver, Saving
<1> QED BY <1>2, <1>3, <1>4, <1>5, <1>6

\* The rest of what saves, removes and tells is calm, too.
LEMMA TellIsCalm ==
    ASSUME SessionInv, ControlInv', NEW o \in Op,
           \/ Save1(o) \/ TimerFires(o) \/ Remove2(o) \/ Removed(o) \/ DropVerifier(o)
           \/ Refreshed(o) \/ SaidSignedIn(o) \/ SignedInThrew(o) \/ SaidSignedOut(o)
           \/ SignedOutThrew(o),
           Firm(o)
    PROVE  Calm
<1>1. ControlInv /\ mishaps \subseteq mishaps \cup {"threw"}
  BY DEF SessionInv
<1>2. /\ op[o].pc = "save1" => op[o].pc \in Saving
      /\ op[o].pc \in {"timer", "remove2", "removed", "dropVerifier", "refreshed", "notify",
                       "notifyOut"} => op[o].pc \notin Saving
  BY DEF Saving
<1>3. NoSession \in Session \cup {NoSession} /\ op[o].got \in Session \cup {NoSession}
      /\ op[o].err \in Errors /\ "none" \in Errors /\ "thrown" \in Errors
      /\ "denied" \in Errors
  BY <1>1, Known DEF Errors
<1>4. /\ op[o].pc \in {"timer", "removed", "dropVerifier", "refreshed"} => ~InRefresh(o)
  BY <1>1, Known DEF Refreshings
<1>5. CASE Save1(o)
  <2>1. ControlStep(o)
    BY <1>1, <1>5, SaveControl
  <2>2. op'[o].pc = "save2" /\ op'[o].kind = op[o].kind /\ op'[o].got = op[o].got
    BY <1>1, <1>5, Fields, Places DEF Save1
  <2>3. Still /\ op[o].pc = "save1"
    BY <1>5 DEF Save1, Still, Goes, At, server, history
  <2> QED BY <2>1, <2>2, <2>3, StillKept, SameCalm DEF Saving, Carrying
<1>6. CASE TimerFires(o)
  <2>1. ControlStep(o)
    BY <1>1, <1>6, SaveControl
  <2>2. op'[o].pc = "done" /\ op'[o].kind = op[o].kind /\ op'[o].got = NoSession
    BY <1>1, <1>3, <1>6, Fields DEF TimerFires
  <2>3. Still /\ op[o].pc = "timer"
    BY <1>6 DEF TimerFires, Still, Goes, At, storage, server, history
  <2> QED BY <1>2, <2>1, <2>2, <2>3, StillKept, ClearCalm
<1>7. CASE Remove2(o)
  <2>1. ControlStep(o)
    BY <1>1, <1>7, SaveControl
  <2>2. op'[o].pc = "notifyOut" /\ op'[o].kind = op[o].kind /\ op'[o].got = op[o].got
    BY <1>1, <1>7, Fields, Places DEF Remove2
  <2>3. Still /\ op[o].pc = "remove2"
    BY <1>7 DEF Remove2, Still, Goes, At, server, history
  <2>4. op[o].kind = "setSession" => op[o].pc # "lock" /\ op[o].pc # "body"
    BY <2>3
  <2> QED BY <1>2, <2>1, <2>2, <2>3, <2>4, StillKept, SameCalm DEF Saving, Carrying
<1>8. CASE Removed(o) \/ DropVerifier(o)
  <2>1. ControlStep(o)
    BY <1>1, <1>8, SaveControl
  <2>2. op'[o].pc = "done" /\ op'[o].kind = op[o].kind /\ op'[o].got = NoSession
    BY <1>1, <1>3, <1>8, Fields DEF Removed, DropVerifier
  <2>3. Still /\ op[o].pc \in {"removed", "dropVerifier"}
    BY <1>8 DEF Removed, DropVerifier, Still, Goes, At, storage, server, history
  <2> QED BY <1>2, <2>1, <2>2, <2>3, StillKept, ClearCalm
<1>9. CASE Refreshed(o)
  <2>1. ControlStep(o)
    BY <1>1, <1>9, RefreshControl
  <2>2. op'[o].pc \in {"done", "remove1"} /\ op'[o].kind = op[o].kind
        /\ op'[o].got = NoSession
    BY <1>1, <1>3, <1>9, Fields, Places DEF Refreshed
  <2>3. Still /\ op[o].pc = "refreshed"
    BY <1>9 DEF Refreshed, Still, Goes, At, storage, server, history
  <2> QED BY <1>2, <2>1, <2>2, <2>3, StillKept, ClearCalm
<1>10. ASSUME SaidSignedIn(o) \/ SignedInThrew(o)
       PROVE  Still /\ op[o].pc = "notify" /\ verifier' = verifier
  BY <1>1, <1>10 DEF SaidSignedIn, SignedInThrew, Throws, Still, Goes, At, storage, server,
                     history
<1>11. ASSUME SaidSignedOut(o) \/ SignedOutThrew(o)
       PROVE  Still /\ op[o].pc = "notifyOut" /\ verifier' = verifier
  BY <1>1, <1>11 DEF SaidSignedOut, SignedOutThrew, Throws, Still, Goes, At, storage, server,
                     history
<1>12. CASE SaidSignedIn(o)
  <2>1. CASE InRefresh(o)
    <3>1. Settle(o, op[o].got, "none") /\ holder' = holder
      BY <1>12, <2>1 DEF SaidSignedIn
    <3>2. Together(o) /\ \A x \in Sharers(o) : op'[x].got = op[o].got
      BY <1>1, <1>3, <1>10, <1>12, <2>1, <3>1, Settles
    <3>3. \A x \in Op : op'[x].got \in {NoSession, op[o].got, op[x].got}
      BY <3>2 DEF Together
    <3> QED BY <1>10, <1>12, <3>2, <3>3, StillKept, TogetherCalm DEF Sharers
  <2>2. CASE ~InRefresh(o)
    <3>1. ControlStep(o)
      BY <1>1, <1>12, <2>2, SaveControl
    <3>2. CASE End(o, "none")
      BY <1>1, <1>2, <1>3, <1>10, <1>12, <3>1, <3>2, Fields, StillKept, ClearCalm
    <3>3. CASE /\ op' = [op EXCEPT ![o].pc = "save1", ![o].kind = "urlToken"]
               /\ op[o].kind = "urlCode"
      <4>1. /\ op'[o].kind = "urlToken" /\ op'[o].pc = "save1"
            /\ op'[o].got = op[o].got
        <5>1. op \in [Op -> OpState] /\ op[o] \in OpState
          BY <1>1 DEF ControlInv, TypeOK
        <5>2. op'[o] = [op[o] EXCEPT !.pc = "save1", !.kind = "urlToken"]
          BY <3>3, <5>1
        <5> QED BY <5>1, <5>2 DEF OpState
      <4>2. Ordered' => holder = o
        BY <1>10, <1>12, <3>3 DEF LockedPrograms, InitPrograms, Inner, Firm, Astray, Running
      <4> QED BY <1>2, <1>10, <1>12, <3>1, <3>3, <4>1, <4>2, StillKept, SameCalm
              DEF Saving, Carrying
    <3> QED BY <1>12, <2>2, <3>2, <3>3 DEF SaidSignedIn
  <2> QED BY <2>1, <2>2
<1>13. CASE SignedInThrew(o)
  <2>1. CASE InRefresh(o) /\ Settle(o, NoSession, "thrown") /\ holder' = holder
    <3>1. Together(o) /\ \A x \in Sharers(o) : op'[x].got = NoSession
      BY <1>1, <1>3, <1>10, <1>13, <2>1, Settles
    <3>2. \A x \in Op : op'[x].got \in {NoSession, op[o].got, op[x].got}
      BY <3>1 DEF Together
    <3> QED BY <1>10, <1>13, <3>1, <3>2, StillKept, TogetherCalm DEF Sharers
  <2>2. CASE Fail(o, "remove1", "denied") /\ UNCHANGED <<refreshing, holder>>
    <3>1. ControlStep(o)
      BY <1>1, <1>13, <2>2, SaveControl DEF SignedInThrew, Goes
    <3>2. op'[o].pc = "remove1" /\ op'[o].kind = op[o].kind /\ op'[o].got = NoSession
      BY <1>1, <1>3, <2>2, Fields, Places
    <3> QED BY <1>2, <1>10, <1>13, <3>1, <3>2, StillKept, ClearCalm
  <2>3. CASE ~InRefresh(o) /\ FailOver(o, "thrown")
    <3>1. ControlStep(o)
      BY <1>1, <1>13, <2>3, SaveControl
    <3>2. /\ op'[o].pc \in {"done", "dropVerifier"} /\ op'[o].kind = op[o].kind
          /\ op'[o].got = NoSession
      BY <1>1, <1>3, <2>3, Fields, Places DEF FailOver
    <3> QED BY <1>2, <1>10, <1>13, <3>1, <3>2, StillKept, ClearCalm
  <2> QED BY <1>13, <2>1, <2>2, <2>3 DEF SignedInThrew
<1>14. CASE SaidSignedOut(o)
  <2>1. CASE InRefresh(o)
    <3>1. Settle(o, NoSession, op[o].err) /\ holder' = holder
      BY <1>14, <2>1 DEF SaidSignedOut
    <3>2. Together(o) /\ \A x \in Sharers(o) : op'[x].got = NoSession
      BY <1>1, <1>3, <1>11, <1>14, <2>1, <3>1, Settles
    <3>3. \A x \in Op : op'[x].got \in {NoSession, op[o].got, op[x].got}
      BY <3>2 DEF Together
    <3> QED BY <1>11, <1>14, <3>2, <3>3, StillKept, TogetherCalm DEF Sharers
  <2>2. CASE ~InRefresh(o)
    <3>1. ControlStep(o)
      BY <1>1, <1>14, <2>2, SaveControl
    <3>2. /\ op'[o].pc \in Backs /\ op'[o].kind = op[o].kind /\ op'[o].got = op[o].got
      <4>1. Go(o, op[o].back)
        BY <1>14, <2>2 DEF SaidSignedOut
      <4>2. op[o].back \in Pcs /\ op[o].back \in Backs
        BY <1>1, Known DEF Pcs, Inner, Backs
      <4> QED BY <1>1, <4>1, <4>2, Fields
    <3>3. op[o].got = NoSession
      BY <1>1, <1>11, <1>14, Known
    <3> QED BY <1>2, <1>11, <1>14, <3>1, <3>2, <3>3, StillKept, ClearCalm DEF Backs
  <2> QED BY <2>1, <2>2
<1>15. CASE SignedOutThrew(o)
  <2>1. CASE InRefresh(o)
    <3>1. Abandon(o, "thrown") /\ holder' = holder
      BY <1>15, <2>1 DEF SignedOutThrew
    <3>2. /\ Together(o) /\ op'[o].got = NoSession
          /\ \A x \in Sharers(o) : op'[x].got \in {op[x].got, NoSession}
      BY <1>1, <1>3, <1>11, <1>15, <2>1, <3>1, Settles
    <3>3. \A x \in Op : op'[x].got \in {NoSession, op[o].got, op[x].got}
      BY <3>2 DEF Together
    <3> QED BY <1>11, <1>15, <3>2, <3>3, StillKept, TogetherCalm
  <2>2. CASE ~InRefresh(o)
    <3>1. ControlStep(o)
      BY <1>1, <1>15, <2>2, SaveControl
    <3>2. /\ op'[o].pc \in {"done", "dropVerifier"} /\ op'[o].kind = op[o].kind
          /\ op'[o].got = NoSession
      BY <1>1, <1>3, <1>15, <2>2, Fields, Places DEF SignedOutThrew, FailOver
    <3> QED BY <1>2, <1>11, <1>15, <3>1, <3>2, StillKept, ClearCalm
  <2> QED BY <2>1, <2>2
<1> QED BY <1>5, <1>6, <1>7, <1>8, <1>9, <1>12, <1>13, <1>14, <1>15

\* So are the removal from storage, the answers that get lost, and a sign-out that
\* keeps its session.
LEMMA LossIsCalm ==
    ASSUME SessionInv, ControlInv', NEW o \in Op,
           \/ Remove1(o) \/ AnswerLost(o) \/ RefreshLost(o)
           \/ SignOutFails(o) /\ \E e \in {"retryable", "denied"} : End(o, e) /\ UNCHANGED history,
           Firm(o)
    PROVE  Calm
<1>1. /\ ControlInv /\ TypeOK /\ "retryable" \in Errors /\ "denied" \in Errors
      /\ NoSession \in Session \cup {NoSession}
      /\ gen \in [Fam -> 0 .. MaxGen] /\ status \in [Fam -> {"unused", "live", "revoked"}]
      /\ op[o].got \in Session => op[o].got.fam \in Fam
  BY Families DEF SessionInv, ControlInv, TypeOK, Errors
<1>2. CASE Remove1(o)
  <2>1. ControlStep(o)
    BY <1>1, <1>2, SaveControl
  <2>2. op'[o].pc = "remove2" /\ op'[o].kind = op[o].kind /\ op'[o].got = op[o].got
    BY <1>1, <1>2, Fields, Places DEF Remove1
  <2>3. Kept /\ op[o].pc = "remove1" /\ stored' = NoSession
    BY <1>2 DEF Remove1, Kept, Goes, At, server, history
  <2>4. op[o].kind = "setSession" => op[o].pc # "lock" /\ op[o].pc # "body"
    BY <2>3
  <2> QED BY <2>1, <2>2, <2>3, <2>4, SameCalm DEF Saving, Carrying
<1>3. CASE AnswerLost(o)
  <2>1. ControlStep(o)
    BY <1>1, <1>3, AskControl
  <2>2. op'[o].pc = "done" /\ op'[o].kind = op[o].kind /\ op'[o].got = NoSession
    BY <1>1, <1>3, Fields DEF AnswerLost
  <2>3. op[o].pc = "request" /\ op[o].got \in Session /\ status[op[o].got.fam] = "live"
    BY <1>3 DEF AnswerLost, InRequest, Goes, At, LiveToken, HasSession, Revoked
  <2>4. /\ UNCHANGED <<stored, signedOut, refused, reused>>
        /\ mishaps' = mishaps \cup {"lost"}
        /\ \/ gen' = gen /\ status' = [status EXCEPT ![op[o].got.fam] = "revoked"]
           \/ gen' = [gen EXCEPT ![op[o].got.fam] = @ + 1] /\ status' = status
    BY <1>3 DEF AnswerLost, storage
  <2>5. \A f \in Fam : status'[f] = "unused" <=> status[f] = "unused"
    BY <1>1, <2>3, <2>4
  <2>6. gen' = gen \/ Loses(o)
    BY <1>1, <2>3, <2>4 DEF Loses, Saving
  <2>7. Kept
    BY <2>4, <2>5, <2>6 DEF Kept
  <2> QED BY <2>1, <2>2, <2>3, <2>7, ClearCalm DEF Saving
<1>4. CASE RefreshLost(o)
  <2>1. op[o].pc = "rotating" /\ InRefresh(o) /\ op[o].got \in Session
    BY <1>1, <1>4, Known DEF RefreshLost, Goes, At
  <2>2. Kept
    <3>1. /\ UNCHANGED <<stored, signedOut, refused, reused, status>>
          /\ \/ gen' = gen /\ mishaps' = mishaps
             \/ /\ mishaps' = mishaps \cup {"lost"} /\ status[op[o].got.fam] = "live"
                /\ gen' = [gen EXCEPT ![op[o].got.fam] = op[o].got.gen + 1]
      BY <1>4 DEF RefreshLost, Revoked, storage
    <3>2. gen' = gen \/ Loses(o)
      BY <1>1, <2>1, <3>1 DEF Loses, Saving
    <3> QED BY <3>1, <3>2 DEF Kept
  <2>3. CASE Settle(o, NoSession, "retryable")
    <3>1. /\ holder' = holder /\ verifier' = verifier
          /\ op[o].pc # "save1" /\ NoSession \in Session \cup {NoSession}
          /\ "retryable" \in Errors /\ ControlInv
      BY <1>1, <1>4, <2>1 DEF RefreshLost, storage
    <3>2. Together(o) /\ \A x \in Sharers(o) : op'[x].got = NoSession
      BY <2>1, <2>3, <3>1, Settles
    <3>3. op'[o].got = NoSession /\ \A x \in Op : op'[x].got \in {NoSession, op[o].got, op[x].got}
      BY <3>2 DEF Together, Sharers
    <3> QED BY <2>1, <2>2, <3>2, <3>3, TogetherCalm
  <2>4. CASE UNCHANGED <<op, refreshing>>
    BY <1>4, <2>2, <2>4, StutterCalm DEF RefreshLost, Firm
  <2> QED BY <1>4, <2>3, <2>4 DEF RefreshLost
<1>5. CASE SignOutFails(o) /\ \E e \in {"retryable", "denied"} : End(o, e) /\ UNCHANGED history
  <2>1. ControlStep(o)
    BY <1>1, <1>5, AskControl DEF Ask
  <2>2. op'[o].pc = "done" /\ op'[o].kind = op[o].kind /\ op'[o].got = NoSession
    BY <1>1, <1>5, Fields
  <2>3. Still /\ op[o].pc = "request"
    BY <1>5 DEF SignOutFails, InRequest, Goes, At, Still, storage, server, history
  <2> QED BY <2>1, <2>2, <2>3, StillKept, ClearCalm DEF Saving
<1> QED BY <1>2, <1>3, <1>4, <1>5
-----------------------------------------------------------------------------
\* In order, whoever refreshes or verifies a factor does so under the lock, with
\* the session it carries.
LEMMA UnderLock ==
    ASSUME SessionInv, Ordered, NEW o \in Op, op[o].got \in Session, ~Astray(o),
           op[o].pc = "rotating" \/ (op[o].pc = "request" /\ op[o].kind \in {"verify", "signOut"})
    PROVE  holder = o /\ Carries(o)
<1>1. op[o].kind # "setSession"
  BY DEF SessionInv, OrderFits
<1>2. CASE op[o].pc = "rotating"
  <2>1. refreshing[op[o].home] = o /\ op[o].home \in Client
    BY <1>2, Known, Constants DEF SessionInv, InRefresh
  <2>2. holder = o
    BY <2>1, Constants DEF SessionInv, OrderFits
  <2> QED BY <1>1, <1>2, <2>2 DEF Carries, Carrying
<1>3. CASE op[o].pc = "request" /\ op[o].kind \in {"verify", "signOut"}
  <2>1. holder = o
    BY <1>3 DEF LockedPrograms, InitPrograms, Inner, Astray, Running
  <2> QED BY <1>1, <1>3, <2>1 DEF Carries, Carrying
<1> QED BY <1>2, <1>3

\* What a step that rotates the token of o and saves the new one has in common.
Rotates(o) ==
    LET f == op[o].got.fam IN
    /\ ControlStep(o) /\ UNCHANGED <<stored, status, signedOut, refused, mishaps>>
    /\ op[o].pc = "rotating" \/ (op[o].pc = "request" /\ op[o].kind = "verify")
    /\ op[o].got \in Session /\ status[f] # "unused"
    /\ op'[o].pc = "save1" /\ op'[o].kind = op[o].kind
    /\ op'[o].got \in Session /\ op'[o].got.fam = f /\ op'[o].got.gen = gen'[f]
    /\ \A g \in Fam : g # f => gen'[g] = gen[g]
    /\ reused' => reused \/ op[o].got.gen # gen[f]

\* Whoever rotates a token is the only one that could use it.
LEMMA RotateKeeps ==
    ASSUME SessionInv, ControlInv', NEW o \in Op, Rotates(o), Firm(o)
    PROVE  SessionInv'
<1>1. /\ ControlStep(o) /\ UNCHANGED <<stored, status, signedOut, refused, mishaps>>
      /\ op[o].got \in Session /\ op'[o].got \in Session
      /\ op'[o].got.fam = op[o].got.fam /\ op'[o].got.gen = gen'[op[o].got.fam]
      /\ op[o].pc \in {"rotating", "request"} /\ op'[o].pc = "save1"
      /\ op'[o].kind = op[o].kind /\ status[op[o].got.fam] # "unused"
      /\ \A g \in Fam : g # op[o].got.fam => gen'[g] = gen[g]
      /\ reused' => reused \/ op[o].got.gen # gen[op[o].got.fam]
      /\ (Ordered' => Ordered /\ ~Astray(o))
  BY DEF Rotates, Ordered, Firm
<1>2. ASSUME Ordered'
      PROVE  holder = o /\ Carries(o) /\ op[o].kind # "setSession"
  BY <1>1, <1>2, UnderLock DEF Rotates, Carries
<1>3. /\ OrderFits'
      /\ \A x \in Op : x # o => op'[x] = op[x] /\ (holder' = x <=> holder = x)
      /\ op'[o].pc \in Inner /\ op[o].pc \in Inner
      /\ holder' = o <=> holder = o
  BY <1>1, <1>2, OrderKept DEF Inner
<1>4. SessionsIssued'
  <2>1. \A f \in Fam : status[f] = "unused" => gen'[f] = gen[f]
    BY <1>1
  <2> QED BY <1>1, <1>3, <2>1 DEF SessionInv, SessionsIssued, Issued
<1>5. ASSUME Ordered', NEW x \in Op, op'[x].pc \in Saving, holder' # x
      PROVE  /\ x # o /\ op'[x].got.fam > 2 /\ op'[x].got.gen = gen'[op'[x].got.fam]
             /\ Apart(x, stored)'
             /\ \A y \in Op : y # x => Apart(x, op[y].got)'
  <2>1. x # o /\ op'[x] = op[x] /\ op[x].got \in Session /\ op[x].got.fam \in Fam
    BY <1>2, <1>3, <1>5, Known, Families DEF SessionInv
  <2>2. /\ op[x].got.fam > 2 /\ op[x].got.gen = gen[op[x].got.fam]
        /\ Apart(x, stored)
        /\ \A y \in Op : y # x => Apart(x, op[y].got)
    BY <1>1, <1>3, <1>5, <2>1 DEF SessionInv, LooseSavesAreNew
  <2>3. op[x].got.fam # op[o].got.fam
    BY <1>1, <2>1, <2>2 DEF Apart
  <2>4. ASSUME NEW y \in Op, y # x
        PROVE  Apart(x, op[y].got)'
    <3>1. CASE y = o
      BY <1>1, <2>1, <2>3, <3>1 DEF Apart
    <3>2. CASE y # o
      BY <1>3, <2>1, <2>2, <2>4, <3>2 DEF Apart
    <3> QED BY <3>1, <3>2
  <2> QED BY <1>1, <2>1, <2>2, <2>3, <2>4 DEF Apart
<1>6. ASSUME Ordered', NEW f \in signedOut \cup {s.fam : s \in refused}
      PROVE  /\ ~(stored \in Session /\ stored.fam = f)
             /\ \A x \in Op : Carries(x)' \/ op'[x].pc \in Saving => op'[x].got.fam # f
  <2>1. /\ stored \in Session /\ stored.fam = f => \E x \in Op : holder = x /\ op[x].pc = "remove1"
        /\ \A x \in Op : Carries(x) \/ op[x].pc \in Saving => op[x].got.fam # f
    BY <1>1, <1>6 DEF SessionInv, DeadStayDead, At
  <2>2. op'[o].got.fam # f
    BY <1>1, <1>2, <1>6, <2>1
  <2>3. \A x \in Op : x # o /\ Carries(x)' => Carries(x)
    BY <1>3 DEF Carries
  <2> QED BY <1>1, <1>2, <1>3, <1>6, <2>1, <2>2, <2>3
<1>7. ASSUME Ordered', "lost" \notin mishaps'
      PROVE  /\ ~reused'
             /\ \/ Current(stored)'
                \/ \E x \in Op : holder' = x /\ op'[x].pc \in Saving /\ ~Apart(x, stored)'
             /\ \A x \in Op : Carries(x)' => Current(op[x].got)'
  <2>1. /\ ~reused /\ Carries(o) /\ holder = o
        /\ Current(stored) \/ \E x \in Op : holder = x /\ op[x].pc \in Saving
        /\ Current(op[o].got)
    BY <1>1, <1>2, <1>7 DEF SessionInv, TokensCurrent
  <2>2. ~reused'
    BY <1>1, <2>1 DEF Current
  <2>3. Current(stored)
    BY <1>1, <2>1 DEF Saving
  <2>4. CASE stored \in Session /\ stored.fam = op[o].got.fam
    <3>1. holder' = o /\ op'[o].pc \in Saving /\ ~Apart(o, stored)'
      BY <1>1, <1>3, <2>1, <2>4 DEF Saving, Apart
    <3>2. \A x \in Op : Carries(x)' => Current(op[x].got)'
      BY <1>1, <1>3, <2>1 DEF Carries, Current
    <3> QED BY <2>2, <3>1, <3>2
  <2>5. CASE ~(stored \in Session /\ stored.fam = op[o].got.fam)
    <3>1. Current(stored)'
      BY <1>1, <2>3, <2>5, Families DEF SessionInv, Current
    <3>2. \A x \in Op : Carries(x)' => Current(op[x].got)'
      BY <1>1, <1>3, <2>1 DEF Carries, Current
    <3> QED BY <2>2, <3>1, <3>2
  <2> QED BY <2>4, <2>5
<1>8. LooseSavesAreNew'
  BY <1>5 DEF LooseSavesAreNew
<1>9. DeadStayDead'
  BY <1>1, <1>6 DEF DeadStayDead
<1>10. TokensCurrent'
  BY <1>7 DEF TokensCurrent
<1> QED BY <1>3, <1>4, <1>8, <1>9, <1>10 DEF SessionInv

\* What a step that takes the session of o from the living, and goes on to remove
\* it, has in common.
Condemns(o) ==
    LET f == op[o].got.fam IN
    /\ ControlStep(o) /\ UNCHANGED <<stored, gen, mishaps>>
    /\ \/ /\ op[o].pc = "rotating" /\ signedOut' = signedOut
          /\ refused' = refused \cup {op[o].got}
       \/ /\ op[o].pc = "request" /\ op[o].kind = "signOut" /\ refused' = refused
          /\ signedOut' = signedOut \cup {f}
    /\ op[o].got \in Session /\ op'[o].got = NoSession
    /\ op'[o].pc = "remove1" /\ op'[o].kind = op[o].kind
    /\ \A g \in Fam : status'[g] = "unused" <=> status[g] = "unused"
    /\ reused' => reused \/ op[o].got.gen # gen[f]

\* Whoever signs out or is refused is the last that has the session.
LEMMA CondemnKeeps ==
    ASSUME SessionInv, ControlInv', NEW o \in Op, Condemns(o), Firm(o)
    PROVE  SessionInv'
<1>1. /\ ControlStep(o) /\ UNCHANGED <<stored, gen, mishaps>>
      /\ op[o].got \in Session /\ op'[o].got = NoSession /\ NoSession \notin Session
      /\ op[o].pc \in {"rotating", "request"} /\ op'[o].pc = "remove1"
      /\ op'[o].kind = op[o].kind
      /\ signedOut' \subseteq signedOut \cup {op[o].got.fam}
      /\ refused' \subseteq refused \cup {op[o].got}
      /\ op[o].got.fam \notin signedOut /\ op[o].got.fam \in signedOut'
         => op[o].kind = "signOut"
      /\ \A g \in Fam : status'[g] = "unused" <=> status[g] = "unused"
      /\ reused' => reused \/ op[o].got.gen # gen[op[o].got.fam]
      /\ (Ordered' => Ordered /\ ~Astray(o))
  BY Constants DEF Condemns, Ordered, Firm
<1>2. ASSUME Ordered'
      PROVE  holder = o /\ Carries(o) /\ op[o].kind # "setSession"
  BY <1>1, <1>2, UnderLock DEF Condemns, Carries
<1>3. /\ OrderFits'
      /\ \A x \in Op : x # o => op'[x] = op[x] /\ (holder' = x <=> holder = x)
      /\ op'[o].pc \in Inner /\ op[o].pc \in Inner
      /\ holder' = o <=> holder = o
  BY <1>1, <1>2, OrderKept DEF Inner
<1>4. SessionsIssued'
  <2>1. \A s : Issued(s) => Issued(s)'
    BY <1>1, Families DEF Issued, SessionInv
  <2>2. /\ status'[1] # "unused" /\ status'[2] # "unused" /\ Issued(stored)'
        /\ \A x \in Op : Issued(op[x].got)
        /\ Issued(NoSession)
    BY <1>1, <2>1, Families DEF SessionInv, SessionsIssued, Issued
  <2>3. \A x \in Op : op'[x].got \in {NoSession, op[x].got}
    BY <1>1, <1>3
  <2>4. \A x \in Op : Issued(op[x].got)'
    BY <2>1, <2>2, <2>3 DEF Issued
  <2>5. \A s \in refused' : Issued(s)'
    BY <1>1, <2>1, <2>2 DEF SessionInv, SessionsIssued
  <2>6. \A f \in Fam : status'[f] = "unused" => gen'[f] = 0 /\ f \notin signedOut'
    BY <1>1, <2>2 DEF SessionInv, SessionsIssued, Issued
  <2> QED BY <2>2, <2>4, <2>5, <2>6 DEF SessionsIssued
<1>5. ASSUME Ordered', NEW x \in Op, op'[x].pc \in Saving, holder' # x
      PROVE  /\ x # o /\ op'[x] = op[x]
             /\ op[x].got.fam > 2 /\ op[x].got.gen = gen[op[x].got.fam]
             /\ Apart(x, stored)
             /\ \A y \in Op : y # x => Apart(x, op[y].got)
  <2>1. x # o /\ op'[x] = op[x]
    BY <1>2, <1>3, <1>5
  <2> QED BY <1>1, <1>3, <1>5, <2>1 DEF SessionInv, LooseSavesAreNew
<1>6. ASSUME Ordered', NEW f \in signedOut' \cup {s.fam : s \in refused'}
      PROVE  /\ stored \in Session /\ stored.fam = f => f = op[o].got.fam
             /\ f = op[o].got.fam /\ f \in signedOut' => op[o].kind = "signOut"
             /\ \A x \in Op : ~Carries(x)'
             /\ \A x \in Op : op'[x].pc \in Saving => op'[x].got.fam # f
  <2>1. ASSUME f # op[o].got.fam
        PROVE  /\ ~(stored \in Session /\ stored.fam = f)
               /\ \A x \in Op : op[x].pc \in Saving => op[x].got.fam # f
    <3>1. f \in signedOut \cup {s.fam : s \in refused}
      BY <1>1, <2>1
    <3> QED BY <1>1, <1>2, <1>6, <3>1 DEF SessionInv, DeadStayDead, At
  <2>2. op[o].got.fam \notin signedOut
    BY <1>1, <1>2, <1>6 DEF SessionInv, DeadStayDead
  <2>3. \A x \in Op : ~Carries(x)'
    BY <1>1, <1>2, <1>3, <1>6 DEF Carries
  <2>4. ASSUME NEW x \in Op, op'[x].pc \in Saving
        PROVE  op'[x].got.fam # f
    <3>1. x # o /\ holder' # x /\ op'[x] = op[x]
      BY <1>1, <1>2, <1>3, <1>6, <2>4 DEF Saving
    <3>2. Apart(x, op[o].got)
      BY <1>5, <1>6, <2>4, <3>1
    <3> QED BY <1>1, <2>1, <2>4, <3>1, <3>2 DEF Apart
  <2> QED BY <1>1, <2>1, <2>2, <2>3, <2>4
<1>7. ASSUME Ordered', "lost" \notin mishaps'
      PROVE  /\ ~reused' /\ Current(stored)'
             /\ \A x \in Op : ~Carries(x)'
  <2>1. /\ ~reused /\ Carries(o) /\ holder = o
        /\ Current(stored) \/ \E x \in Op : holder = x /\ op[x].pc \in Saving
        /\ Current(op[o].got)
    BY <1>1, <1>2, <1>7 DEF SessionInv, TokensCurrent
  <2>2. ~reused' /\ Current(stored)'
    BY <1>1, <2>1 DEF Current, Saving
  <2>3. \A x \in Op : ~Carries(x)'
    BY <1>1, <1>2, <1>3, <1>7 DEF Carries
  <2> QED BY <2>2, <2>3
<1>8. LooseSavesAreNew'
  <2> SUFFICES ASSUME Ordered', NEW x \in Op, op'[x].pc \in Saving, holder' # x
               PROVE  /\ op'[x].got.fam > 2 /\ op'[x].got.gen = gen'[op'[x].got.fam]
                      /\ Apart(x, stored)'
                      /\ \A y \in Op : y # x => Apart(x, op[y].got)'
    BY DEF LooseSavesAreNew
  <2>1. \A y \in Op : op'[y].got \in {NoSession, op[y].got}
    BY <1>1, <1>3
  <2> QED BY <1>1, <1>5, <2>1 DEF Apart
<1>9. DeadStayDead'
  BY <1>1, <1>2, <1>3, <1>6 DEF DeadStayDead, At
<1>10. TokensCurrent'
  BY <1>7 DEF TokensCurrent
<1> QED BY <1>3, <1>4, <1>8, <1>9, <1>10 DEF SessionInv

\* The save of a session keeps the invariant: nobody else has its token.
LEMMA SaveKeeps ==
    ASSUME SessionInv, ControlInv', NEW o \in Op, Save2(o), Firm(o)
    PROVE  SessionInv'
<1>1. /\ ControlStep(o) /\ UNCHANGED <<gen, status, signedOut, refused, reused>>
      /\ mishaps' = mishaps /\ stored' = op[o].got
      /\ op[o].pc = "save2" /\ op[o].got \in Session
      /\ op'[o].pc \in {"notify", "timer"} /\ op'[o].kind = op[o].kind
      /\ op'[o].got = op[o].got
  <2>1. ControlInv /\ "notify" \in Pcs /\ "timer" \in Pcs
    BY DEF SessionInv, Pcs, Inner
  <2>2. ControlStep(o)
    BY <2>1, SaveControl
  <2>3. op[o].pc = "save2" /\ op[o].got \in Session
    BY <2>1, Known DEF Save2, Goes, At, Saving
  <2> QED BY <2>1, <2>2, <2>3, Fields DEF Save2, server, history
<1>2. /\ mishaps \subseteq mishaps' /\ (Ordered' => Ordered)
      /\ "lost" \notin mishaps' => "lost" \notin mishaps
  BY <1>1 DEF Ordered, Firm
<1>3. ASSUME Ordered'
      PROVE  op[o].kind # "setSession"
  BY <1>1, <1>2, <1>3 DEF SessionInv, OrderFits
<1>4. /\ OrderFits'
      /\ \A x \in Op : x # o => op'[x] = op[x] /\ (holder' = x <=> holder = x)
      /\ op'[o].pc = "notify" => (holder' = o <=> holder = o)
  BY <1>1, <1>2, <1>3, OrderKept DEF Inner
<1>5. SessionsIssued'
  <2>1. \A x \in Op : op'[x].got = op[x].got
    BY <1>1, <1>4
  <2> QED BY <1>1, <2>1 DEF SessionInv, SessionsIssued, Issued
<1>6. LooseSavesAreNew'
  <2> SUFFICES ASSUME Ordered', NEW x \in Op, op'[x].pc \in Saving, holder' # x
               PROVE  /\ op'[x].got.fam > 2 /\ op'[x].got.gen = gen'[op'[x].got.fam]
                      /\ Apart(x, stored)'
                      /\ \A y \in Op : y # x => Apart(x, op[y].got)'
    BY DEF LooseSavesAreNew
  <2>1. x # o /\ op'[x] = op[x] /\ holder # x
    BY <1>1, <1>4 DEF Saving
  <2>2. /\ op[x].got.fam > 2 /\ op[x].got.gen = gen[op[x].got.fam]
        /\ \A y \in Op : y # x => Apart(x, op[y].got)
    BY <1>2, <2>1 DEF SessionInv, LooseSavesAreNew
  <2>3. \A y \in Op : op'[y].got = op[y].got
    BY <1>1, <1>4
  <2> QED BY <1>1, <2>1, <2>2, <2>3 DEF Apart
<1>7. DeadStayDead'
  <2> SUFFICES ASSUME Ordered', NEW f \in signedOut \cup {s.fam : s \in refused}
               PROVE  /\ stored'.fam # f
                      /\ \A x \in Op : Carries(x)' \/ op'[x].pc \in Saving => op'[x].got.fam # f
    BY <1>1 DEF DeadStayDead
  <2>1. \A x \in Op : Carries(x) \/ op[x].pc \in Saving => op[x].got.fam # f
    BY <1>2 DEF SessionInv, DeadStayDead
  <2>2. op[o].got.fam # f
    BY <1>1, <2>1 DEF Saving
  <2>3. \A x \in Op : x # o /\ Carries(x)' => Carries(x)
    BY <1>4 DEF Carries
  <2> QED BY <1>1, <1>4, <2>1, <2>2, <2>3
<1>8. TokensCurrent'
  <2> SUFFICES ASSUME Ordered', "lost" \notin mishaps'
               PROVE  /\ ~reused' /\ Current(stored)'
                      /\ \A x \in Op : Carries(x)' => Current(op[x].got)'
    BY DEF TokensCurrent
  <2>1. /\ ~reused /\ \A x \in Op : Carries(x) => Current(op[x].got)
    BY <1>2 DEF SessionInv, TokensCurrent
  <2>2. op[o].got.gen = gen[op[o].got.fam]
    <3>1. CASE holder = o
      <4>1. Carries(o)
        BY <1>1, <1>3, <3>1 DEF Carries, Carrying
      <4> QED BY <1>1, <2>1, <4>1 DEF Current
    <3>2. CASE holder # o
      BY <1>1, <1>2, <3>2 DEF SessionInv, LooseSavesAreNew, Saving
    <3> QED BY <3>1, <3>2
  <2>3. ASSUME NEW x \in Op, Carries(x)'
        PROVE  Current(op[x].got)'
    <3>1. CASE x = o
      BY <1>1, <2>2, <3>1 DEF Current
    <3>2. CASE x # o
      BY <1>1, <1>4, <2>1, <2>3, <3>2 DEF Carries, Current
    <3> QED BY <3>1, <3>2
  <2> QED BY <1>1, <2>1, <2>2, <2>3 DEF Current
<1> QED BY <1>4, <1>5, <1>6, <1>7, <1>8 DEF SessionInv

\* A session that is new is nobody's yet.
LEMMA IssueKeeps ==
    ASSUME SessionInv, ControlInv', NEW o \in Op, AnsweredSession(o), Firm(o)
    PROVE  SessionInv'
<1>1. /\ ControlInv /\ TypeOK /\ ControlStep(o) /\ "save1" \in Pcs
      /\ status \in [Fam -> {"unused", "live", "revoked"}]
  <2>1. ControlInv /\ TypeOK
    BY DEF SessionInv, ControlInv
  <2> QED BY <2>1, AskControl DEF Ask, Pcs, Inner, TypeOK
<1>2. PICK f \in Fam : /\ status[f] = "unused" /\ status' = [status EXCEPT ![f] = "live"]
                       /\ GoWith(o, "save1", [fam |-> f, gen |-> 0])
  BY DEF AnsweredSession
<1>3. /\ [fam |-> f, gen |-> 0] \in Session
      /\ op'[o].pc = "save1" /\ op'[o].kind = op[o].kind
      /\ op'[o].got = [fam |-> f, gen |-> 0]
  <2>1. [fam |-> f, gen |-> 0] \in Session
    BY AuthSessionAssumption DEF Session
  <2> QED BY <1>1, <1>2, <2>1, Fields
<1>4. /\ UNCHANGED <<stored, gen, signedOut, refused, reused, mishaps>>
      /\ op[o].pc = "request" /\ op[o].kind # "setSession" /\ (Ordered' => Ordered)
  BY DEF AnsweredSession, InRequest, Goes, At, storage, world, history, Ordered, Firm
<1>5. /\ OrderFits'
      /\ \A x \in Op : x # o => op'[x] = op[x] /\ (holder' = x <=> holder = x)
      /\ holder' = o <=> holder = o
  BY <1>1, <1>3, <1>4, OrderKept DEF Inner
<1>6. /\ f # 1 /\ f # 2 /\ f > 2 /\ gen[f] = 0 /\ f \notin signedOut
      /\ \A s \in Session : Issued(s) => s.fam # f
      /\ \A s \in refused : s.fam # f
      /\ stored \in Session => stored.fam # f
      /\ \A x \in Op : op[x].got \in Session => op[x].got.fam # f
  <2>1. \A s \in Session : Issued(s) => s.fam # f
    BY <1>2 DEF Issued
  <2>2. f \in Nat /\ f # 0
    BY AuthSessionAssumption DEF Fam
  <2>3. f # 1 /\ f # 2 /\ gen[f] = 0 /\ f \notin signedOut
    BY <1>2 DEF SessionInv, SessionsIssued
  <2> QED BY <2>1, <2>2, <2>3, Families DEF SessionInv, SessionsIssued
<1>7. SessionsIssued'
  <2>1. \A g \in Fam : status'[g] = "unused" => status[g] = "unused"
    BY <1>1, <1>2
  <2>2. \A s : Issued(s) => Issued(s)'
    BY <1>1, <1>2, Families DEF SessionInv, Issued
  <2>3. Issued([fam |-> f, gen |-> 0])'
    BY <1>1, <1>2 DEF Issued
  <2>4. \A x \in Op : Issued(op[x].got)'
    BY <1>3, <1>5, <2>2, <2>3 DEF SessionInv, SessionsIssued, Issued
  <2>5. /\ Issued(stored)' /\ \A s \in refused' : Issued(s)'
    BY <1>4, <2>2 DEF SessionInv, SessionsIssued, Issued
  <2>6. status'[1] # "unused" /\ status'[2] # "unused"
    BY <2>1, Families DEF SessionInv, SessionsIssued
  <2>7. \A g \in Fam : status'[g] = "unused" => gen'[g] = 0 /\ g \notin signedOut'
    BY <1>4, <2>1 DEF SessionInv, SessionsIssued
  <2> QED BY <2>4, <2>5, <2>6, <2>7 DEF SessionsIssued
<1>8. LooseSavesAreNew'
  <2> SUFFICES ASSUME Ordered', NEW x \in Op, op'[x].pc \in Saving, holder' # x
               PROVE  /\ op'[x].got.fam > 2 /\ op'[x].got.gen = gen'[op'[x].got.fam]
                      /\ Apart(x, stored)'
                      /\ \A y \in Op : y # x => Apart(x, op[y].got)'
    BY DEF LooseSavesAreNew
  <2>1. CASE x = o
    BY <1>3, <1>4, <1>5, <1>6, <2>1 DEF Apart
  <2>2. CASE x # o
    <3>1. op'[x] = op[x] /\ holder # x /\ op[x].got \in Session
      BY <1>1, <1>5, <2>2, Known
    <3>2. /\ op[x].got.fam > 2 /\ op[x].got.gen = gen[op[x].got.fam]
          /\ Apart(x, stored)
          /\ \A y \in Op : y # x => Apart(x, op[y].got)
      BY <1>4, <3>1 DEF SessionInv, LooseSavesAreNew
    <3>3. op[x].got.fam # f
      BY <1>6, <3>1
    <3>4. ASSUME NEW y \in Op, y # x PROVE Apart(x, op[y].got)'
      <4>1. CASE y = o
        BY <1>3, <3>1, <3>3, <4>1 DEF Apart
      <4>2. CASE y # o
        BY <1>5, <3>1, <3>2, <3>4, <4>2 DEF Apart
      <4> QED BY <4>1, <4>2
    <3> QED BY <1>4, <3>1, <3>2, <3>4 DEF Apart
  <2> QED BY <2>1, <2>2
<1>9. DeadStayDead'
  <2> SUFFICES ASSUME Ordered', NEW g \in signedOut \cup {s.fam : s \in refused}
               PROVE  /\ stored \in Session /\ stored.fam = g =>
                            \E x \in Op : /\ holder' = x /\ op'[x].pc = "remove1"
                                          /\ g \in signedOut => op'[x].kind = "signOut"
                      /\ \A x \in Op : Carries(x)' \/ op'[x].pc \in Saving => op'[x].got.fam # g
    BY <1>4 DEF DeadStayDead, At
  <2>1. /\ stored \in Session /\ stored.fam = g =>
              \E x \in Op : /\ holder = x /\ op[x].pc = "remove1"
                            /\ g \in signedOut => op[x].kind = "signOut"
        /\ \A x \in Op : Carries(x) \/ op[x].pc \in Saving => op[x].got.fam # g
    BY <1>4 DEF SessionInv, DeadStayDead, At
  <2>2. g # f
    BY <1>6
  <2>3. \A x \in Op : x # o /\ Carries(x)' => Carries(x)
    BY <1>5 DEF Carries
  <2>4. \A x \in Op : Carries(x)' \/ op'[x].pc \in Saving => op'[x].got.fam # g
    BY <1>3, <1>5, <2>1, <2>2, <2>3
  <2>5. \A x \in Op : op[x].pc = "remove1" => x # o
    BY <1>4
  <2> QED BY <1>5, <2>1, <2>4, <2>5
<1>10. TokensCurrent'
  <2> SUFFICES ASSUME Ordered', "lost" \notin mishaps'
               PROVE  /\ ~reused
                      /\ \/ Current(stored)'
                         \/ \E x \in Op : holder' = x /\ op'[x].pc \in Saving /\ ~Apart(x, stored)'
                      /\ \A x \in Op : Carries(x)' => Current(op[x].got)'
    BY <1>4 DEF TokensCurrent
  <2>1. /\ ~reused
        /\ \/ Current(stored)
           \/ \E x \in Op : holder = x /\ op[x].pc \in Saving /\ ~Apart(x, stored)
        /\ \A x \in Op : Carries(x) => Current(op[x].got)
    BY <1>4 DEF SessionInv, TokensCurrent
  <2>2. \A x \in Op : op[x].pc \in Saving => x # o
    BY <1>4 DEF Saving
  <2>3. \/ Current(stored)'
        \/ \E x \in Op : holder' = x /\ op'[x].pc \in Saving /\ ~Apart(x, stored)'
    BY <1>4, <1>5, <2>1, <2>2 DEF Current, Apart
  <2>4. ASSUME NEW x \in Op, Carries(x)' PROVE Current(op[x].got)'
    <3>1. CASE x = o
      BY <1>3, <1>4, <1>6, <3>1 DEF Current
    <3>2. CASE x # o
      BY <1>4, <1>5, <2>1, <2>4, <3>2 DEF Carries, Current
    <3> QED BY <3>1, <3>2
  <2> QED BY <2>1, <2>3, <2>4
<1> QED BY <1>5, <1>7, <1>8, <1>9, <1>10 DEF SessionInv

\* After a tab closed, only what is issued counts.
LEMMA CloseKeeps ==
    ASSUME SessionInv, ControlInv', NEW c \in Client, Close(c)
    PROVE  SessionInv'
<1>1. \A x \in Op : op'[x].got \in {NoSession, op[x].got}
  BY CloseEffect DEF SessionInv
<1>2. UNCHANGED <<stored, gen, status, signedOut, refused>> /\ mishaps' = mishaps \cup {"closed"}
  BY DEF Close, storage, server
<1>3. ~Ordered'
  BY <1>2 DEF Ordered
<1>4. SessionsIssued'
  BY <1>1, <1>2, Constants DEF SessionInv, SessionsIssued, Issued
<1> QED BY <1>3, <1>4 DEF SessionInv, OrderFits, LooseSavesAreNew, DeadStayDead, TokensCurrent

\* So does every step.
LEMMA SessionKept ==
    ASSUME SessionInv, [Next]_vars
    PROVE  SessionInv'
<1>1. /\ ControlInv' /\ ControlInv /\ TypeOK
      /\ gen \in [Fam -> 0 .. MaxGen] /\ status \in [Fam -> {"unused", "live", "revoked"}]
      /\ "save1" \in Pcs /\ "remove1" \in Pcs /\ "denied" \in Errors /\ "missing" \in Errors
      /\ "none" \in Errors /\ "dropVerifier" \in Backs
  BY ControlKept DEF SessionInv, ControlInv, TypeOK, Pcs, Inner, Errors, Backs
<1>2. CASE UNCHANGED vars
  <2>1. UNCHANGED <<op, holder, refreshing, strayed>> /\ Still
    BY <1>2 DEF vars, Still, storage, server, history, theft
  <2> QED BY <1>1, <2>1, StillKept, StutterCalm, CalmKeeps
<1>3. CASE HourPasses
  <2>1. UNCHANGED <<op, holder, refreshing, strayed>> /\ Still
    BY <1>3 DEF HourPasses, Still, storage, server, history, theft
  <2> QED BY <1>1, <2>1, StillKept, StutterCalm, CalmKeeps
<1>4. ASSUME NEW c \in Client, Close(c)
      PROVE  SessionInv'
  BY <1>1, <1>4, CloseKeeps
<1>5. ASSUME NEW o \in Op, Call(o)
      PROVE  SessionInv'
  <2>1. Starts(o) /\ strayed' = strayed
    BY <1>1, <1>5, CallStarts DEF Starts, theft
  <2> QED BY <1>1, <2>1, StartsCalm, CalmKeeps
<1>6. ASSUME NEW o \in Op, Step(o) \/ Fault(o) \/ Overtake(o)
       PROVE  Firm(o) /\ (strayed => strayed')
  BY <1>1, <1>6, Firmness DEF Firm
<1>7. \A o \in Op : Helpers(o) \/ Body(o) \/ Ask(o) => Step(o)
  BY DEF Step
<1>8. ASSUME NEW o \in Op, RefreshRotates(o), Firm(o)
      PROVE  SessionInv'
  <2>1. /\ op[o].pc = "rotating" /\ op[o].got \in Session /\ ControlStep(o)
        /\ status[op[o].got.fam] = "live" /\ gen[op[o].got.fam] = op[o].got.gen
        /\ op[o].got.gen < MaxGen
    BY <1>1, <1>8, Known, RefreshControl DEF RefreshRotates, Goes, At, Revoked
  <2>2. /\ [op[o].got EXCEPT !.gen = op[o].got.gen + 1] \in Session
        /\ [op[o].got EXCEPT !.gen = op[o].got.gen + 1].fam = op[o].got.fam
        /\ [op[o].got EXCEPT !.gen = op[o].got.gen + 1].gen = op[o].got.gen + 1
        /\ op[o].got.fam \in Fam
    BY <1>1, <2>1, Generations
  <2>3. /\ op'[o].pc = "save1" /\ op'[o].kind = op[o].kind
        /\ op'[o].got = [op[o].got EXCEPT !.gen = op[o].got.gen + 1]
    BY <1>1, <1>8, <2>2, Fields DEF RefreshRotates
  <2>4. /\ UNCHANGED <<stored, status, signedOut, refused, mishaps, reused>>
        /\ gen' = [gen EXCEPT ![op[o].got.fam] = op[o].got.gen + 1]
    BY <1>8 DEF RefreshRotates, storage, history
  <2>5. Rotates(o)
    BY <1>1, <2>1, <2>2, <2>3, <2>4 DEF Rotates
  <2> QED BY <1>1, <1>8, <2>5, RotateKeeps
<1>9. ASSUME NEW o \in Op, AnsweredVerify(o), Firm(o)
      PROVE  SessionInv'
  <2>1. /\ op[o].pc = "request" /\ op[o].kind = "verify" /\ op[o].got \in Session
        /\ ControlStep(o) /\ status[op[o].got.fam] = "live" /\ gen[op[o].got.fam] < MaxGen
    BY <1>1, <1>9, AskControl
       DEF Ask, AnsweredVerify, InRequest, Goes, At, LiveToken, HasSession, Revoked
  <2>2. /\ op[o].got.fam \in Fam /\ gen[op[o].got.fam] + 1 \in 0 .. MaxGen
        /\ [fam |-> op[o].got.fam, gen |-> gen[op[o].got.fam] + 1] \in Session
    BY <1>1, <2>1, Generations
  <2>3. /\ op'[o].pc = "save1" /\ op'[o].kind = op[o].kind
        /\ op'[o].got = [fam |-> op[o].got.fam, gen |-> gen[op[o].got.fam] + 1]
    BY <1>1, <1>9, <2>2, Fields DEF AnsweredVerify
  <2>4. /\ UNCHANGED <<stored, status, signedOut, refused, mishaps, reused>>
        /\ gen' = [gen EXCEPT ![op[o].got.fam] = gen[op[o].got.fam] + 1]
    BY <1>9 DEF AnsweredVerify, storage, history
  <2>5. Rotates(o)
    BY <1>1, <2>1, <2>2, <2>3, <2>4 DEF Rotates
  <2> QED BY <1>1, <1>9, <2>5, RotateKeeps
<1>10. ASSUME NEW o \in Op, RefreshReuses(o), Firm(o)
      PROVE  SessionInv'
  <2>1. /\ op[o].pc = "rotating" /\ op[o].got \in Session /\ ControlStep(o)
        /\ status[op[o].got.fam] = "live" /\ gen[op[o].got.fam] > op[o].got.gen
        /\ UNCHANGED <<stored, gen, signedOut, mishaps>>
    BY <1>1, <1>10, Known, RefreshControl DEF RefreshReuses, Goes, At, Revoked, storage
  <2>2. /\ [op[o].got EXCEPT !.gen = gen[op[o].got.fam]] \in Session
        /\ [op[o].got EXCEPT !.gen = gen[op[o].got.fam]].fam = op[o].got.fam
        /\ [op[o].got EXCEPT !.gen = gen[op[o].got.fam]].gen = gen[op[o].got.fam]
        /\ op[o].got.fam \in Fam /\ op[o].got.gen \in Nat /\ gen[op[o].got.fam] \in Nat
    BY <1>1, <2>1, Generations
  <2>3. CASE /\ GoWith(o, "save1", [op[o].got EXCEPT !.gen = gen[op[o].got.fam]])
             /\ UNCHANGED <<status, refused>>
    <3>1. /\ op'[o].pc = "save1" /\ op'[o].kind = op[o].kind
          /\ op'[o].got = [op[o].got EXCEPT !.gen = gen[op[o].got.fam]]
      BY <1>1, <2>2, <2>3, Fields
    <3>2. Rotates(o)
      BY <2>1, <2>2, <2>3, <3>1 DEF Rotates
    <3> QED BY <1>1, <1>10, <3>2, RotateKeeps
  <2>4. CASE /\ status' = [status EXCEPT ![op[o].got.fam] = "revoked"]
             /\ refused' = refused \cup {op[o].got} /\ Fail(o, "remove1", "denied")
    <3>1. op'[o].pc = "remove1" /\ op'[o].kind = op[o].kind /\ op'[o].got = NoSession
      BY <1>1, <2>4, Fields
    <3>2. \A g \in Fam : status'[g] = "unused" <=> status[g] = "unused"
      BY <1>1, <2>1, <2>4
    <3>3. Condemns(o)
      BY <2>1, <2>2, <2>4, <3>1, <3>2 DEF Condemns
    <3> QED BY <1>1, <1>10, <3>3, CondemnKeeps
  <2> QED BY <1>10, <2>3, <2>4 DEF RefreshReuses
<1>11. ASSUME NEW o \in Op, RefreshRefused(o), Firm(o)
      PROVE  SessionInv'
  <2>1. /\ op[o].pc = "rotating" /\ op[o].got \in Session /\ ControlStep(o)
        /\ UNCHANGED <<stored, gen, status, signedOut, mishaps, reused>>
        /\ refused' = refused \cup {op[o].got}
    BY <1>1, <1>11, Known, RefreshControl DEF RefreshRefused, Goes, At, storage, server
  <2>2. op'[o].pc = "remove1" /\ op'[o].kind = op[o].kind /\ op'[o].got = NoSession
    BY <1>1, <1>11, Fields DEF RefreshRefused
  <2>3. Condemns(o)
    BY <2>1, <2>2 DEF Condemns
  <2> QED BY <1>1, <1>11, <2>3, CondemnKeeps
<1>12. ASSUME NEW o \in Op, Forget(o), AnsweredSignOut(o) \/ SignOutFails(o), Firm(o)
       PROVE  SessionInv'
  <2>1. /\ op[o].pc = "request" /\ op[o].kind = "signOut" /\ ControlStep(o)
        /\ UNCHANGED <<stored, gen, mishaps, reused, refused>>
        /\ \/ status' = status
           \/ /\ status' = [status EXCEPT ![op[o].got.fam] = "revoked"]
              /\ op[o].got \in Session /\ status[op[o].got.fam] = "live"
    BY <1>1, <1>12, AskControl DEF Ask, Forget, AnsweredSignOut, SignOutFails, InRequest, Goes, At,
                                   LiveToken, HasSession, Revoked, storage, server
  <2>2. op'[o].pc = "remove1" /\ op'[o].kind = op[o].kind /\ op'[o].got = NoSession
    BY <1>1, <1>12, Fields DEF Forget
  <2>3. CASE op[o].got \in Session
    <3>1. \A g \in Fam : status'[g] = "unused" <=> status[g] = "unused"
      BY <1>1, <2>1
    <3>2. signedOut' = signedOut \cup {op[o].got.fam}
      BY <1>12, <2>3 DEF Forget, HasSession
    <3>3. Condemns(o)
      BY <2>1, <2>2, <2>3, <3>1, <3>2 DEF Condemns
    <3> QED BY <1>1, <1>12, <3>3, CondemnKeeps
  <2>4. CASE op[o].got \notin Session
    <3>1. Still
      BY <1>12, <2>1, <2>4 DEF Forget, HasSession, Still
    <3>2. Calm
      BY <1>1, <1>12, <2>1, <2>2, <3>1, StillKept, ClearCalm DEF Saving
    <3> QED BY <1>1, <1>12, <3>2, CalmKeeps DEF Firm
  <2> QED BY <2>3, <2>4
<1>13. ASSUME NEW o \in Op, Helpers(o)
       PROVE  SessionInv'
  <2> USE <1>1
  <2>0. Firm(o) /\ (strayed => strayed')
    BY <1>13, <1>6, <1>7
  <2>1. CASE Save2(o)
    BY <2>0, <2>1, SaveKeeps
  <2>2. CASE Acquire(o) \/ AcquireTimesOut(o) \/ InitializeRejected(o) \/ Queue(o) \/ LeaveQueue(o)
    BY <2>0, <2>2, LockIsCalm, CalmKeeps
  <2>3. CASE \/ LoadNothing(o) \/ LoadBroken(o) \/ LoadExpired(o) \/ RecoverExpired(o)
             \/ LoadValid(o) \/ RecoverValid(o)
    BY <2>0, <2>3, LoadIsCalm, CalmKeeps
  <2>4. CASE Remove1(o)
    BY <2>0, <2>4, LossIsCalm, CalmKeeps
  <2>5. CASE \/ Save1(o) \/ TimerFires(o) \/ Remove2(o) \/ Removed(o) \/ DropVerifier(o)
             \/ Refreshed(o) \/ SaidSignedIn(o) \/ SaidSignedOut(o)
    BY <2>0, <2>5, TellIsCalm, CalmKeeps
  <2> QED BY <1>8, <1>10, <1>11, <1>13, <2>0, <2>1, <2>2, <2>3, <2>4, <2>5 DEF Helpers
<1>14. ASSUME NEW o \in Op, Ask(o)
       PROVE  SessionInv'
  <2> USE <1>1
  <2>0. Firm(o) /\ (strayed => strayed')
    BY <1>14, <1>6, <1>7
  <2>1. CASE AnsweredSession(o)
    BY <2>0, <2>1, IssueKeeps
  <2>2. CASE StoreVerifier(o) \/ Answered(o) \/ AnsweredUser(o) \/ GetUserMissing(o)
             \/ RequestFails(o)
    BY <2>0, <2>2, AskIsCalm, CalmKeeps
  <2>3. CASE AnsweredSignOut(o)
    BY <1>12, <2>0, <2>3 DEF AnsweredSignOut
  <2>4. CASE SignOutFails(o)
    <3>1. CASE Forget(o)
      BY <1>12, <2>0, <2>4, <3>1
    <3>2. CASE \E e \in {"retryable", "denied"} : End(o, e) /\ UNCHANGED history
      BY <2>0, <2>4, <3>2, LossIsCalm, CalmKeeps
    <3> QED BY <2>4, <3>1, <3>2 DEF SignOutFails
  <2> QED BY <1>9, <1>14, <2>0, <2>1, <2>2, <2>3, <2>4 DEF Ask
<1>15. ASSUME NEW o \in Op, Fault(o)
       PROVE  SessionInv'
  <2> USE <1>1
  <2>0. Firm(o) /\ (strayed => strayed')
    BY <1>15, <1>6
  <2>1. CASE RefreshLost(o) \/ AnswerLost(o)
    BY <2>0, <2>1, LossIsCalm, CalmKeeps
  <2>2. CASE SignedInThrew(o) \/ SignedOutThrew(o)
    BY <2>0, <2>2, TellIsCalm, CalmKeeps
  <2>3. CASE LockFails(o)
    BY <2>0, <2>3, LockIsCalm, CalmKeeps
  <2> QED BY <1>15, <2>1, <2>2, <2>3 DEF Fault
<1>16. ASSUME NEW o \in Op, Body(o)
       PROVE  SessionInv'
  <2>1. Firm(o) /\ (strayed => strayed')
    BY <1>16, <1>6, <1>7
  <2> QED BY <1>1, <1>16, <2>1, BodyIsCalm, CalmKeeps
<1>17. ASSUME NEW o \in Op, Overtake(o)
       PROVE  SessionInv'
  <2>1. Firm(o) /\ (strayed => strayed')
    BY <1>6, <1>17
  <2> QED BY <1>1, <1>17, <2>1, LockIsCalm, CalmKeeps
<1> QED BY <1>2, <1>3, <1>4, <1>5, <1>13, <1>14, <1>15, <1>16, <1>17 DEF Next, Step

\* At the start nothing has happened to the tokens.
LEMMA SessionInit ==
    ASSUME Init
    PROVE  SessionInv
<1>1. /\ \A o \in Op : op[o] = Idle
      /\ holder = NoOp /\ \A c \in Client : refreshing[c] = NoOp
      /\ stored \in {NoSession, Broken, First} /\ gen = [f \in Fam |-> 0]
      /\ \A f \in Fam : (status[f] = "unused") <=> f > 2
      /\ mishaps = {} /\ reused = FALSE /\ signedOut = {} /\ refused = {}
      /\ Idle.pc = "idle" /\ Idle.kind = "none" /\ Idle.got = NoSession
  BY DEF Init, Idle
<1>2. ControlInv
  BY ControlInit
<1>3. 1 \in Fam /\ 2 \in Fam /\ First.fam = 1 /\ First.gen = 0
  BY AuthSessionAssumption DEF Fam, First
<1>4. SessionsIssued
  BY <1>1, <1>3, Constants DEF SessionsIssued, Issued
<1>5. OrderFits /\ LooseSavesAreNew /\ DeadStayDead
  <2>1. \A x \in Op : ~Astray(x) /\ op[x].pc \notin Saving /\ op[x].pc # "await"
                      /\ op[x].kind # "setSession"
    BY <1>1 DEF Astray, Running, Inner, Saving
  <2>2. OrderFits
    BY <1>1, <2>1 DEF OrderFits, At
  <2> QED BY <1>1, <2>1, <2>2 DEF LooseSavesAreNew, DeadStayDead, Carries
<1>6. TokensCurrent
  BY <1>1, <1>3, Constants DEF TokensCurrent, Current, Carries
<1> QED BY <1>2, <1>4, <1>5, <1>6 DEF SessionInv
-----------------------------------------------------------------------------
(***************************************************************************)
(* What holds in every reachable state.                                    *)
(***************************************************************************)
\* The invariant of the session: where the calls are, who is astray, whose the
\* sessions are and which tokens are current.
THEOREM Invariance == Spec => []SessionInv
<1>1. Init => SessionInv
  BY SessionInit
<1>2. SessionInv /\ [Next]_vars => SessionInv'
  BY SessionKept
<1> QED BY <1>1, <1>2, PTL DEF Spec

\* No refresh token is sent twice, as long as every refresh runs under the lock
\* with what it loaded, nobody goes on who lost the lock, and no answer is lost.
THEOREM TokensOnce == Spec => []TokensUsedOnce
<1>1. ASSUME SessionInv PROVE TokensUsedOnce
  BY <1>1 DEF SessionInv, TokensCurrent, TokensUsedOnce
<1> QED BY <1>1, Invariance, PTL

\* What signOut removed is stored only while signOut is about to remove it, also
\* when the lock was taken from an operation that hangs.
THEOREM SignedOutForGood == Spec => []SignedOutStays
<1>1. ASSUME SessionInv PROVE SignedOutStays
  BY <1>1 DEF SessionInv, DeadStayDead, SignedOutStays
<1> QED BY <1>1, Invariance, PTL

\* A token the server refused is stored only until somebody removes it, also when
\* answers are lost, sign-ins run beside the refresh and the lock is taken from an
\* operation that hangs.
THEOREM RefusedForGood == Spec => []RefusedIsForgotten
<1>1. ASSUME SessionInv PROVE RefusedIsForgotten
  <2> SUFFICES ASSUME stored \in refused, Ordered
               PROVE  \E o \in Op : At(o, "remove1")
    BY DEF RefusedIsForgotten
  <2>1. stored \in Session
    BY <1>1 DEF SessionInv, ControlInv, TypeOK
  <2> QED BY <1>1, <2>1 DEF SessionInv, DeadStayDead
<1> QED BY <1>1, Invariance, PTL
=============================================================================
