-------------------------- MODULE ProcessLockProofs --------------------------
(***************************************************************************)
(* Proofs about ProcessLock for every number of calls.                     *)
(*                                                                         *)
(* Mutual exclusion is not inductive: it does not say why the promise that *)
(* a call captured being settled means that all earlier operations ended.  *)
(* ChainInv says it: the promises form one chain in call order (Linked), a *)
(* settled promise has only finished calls behind it (SettledMeansOver),   *)
(* and so has every operation that was ever started (StartedMeansOver).    *)
(***************************************************************************)
EXTENDS ProcessLock, TLAPS

\* Calls are numbered without gaps and each captured its predecessor's promise.
Linked ==
    \A c \in Calls : /\ op[c] = "idle" <=> c > tail
                     /\ c <= tail => previous[c] = c - 1

\* The promise of a call settles after every call up to it is over.
SettledMeansOver ==
    \A c, d \in Calls : Settled(c) /\ d <= c => Over(d)

\* The operation of a call starts after every earlier call is over.
StartedMeansOver ==
    \A c, d \in Calls :
        op[c] \in {"running"} \cup FnOutcomes /\ d < c => Over(d)

ChainInv == TypeOK /\ Linked /\ SettledMeansOver /\ StartedMeansOver
-----------------------------------------------------------------------------
\* The empty chain satisfies the invariant.
LEMMA InitChainInv == Init => ChainInv
<1> SUFFICES ASSUME Init PROVE ChainInv
  OBVIOUS
<1> USE DEF Calls, NoCall
<1>1. TypeOK
  BY DEF Init, TypeOK, OpStates, ChainStates
<1>2. Linked
  BY MaxCallsAssumption DEF Init, Linked
<1>3. SettledMeansOver
  BY MaxCallsAssumption DEF Init, SettledMeansOver, Settled
<1>4. StartedMeansOver
  BY DEF Init, StartedMeansOver, FnOutcomes
<1>5. QED
  BY <1>1, <1>2, <1>3, <1>4 DEF ChainInv

\* A call that is over stays over: no action restarts it.
LEMMA OverIsStable ==
  ASSUME ChainInv, [Next]_vars, NEW d \in Calls, Over(d)
  PROVE  Over(d)'
<1> USE DEF ChainInv, TypeOK, Over, FnOutcomes
<1>1. CASE UNCHANGED vars
  BY <1>1 DEF vars
<1>2. ASSUME NEW c \in Calls, NEW timer \in BOOLEAN, Enter(c, timer)
      PROVE  Over(d)'
  <2>1. op[c] = "idle"
    BY <1>2 DEF Enter, Linked, Calls, NoCall
  <2>2. QED
    BY <1>2, <2>1 DEF Enter
<1>3. ASSUME NEW c \in Calls, Start(c) \/ GiveUp(c) \/ ChainSettles(c)
      PROVE  Over(d)'
  BY <1>3 DEF Start, GiveUp, ChainSettles
<1>4. ASSUME NEW c \in Calls, NEW outcome \in FnOutcomes, FnSettles(c, outcome)
      PROVE  Over(d)'
  BY <1>4 DEF FnSettles
<1>5. QED
  BY <1>1, <1>2, <1>3, <1>4 DEF Next

\* The type invariant is preserved.
LEMMA TypeStep == ChainInv /\ [Next]_vars => TypeOK'
<1> SUFFICES ASSUME ChainInv, [Next]_vars PROVE TypeOK'
  OBVIOUS
<1> USE DEF ChainInv, TypeOK, OpStates, FnOutcomes, ChainStates
<1>1. CASE UNCHANGED vars
  BY <1>1 DEF vars
<1>2. ASSUME NEW c \in Calls, NEW timer \in BOOLEAN, Enter(c, timer)
      PROVE  TypeOK'
  BY <1>2 DEF Enter
<1>3. ASSUME NEW c \in Calls, Start(c) \/ GiveUp(c)
      PROVE  TypeOK'
  BY <1>3 DEF Start, GiveUp
<1>4. ASSUME NEW c \in Calls, NEW outcome \in FnOutcomes, FnSettles(c, outcome)
      PROVE  TypeOK'
  BY <1>4 DEF FnSettles
<1>5. ASSUME NEW c \in Calls, ChainSettles(c)
      PROVE  TypeOK'
  BY <1>5 DEF ChainSettles
<1>6. QED
  BY <1>1, <1>2, <1>3, <1>4, <1>5 DEF Next

\* Only Enter extends the chain, by the next call.
LEMMA LinkedStep == ChainInv /\ [Next]_vars => Linked'
<1> SUFFICES ASSUME ChainInv, [Next]_vars PROVE Linked'
  OBVIOUS
<1> USE DEF ChainInv, TypeOK, Linked, Calls, NoCall
<1>1. CASE UNCHANGED vars
  BY <1>1 DEF vars
<1>2. ASSUME NEW c \in Calls, NEW timer \in BOOLEAN, Enter(c, timer)
      PROVE  Linked'
  BY <1>2 DEF Enter
<1>3. ASSUME NEW c \in Calls, Start(c) \/ GiveUp(c) \/ ChainSettles(c)
      PROVE  Linked'
  BY <1>3 DEF Start, GiveUp, ChainSettles
<1>4. ASSUME NEW c \in Calls, NEW outcome \in FnOutcomes, FnSettles(c, outcome)
      PROVE  Linked'
  BY <1>4 DEF FnSettles, FnOutcomes
<1>5. QED
  BY <1>1, <1>2, <1>3, <1>4 DEF Next

\* Only ChainSettles can make this false: it needs that the call itself is
\* over and, after a timeout, that the promise before it has settled.
LEMMA SettledStep == ChainInv /\ [Next]_vars => SettledMeansOver'
<1> SUFFICES ASSUME ChainInv, [Next]_vars,
                    NEW c \in Calls, NEW d \in Calls, Settled(c)', d <= c
             PROVE  Over(d)'
  BY DEF SettledMeansOver
<1>1. CASE Settled(c)
  BY <1>1, OverIsStable DEF ChainInv, SettledMeansOver
<1>2. CASE ~Settled(c)
  <2>1. ChainSettles(c)
    BY <1>2 DEF ChainInv, TypeOK, Next, vars, Enter, Start, GiveUp, FnSettles,
                ChainSettles, Settled
  <2>2. Over(c)
    BY <2>1 DEF ChainSettles, Over, FnOutcomes
  <2>3. ASSUME d < c PROVE Over(d)
    <3>1. CASE op[c] \in {"resolved", "rejected"}
      BY <2>3, <3>1 DEF ChainInv, StartedMeansOver, FnOutcomes
    <3>2. CASE op[c] \in {"timedOut", "nested"}
      <4>1. Settled(previous[c]) /\ previous[c] = c - 1
        BY <2>1, <3>2 DEF ChainSettles, ChainInv, Linked, TypeOK, Calls, NoCall
      <4>2. c - 1 \in Calls /\ d <= c - 1
        BY <2>3, MaxCallsAssumption DEF Calls
      <4>3. QED
        BY <4>1, <4>2 DEF ChainInv, SettledMeansOver
    <3>3. QED
      BY <2>1, <3>1, <3>2 DEF ChainSettles
  <2>4. d = c \/ d < c
    BY DEF Calls
  <2>5. QED
    BY <2>2, <2>3, <2>4, OverIsStable
<1>3. QED
  BY <1>1, <1>2

\* An operation starts only when the promise its call captured has settled.
LEMMA StartedStep == ChainInv /\ [Next]_vars => StartedMeansOver'
<1> SUFFICES ASSUME ChainInv, [Next]_vars, NEW c \in Calls, NEW d \in Calls,
                    (op[c] \in {"running"} \cup FnOutcomes)', d < c
             PROVE  Over(d)'
  BY DEF StartedMeansOver
<1>1. CASE op[c] \in {"running"} \cup FnOutcomes
  BY <1>1, OverIsStable DEF ChainInv, StartedMeansOver
<1>2. CASE op[c] \notin {"running"} \cup FnOutcomes
  <2>1. Start(c)
    BY <1>2 DEF ChainInv, TypeOK, Next, vars, Enter, Start, GiveUp, FnSettles,
                ChainSettles, FnOutcomes
  <2>2. Settled(c - 1)
    BY <2>1 DEF Start, ChainInv, Linked, TypeOK, Calls, NoCall
  <2>3. c - 1 \in Calls /\ d <= c - 1
    BY MaxCallsAssumption DEF Calls
  <2>4. Over(d)
    BY <2>2, <2>3 DEF ChainInv, SettledMeansOver
  <2>5. QED
    BY <2>4, OverIsStable
<1>3. QED
  BY <1>1, <1>2

\* In every reachable state the promises form one chain, and what has settled or
\* started has only finished calls behind it.
THEOREM ChainInvHolds == Spec => []ChainInv
<1>1. ChainInv /\ [Next]_vars => ChainInv'
  BY TypeStep, LinkedStep, SettledStep, StartedStep DEF ChainInv
<1>2. QED
  BY InitChainInv, <1>1, PTL DEF Spec
-----------------------------------------------------------------------------
\* Every variable of processLock keeps its type, for any number of calls.
THEOREM TypeCorrect == Spec => []TypeOK
  BY ChainInvHolds, PTL DEF ChainInv

\* Operations run in call order: when fn of a call runs, every earlier call
\* is over (it ran to its end or timed out).
THEOREM RunsInCallOrder == Spec => []CallOrder
<1>1. ChainInv => CallOrder
  BY DEF ChainInv, StartedMeansOver, CallOrder
<1>2. QED
  BY <1>1, ChainInvHolds, PTL

\* processLock never runs two operations at once, for any number of calls and
\* any pattern of timeouts and failures among them.
THEOREM Exclusive == Spec => []MutualExclusion
<1>1. ChainInv => MutualExclusion
  <2> SUFFICES ASSUME ChainInv, NEW c \in Calls, NEW d \in Calls,
                      op[c] = "running", op[d] = "running"
               PROVE  c = d
    BY DEF MutualExclusion
  <2>1. ~(c < d) /\ ~(d < c)
    BY DEF ChainInv, StartedMeansOver, Over, FnOutcomes
  <2>2. QED
    BY <2>1 DEF Calls
<1>2. QED
  BY <1>1, ChainInvHolds, PTL
-----------------------------------------------------------------------------
-----------------------------------------------------------------------------
\* The initial states map to the initial state of the abstract lock.
LEMMA ContractInit == Init => Contract!Init
  BY DEF Init, Contract!Init, lockPhases, PhaseOf, OpStates, FnOutcomes

\* Entering the lock is a request, giving up a refusal, starting fn a grant
\* and the end of fn a release; a promise that settles is a stutter.
LEMMA ContractStep == ChainInv /\ [Next]_vars => [Contract!Next]_lockPhases
<1> SUFFICES ASSUME ChainInv, [Next]_vars PROVE [Contract!Next]_lockPhases
  OBVIOUS
<1> USE DEF lockPhases
<1>1. CASE UNCHANGED vars
  BY <1>1 DEF vars
<1>2. ASSUME NEW c \in Calls, NEW timer \in BOOLEAN, Enter(c, timer)
      PROVE  Contract!Request(c)
  <2>1. op[c] = "idle"
    BY <1>2 DEF ChainInv, TypeOK, Linked, Enter, Calls, NoCall
  <2>2. op' = [op EXCEPT ![c] = "waiting"] /\ op \in [Calls -> OpStates]
    BY <1>2 DEF Enter, ChainInv, TypeOK
  <2>3. QED
    BY <2>1, <2>2 DEF Contract!Request, PhaseOf, OpStates, FnOutcomes
<1>3. ASSUME NEW c \in Calls, Start(c)
      PROVE  Contract!Grant(c)
  <2>1. op[c] = "waiting" /\ op' = [op EXCEPT ![c] = "running"]
        /\ op \in [Calls -> OpStates]
    BY <1>3 DEF Start, ChainInv, TypeOK
  <2>2. ASSUME NEW d \in Calls, op[d] = "running" PROVE FALSE
    <3>1. Settled(c - 1)
      BY <1>3, <2>1 DEF Start, ChainInv, Linked, TypeOK, Calls, NoCall
    <3>2. CASE d < c
      <4>1. c - 1 \in Calls /\ d <= c - 1
        BY <3>2, MaxCallsAssumption DEF Calls
      <4>2. QED
        BY <2>2, <3>1, <4>1 DEF ChainInv, SettledMeansOver, Over, FnOutcomes
    <3>3. CASE c < d
      BY <2>1, <2>2, <3>3 DEF ChainInv, StartedMeansOver, Over, FnOutcomes
    <3>4. QED
      BY <2>1, <2>2, <3>2, <3>3 DEF Calls
  <2>3. Contract!Holders = {}
    BY <2>1, <2>2 DEF Contract!Holders, PhaseOf, OpStates, FnOutcomes
  <2>4. QED
    BY <2>1, <2>3 DEF Contract!Grant, PhaseOf, OpStates, FnOutcomes
<1>4. ASSUME NEW c \in Calls, GiveUp(c)
      PROVE  Contract!Refuse(c)
  BY <1>4 DEF GiveUp, ChainInv, TypeOK, Contract!Refuse, PhaseOf, OpStates, FnOutcomes
<1>5. ASSUME NEW c \in Calls, NEW outcome \in FnOutcomes, FnSettles(c, outcome)
      PROVE  Contract!Finish(c)
  BY <1>5 DEF FnSettles, ChainInv, TypeOK, Contract!Finish, PhaseOf, OpStates, FnOutcomes
<1>6. ASSUME NEW c \in Calls, ChainSettles(c)
      PROVE  UNCHANGED lockPhases
  BY <1>6 DEF ChainSettles
<1>7. QED
  BY <1>1, <1>2, <1>3, <1>4, <1>5, <1>6 DEF Next, Contract!Next

\* processLock keeps the contract of LockFunc without ever stealing, for any
\* number of calls.
THEOREM RefinesLockFunc == Spec => ImplementsLockFunc
<1>1. Spec => Contract!Init /\ [][Contract!Next]_lockPhases
  BY ContractInit, ContractStep, ChainInvHolds, PTL DEF Spec
<1>2. QED
  BY <1>1 DEF ImplementsLockFunc, Contract!Spec
=============================================================================
