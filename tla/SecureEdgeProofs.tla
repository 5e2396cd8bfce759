--------------------------- MODULE SecureEdgeProofs ---------------------------
(***************************************************************************)
(* Proofs about SecureEdge, for any number of calls, isolates and mishaps, *)
(* any limit and any window.                                               *)
(*                                                                         *)
(* A step moves one call, or the clock, or the key of the server.  What it *)
(* does to the calls, to the memory of an isolate and to the table is      *)
(* shown apart; most steps leave the latter two alone.                     *)
(***************************************************************************)
EXTENDS SecureEdge, SequenceTheorems, TLAPS

\* A call cl that was run n times and has the request r, fallback allowed if f.
Bound(f, cl) == IF f /\ cl.to = "own" THEN 2 ELSE 1
Waits(r) == r.at \in {"sent", "reading", "read", "admitted"}

Fits(f, cl, r, n) ==
    /\ cl.at \in {"fetching", "importing", "sealing"} => r.at = "none"
    /\ cl.at = "waiting" =>
        /\ n <= 1
        /\ Waits(r) => r.sealed /\ n = 0
        /\ r.answer = "data" => cl.to = "own"
    /\ cl.at = "ok" => n >= 1
    /\ r.at = "none" => n = 0
    /\ r.at \in {"reading", "read", "admitted"} => cl.to = "proxy"
    /\ Waits(r) => n < Bound(f, cl)
    /\ r.at = "answered" => r.answer = "error" \/ n >= 1
    /\ n <= Bound(f, cl)

LEMMA CallByCall ==
    RequestsFit <=> \A c \in Calls : Fits(allowPlainFallback, call[c], request[c], ran[c])
BY DEF RequestsFit, Fits, Bound, Waits, Pending, Most

\* A step moves the records of one call.
LEMMA OneCall ==
    ASSUME RequestsFit, NEW c \in Calls, allowPlainFallback' = allowPlainFallback,
           \A d \in Calls : d # c => /\ call'[d] = call[d] /\ request'[d] = request[d]
                                     /\ ran'[d] = ran[d],
           Fits(allowPlainFallback, call'[c], request'[c], ran'[c])
    PROVE  RequestsFit'
<1> SUFFICES ASSUME NEW d \in Calls
             PROVE  Fits(allowPlainFallback, call'[d], request'[d], ran'[d])
  BY DEF RequestsFit, Fits, Bound, Waits, Pending, Most
<1>1. Fits(allowPlainFallback, call[d], request[d], ran[d])
  BY CallByCall
<1> QED
  BY <1>1
-----------------------------------------------------------------------------
\* The helpers, as records.
LEMMA Sends ==
    ASSUME TypeOK, NEW c \in Calls, NEW sealed \in BOOLEAN, send(c, sealed)
    PROVE  /\ request' \in [Calls -> Request]
           /\ \A d \in Calls : d # c => request'[d] = request[d]
           /\ request'[c].at = "sent" /\ request'[c].sealed = sealed
           /\ request'[c].answer = "none"
<1>1. call[c].key \in Nat \cup {None}
  BY DEF TypeOK, Call
<1>2. [NoRequest EXCEPT !.at = "sent", !.sealed = sealed,
                        !.key = IF sealed THEN call[c].key ELSE None] \in Request
  BY <1>1 DEF NoRequest, Request
<1> QED
  BY <1>2 DEF send, TypeOK, NoRequest

LEMMA Answers ==
    ASSUME TypeOK, NEW c \in Calls, NEW a \in {"envelope", "data", "error"}, answer(c, a)
    PROVE  /\ request' \in [Calls -> Request]
           /\ \A d \in Calls : d # c => request'[d] = request[d]
           /\ request'[c].at = "answered" /\ request'[c].answer = a
<1>1. [NoRequest EXCEPT !.at = "answered", !.answer = a] \in Request
  BY DEF NoRequest, Request
<1> QED
  BY <1>1 DEF answer, TypeOK, NoRequest

LEMMA Admits ==
    ASSUME TypeOK, NEW c \in Calls, admit(c)
    PROVE  /\ request' \in [Calls -> Request]
           /\ \A d \in Calls : d # c => request'[d] = request[d]
           /\ request'[c].at = "admitted" /\ request'[c].sealed = request[c].sealed
           /\ request'[c].answer = request[c].answer
<1>1. request[c] \in Request
  BY DEF TypeOK
<1>2. [request[c] EXCEPT !.at = "admitted", !.now = 0, !.row = None] \in Request
  BY <1>1 DEF Request
<1>3. request' = [request EXCEPT ![c] = [request[c] EXCEPT !.at = "admitted", !.now = 0,
                                                           !.row = None]]
  BY DEF admit, TypeOK
<1> QED
  BY <1>1, <1>2, <1>3 DEF TypeOK, Request

\* A call at another place.
LEMMA Moves ==
    ASSUME TypeOK, NEW c \in Calls,
           NEW at \in {"idle", "fetching", "importing", "sealing", "waiting", "plain", "ok",
                       "failed"},
           call' = [call EXCEPT ![c].at = at]
    PROVE  /\ call' \in [Calls -> Call]
           /\ \A d \in Calls : d # c => call'[d] = call[d]
           /\ call'[c].at = at /\ call'[c].to = call[c].to
<1>1. call[c] \in Call
  BY DEF TypeOK
<1> QED
  BY <1>1 DEF TypeOK, Call

LEMMA Catches ==
    ASSUME TypeOK, NEW c \in Calls, NEW setup \in BOOLEAN, caught(c, setup)
    PROVE  /\ call' \in [Calls -> Call] /\ request' \in [Calls -> Request]
           /\ \A d \in Calls : d # c => call'[d] = call[d] /\ request'[d] = request[d]
           /\ call'[c].to = call[c].to
           /\ \/ /\ allowPlainFallback /\ setup
                 /\ call'[c].at = "plain" /\ request'[c].at = "sent"
                 /\ request'[c].answer = "none"
              \/ call'[c].at = "failed" /\ request'[c] = request[c]
<1>1. CASE allowPlainFallback /\ setup
  <2>1. call' = [call EXCEPT ![c].at = "plain"] /\ send(c, FALSE)
    BY <1>1 DEF caught
  <2>2. /\ call' \in [Calls -> Call] /\ \A d \in Calls : d # c => call'[d] = call[d]
        /\ call'[c].at = "plain" /\ call'[c].to = call[c].to
    BY <2>1, Moves
  <2>3. /\ request' \in [Calls -> Request] /\ \A d \in Calls : d # c => request'[d] = request[d]
        /\ request'[c].at = "sent" /\ request'[c].answer = "none"
    BY <2>1, Sends
  <2> QED BY <1>1, <2>2, <2>3
<1>2. CASE ~(allowPlainFallback /\ setup)
  <2>1. call' = [call EXCEPT ![c].at = "failed"] /\ request' = request
    BY <1>2 DEF caught
  <2> QED BY <2>1, Moves DEF TypeOK
<1> QED
  BY <1>1, <1>2
-----------------------------------------------------------------------------
\* What the steps of the client do to the calls.
CallsTyped == call \in [Calls -> Call] /\ request \in [Calls -> Request] /\ ran \in [Calls -> Nat]

LEMMA InvokeFits ==
    ASSUME TypeOK, RequestsFit, NEW c \in Calls, NEW to \in {"proxy", "own"}, invoke(c, to)
    PROVE  CallsTyped' /\ RequestsFit'
<1> DEFINE new == IF cachedPublicKey # None
                  THEN [at |-> "sealing", to |-> to, key |-> cachedPublicKey]
                  ELSE IF keyGiven THEN [at |-> "importing", to |-> to, key |-> 0]
                  ELSE [at |-> "fetching", to |-> to, key |-> None]
<1>1. /\ call' = [call EXCEPT ![c] = new] /\ request' = [request EXCEPT ![c] = NoRequest]
      /\ ran' = [ran EXCEPT ![c] = 0] /\ allowPlainFallback' = allowPlainFallback
  BY DEF invoke, options
<1>2. new \in Call /\ new.at \in {"fetching", "importing", "sealing"}
  BY DEF TypeOK, Call
<1>3. NoRequest \in Request /\ NoRequest.at = "none" /\ NoRequest.answer = "none"
  BY DEF NoRequest, Request
<1> HIDE DEF new
<1>4. CallsTyped'
  BY <1>1, <1>2, <1>3 DEF CallsTyped, TypeOK
<1>5. /\ call'[c] = new /\ request'[c] = NoRequest /\ ran'[c] = 0
      /\ \A d \in Calls : d # c => /\ call'[d] = call[d] /\ request'[d] = request[d]
                                   /\ ran'[d] = ran[d]
  BY <1>1 DEF TypeOK
<1>6. Fits(allowPlainFallback, new, NoRequest, 0)
  BY <1>2, <1>3 DEF Fits, Bound, Waits
<1> QED
  BY <1>1, <1>4, <1>5, <1>6, OneCall

\* A call that moves on between invoke and its request.
LEMMA KeyFits ==
    ASSUME TypeOK, RequestsFit, NEW c \in Calls, KeyRead(c) \/ KeyImported(c)
    PROVE  CallsTyped' /\ RequestsFit'
<1>1. /\ call[c].at \in {"fetching", "importing"}
      /\ request' = request /\ ran' = ran /\ allowPlainFallback' = allowPlainFallback
  BY DEF KeyRead, KeyImported, options
<1>2. call[c] \in Call
  BY DEF TypeOK
<1>3. /\ call' \in [Calls -> Call] /\ \A d \in Calls : d # c => call'[d] = call[d]
      /\ call'[c].at \in {"importing", "sealing"} /\ call'[c].to = call[c].to
  <2>1. CASE KeyRead(c) BY <2>1, <1>2 DEF KeyRead, TypeOK, Call
  <2>2. CASE KeyImported(c) BY <2>2, <1>2 DEF KeyImported, TypeOK, Call
  <2> QED BY <2>1, <2>2
<1>4. CallsTyped'
  BY <1>1, <1>3 DEF CallsTyped, TypeOK
<1>5. Fits(allowPlainFallback, call[c], request[c], ran[c])
  BY CallByCall
<1>6. Fits(allowPlainFallback, call'[c], request'[c], ran'[c])
  BY <1>1, <1>3, <1>5 DEF Fits, Bound, Waits
<1> QED
  BY <1>1, <1>3, <1>4, <1>6, OneCall

LEMMA SealFits ==
    ASSUME TypeOK, RequestsFit, NEW c \in Calls, Seal(c)
    PROVE  CallsTyped' /\ RequestsFit'
<1>1. /\ call[c].at = "sealing" /\ ran' = ran /\ allowPlainFallback' = allowPlainFallback
      /\ send(c, TRUE)
      /\ call' = [call EXCEPT ![c].at = "waiting", ![c].key = None]
  BY DEF Seal, options
<1>2. call[c] \in Call
  BY DEF TypeOK
<1>3. /\ call' \in [Calls -> Call] /\ \A d \in Calls : d # c => call'[d] = call[d]
      /\ call'[c].at = "waiting" /\ call'[c].to = call[c].to
  BY <1>1, <1>2 DEF TypeOK, Call
<1>4. /\ request' \in [Calls -> Request] /\ \A d \in Calls : d # c => request'[d] = request[d]
      /\ request'[c].at = "sent" /\ request'[c].sealed = TRUE /\ request'[c].answer = "none"
  BY <1>1, Sends
<1>5. CallsTyped'
  BY <1>1, <1>3, <1>4 DEF CallsTyped, TypeOK
<1>6. Fits(allowPlainFallback, call[c], request[c], ran[c])
  BY CallByCall
<1>7. Fits(allowPlainFallback, call'[c], request'[c], ran'[c])
  BY <1>1, <1>3, <1>4, <1>6 DEF Fits, Bound, Waits
<1> QED
  BY <1>1, <1>3, <1>4, <1>5, <1>7, OneCall

\* A call that is caught: of setup, it was not run, or by a function that knows
\* no envelopes.
LEMMA CaughtFits ==
    ASSUME TypeOK, RequestsFit, NEW c \in Calls, NEW setup \in BOOLEAN, caught(c, setup),
           ran' = ran, allowPlainFallback' = allowPlainFallback,
           setup => \/ call[c].at \in {"fetching", "importing", "sealing"}
                    \/ call[c].at = "waiting" /\ request[c].answer = "data"
    PROVE  CallsTyped' /\ RequestsFit'
<1>1. /\ call' \in [Calls -> Call] /\ request' \in [Calls -> Request]
      /\ \A d \in Calls : d # c => call'[d] = call[d] /\ request'[d] = request[d]
      /\ call'[c].to = call[c].to
      /\ \/ /\ allowPlainFallback /\ setup
            /\ call'[c].at = "plain" /\ request'[c].at = "sent"
            /\ request'[c].answer = "none"
         \/ call'[c].at = "failed" /\ request'[c] = request[c]
  BY Catches
<1>2. CallsTyped'
  BY <1>1 DEF CallsTyped, TypeOK
<1>3. Fits(allowPlainFallback, call[c], request[c], ran[c]) /\ ran[c] \in Nat
  BY CallByCall DEF TypeOK
<1>4. Fits(allowPlainFallback, call'[c], request'[c], ran'[c])
  <2>1. CASE call'[c].at = "failed" /\ request'[c] = request[c]
    BY <2>1, <1>1, <1>3 DEF Fits, Bound, Waits
  <2>2. CASE /\ allowPlainFallback /\ setup
             /\ call'[c].at = "plain" /\ request'[c].at = "sent"
             /\ request'[c].answer = "none"
    <3>1. ran[c] < Bound(allowPlainFallback, call[c])
      BY <2>2, <1>3 DEF Fits, Bound
    <3> QED BY <2>2, <3>1, <1>1, <1>3 DEF Fits, Bound, Waits
  <2> QED BY <1>1, <2>1, <2>2
<1> QED
  BY <1>1, <1>2, <1>4, OneCall

LEMMA AnsweredFits ==
    ASSUME TypeOK, RequestsFit, NEW c \in Calls,
           SetupFails(c) \/ Opened(c) \/ PlainAnswered(c) \/ ConnectionFails(c)
    PROVE  CallsTyped' /\ RequestsFit'
<1>0. ran' = ran /\ allowPlainFallback' = allowPlainFallback
  BY DEF SetupFails, Opened, PlainAnswered, ConnectionFails, options
<1>1. ASSUME NEW at \in {"ok", "failed"}, call' = [call EXCEPT ![c].at = at], request' = request,
             at = "ok" => request[c].at = "answered" /\ request[c].answer # "error"
      PROVE  CallsTyped' /\ RequestsFit'
  <2>1. /\ call' \in [Calls -> Call] /\ \A d \in Calls : d # c => call'[d] = call[d]
        /\ call'[c].at = at /\ call'[c].to = call[c].to
    BY <1>1, Moves
  <2>2. CallsTyped'
    BY <1>0, <1>1, <2>1 DEF CallsTyped, TypeOK
  <2>3. Fits(allowPlainFallback, call[c], request[c], ran[c])
    BY CallByCall
  <2>4. Fits(allowPlainFallback, call'[c], request'[c], ran'[c])
    BY <1>0, <1>1, <2>1, <2>3 DEF Fits, Bound, Waits
  <2> QED BY <1>0, <1>1, <2>1, <2>2, <2>4, OneCall
<1>2. CASE SetupFails(c)
  <2>1. PICK setup \in BOOLEAN : caught(c, setup)
    BY <1>2 DEF SetupFails
  <2>2. call[c].at \in {"fetching", "importing", "sealing"}
    BY <1>2 DEF SetupFails
  <2> QED BY <1>0, <2>1, <2>2, CaughtFits
<1>3. CASE Opened(c)
  <2>1. CASE /\ request[c].at = "answered" /\ request[c].answer = "envelope"
             /\ call' = [call EXCEPT ![c].at = "ok"] /\ request' = request
    BY <2>1, <1>1
  <2>2. CASE call[c].at = "waiting" /\ request[c].answer = "data" /\ caught(c, TRUE)
    BY <1>0, <2>2, CaughtFits
  <2>3. CASE caught(c, FALSE)
    BY <1>0, <2>3, CaughtFits
  <2> QED BY <1>3, <2>1, <2>2, <2>3 DEF Opened
<1>4. CASE PlainAnswered(c)
  <2>1. CASE request[c].answer = "error"
    <3>1. call' = [call EXCEPT ![c].at = "failed"] /\ request' = request
      BY <1>4, <2>1 DEF PlainAnswered
    <3> QED BY <3>1, <1>1
  <2>2. CASE request[c].answer # "error"
    <3>1. /\ call' = [call EXCEPT ![c].at = "ok"] /\ request' = request
          /\ request[c].at = "answered"
      BY <1>4, <2>2 DEF PlainAnswered
    <3> QED BY <2>2, <3>1, <1>1
  <2> QED BY <2>1, <2>2
<1>5. CASE ConnectionFails(c)
  <2>1. CASE caught(c, FALSE)
    BY <1>0, <2>1, CaughtFits
  <2>2. CASE call' = [call EXCEPT ![c].at = "failed"] /\ request' = request
    BY <2>2, <1>1
  <2> QED BY <1>5, <2>1, <2>2 DEF ConnectionFails
<1> QED
  BY <1>2, <1>3, <1>4, <1>5
-----------------------------------------------------------------------------
\* What the steps of the server do to the calls: a request is refused,
LEMMA RefusedFits ==
    ASSUME TypeOK, RequestsFit, NEW c \in Calls, answer(c, "error"),
           call' = call, ran' = ran, allowPlainFallback' = allowPlainFallback,
           Waits(request[c])
    PROVE  CallsTyped' /\ RequestsFit'
<1>1. /\ request' \in [Calls -> Request] /\ \A d \in Calls : d # c => request'[d] = request[d]
      /\ request'[c].at = "answered" /\ request'[c].answer = "error"
  BY Answers
<1>2. CallsTyped'
  BY <1>1 DEF CallsTyped, TypeOK
<1>3. Fits(allowPlainFallback, call[c], request[c], ran[c]) /\ ran[c] \in Nat
  BY CallByCall DEF TypeOK
<1>4. Fits(allowPlainFallback, call'[c], request'[c], ran'[c])
  BY <1>1, <1>3 DEF Fits, Bound, Waits
<1> QED
  BY <1>1, <1>2, <1>4, OneCall

\* or gets on in a proxy,
LEMMA PassesFits ==
    ASSUME TypeOK, RequestsFit, NEW c \in Calls,
           call' = call, ran' = ran, allowPlainFallback' = allowPlainFallback,
           request' \in [Calls -> Request],
           \A d \in Calls : d # c => request'[d] = request[d],
           request'[c].at \in {"reading", "read", "admitted"},
           request'[c].sealed = request[c].sealed, request'[c].answer = request[c].answer,
           Waits(request[c]), call[c].to = "proxy"
    PROVE  CallsTyped' /\ RequestsFit'
<1>1. CallsTyped'
  BY DEF CallsTyped, TypeOK
<1>2. Fits(allowPlainFallback, call[c], request[c], ran[c])
  BY CallByCall
<1>3. Fits(allowPlainFallback, call'[c], request'[c], ran'[c])
  BY <1>2 DEF Fits, Bound, Waits
<1> QED
  BY <1>1, <1>3, OneCall

\* or the function runs it.
LEMMA FunctionFits ==
    ASSUME TypeOK, RequestsFit, NEW c \in Calls, FunctionStep(c)
    PROVE  CallsTyped' /\ RequestsFit'
<1>0. /\ call' = call /\ allowPlainFallback' = allowPlainFallback /\ Waits(request[c])
  BY DEF FunctionStep, OwnRuns, Refuse, Run, Reject, AtProxy, options, client, Waits
<1>1. ASSUME NEW a \in {"envelope", "data", "error"}, answer(c, a),
             ran' = [ran EXCEPT ![c] = @ + 1],
             call[c].to = "own" \/ (request[c].sealed => a # "data")
      PROVE  CallsTyped' /\ RequestsFit'
  <2>1. /\ request' \in [Calls -> Request] /\ \A d \in Calls : d # c => request'[d] = request[d]
        /\ request'[c].at = "answered" /\ request'[c].answer = a
    BY <1>1, Answers
  <2>2. /\ ran' \in [Calls -> Nat] /\ ran[c] \in Nat /\ ran'[c] = ran[c] + 1
        /\ \A d \in Calls : d # c => ran'[d] = ran[d]
    BY <1>1 DEF TypeOK
  <2>3. CallsTyped'
    BY <1>0, <2>1, <2>2 DEF CallsTyped, TypeOK
  <2>4. Fits(allowPlainFallback, call[c], request[c], ran[c])
    BY CallByCall
  <2>5. Fits(allowPlainFallback, call'[c], request'[c], ran'[c])
    BY <1>0, <1>1, <2>1, <2>2, <2>4 DEF Fits, Bound, Waits
  <2> QED BY <1>0, <2>1, <2>2, <2>3, <2>5, OneCall
<1>2. CASE OwnRuns(c)
  <2>1. \/ ran' = [ran EXCEPT ![c] = @ + 1] /\ answer(c, "data") /\ call[c].to = "own"
        \/ ran' = ran /\ answer(c, "error")
    BY <1>2 DEF OwnRuns
  <2> QED BY <1>0, <1>1, <2>1, RefusedFits
<1>3. CASE Refuse(c) \/ Reject(c)
  BY <1>0, <1>3, RefusedFits DEF Refuse, Reject
<1>4. CASE Run(c)
  <2>1. ran' = [ran EXCEPT ![c] = @ + 1]
    BY <1>4 DEF Run
  <2>2. \/ answer(c, "envelope")
        \/ answer(c, "data") /\ ~request[c].sealed
        \/ answer(c, "error")
    BY <1>4 DEF Run
  <2> QED BY <1>1, <2>1, <2>2
<1> QED
  BY <1>2, <1>3, <1>4 DEF FunctionStep

\* The limiter admits a request, refuses it, or asks the table.
LEMMA CheckCases ==
    ASSUME NEW c \in Calls, NEW i \in Isolates, checkRateLimit(c, i)
    PROVE  answer(c, "error") \/ admit(c)
BY DEF checkRateLimit

LEMMA LimiterFits ==
    ASSUME TypeOK, RequestsFit, NEW c \in Calls, LimiterStep(c)
    PROVE  CallsTyped' /\ RequestsFit'
<1>0. /\ call' = call /\ ran' = ran /\ allowPlainFallback' = allowPlainFallback
  BY DEF LimiterStep, CheckInMemory, ReadFails, StartCheck, ReadRow, Decide, WriteFails,
         options, client
<1>1. Waits(request[c]) /\ call[c].to = "proxy"
  <2>1. Fits(allowPlainFallback, call[c], request[c], ran[c])
    BY CallByCall
  <2>2. request[c].at \in {"reading", "read"} \/ AtProxy(c, "sent")
    BY DEF LimiterStep, CheckInMemory, ReadFails, StartCheck, ReadRow, Decide, WriteFails
  <2> QED BY <2>1, <2>2 DEF Fits, AtProxy, Waits
<1>2. CASE answer(c, "error")
  BY <1>0, <1>1, <1>2, RefusedFits
<1>3. CASE admit(c)
  <2>1. /\ request' \in [Calls -> Request] /\ \A d \in Calls : d # c => request'[d] = request[d]
        /\ request'[c].at = "admitted" /\ request'[c].sealed = request[c].sealed
        /\ request'[c].answer = request[c].answer
    BY <1>3, Admits
  <2> QED BY <1>0, <1>1, <2>1, PassesFits
<1>4. CASE StartCheck(c) \/ ReadRow(c)
  <2>1. request[c] \in Request /\ now \in Nat /\ row \in Row \cup {None}
    BY DEF TypeOK
  <2>2. /\ request' \in [Calls -> Request] /\ \A d \in Calls : d # c => request'[d] = request[d]
        /\ request'[c].at \in {"reading", "read"} /\ request'[c].sealed = request[c].sealed
        /\ request'[c].answer = request[c].answer
    <3>1. CASE StartCheck(c) BY <3>1, <2>1 DEF StartCheck, TypeOK, Request
    <3>2. CASE ReadRow(c) BY <3>2, <2>1 DEF ReadRow, TypeOK, Request
    <3> QED BY <1>4, <3>1, <3>2
  <2> QED BY <1>0, <1>1, <2>2, PassesFits
<1>5. \/ answer(c, "error") \/ admit(c) \/ StartCheck(c) \/ ReadRow(c)
  <2>1. ASSUME NEW i \in Isolates, CheckInMemory(c, i) \/ ReadFails(c, i)
        PROVE  answer(c, "error") \/ admit(c)
    BY <2>1, CheckCases DEF CheckInMemory, ReadFails
  <2>2. CASE Decide(c) BY <2>2 DEF Decide
  <2>3. CASE WriteFails(c) BY <2>3 DEF WriteFails
  <2> QED BY <2>1, <2>2, <2>3 DEF LimiterStep
<1> QED
  BY <1>2, <1>3, <1>4, <1>5
-----------------------------------------------------------------------------
\* What a check in memory does to the memory of its isolate.
MemoryTyped == store \in [Isolates -> Seq(Nat)] /\ admitted \in [Isolates -> Seq(Nat)]
MemoryHolds == \A i \in Isolates : Spaced(admitted[i], Limit)

\* The list s of an isolate that admitted a, at the time t.
EndOf(s, a, t) ==
    LET before == Len(a) - Len(s) IN
    /\ before >= 0
    /\ \A j \in 1..Len(s) : s[j] = a[before + j]
    /\ \A j \in 1..Len(a) : j <= before => t - a[j] >= Window

\* prune keeps an end, of times that are not over a window ago.
LEMMA PruneKeeps ==
    ASSUME NEW s \in Seq(Nat), NEW a \in Seq(Nat), NEW t \in Nat, EndOf(s, a, t),
           NEW k \in 0..Len(s), \A j \in 1..Len(s) : t - s[j] < Window <=> j > k
    PROVE  /\ SubSeq(s, k + 1, Len(s)) \in Seq(Nat)
           /\ EndOf(SubSeq(s, k + 1, Len(s)), a, t)
<1> DEFINE kept == SubSeq(s, k + 1, Len(s))
           before == Len(a) - Len(s)
<1>0. Window \in Nat
  BY SecureEdgeAssumption
<1>1. \A j \in (k + 1)..Len(s) : s[j] \in Nat
  OBVIOUS
<1>2. /\ kept \in Seq(Nat)
      /\ Len(kept) = Len(s) - k
      /\ \A j \in 1..(Len(s) - k) : kept[j] = s[k + j]
  <2>1. /\ kept \in Seq(Nat)
        /\ Len(kept) = IF k + 1 <= Len(s) THEN Len(s) - (k + 1) + 1 ELSE 0
        /\ \A j \in 1..(Len(s) - (k + 1) + 1) : kept[j] = s[(k + 1) + j - 1]
    BY <1>1, SubSeqProperties
  <2> QED BY <2>1
<1> HIDE DEF kept
<1>a. /\ Len(s) \in Nat /\ Len(a) \in Nat /\ before \in Nat /\ before + Len(s) = Len(a)
      /\ k \in Nat /\ k <= Len(s)
      /\ \A j \in 1..Len(s) : s[j] = a[before + j]
      /\ \A j \in 1..Len(a) : j <= before => t - a[j] >= Window
  BY DEF EndOf
<1> HIDE DEF before
<1>3. ASSUME NEW j \in 1..Len(kept)
      PROVE  kept[j] = a[before + k + j]
  <2>1. k + j \in 1..Len(s) /\ j \in 1..(Len(s) - k)
    BY <1>2, <1>3, <1>a
  <2>2. kept[j] = s[k + j] /\ s[k + j] = a[before + (k + j)]
    BY <1>2, <1>a, <2>1
  <2>3. before + (k + j) = before + k + j
    BY <1>a, <2>1
  <2> QED BY <2>2, <2>3
<1>4. \A j \in 1..Len(a) : j <= before + k => t - a[j] >= Window
  <2> SUFFICES ASSUME NEW j \in 1..Len(a), j <= before + k, j > before
               PROVE  t - a[j] >= Window
    BY <1>a
  <2> DEFINE m == j - before
  <2>1. m \in 1..Len(s) /\ ~(m > k) /\ before + m = j
    BY <1>a
  <2> HIDE DEF m
  <2>2. ~(t - s[m] < Window) /\ s[m] = a[j]
    BY <1>a, <2>1
  <2>3. a[j] \in Nat
    OBVIOUS
  <2> QED BY <1>0, <2>2, <2>3
<1>5. Len(a) - Len(kept) = before + k
  <2> DEFINE n == Len(a)
             l == Len(s)
  <2>1. l \in Nat /\ n \in Nat /\ before \in Nat /\ before + l = n /\ k \in Nat
    BY <1>a
  <2>2. Len(kept) = l - k
    BY <1>2
  <2> HIDE DEF l, n
  <2>3. n - (l - k) = before + k
    BY <2>1
  <2> QED BY <2>2, <2>3 DEF n
<1>6. EndOf(kept, a, t)
  <2>1. Len(a) - Len(kept) = before + k /\ before + k >= 0
    BY <1>5, <1>a
  <2> QED BY <1>3, <1>4, <2>1 DEF EndOf
<1> QED
  BY <1>2, <1>6 DEF kept

\* A time more, when fewer than Limit are on the list.
LEMMA AdmitKeeps ==
    ASSUME NEW s \in Seq(Nat), NEW a \in Seq(Nat), NEW t \in Nat, EndOf(s, a, t),
           Spaced(a, Limit)
    PROVE  /\ EndOf(Append(s, t), Append(a, t), t)
           /\ Len(s) < Limit => Spaced(Append(a, t), Limit)
<1>0. Window \in Nat /\ Limit \in Nat \ {0}
  BY SecureEdgeAssumption
<1>1. /\ Len(Append(a, t)) = Len(a) + 1 /\ Append(a, t)[Len(a) + 1] = t
      /\ \A j \in 1..Len(a) : Append(a, t)[j] = a[j]
  OBVIOUS
<1>2. /\ Len(Append(s, t)) = Len(s) + 1 /\ Append(s, t)[Len(s) + 1] = t
      /\ \A j \in 1..Len(s) : Append(s, t)[j] = s[j]
  OBVIOUS
<1>3. EndOf(Append(s, t), Append(a, t), t)
  <2> DEFINE before == Len(a) - Len(s)
  <2>1. before \in Nat /\ Len(Append(a, t)) - Len(Append(s, t)) = before
    BY <1>1, <1>2 DEF EndOf
  <2>2. \A j \in 1..(Len(s) + 1) : Append(s, t)[j] = Append(a, t)[before + j]
    <3> SUFFICES ASSUME NEW j \in 1..(Len(s) + 1)
                 PROVE  Append(s, t)[j] = Append(a, t)[before + j]
      OBVIOUS
    <3>1. CASE j = Len(s) + 1
      <4>1. before + j = Len(a) + 1 BY <3>1
      <4> QED BY <1>1, <1>2, <3>1, <4>1
    <3>2. CASE j \in 1..Len(s)
      <4>1. before + j \in 1..Len(a) BY <2>1, <3>2
      <4>2. s[j] = a[before + j] BY <3>2 DEF EndOf
      <4>3. Append(a, t)[before + j] = a[before + j] BY <1>1, <4>1
      <4> QED BY <1>2, <3>2, <4>2, <4>3
    <3>3. j = Len(s) + 1 \/ j \in 1..Len(s) OBVIOUS
    <3> QED BY <3>1, <3>2, <3>3
  <2>3. \A j \in 1..(Len(a) + 1) : j <= before => t - Append(a, t)[j] >= Window
    BY <1>1, <2>1 DEF EndOf
  <2> QED BY <1>1, <1>2, <2>1, <2>2, <2>3 DEF EndOf
<1>4. ASSUME Len(s) < Limit PROVE Spaced(Append(a, t), Limit)
  <2> SUFFICES ASSUME NEW k \in 1..(Len(a) + 1), k + Limit <= Len(a) + 1
               PROVE  Append(a, t)[k + Limit] - Append(a, t)[k] >= Window
    BY <1>1 DEF Spaced
  <2>1. CASE k + Limit <= Len(a)
    BY <1>0, <1>1, <2>1 DEF Spaced
  <2>2. CASE k + Limit = Len(a) + 1
    <3>1. k \in 1..Len(a) /\ k <= Len(a) - Len(s)
      BY <1>0, <1>4, <2>2
    <3>2. t - a[k] >= Window
      BY <3>1 DEF EndOf
    <3>3. Append(a, t)[k + Limit] = t /\ Append(a, t)[k] = a[k]
      BY <1>1, <2>2, <3>1
    <3> QED BY <3>2, <3>3
  <2>3. k + Limit <= Len(a) \/ k + Limit = Len(a) + 1
    <3> DEFINE n == Len(a)
    <3>1. n \in Nat /\ k \in Nat /\ k + Limit <= n + 1
      OBVIOUS
    <3> HIDE DEF n
    <3>2. k + Limit <= n \/ k + Limit = n + 1
      BY <1>0, <3>1
    <3> QED BY <3>2 DEF n
  <2> QED BY <2>1, <2>2, <2>3
<1> QED
  BY <1>3, <1>4

\* Time passing, and the steps that leave the memory alone.
LEMMA MemoryAlone ==
    ASSUME TypeOK, MemoryFits, MemoryHolds, UNCHANGED memory, now' \in Nat, now <= now'
    PROVE  MemoryTyped' /\ MemoryFits' /\ MemoryHolds'
<1>0. store' = store /\ admitted' = admitted
  BY DEF memory
<1>1. ASSUME NEW i \in Isolates
      PROVE  EndOf(store[i], admitted[i], now')
  <2>1. EndOf(store[i], admitted[i], now) /\ now \in Nat
    BY DEF MemoryFits, EndOf, TypeOK
  <2>2. \A j \in 1..Len(admitted[i]) : admitted[i][j] \in Nat
    BY DEF TypeOK
  <2>3. ASSUME NEW j \in 1..Len(admitted[i]), now - admitted[i][j] >= Window
        PROVE  now' - admitted[i][j] >= Window
    <3>1. admitted[i][j] \in Nat /\ Window \in Nat
      BY <2>2, SecureEdgeAssumption
    <3> QED BY <2>1, <2>3, <3>1
  <2> QED BY <2>1, <2>3 DEF EndOf
<1>2. MemoryFits'
  BY <1>0, <1>1 DEF MemoryFits, EndOf
<1> QED
  BY <1>0, <1>2 DEF MemoryTyped, MemoryHolds, TypeOK

LEMMA CheckKeeps ==
    ASSUME TypeOK, MemoryFits, MemoryHolds, NEW c \in Calls, NEW i \in Isolates,
           checkRateLimit(c, i), now' = now
    PROVE  MemoryTyped' /\ MemoryFits' /\ MemoryHolds'
<1> DEFINE s == store[i]
           a == admitted[i]
<1>1. s \in Seq(Nat) /\ a \in Seq(Nat) /\ now \in Nat /\ EndOf(s, a, now) /\ Spaced(a, Limit)
  BY DEF TypeOK, MemoryFits, EndOf, MemoryHolds
<1>2. \E kept \in Seq(Nat) :
         /\ EndOf(kept, a, now)
         /\ \/ store' = [store EXCEPT ![i] = kept] /\ admitted' = admitted
            \/ /\ Len(kept) < Limit
               /\ store' = [store EXCEPT ![i] = Append(kept, now)]
               /\ admitted' = [admitted EXCEPT ![i] = Append(a, now)]
  <2>1. PICK k \in 0..Len(s) :
          /\ \A j \in 1..Len(s) : now - s[j] < Window <=> j > k
          /\ LET kept == SubSeq(s, k + 1, Len(s)) IN
             IF Len(kept) >= Limit
             THEN store' = [store EXCEPT ![i] = kept] /\ admitted' = admitted
             ELSE /\ store' = [store EXCEPT ![i] = Append(kept, now)]
                  /\ admitted' = [admitted EXCEPT ![i] = Append(a, now)]
    BY DEF checkRateLimit
  <2> DEFINE kept == SubSeq(s, k + 1, Len(s))
  <2>2. kept \in Seq(Nat) /\ EndOf(kept, a, now)
    BY <1>1, <2>1, PruneKeeps
  <2>3. \/ store' = [store EXCEPT ![i] = kept] /\ admitted' = admitted
        \/ /\ Len(kept) < Limit
           /\ store' = [store EXCEPT ![i] = Append(kept, now)]
           /\ admitted' = [admitted EXCEPT ![i] = Append(a, now)]
    <3>1. Len(kept) \in Nat /\ Limit \in Nat
      BY <2>2, SecureEdgeAssumption
    <3>2. Len(kept) >= Limit \/ Len(kept) < Limit
      BY <3>1
    <3> QED BY <2>1, <3>2
  <2> QED BY <2>2, <2>3
<1>3. PICK kept \in Seq(Nat) :
         /\ EndOf(kept, a, now)
         /\ \/ store' = [store EXCEPT ![i] = kept] /\ admitted' = admitted
            \/ /\ Len(kept) < Limit
               /\ store' = [store EXCEPT ![i] = Append(kept, now)]
               /\ admitted' = [admitted EXCEPT ![i] = Append(a, now)]
  BY <1>2
<1>4. PICK t \in Seq(Nat), b \in Seq(Nat) :
         /\ store' = [store EXCEPT ![i] = t] /\ admitted' = [admitted EXCEPT ![i] = b]
         /\ EndOf(t, b, now) /\ Spaced(b, Limit)
  <2>1. CASE store' = [store EXCEPT ![i] = kept] /\ admitted' = admitted
    <3>1. admitted' = [admitted EXCEPT ![i] = a]
      BY <2>1 DEF TypeOK
    <3> QED BY <1>1, <1>3, <2>1, <3>1
  <2>2. CASE /\ Len(kept) < Limit
             /\ store' = [store EXCEPT ![i] = Append(kept, now)]
             /\ admitted' = [admitted EXCEPT ![i] = Append(a, now)]
    <3>1. EndOf(Append(kept, now), Append(a, now), now) /\ Spaced(Append(a, now), Limit)
      BY <1>1, <1>3, <2>2, AdmitKeeps
    <3>2. Append(kept, now) \in Seq(Nat) /\ Append(a, now) \in Seq(Nat)
      BY <1>1
    <3> QED BY <2>2, <3>1, <3>2
  <2> QED BY <1>3, <2>1, <2>2
<1>5. MemoryTyped'
  BY <1>4 DEF MemoryTyped, TypeOK
<1>6. \A j \in Isolates : /\ store'[j] = IF j = i THEN t ELSE store[j]
                          /\ admitted'[j] = IF j = i THEN b ELSE admitted[j]
  BY <1>4 DEF TypeOK
<1>7. \A j \in Isolates : EndOf(store'[j], admitted'[j], now) /\ Spaced(admitted'[j], Limit)
  <2>1. \A j \in Isolates : EndOf(store[j], admitted[j], now) /\ Spaced(admitted[j], Limit)
    BY DEF MemoryFits, EndOf, MemoryHolds
  <2> QED BY <1>4, <1>6, <2>1
<1> QED
  BY <1>5, <1>7 DEF MemoryFits, EndOf, MemoryHolds
-----------------------------------------------------------------------------
\* What a check does to the table.
TableTyped == row \in Row \cup {None} /\ counted \in Seq(Nat) /\ overlapped \in BOOLEAN
TableHolds == ~overlapped => Spaced(counted, 2 * Limit - 1)

\* Time passing, and the steps that leave the table and its checks alone, or end one.
LEMMA TableAlone ==
    ASSUME TypeOK, TableFits, TableHolds, UNCHANGED table, now' \in Nat, now <= now',
           \A c \in Calls : request'[c].at \in {"reading", "read"} => request'[c] = request[c],
           \A c \in Calls : request'[c].row \in {None, request[c].row}
    PROVE  TableTyped' /\ TableFits' /\ TableHolds'
<1>0. row' = row /\ counted' = counted /\ overlapped' = overlapped
  BY DEF table
<1>1. TableTyped' /\ TableHolds'
  BY <1>0 DEF TableTyped, TableHolds, TypeOK
<1>2. ASSUME ~overlapped
      PROVE  ChecksFit'
  <2>1. ChecksFit
    BY <1>2 DEF TableFits
  <2>2. \A k \in 1..Len(counted) : counted[k] \in Nat
    BY DEF TypeOK
  <2>3. row # None => row.start \in Nat
    BY DEF TypeOK, Row
  <2>4. now \in Nat
    BY DEF TypeOK
  <2>5. \A c \in Calls : Checking(c)' => Checking(c) /\ request'[c] = request[c]
    BY DEF Checking
  <2>6. \A c, d \in Calls : Checking(c)' /\ Checking(d)' => c = d
    BY <2>1, <2>5 DEF ChecksFit
  <2>7. \A k \in 1..Len(counted) : counted[k] <= now'
    BY <2>1, <2>2, <2>4 DEF ChecksFit
  <2>8. row # None => row.start <= now'
    BY <2>1, <2>3, <2>4 DEF ChecksFit
  <2>9. ASSUME NEW c \in Calls, Checking(c)'
        PROVE  /\ \A k \in 1..Len(counted) : counted[k] <= request'[c].now
               /\ row # None => row.start <= request'[c].now
               /\ request'[c].now <= now'
               /\ request'[c].at = "read" => request'[c].row = row
    <3>1. Checking(c) /\ request'[c] = request[c]
      BY <2>5, <2>9
    <3>2. request[c].now \in Nat
      BY DEF TypeOK, Request
    <3>3. /\ \A k \in 1..Len(counted) : counted[k] <= request[c].now
          /\ row # None => row.start <= request[c].now
          /\ request[c].now <= now
          /\ request[c].at = "read" => request[c].row = row
      BY <2>1, <3>1 DEF ChecksFit
    <3>4. request[c].now <= now'
      BY <2>4, <3>2, <3>3
    <3> QED BY <3>1, <3>3, <3>4
  <2> QED BY <1>0, <2>6, <2>7, <2>8, <2>9 DEF ChecksFit, Checking
<1>3. RowCounts => RowCounts'
  BY <1>0 DEF RowCounts
<1>4. RowStays'
  BY <1>0 DEF RowStays, TableFits
<1> QED
  BY <1>0, <1>1, <1>2, <1>3, <1>4 DEF TableFits

LEMMA StartsCheck ==
    ASSUME TypeOK, TableFits, TableHolds, NEW c \in Calls, StartCheck(c)
    PROVE  TableTyped' /\ TableFits' /\ TableHolds'
<1>1. /\ request' = [request EXCEPT ![c].at = "reading", ![c].now = now]
      /\ overlapped' = (overlapped \/ \E d \in Calls : Checking(d))
      /\ row' = row /\ counted' = counted /\ now' = now
  BY DEF StartCheck
<1>2. TableTyped' /\ TableHolds'
  BY <1>1 DEF TableTyped, TableHolds, TypeOK
<1>3. ASSUME ~overlapped'
      PROVE  ChecksFit'
  <2>1. ~overlapped /\ (\A d \in Calls : ~Checking(d)) /\ ChecksFit
    BY <1>1, <1>3 DEF TableFits
  <2>2. now \in Nat /\ request[c] \in Request
    BY DEF TypeOK
  <2>3. /\ request'[c].at = "reading" /\ request'[c].now = now
        /\ \A d \in Calls : d # c => request'[d] = request[d]
    BY <1>1, <2>2 DEF TypeOK, Request
  <2>4. \A d \in Calls : Checking(d)' => d = c
    BY <2>1, <2>3 DEF Checking
  <2>5. \A d, e \in Calls : Checking(d)' /\ Checking(e)' => d = e
    BY <2>4
  <2>6. /\ \A k \in 1..Len(counted) : counted[k] <= now
        /\ row # None => row.start <= now
    BY <2>1 DEF ChecksFit
  <2>7. ASSUME NEW d \in Calls, Checking(d)'
        PROVE  /\ \A k \in 1..Len(counted) : counted[k] <= request'[d].now
               /\ row # None => row.start <= request'[d].now
               /\ request'[d].now <= now
               /\ request'[d].at = "read" => request'[d].row = row
    BY <2>2, <2>3, <2>4, <2>6, <2>7
  <2> QED BY <1>1, <2>5, <2>6, <2>7 DEF ChecksFit
<1>4. RowCounts => RowCounts'
  BY <1>1 DEF RowCounts
<1>5. \A d \in Calls : request'[d].row = request[d].row
  BY <1>1 DEF TypeOK, Request
<1>6. RowStays'
  BY <1>1, <1>5 DEF RowStays, TableFits
<1> QED
  BY <1>1, <1>2, <1>3, <1>4, <1>6 DEF TableFits

LEMMA ReadsRow ==
    ASSUME TypeOK, TableFits, TableHolds, NEW c \in Calls, ReadRow(c)
    PROVE  TableTyped' /\ TableFits' /\ TableHolds'
<1>1. /\ request[c].at = "reading"
      /\ request' = [request EXCEPT ![c].at = "read", ![c].row = row]
      /\ overlapped' = overlapped /\ row' = row /\ counted' = counted /\ now' = now
  BY DEF ReadRow, table
<1>2. TableTyped' /\ TableHolds'
  BY <1>1 DEF TableTyped, TableHolds, TypeOK
<1>3. ASSUME ~overlapped
      PROVE  ChecksFit'
  <2>1. ChecksFit
    BY <1>3 DEF TableFits
  <2>2. request[c] \in Request
    BY DEF TypeOK
  <2>3. /\ request'[c].at = "read" /\ request'[c].now = request[c].now /\ request'[c].row = row
        /\ \A d \in Calls : d # c => request'[d] = request[d]
    BY <1>1, <2>2 DEF TypeOK, Request
  <2>4. \A d \in Calls : /\ Checking(d)' <=> Checking(d)
                         /\ request'[d].now = request[d].now
                         /\ d # c => request'[d] = request[d]
    BY <1>1, <2>3 DEF Checking
  <2>5. \A d, e \in Calls : Checking(d)' /\ Checking(e)' => d = e
    BY <2>1, <2>4 DEF ChecksFit
  <2>6. /\ \A k \in 1..Len(counted) : counted[k] <= now
        /\ row # None => row.start <= now
    BY <2>1 DEF ChecksFit
  <2>7. ASSUME NEW d \in Calls, Checking(d)'
        PROVE  /\ \A k \in 1..Len(counted) : counted[k] <= request'[d].now
               /\ row # None => row.start <= request'[d].now
               /\ request'[d].now <= now
               /\ request'[d].at = "read" => request'[d].row = row
    <3>1. Checking(d) /\ request'[d].now = request[d].now
      BY <2>4, <2>7
    <3>2. /\ \A k \in 1..Len(counted) : counted[k] <= request[d].now
          /\ row # None => row.start <= request[d].now
          /\ request[d].now <= now
          /\ request[d].at = "read" => request[d].row = row
      BY <2>1, <3>1 DEF ChecksFit
    <3> QED BY <2>3, <2>4, <3>1, <3>2
  <2> QED BY <1>1, <2>5, <2>6, <2>7 DEF ChecksFit
<1>4. RowCounts => RowCounts'
  BY <1>1 DEF RowCounts
<1>5. \A d \in Calls : request'[d].row \in {row, request[d].row}
  BY <1>1 DEF TypeOK, Request
<1>6. RowStays'
  BY <1>1, <1>5 DEF RowStays, TableFits
<1> QED
  BY <1>1, <1>2, <1>3, <1>4, <1>6 DEF TableFits

\* A row that was read and is still the same, at a time that is the latest.
LEMMA CountsOn ==
    ASSUME NEW a \in Seq(Nat), NEW t \in Nat, NEW start \in Nat,
           NEW hits \in 1..Limit,
           \A k \in 1..Len(a) : a[k] <= t,
           Spaced(a, 2 * Limit - 1), start <= t, hits = 1 => start = t,
           LET first == Len(a) + 2 - hits IN
               /\ first >= 1
               /\ \A k \in 1..Len(a) : k <= first => a[k] <= start
               /\ \A k \in 1..Len(a) : k + Limit <= first => a[k] + Window <= start
    PROVE  /\ Append(a, t) \in Seq(Nat)
           /\ LET first == Len(Append(a, t)) + 1 - hits IN
               /\ first >= 1
               /\ \A k \in 1..Len(Append(a, t)) : k <= first => Append(a, t)[k] <= start
               /\ \A k \in 1..Len(Append(a, t)) :
                    k + Limit <= first => Append(a, t)[k] + Window <= start
           /\ Spaced(Append(a, t), 2 * Limit - 1)
<1> DEFINE n == Len(a)
           first == n + 2 - hits
           b == Append(a, t)
           span == 2 * Limit - 1
<1>0. Limit \in Nat /\ 1 <= Limit /\ Window \in Nat /\ n \in Nat
  BY SecureEdgeAssumption
<1>1. /\ b \in Seq(Nat) /\ Len(b) = n + 1 /\ b[n + 1] = t
      /\ \A k \in 1..n : b[k] = a[k] /\ a[k] \in Nat
  OBVIOUS
<1>2. /\ first >= 1
      /\ \A k \in 1..n : k <= first => a[k] <= start
      /\ \A k \in 1..n : k + Limit <= first => a[k] + Window <= start
      /\ Spaced(a, span)
  OBVIOUS
<1> HIDE DEF n, b
<1>3. first \in Nat /\ 1 <= first /\ first <= n + 1 /\ (first = n + 1 => hits = 1)
  <2>1. hits \in Nat /\ 1 <= hits
    BY <1>0
  <2> QED BY <1>0, <1>2, <2>1
<1>4. span \in Nat /\ 1 <= span
  BY <1>0
<1>5. \A k \in 1..Len(b) : k \in 1..n \/ k = n + 1
  BY <1>0, <1>1
<1>6. \A k \in 1..Len(b) : k <= first => b[k] <= start
  <2> SUFFICES ASSUME NEW k \in 1..Len(b), k <= first PROVE b[k] <= start
    OBVIOUS
  <2>1. CASE k \in 1..n
    BY <1>1, <1>2, <2>1
  <2>2. CASE k = n + 1
    <3>1. first = n + 1
      BY <1>0, <1>3, <2>2
    <3>2. hits = 1
      BY <1>3, <3>1
    <3> QED BY <1>1, <2>2, <3>2
  <2> QED BY <1>5, <2>1, <2>2
<1>7. \A k \in 1..Len(b) : k + Limit <= first => b[k] + Window <= start
  <2> SUFFICES ASSUME NEW k \in 1..Len(b), k + Limit <= first
               PROVE  b[k] + Window <= start
    OBVIOUS
  <2>1. k # n + 1
    BY <1>0, <1>3
  <2> QED BY <1>1, <1>2, <1>5, <2>1
<1>8. Spaced(b, span)
  <2> HIDE DEF span
  <2> SUFFICES ASSUME NEW k \in 1..Len(b), k + span <= Len(b)
               PROVE  b[k + span] - b[k] >= Window
    BY DEF Spaced
  <2>1. k \in Nat /\ 1 <= k /\ k <= n /\ (k + span <= n \/ k + span = n + 1)
    BY <1>0, <1>1, <1>4
  <2>2. CASE k + span <= n
    <3>1. k \in 1..Len(a) /\ k + span <= Len(a)
      BY <1>0, <2>1, <2>2 DEF n
    <3>2. a[k + span] - a[k] >= Window
      BY <1>2, <3>1 DEF Spaced
    <3>3. k \in 1..n /\ k + span \in 1..n
      BY <1>0, <1>4, <2>1, <2>2
    <3> QED BY <1>1, <3>2, <3>3
  <2>3. CASE k + span = n + 1
    <3>1. k + Limit <= first
      BY <1>0, <2>1, <2>3 DEF span
    <3>2. b[k] + Window <= start /\ b[k] \in Nat
      BY <1>0, <1>1, <1>7, <2>1, <3>1
    <3> QED BY <1>0, <1>1, <2>3, <3>2
  <2> QED BY <2>1, <2>2, <2>3
<1>9. /\ Len(b) + 1 - hits = first
      /\ Len(b) + 1 - hits >= 1
  BY <1>0, <1>1, <1>3
<1>10. LET f == Len(b) + 1 - hits IN
         /\ f >= 1
         /\ \A k \in 1..Len(b) : k <= f => b[k] <= start
         /\ \A k \in 1..Len(b) : k + Limit <= f => b[k] + Window <= start
  <2> HIDE DEF first
  <2> QED BY <1>6, <1>7, <1>9
<1> QED
  BY <1>1, <1>8, <1>10 DEF b

\* What is written after a read.
LEMMA WritesRow ==
    ASSUME TypeOK, RowStays, NEW c \in Calls, written(request[c]) # None
    PROVE  /\ written(request[c]) \in Row
           /\ \/ /\ request[c].row = None
                 /\ row = None => written(request[c]) = [start |-> request[c].now, hits |-> 1]
              \/ /\ request[c].row # None /\ request[c].now - request[c].row.start >= Window
                 /\ written(request[c]) = [start |-> request[c].now, hits |-> 1]
              \/ /\ request[c].row # None /\ request[c].row.hits < Limit /\ row # None
                 /\ written(request[c]).start = row.start
                 /\ written(request[c]).hits = request[c].row.hits + 1
<1>0. Limit \in Nat \ {0} /\ Window \in Nat \ {0}
  BY SecureEdgeAssumption
<1>1. /\ request[c].now \in Nat /\ request[c].row \in Row \cup {None} /\ row \in Row \cup {None}
      /\ request[c].row # None => row # None
  BY DEF TypeOK, Request, RowStays
<1>2. [start |-> request[c].now, hits |-> 1] \in Row
  BY <1>0, <1>1 DEF Row
<1>3. CASE request[c].row = None
  BY <1>1, <1>2, <1>3 DEF written
<1>4. CASE request[c].row # None /\ request[c].now - request[c].row.start >= Window
  <2>1. ~(request[c].now - request[c].row.start < Window)
    BY <1>0, <1>1, <1>4 DEF Row
  <2>2. written(request[c]) = [start |-> request[c].now, hits |-> 1]
    BY <1>4, <2>1 DEF written
  <2> QED BY <1>2, <1>4, <2>2
<1>5. CASE request[c].row # None /\ request[c].now - request[c].row.start < Window
  <2>1. ~(request[c].row.hits >= Limit)
        /\ written(request[c]) = [row EXCEPT !.hits = request[c].row.hits + 1]
    <3>1. ~(request[c].now - request[c].row.start >= Window)
      BY <1>0, <1>1, <1>5 DEF Row
    <3> QED BY <1>5, <3>1 DEF written
  <2>2. request[c].row.hits \in 1..Limit /\ row \in Row
    BY <1>1, <1>5 DEF Row
  <2>3. request[c].row.hits < Limit /\ request[c].row.hits + 1 \in 1..Limit
    BY <1>0, <2>1, <2>2
  <2>4. /\ written(request[c]).start = row.start
        /\ written(request[c]).hits = request[c].row.hits + 1
        /\ written(request[c]) \in Row
    BY <2>1, <2>2, <2>3 DEF Row
  <2> QED BY <1>1, <1>5, <2>3, <2>4
<1>6. request[c].row # None =>
        \/ request[c].now - request[c].row.start >= Window
        \/ request[c].now - request[c].row.start < Window
  BY <1>0, <1>1 DEF Row
<1> QED
  BY <1>3, <1>4, <1>5, <1>6

\* A request that is admitted, whether its write succeeds or not, ends its check.
LEMMA Decides ==
    ASSUME TypeOK, TableFits, TableHolds, NEW c \in Calls, Decide(c)
    PROVE  TableTyped' /\ TableFits' /\ TableHolds'
<1> DEFINE w == written(request[c])
           t == request[c].now
<1>0. /\ request[c].at = "read" /\ overlapped' = overlapped /\ now' = now
      /\ request[c] \in Request /\ now \in Nat
      /\ Limit \in Nat \ {0} /\ Window \in Nat \ {0}
  BY SecureEdgeAssumption DEF Decide, TypeOK
<1>1. CASE w = None /\ answer(c, "error") /\ UNCHANGED <<row, counted>>
  <2>1. \A d \in Calls : request'[d] = IF d = c THEN [NoRequest EXCEPT !.at = "answered", !.answer = "error"]
                                       ELSE request[d]
    BY <1>1 DEF answer, TypeOK
  <2>2. /\ \A d \in Calls : request'[d].at \in {"reading", "read"} => request'[d] = request[d]
        /\ \A d \in Calls : request'[d].row \in {None, request[d].row}
    BY <2>1 DEF NoRequest
  <2> QED BY <1>0, <1>1, <2>2, TableAlone DEF table
<1>2. CASE /\ w # None /\ row' = w
           /\ counted' = Append(counted, t)
           /\ admit(c)
  <2>1. \A d \in Calls : request'[d] = IF d = c THEN [request[c] EXCEPT !.at = "admitted", !.now = 0, !.row = None]
                                       ELSE request[d]
    BY <1>2 DEF admit, TypeOK
  <2>2. RowStays
    BY DEF TableFits
  <2>3. /\ w \in Row
        /\ \/ /\ request[c].row = None
              /\ row = None => w = [start |-> t, hits |-> 1]
           \/ /\ request[c].row # None /\ t - request[c].row.start >= Window
              /\ w = [start |-> t, hits |-> 1]
           \/ /\ request[c].row # None /\ request[c].row.hits < Limit /\ row # None
              /\ w.start = row.start /\ w.hits = request[c].row.hits + 1
    BY <1>2, <2>2, WritesRow
  <2>4. TableTyped'
    BY <1>0, <1>2, <2>3 DEF TableTyped, TypeOK, Request
  <2>5. RowStays' /\ row' # None
    <3>1. w # None BY <1>2
    <3> QED BY <1>2, <3>1 DEF RowStays
  <2>6. ASSUME ~overlapped
        PROVE  RowCounts' /\ ChecksFit' /\ Spaced(counted', 2 * Limit - 1)
    <3> HIDE DEF w
    <3>1. /\ \A d, e \in Calls : Checking(d) /\ Checking(e) => d = e
          /\ Checking(c) /\ request[c].row = row
          /\ \A k \in 1..Len(counted) : counted[k] <= t
          /\ row # None => row.start <= t
          /\ t <= now /\ t \in Nat
      BY <1>0, <2>6 DEF TableFits, ChecksFit, Checking, Request
    <3>2. counted \in Seq(Nat) /\ row \in Row \cup {None} /\ RowCounts
          /\ Spaced(counted, 2 * Limit - 1)
      BY <2>6 DEF TableFits, TableHolds, TypeOK
    <3>3. w.start \in Nat /\ w.hits \in 1..Limit /\ w.start <= t
      BY <2>3, <3>1 DEF Row
    <3>4. LET first == Len(counted) + 2 - w.hits IN
            /\ first >= 1
            /\ \A k \in 1..Len(counted) : k <= first => counted[k] <= w.start
            /\ \A k \in 1..Len(counted) : k + Limit <= first => counted[k] + Window <= w.start
      <4>1. CASE row = None
        <5>1. counted = <<>> /\ w.hits = 1
          BY <2>3, <3>1, <3>2, <4>1 DEF RowCounts
        <5> QED BY <5>1
      <4>2. CASE row # None /\ t - row.start >= Window /\ w = [start |-> t, hits |-> 1]
        <5>1. LET first == Len(counted) + 1 - row.hits IN
                \A k \in 1..Len(counted) : k <= first => counted[k] <= row.start
          BY <3>2, <4>2 DEF RowCounts
        <5>2. row.start \in Nat /\ row.hits \in 1..Limit
          BY <3>2, <4>2 DEF Row
        <5>3. ASSUME NEW k \in 1..Len(counted), k + Limit <= Len(counted) + 1
              PROVE  counted[k] + Window <= t
          <6>1. k <= Len(counted) + 1 - row.hits
            BY <1>0, <5>2, <5>3
          <6>2. counted[k] <= row.start /\ counted[k] \in Nat
            BY <3>2, <5>1, <6>1
          <6> QED BY <1>0, <3>1, <4>2, <5>2, <6>2
        <5>4. Len(counted) + 2 - w.hits = Len(counted) + 1 /\ w.start = t /\ Len(counted) \in Nat
          BY <3>2, <4>2
        <5> QED BY <3>1, <5>3, <5>4
      <4>3. CASE row # None /\ w.start = row.start /\ w.hits = row.hits + 1
        <5>1. row.hits \in Nat /\ Len(counted) \in Nat
          BY <3>2, <4>3 DEF Row
        <5>2. Len(counted) + 2 - w.hits = Len(counted) + 1 - row.hits
          BY <4>3, <5>1
        <5> QED BY <3>2, <4>3, <5>2 DEF RowCounts
      <4> QED BY <2>3, <3>1, <4>1, <4>2, <4>3
    <3>5. w.hits = 1 => w.start = t
      <4>1. CASE row = None
        BY <2>3, <3>1, <4>1
      <4>2. CASE row # None /\ w.hits = row.hits + 1
        <5>1. row.hits \in Nat /\ row.hits >= 1
          BY <3>2, <4>2 DEF Row
        <5> QED BY <4>2, <5>1
      <4> QED BY <2>3, <3>1, <4>1, <4>2
    <3>6. /\ LET first == Len(counted') + 1 - w.hits IN
               /\ first >= 1
               /\ \A k \in 1..Len(counted') : k <= first => counted'[k] <= w.start
               /\ \A k \in 1..Len(counted') : k + Limit <= first => counted'[k] + Window <= w.start
          /\ Spaced(counted', 2 * Limit - 1)
      BY <1>2, <3>1, <3>2, <3>3, <3>4, <3>5, CountsOn
    <3>7. RowCounts'
      BY <1>2, <2>5, <3>6 DEF RowCounts
    <3>8. \A d \in Calls : ~Checking(d)'
      <4>1. request'[c].at = "admitted"
        BY <1>0, <2>1 DEF Request
      <4>2. \A d \in Calls : d # c => request'[d] = request[d] /\ ~Checking(d)
        BY <2>1, <3>1
      <4> QED BY <4>1, <4>2 DEF Checking
    <3>9. \A k \in 1..Len(counted') : counted'[k] <= now
      <4>1. \A k \in 1..Len(counted) : counted[k] \in Nat
        BY <3>2
      <4>2. \A k \in 1..Len(counted) : counted[k] <= now
        BY <1>0, <3>1, <4>1
      <4>3. /\ Len(counted') = Len(counted) + 1 /\ counted'[Len(counted) + 1] = t
            /\ \A k \in 1..Len(counted) : counted'[k] = counted[k]
        BY <1>2, <3>1, <3>2
      <4>4. \A k \in 1..(Len(counted) + 1) : k \in 1..Len(counted) \/ k = Len(counted) + 1
        BY <3>2
      <4> QED BY <3>1, <4>2, <4>3, <4>4
    <3>10. row'.start <= now
      BY <1>0, <1>2, <3>1, <3>3
    <3> QED BY <1>0, <3>6, <3>7, <3>8, <3>9, <3>10 DEF ChecksFit
  <2> QED BY <1>0, <2>4, <2>5, <2>6 DEF TableFits, TableHolds
<1> QED
  BY <1>1, <1>2 DEF Decide

LEMMA WriteLost ==
    ASSUME TypeOK, TableFits, NEW c \in Calls, WriteFails(c)
    PROVE  TableTyped' /\ TableFits' /\ TableHolds'
<1>1. /\ overlapped' = TRUE /\ row' = row /\ counted' = Append(counted, request[c].now)
      /\ admit(c)
  BY DEF WriteFails
<1>2. request[c].now \in Nat
  BY DEF TypeOK, Request
<1>3. \A d \in Calls : request'[d].row \in {None, request[d].row}
  BY <1>1 DEF admit, TypeOK, Request
<1>4. RowStays'
  BY <1>1, <1>3 DEF TableFits, RowStays
<1> QED
  BY <1>1, <1>2, <1>4 DEF TableTyped, TableFits, TableHolds, TypeOK
-----------------------------------------------------------------------------
\* The invariant, by parts.
RestTyped ==
    /\ allowPlainFallback \in BOOLEAN /\ keyGiven \in BOOLEAN /\ database \in BOOLEAN
    /\ cachedPublicKey \in Nat \cup {None} /\ serverKey \in Nat
    /\ now \in 0..MaxTime /\ made \in 0..MaxCalls /\ mishaps \in 0..MaxMishaps

LEMMA ByParts ==
    /\ TypeOK <=> CallsTyped /\ MemoryTyped /\ TableTyped /\ RestTyped
    /\ LimitHolds <=> MemoryHolds /\ TableHolds
BY DEF TypeOK, CallsTyped, MemoryTyped, TableTyped, RestTyped, LimitHolds, MemoryHolds, TableHolds

LEMMA PartsPrimed ==
    ASSUME CallsTyped', MemoryTyped', TableTyped', RestTyped', RequestsFit',
           MemoryFits', TableFits', MemoryHolds', TableHolds'
    PROVE  EdgeInv'
<1>1. TypeOK'
  BY DEF TypeOK, CallsTyped, MemoryTyped, TableTyped, RestTyped
<1>2. LimitHolds'
  BY DEF LimitHolds, MemoryHolds, TableHolds
<1> QED
  BY <1>1, <1>2 DEF EdgeInv

LEMMA InitFits == Init => EdgeInv
<1> SUFFICES ASSUME Init PROVE EdgeInv
  OBVIOUS
<1>0. /\ MaxTime \in Nat /\ MaxCalls \in Nat /\ MaxMishaps \in Nat
  BY SecureEdgeAssumption
<1>1. NoCall \in Call /\ NoRequest \in Request
  BY DEF NoCall, NoRequest, Call, Request
<1>2. TypeOK
  <2>1. CallsTyped
    BY <1>1 DEF Init, CallsTyped
  <2>2. MemoryTyped /\ TableTyped
    <3>1. <<>> \in Seq(Nat)
      OBVIOUS
    <3>2. MemoryTyped
      BY <3>1 DEF Init, MemoryTyped
    <3>3. TableTyped
      BY <3>1 DEF Init, TableTyped
    <3> QED BY <3>2, <3>3
  <2>3. RestTyped
    BY <1>0 DEF Init, RestTyped
  <2> QED BY <2>1, <2>2, <2>3, ByParts
<1>3. RequestsFit
  <2>1. \A c \in Calls : call[c] = NoCall /\ request[c] = NoRequest /\ ran[c] = 0
    BY DEF Init
  <2>2. Fits(allowPlainFallback, NoCall, NoRequest, 0)
    BY DEF Fits, Bound, Waits, NoCall, NoRequest
  <2> QED BY <2>1, <2>2, CallByCall
<1>4. MemoryFits
  BY DEF Init, MemoryFits
<1>5. TableFits
  <2>1. \A c \in Calls : request[c].row = None /\ request[c].at = "none"
    BY DEF Init, NoRequest
  <2>2. ChecksFit
    BY <2>1 DEF Init, ChecksFit, Checking
  <2>3. RowCounts /\ RowStays
    BY <2>1 DEF Init, RowCounts, RowStays
  <2> QED BY <2>2, <2>3 DEF TableFits
<1>6. LimitHolds
  BY DEF Init, LimitHolds, Spaced
<1> QED
  BY <1>2, <1>3, <1>4, <1>5, <1>6 DEF EdgeInv

\* The rest keeps its types, and the clock goes on.
LEMMA RestKept ==
    ASSUME TypeOK, Next
    PROVE  RestTyped' /\ now' \in Nat /\ now <= now' /\ allowPlainFallback' = allowPlainFallback
<1>0. /\ RestTyped /\ now \in Nat /\ made \in Nat /\ mishaps \in Nat /\ serverKey \in Nat
      /\ MaxTime \in Nat /\ MaxCalls \in Nat /\ MaxMishaps \in Nat
  BY SecureEdgeAssumption DEF TypeOK, RestTyped
<1>1. CASE Tick
  BY <1>0, <1>1 DEF Tick, RestTyped, options, client
<1>2. CASE Rekey
  BY <1>0, <1>2 DEF Rekey, Mishap, RestTyped, options, client
<1>3. ASSUME NEW c \in Calls, ClientStep(c)
      PROVE  /\ UNCHANGED <<options, serverKey, now>> /\ cachedPublicKey' \in Nat \cup {None}
             /\ made' \in 0..MaxCalls /\ mishaps' \in 0..MaxMishaps
  <2>1. ASSUME NEW to \in {"proxy", "own"}, invoke(c, to)
        PROVE  /\ UNCHANGED <<options, serverKey, now, mishaps, cachedPublicKey>>
               /\ made' \in 0..MaxCalls
    BY <1>0, <2>1 DEF invoke, RestTyped
  <2>2. CASE KeyImported(c)
    <3>1. call[c].key \in Nat \cup {None}
      BY DEF TypeOK, Call
    <3> QED BY <1>0, <2>2, <3>1 DEF KeyImported, RestTyped
  <2>3. CASE KeyRead(c) \/ Seal(c) \/ Opened(c) \/ PlainAnswered(c)
    BY <1>0, <2>3 DEF KeyRead, Seal, Opened, PlainAnswered, RestTyped
  <2>4. CASE SetupFails(c) \/ ConnectionFails(c)
    <3>1. UNCHANGED <<options, serverKey, now, made, cachedPublicKey>> /\ Mishap
      BY <2>4 DEF SetupFails, ConnectionFails
    <3>2. mishaps' \in 0..MaxMishaps
      BY <1>0, <3>1 DEF Mishap
    <3> QED BY <1>0, <3>1, <3>2 DEF RestTyped
  <2> QED BY <1>0, <1>3, <2>1, <2>2, <2>3, <2>4 DEF ClientStep, RestTyped
<1>4. ASSUME NEW c \in Calls, LimiterStep(c) \/ FunctionStep(c)
      PROVE  /\ UNCHANGED <<options, serverKey, now, made, cachedPublicKey>>
             /\ mishaps' \in 0..MaxMishaps
  <2>1. CASE FunctionStep(c)
    BY <1>0, <2>1 DEF FunctionStep, OwnRuns, Refuse, Run, Reject, client, RestTyped
  <2>2. CASE LimiterStep(c)
    <3>1. ASSUME NEW i \in Isolates, CheckInMemory(c, i) \/ ReadFails(c, i)
          PROVE  /\ UNCHANGED <<options, serverKey, now, made, cachedPublicKey>>
                 /\ mishaps' \in 0..MaxMishaps
      BY <1>0, <3>1 DEF CheckInMemory, ReadFails, Mishap, client, RestTyped
    <3>2. CASE StartCheck(c) \/ ReadRow(c) \/ Decide(c) \/ WriteFails(c)
      BY <1>0, <3>2 DEF StartCheck, ReadRow, Decide, WriteFails, Mishap, client, RestTyped
    <3> QED BY <2>2, <3>1, <3>2 DEF LimiterStep
  <2> QED BY <1>4, <2>1, <2>2
<1> QED
  BY <1>0, <1>1, <1>2, <1>3, <1>4 DEF Next, RestTyped, options

\* Steps that leave the limiter alone.
LEMMA LimiterAlone ==
    ASSUME EdgeInv, Next, UNCHANGED <<memory, table>>, CallsTyped', RequestsFit',
           \A c \in Calls : request'[c].at \in {"reading", "read"} => request'[c] = request[c],
           \A c \in Calls : request'[c].row \in {None, request[c].row}
    PROVE  EdgeInv'
<1>1. RestTyped' /\ now' \in Nat /\ now <= now'
  BY RestKept DEF EdgeInv
<1>2. TypeOK /\ MemoryFits /\ TableFits /\ MemoryHolds /\ TableHolds
  BY ByParts DEF EdgeInv
<1>3. MemoryTyped' /\ MemoryFits' /\ MemoryHolds'
  BY <1>1, <1>2, MemoryAlone
<1>4. TableTyped' /\ TableFits' /\ TableHolds'
  BY <1>1, <1>2, TableAlone
<1> QED
  BY <1>1, <1>3, <1>4, PartsPrimed

\* A request that is new, or answered, is not being checked.
LEMMA OutOfCheck ==
    ASSUME NEW c \in Calls,
           \A d \in Calls : d # c => request'[d] = request[d],
           request'[c].at \notin {"reading", "read"}, request'[c].row \in {None, request[c].row}
    PROVE  /\ \A d \in Calls : request'[d].at \in {"reading", "read"} => request'[d] = request[d]
           /\ \A d \in Calls : request'[d].row \in {None, request[d].row}
OBVIOUS

LEMMA ClientKeeps ==
    ASSUME EdgeInv, NEW c \in Calls, ClientStep(c)
    PROVE  EdgeInv'
<1>0. TypeOK /\ RequestsFit /\ Next
  BY DEF EdgeInv, Next
<1>1. CallsTyped' /\ RequestsFit'
  BY <1>0, InvokeFits, KeyFits, SealFits, AnsweredFits DEF ClientStep
<1>2. UNCHANGED <<memory, table>>
  BY DEF ClientStep, invoke, KeyRead, KeyImported, Seal, SetupFails, Opened, PlainAnswered,
         ConnectionFails
<1>3. \/ request' = request \/ send(c, TRUE) \/ send(c, FALSE)
      \/ request' = [request EXCEPT ![c] = NoRequest]
  <2>1. ASSUME NEW setup \in BOOLEAN, caught(c, setup)
        PROVE  request' = request \/ send(c, FALSE)
    BY <2>1 DEF caught
  <2>2. CASE SetupFails(c)
    BY <2>1, <2>2 DEF SetupFails
  <2>3. CASE Opened(c)
    BY <2>1, <2>3 DEF Opened
  <2>4. CASE ConnectionFails(c)
    BY <2>1, <2>4 DEF ConnectionFails
  <2>5. CASE (\E to \in {"proxy", "own"} : invoke(c, to)) \/ Seal(c)
    BY <2>5 DEF invoke, Seal
  <2>6. CASE KeyRead(c) \/ KeyImported(c) \/ PlainAnswered(c)
    BY <2>6 DEF KeyRead, KeyImported, PlainAnswered
  <2> QED BY <2>2, <2>3, <2>4, <2>5, <2>6 DEF ClientStep
<1>4. /\ \A d \in Calls : request'[d].at \in {"reading", "read"} => request'[d] = request[d]
      /\ \A d \in Calls : request'[d].row \in {None, request[d].row}
  <2>1. CASE request' = request
    BY <2>1
  <2>2. ASSUME NEW sealed \in BOOLEAN, send(c, sealed)
        PROVE  /\ \A d \in Calls : d # c => request'[d] = request[d]
               /\ request'[c].at = "sent" /\ request'[c].row = None
    BY <1>0, <2>2 DEF send, NoRequest, TypeOK
  <2>3. CASE request' = [request EXCEPT ![c] = NoRequest]
    <3>1. /\ \A d \in Calls : d # c => request'[d] = request[d]
          /\ request'[c].at = "none" /\ request'[c].row = None
      BY <1>0, <2>3 DEF NoRequest, TypeOK
    <3> QED BY <3>1, OutOfCheck
  <2>4. CASE send(c, TRUE) \/ send(c, FALSE)
    <3>1. /\ \A d \in Calls : d # c => request'[d] = request[d]
          /\ request'[c].at = "sent" /\ request'[c].row = None
      BY <2>2, <2>4
    <3> QED BY <3>1, OutOfCheck
  <2> QED BY <1>3, <2>1, <2>3, <2>4
<1> QED
  BY <1>0, <1>1, <1>2, <1>4, LimiterAlone

\* What an answer leaves of a request.
LEMMA AnswerEnds ==
    ASSUME TypeOK, NEW c \in Calls, NEW a, answer(c, a)
    PROVE  /\ \A d \in Calls : request'[d].at \in {"reading", "read"} => request'[d] = request[d]
           /\ \A d \in Calls : request'[d].row \in {None, request[d].row}
<1>1. /\ \A d \in Calls : d # c => request'[d] = request[d]
      /\ request'[c].at = "answered" /\ request'[c].row = None
  BY DEF answer, NoRequest, TypeOK
<1> QED
  BY <1>1, OutOfCheck

LEMMA FunctionKeeps ==
    ASSUME EdgeInv, NEW c \in Calls, FunctionStep(c)
    PROVE  EdgeInv'
<1>0. TypeOK /\ RequestsFit /\ Next
  BY DEF EdgeInv, Next
<1>1. CallsTyped' /\ RequestsFit'
  BY <1>0, FunctionFits
<1>2. UNCHANGED <<memory, table>>
  BY DEF FunctionStep, OwnRuns, Refuse, Run, Reject
<1>3. \E a : answer(c, a)
  BY DEF FunctionStep, OwnRuns, Refuse, Run, Reject
<1>4. /\ \A d \in Calls : request'[d].at \in {"reading", "read"} => request'[d] = request[d]
      /\ \A d \in Calls : request'[d].row \in {None, request[d].row}
  BY <1>0, <1>3, AnswerEnds
<1> QED
  BY <1>0, <1>1, <1>2, <1>4, LimiterAlone

LEMMA LimiterKeeps ==
    ASSUME EdgeInv, NEW c \in Calls, LimiterStep(c)
    PROVE  EdgeInv'
<1>0. TypeOK /\ RequestsFit /\ MemoryFits /\ TableFits /\ MemoryHolds /\ TableHolds /\ Next
  BY ByParts DEF EdgeInv, Next
<1>1. CallsTyped' /\ RequestsFit'
  BY <1>0, LimiterFits
<1>2. RestTyped' /\ now' \in Nat /\ now <= now'
  BY <1>0, RestKept
<1>3. ASSUME NEW i \in Isolates, CheckInMemory(c, i) \/ ReadFails(c, i)
      PROVE  /\ MemoryTyped' /\ MemoryFits' /\ MemoryHolds'
             /\ TableTyped' /\ TableFits' /\ TableHolds'
  <2>1. checkRateLimit(c, i) /\ now' = now /\ UNCHANGED table
    BY <1>3 DEF CheckInMemory, ReadFails
  <2>2. MemoryTyped' /\ MemoryFits' /\ MemoryHolds'
    BY <1>0, <2>1, CheckKeeps
  <2>3. /\ \A d \in Calls : request'[d].at \in {"reading", "read"} => request'[d] = request[d]
        /\ \A d \in Calls : request'[d].row \in {None, request[d].row}
    <3>1. CASE answer(c, "error")
      BY <1>0, <3>1, AnswerEnds
    <3>2. CASE admit(c)
      <4>1. /\ \A d \in Calls : d # c => request'[d] = request[d]
            /\ request'[c].at = "admitted" /\ request'[c].row = None
        BY <1>0, <3>2 DEF admit, TypeOK, Request
      <4> QED BY <4>1, OutOfCheck
    <3> QED BY <2>1, <3>1, <3>2, CheckCases
  <2> QED BY <1>0, <1>2, <2>1, <2>2, <2>3, TableAlone
<1>4. ASSUME StartCheck(c) \/ ReadRow(c) \/ Decide(c) \/ WriteFails(c)
      PROVE  /\ MemoryTyped' /\ MemoryFits' /\ MemoryHolds'
             /\ TableTyped' /\ TableFits' /\ TableHolds'
  <2>1. UNCHANGED memory
    BY <1>4 DEF StartCheck, ReadRow, Decide, WriteFails
  <2>2. MemoryTyped' /\ MemoryFits' /\ MemoryHolds'
    BY <1>0, <1>2, <2>1, MemoryAlone
  <2>3. TableTyped' /\ TableFits' /\ TableHolds'
    BY <1>0, <1>4, StartsCheck, ReadsRow, Decides, WriteLost
  <2> QED BY <2>2, <2>3
<1> QED
  BY <1>1, <1>2, <1>3, <1>4, PartsPrimed DEF LimiterStep

LEMMA StepKeeps == EdgeInv /\ [Next]_vars => EdgeInv'
<1> SUFFICES ASSUME EdgeInv, [Next]_vars PROVE EdgeInv'
  OBVIOUS
<1>0. TypeOK /\ RequestsFit
  BY DEF EdgeInv
<1>1. ASSUME Tick \/ Rekey PROVE EdgeInv'
  <2>1. /\ call' = call /\ request' = request /\ ran' = ran
        /\ allowPlainFallback' = allowPlainFallback /\ UNCHANGED <<memory, table>>
    BY <1>1 DEF Tick, Rekey, options, client
  <2>2. CallsTyped' /\ RequestsFit'
    BY <1>0, <2>1 DEF CallsTyped, TypeOK, RequestsFit, Pending, Most
  <2> QED BY <1>1, <2>1, <2>2, LimiterAlone DEF Next
<1>2. CASE UNCHANGED vars
  <2>1. /\ UNCHANGED <<allowPlainFallback, keyGiven, database, cachedPublicKey, call, request,
                       serverKey>>
        /\ UNCHANGED <<store, admitted, row, counted, overlapped, now, made, mishaps, ran>>
    BY <1>2 DEF vars, options, client, memory, table
  <2>2. TypeOK'
    BY <1>0, <2>1 DEF TypeOK
  <2>3. RequestsFit'
    BY <1>0, <2>1 DEF RequestsFit, Pending, Most
  <2>4. MemoryFits'
    BY <2>1 DEF EdgeInv, MemoryFits
  <2>5. TableFits'
    BY <2>1 DEF EdgeInv, TableFits, RowStays, RowCounts, ChecksFit, Checking
  <2>6. LimitHolds'
    BY <2>1 DEF EdgeInv, LimitHolds
  <2> QED BY <2>2, <2>3, <2>4, <2>5, <2>6 DEF EdgeInv
<1> QED
  BY <1>1, <1>2, ClientKeeps, FunctionKeeps, LimiterKeeps DEF Next
-----------------------------------------------------------------------------
\* The invariant of the invoker and the limiter.
THEOREM Invariance == Spec => []EdgeInv
BY InitFits, StepKeeps, PTL DEF Spec

\* The variables have their types; the hits of a row never exceed the limit.
THEOREM TypeCorrect == Spec => []TypeOK
<1>1. EdgeInv => TypeOK
  BY DEF EdgeInv
<1> QED
  BY <1>1, Invariance, PTL

\* However a call of the invoker fails, its proxy runs it once at most, and a
\* function that knows no envelopes twice at most, if the invoker may fall back;
\* one that succeeds was run.
THEOREM RunOnce == Spec => []RunsOnce
<1>1. EdgeInv => RunsOnce
  BY DEF EdgeInv, RequestsFit, RunsOnce
<1> QED
  BY <1>1, Invariance, PTL

\* In the memory of an isolate the limiter keeps any span of a window to the limit,
\* and in the table to twice the limit, unless checks overlap or a write fails.
THEOREM LimitKept == Spec => []LimitHolds
<1>1. EdgeInv => LimitHolds
  BY DEF EdgeInv
<1> QED
  BY <1>1, Invariance, PTL
=============================================================================
