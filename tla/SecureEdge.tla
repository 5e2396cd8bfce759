------------------------------ MODULE SecureEdge ------------------------------
(***************************************************************************)
(* Calls of a SecureEdgeInvoker, which encrypts their bodies, and the edge *)
(* functions that answer them: the proxies of the template, which limit    *)
(* how often they are called, and functions that know no envelopes.        *)
(*                                                                         *)
(* The limiter counts in the memory of an isolate, in one synchronous      *)
(* step, or in a row of the table rate_limits, which it reads and writes   *)
(* in two requests.  There is one identifier and one clock.                *)
(***************************************************************************)
EXTENDS Integers, Sequences

CONSTANTS
    Calls,       \* slots for calls of invoke under way at once
    Isolates,    \* isolates that run edge functions
    None,        \* null
    Limit,       \* options.limit
    Window,      \* WINDOW_MS
    MaxCalls,    \* bound on the calls
    MaxTime,     \* bound on the clock
    MaxMishaps   \* bound on failures and on replaced keys

ASSUME SecureEdgeAssumption ==
    /\ Limit \in Nat \ {0} /\ Window \in Nat \ {0}
    /\ MaxCalls \in Nat /\ MaxTime \in Nat /\ MaxMishaps \in Nat
    /\ None \notin Nat /\ None \notin [start : Nat, hits : Nat]

VARIABLES
    allowPlainFallback, keyGiven,   \* options of the invoker
    database,          \* SECURITY_RATE_LIMIT_MODE is database
    cachedPublicKey,   \* of the invoker
    call,              \* the calls, as the invoker sees them
    request,           \* their requests, as the server sees them
    serverKey,         \* the private key of the server
    store,             \* isolate -> times of admitted requests
    row,               \* the row of rate_limits
    now, made, mishaps,
    ran,               \* history: how often a call was run
    admitted,          \* history: times of the admissions, by isolate
    counted,           \* history: times of the admissions by the table
    overlapped         \* history: two checks of the table overlapped, or a write failed

options == <<allowPlainFallback, keyGiven, database>>
client == <<cachedPublicKey, call>>
memory == <<store, admitted>>
table == <<row, counted, overlapped>>
vars == <<options, client, request, serverKey, memory, table, now, made, mishaps, ran>>

NoCall == [at |-> "idle", to |-> "proxy", key |-> None]
NoRequest == [at |-> "none", sealed |-> FALSE, key |-> None, now |-> 0, row |-> None,
              answer |-> "none"]

\* A key given to the invoker is that of the server when the invoker is made.
Init ==
    /\ allowPlainFallback \in BOOLEAN /\ keyGiven \in BOOLEAN /\ database \in BOOLEAN
    /\ cachedPublicKey = None
    /\ call = [c \in Calls |-> NoCall] /\ request = [c \in Calls |-> NoRequest]
    /\ serverKey = 0
    /\ store = [i \in Isolates |-> <<>>] /\ row = None
    /\ now = 0 /\ made = 0 /\ mishaps = 0
    /\ ran = [c \in Calls |-> 0]
    /\ admitted = [i \in Isolates |-> <<>>] /\ counted = <<>> /\ overlapped = FALSE

Mishap == mishaps < MaxMishaps /\ mishaps' = mishaps + 1

Tick ==
    /\ now < MaxTime /\ now' = now + 1
    /\ UNCHANGED <<options, client, request, serverKey, memory, table, made, mishaps, ran>>

\* The key of the server is replaced.
Rekey ==
    /\ Mishap /\ serverKey' = serverKey + 1
    /\ UNCHANGED <<options, client, request, memory, table, now, made, ran>>
-----------------------------------------------------------------------------
\* invoke, up to the end of getPublicKey's synchronous part.
invoke(c, to) ==
    /\ call[c].at \in {"idle", "ok", "failed"} /\ request[c].at \in {"none", "answered"}
    /\ made < MaxCalls /\ made' = made + 1
    /\ call' = [call EXCEPT ![c] =
            IF cachedPublicKey # None THEN [at |-> "sealing", to |-> to, key |-> cachedPublicKey]
            ELSE IF keyGiven THEN [at |-> "importing", to |-> to, key |-> 0]
            ELSE [at |-> "fetching", to |-> to, key |-> None]]
    /\ request' = [request EXCEPT ![c] = NoRequest]
    /\ ran' = [ran EXCEPT ![c] = 0]
    /\ UNCHANGED <<options, cachedPublicKey, serverKey, memory, table, now, mishaps>>

\* The key function reads the key of the server.
KeyRead(c) ==
    /\ call[c].at = "fetching"
    /\ call' = [call EXCEPT ![c].at = "importing", ![c].key = serverKey]
    /\ UNCHANGED <<options, cachedPublicKey, request, serverKey, memory, table, now, made,
                   mishaps, ran>>

\* Its answer arrives, or the given key is imported: the invoker keeps it.
KeyImported(c) ==
    /\ call[c].at = "importing"
    /\ cachedPublicKey' = call[c].key
    /\ call' = [call EXCEPT ![c].at = "sealing"]
    /\ UNCHANGED <<options, request, serverKey, memory, table, now, made, mishaps, ran>>

send(c, sealed) ==
    request' = [request EXCEPT ![c] = [NoRequest EXCEPT !.at = "sent", !.sealed = sealed,
                                       !.key = IF sealed THEN call[c].key ELSE None]]

\* The body is encrypted and sent.
Seal(c) ==
    /\ call[c].at = "sealing"
    /\ call' = [call EXCEPT ![c].at = "waiting", ![c].key = None]
    /\ send(c, TRUE)
    /\ UNCHANGED <<options, cachedPublicKey, serverKey, memory, table, now, made, mishaps, ran>>

\* The catch block of invoke: errors of the encryption are of setup.
\* Mutant: every error is.
caught_Always(c, setup) ==
    IF allowPlainFallback
    THEN call' = [call EXCEPT ![c].at = "plain"] /\ send(c, FALSE)
    ELSE call' = [call EXCEPT ![c].at = "failed"] /\ UNCHANGED request

caught(c, setup) ==
    IF allowPlainFallback /\ setup
    THEN call' = [call EXCEPT ![c].at = "plain"] /\ send(c, FALSE)
    ELSE call' = [call EXCEPT ![c].at = "failed"] /\ UNCHANGED request

\* An error on the way to the request.  Of setup are an answer without a key, a key
\* that is none, no WebCrypto; not so a key function that fails, a body that is no JSON.
SetupFails(c) ==
    /\ Mishap
    /\ call[c].at \in {"fetching", "importing", "sealing"}
    /\ \E setup \in BOOLEAN : caught(c, setup)
    /\ UNCHANGED <<options, cachedPublicKey, serverKey, memory, table, now, made, ran>>

\* The answer arrives and is decrypted.  One that is no envelope is an error of setup.
Opened(c) ==
    /\ call[c].at = "waiting" /\ request[c].at = "answered"
    /\ \/ /\ request[c].answer = "envelope"
          /\ call' = [call EXCEPT ![c].at = "ok"] /\ UNCHANGED request
       \/ request[c].answer = "data" /\ caught(c, TRUE)
       \/ request[c].answer = "error" /\ caught(c, FALSE)
    /\ UNCHANGED <<options, cachedPublicKey, serverKey, memory, table, now, made, mishaps, ran>>

\* The answer to the request in plain text arrives.
PlainAnswered(c) ==
    /\ call[c].at = "plain" /\ request[c].at = "answered"
    /\ call' = [call EXCEPT ![c].at = IF request[c].answer = "error" THEN "failed" ELSE "ok"]
    /\ UNCHANGED <<options, cachedPublicKey, request, serverKey, memory, table, now, made,
                   mishaps, ran>>

\* The connection fails, however far the request is.
ConnectionFails(c) ==
    /\ Mishap
    /\ \/ call[c].at = "waiting" /\ caught(c, FALSE)
       \/ /\ call[c].at = "plain"
          /\ call' = [call EXCEPT ![c].at = "failed"] /\ UNCHANGED request
    /\ UNCHANGED <<options, cachedPublicKey, serverKey, memory, table, now, made, ran>>
-----------------------------------------------------------------------------
answer(c, a) == request' = [request EXCEPT ![c] = [NoRequest EXCEPT !.at = "answered", !.answer = a]]

\* The limiter lets the request pass.
admit(c) == request' = [request EXCEPT ![c].at = "admitted", ![c].now = 0, ![c].row = None]

\* A function that knows no envelopes runs, or fails on what it was sent.
OwnRuns(c) ==
    /\ request[c].at = "sent" /\ call[c].to = "own"
    /\ \/ ran' = [ran EXCEPT ![c] = @ + 1] /\ answer(c, "data")
       \/ ran' = ran /\ answer(c, "error")
    /\ UNCHANGED <<options, client, serverKey, memory, table, now, made, mishaps>>

AtProxy(c, at) == request[c].at = at /\ call[c].to = "proxy"

\* A proxy refuses: unauthorized, blocked, or misconfigured.
Refuse(c) ==
    /\ AtProxy(c, "sent") /\ answer(c, "error")
    /\ UNCHANGED <<options, client, serverKey, memory, table, now, made, mishaps, ran>>

\* checkRateLimit, which has no await.  The times ascend, so that those the filter
\* of prune keeps, of the last Window, are the end of the list after the first k.
\* Mutant: one too many.
checkRateLimit_Over(c, i) == \E k \in 0..Len(store[i]) :
    /\ \A j \in 1..Len(store[i]) : now - store[i][j] < Window <=> j > k
    /\ LET kept == SubSeq(store[i], k + 1, Len(store[i])) IN
       IF Len(kept) > Limit
       THEN answer(c, "error") /\ store' = [store EXCEPT ![i] = kept] /\ UNCHANGED admitted
       ELSE /\ admit(c)
            /\ store' = [store EXCEPT ![i] = Append(kept, now)]
            /\ admitted' = [admitted EXCEPT ![i] = Append(@, now)]

checkRateLimit(c, i) == \E k \in 0..Len(store[i]) :
    /\ \A j \in 1..Len(store[i]) : now - store[i][j] < Window <=> j > k
    /\ LET kept == SubSeq(store[i], k + 1, Len(store[i])) IN
       IF Len(kept) >= Limit
       THEN answer(c, "error") /\ store' = [store EXCEPT ![i] = kept] /\ UNCHANGED admitted
       ELSE /\ admit(c)
            /\ store' = [store EXCEPT ![i] = Append(kept, now)]
            /\ admitted' = [admitted EXCEPT ![i] = Append(@, now)]

\* checkRateLimitWithPolicy in memory mode.
CheckInMemory(c, i) ==
    /\ AtProxy(c, "sent") /\ ~database
    /\ checkRateLimit(c, i)
    /\ UNCHANGED <<options, client, serverKey, table, now, made, mishaps, ran>>

Checking(c) == request[c].at \in {"reading", "read"}

\* In database mode it takes the time and sends its read,
StartCheck(c) ==
    /\ AtProxy(c, "sent") /\ database
    /\ request' = [request EXCEPT ![c].at = "reading", ![c].now = now]
    /\ overlapped' = (overlapped \/ \E d \in Calls : Checking(d))
    /\ UNCHANGED <<options, client, serverKey, memory, row, counted, now, made, mishaps, ran>>

ReadRow(c) ==
    /\ request[c].at = "reading"
    /\ request' = [request EXCEPT ![c].at = "read", ![c].row = row]
    /\ UNCHANGED <<options, client, serverKey, memory, table, now, made, mishaps, ran>>

\* or falls back to the memory of its isolate,
ReadFails(c, i) ==
    /\ request[c].at = "reading" /\ Mishap
    /\ checkRateLimit(c, i)
    /\ UNCHANGED <<options, client, serverKey, table, now, made, ran>>

\* What the row becomes for a request that read it, None if the request is refused.
\* An insert fails if there is a row by now, which nobody notices, and an update of
\* the hits leaves the start as it is by now.
\* Mutant: one too many.
written_Over(r) ==
    CASE r.row = None -> IF row = None THEN [start |-> r.now, hits |-> 1] ELSE row
      [] r.row # None /\ r.now - r.row.start >= Window -> [start |-> r.now, hits |-> 1]
      [] r.row # None /\ r.now - r.row.start < Window ->
            IF r.row.hits > Limit THEN None ELSE [row EXCEPT !.hits = r.row.hits + 1]

written(r) ==
    CASE r.row = None -> IF row = None THEN [start |-> r.now, hits |-> 1] ELSE row
      [] r.row # None /\ r.now - r.row.start >= Window -> [start |-> r.now, hits |-> 1]
      [] r.row # None /\ r.now - r.row.start < Window ->
            IF r.row.hits >= Limit THEN None ELSE [row EXCEPT !.hits = r.row.hits + 1]

\* and decides.
Decide(c) ==
    /\ request[c].at = "read"
    /\ LET w == written(request[c]) IN
       \/ w = None /\ answer(c, "error") /\ UNCHANGED <<row, counted>>
       \/ /\ w # None /\ row' = w
          /\ counted' = Append(counted, request[c].now)
          /\ admit(c)
    /\ UNCHANGED <<options, client, serverKey, memory, overlapped, now, made, mishaps, ran>>

\* The write fails, which nobody notices.
WriteFails(c) ==
    /\ request[c].at = "read" /\ written(request[c]) # None /\ Mishap
    /\ counted' = Append(counted, request[c].now) /\ overlapped' = TRUE
    /\ admit(c)
    /\ UNCHANGED <<options, client, serverKey, memory, row, now, made, ran>>

\* The body is decrypted, valid, and run; the answer is encrypted if the body was.
Run(c) ==
    /\ request[c].at = "admitted"
    /\ request[c].sealed => request[c].key = serverKey
    /\ ran' = [ran EXCEPT ![c] = @ + 1]
    /\ \/ answer(c, IF request[c].sealed THEN "envelope" ELSE "data")
       \/ answer(c, "error")
    /\ UNCHANGED <<options, client, serverKey, memory, table, now, made, mishaps>>

\* The body cannot be decrypted or is not valid, or its operation is not allowed.
Reject(c) ==
    /\ request[c].at = "admitted" /\ answer(c, "error")
    /\ UNCHANGED <<options, client, serverKey, memory, table, now, made, mishaps, ran>>
-----------------------------------------------------------------------------
ClientStep(c) ==
    \/ \E to \in {"proxy", "own"} : invoke(c, to)
    \/ KeyRead(c) \/ KeyImported(c) \/ Seal(c) \/ SetupFails(c)
    \/ Opened(c) \/ PlainAnswered(c) \/ ConnectionFails(c)

LimiterStep(c) ==
    \/ \E i \in Isolates : CheckInMemory(c, i) \/ ReadFails(c, i)
    \/ StartCheck(c) \/ ReadRow(c) \/ Decide(c) \/ WriteFails(c)

FunctionStep(c) == OwnRuns(c) \/ Refuse(c) \/ Run(c) \/ Reject(c)

Next ==
    \/ \E c \in Calls : ClientStep(c) \/ LimiterStep(c) \/ FunctionStep(c)
    \/ Tick \/ Rekey

Spec == Init /\ [][Next]_vars
-----------------------------------------------------------------------------
Row == [start : Nat, hits : 1..Limit]
Call == [at : {"idle", "fetching", "importing", "sealing", "waiting", "plain", "ok", "failed"},
         to : {"proxy", "own"}, key : Nat \cup {None}]
Request == [at : {"none", "sent", "reading", "read", "admitted", "answered"}, sealed : BOOLEAN,
            key : Nat \cup {None}, now : Nat, row : Row \cup {None},
            answer : {"none", "envelope", "data", "error"}]

\* The variables have their types; the hits of the row never exceed the limit.
TypeOK ==
    /\ allowPlainFallback \in BOOLEAN /\ keyGiven \in BOOLEAN /\ database \in BOOLEAN
    /\ cachedPublicKey \in Nat \cup {None} /\ serverKey \in Nat
    /\ call \in [Calls -> Call] /\ request \in [Calls -> Request]
    /\ store \in [Isolates -> Seq(Nat)] /\ row \in Row \cup {None}
    /\ now \in 0..MaxTime /\ made \in 0..MaxCalls /\ mishaps \in 0..MaxMishaps
    /\ ran \in [Calls -> Nat]
    /\ admitted \in [Isolates -> Seq(Nat)] /\ counted \in Seq(Nat) /\ overlapped \in BOOLEAN

\* A call is run once at most, also one that is sent again in plain text and one
\* whose answer is lost; only a function that knows no envelopes may run it twice,
\* if the invoker may fall back.  A call that succeeds was run.
Most(c) == IF allowPlainFallback /\ call[c].to = "own" THEN 2 ELSE 1

RunsOnce == \A c \in Calls : ran[c] <= Most(c) /\ (call[c].at = "ok" => ran[c] >= 1)

\* n + 1 successive times span a window.
Spaced(times, n) == \A k \in 1..Len(times) : k + n <= Len(times) => times[k + n] - times[k] >= Window

\* In the memory of an isolate at most Limit requests are admitted in any span of a
\* window.  The windows of the table follow one another, and each starts with an
\* admission: two of them have at most one less than twice the limit in such a span,
\* unless two checks overlapped or a write failed (checkRateLimitWithPolicy).
LimitHolds ==
    /\ \A i \in Isolates : Spaced(admitted[i], Limit)
    /\ ~overlapped => Spaced(counted, 2 * Limit - 1)
-----------------------------------------------------------------------------
Pending(c) == request[c].at \in {"sent", "reading", "read", "admitted"}

\* How far a request is says how often its call was run.
RequestsFit == \A c \in Calls :
    /\ call[c].at \in {"fetching", "importing", "sealing"} => request[c].at = "none"
    /\ call[c].at = "waiting" =>
        /\ ran[c] <= 1
        /\ Pending(c) => request[c].sealed /\ ran[c] = 0
        /\ request[c].answer = "data" => call[c].to = "own"
    /\ call[c].at = "ok" => ran[c] >= 1
    /\ request[c].at = "none" => ran[c] = 0
    /\ request[c].at \in {"reading", "read", "admitted"} => call[c].to = "proxy"
    /\ Pending(c) => ran[c] < Most(c)
    /\ request[c].at = "answered" => request[c].answer = "error" \/ ran[c] >= 1
    /\ ran[c] <= Most(c)

\* An isolate's list is the end of what it admitted; what is before is over a window ago.
MemoryFits == \A i \in Isolates :
    LET before == Len(admitted[i]) - Len(store[i]) IN
    /\ before >= 0
    /\ \A j \in 1..Len(store[i]) : store[i][j] = admitted[i][before + j]
    /\ \A j \in 1..Len(admitted[i]) : j <= before => now - admitted[i][j] >= Window

\* While checks do not overlap, the row counts the last admissions, of which the first
\* made its start; no earlier one came later, and all but the last Limit - 1 of those
\* before came a window earlier.
RowCounts ==
    /\ row = None => counted = <<>>
    /\ row # None => LET first == Len(counted) + 1 - row.hits IN
        /\ first >= 1
        /\ \A k \in 1..Len(counted) : k <= first => counted[k] <= row.start
        /\ \A k \in 1..Len(counted) : k + Limit <= first => counted[k] + Window <= row.start

\* And at most one check is under way, with the latest time and what the row is.
ChecksFit ==
    /\ \A c, d \in Calls : Checking(c) /\ Checking(d) => c = d
    /\ \A k \in 1..Len(counted) : counted[k] <= now
    /\ row # None => row.start <= now
    /\ \A c \in Calls : Checking(c) =>
        /\ \A k \in 1..Len(counted) : counted[k] <= request[c].now
        /\ row # None => row.start <= request[c].now
        /\ request[c].now <= now
        /\ request[c].at = "read" => request[c].row = row

\* The row is never deleted.
RowStays == \A c \in Calls : request[c].row # None => row # None

TableFits == RowStays /\ (~overlapped => RowCounts /\ ChecksFit)

\* The invariant that steps preserve: the above, the types and the limit.
EdgeInv == TypeOK /\ RequestsFit /\ MemoryFits /\ TableFits /\ LimitHolds
=============================================================================
