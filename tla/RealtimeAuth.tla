----------------------------- MODULE RealtimeAuth -----------------------------
(***************************************************************************)
(* The access token of one RealtimeClient that a SupabaseClient made: who  *)
(* sets it, which channels hear of it.                                     *)
(*                                                                         *)
(* setAuth(token) takes a token at once and marks it as set by hand;       *)
(* setAuth() awaits the accessToken callback, and several such calls may   *)
(* be under way.  Connecting, a heartbeat and a join that is answered call *)
(* setAuth(), unless the token was set by hand; the relay of the           *)
(* SupabaseClient calls either, on the auth events it is told of.          *)
(*                                                                         *)
(* A channel carries its token in the payload of its join, which is fixed  *)
(* when the join is sent, or put into the buffer of a socket that is not   *)
(* open yet.  The socket and the channels are those of the phoenix library.*)
(***************************************************************************)
EXTENDS Naturals, Sequences

CONSTANTS
    Tokens,      \* access tokens of signed-in users
    AnonKey,     \* supabaseKey, the answer of _getAccessToken without a session
    None,        \* null and undefined
    Topics,      \* topics of channels
    Calls,       \* slots for setAuth calls under way at once
    MaxEvents    \* bound on what the world does: auth events, calls, failures

ASSUME RealtimeAssumption ==
    /\ AnonKey \notin Tokens /\ None \notin Tokens \cup {AnonKey}
    /\ MaxEvents \in Nat

VARIABLES
    thirdParty,        \* the SupabaseClient was given the option accessToken
    session,           \* the access token of the session, or of the third party
    authEvents,        \* auth events on their way to _handleTokenChanged
    changedAccessToken,\* what the relay handed over last
    accessTokenValue,  \* the token of the RealtimeClient
    manuallySet,       \* _manuallySetToken
    authPromise,       \* _authPromise: the call it belongs to, or None
    call,              \* the setAuth calls
    conn,              \* the socket
    reconnect,         \* the reconnect timer, and what _reconnectAuth waits for
    chan,              \* the channels, one of a topic
    events,            \* what the world did so far
    handed,            \* history: the token given to setAuth last, and by whom,
                       \* until an answer of the callback takes its place
    unrelayed          \* history: the session changed last without an event

world == <<thirdParty, session, authEvents, unrelayed>>
token == <<accessTokenValue, manuallySet, handed>>
asking == <<authPromise, call>>
socket == <<conn, reconnect>>
vars == <<world, changedAccessToken, token, asking, socket, chan, events>>

Creds == Tokens \cup {AnonKey}
Nobody == [by |-> "nobody", token |-> None]

\* A call that the client makes of itself, not on setAuth(), is "auto".
NoCall == [at |-> "idle", auto |-> FALSE, got |-> None]
NoChannel == [at |-> "none", payload |-> None, sent |-> None, told |-> None,
              missed |-> FALSE]

\* The options of the client are its only difference at the start; with a
\* third party, the constructor has called accessToken.
Init ==
    /\ thirdParty \in BOOLEAN /\ session \in Tokens \cup {None}
    /\ authEvents = <<>> /\ changedAccessToken = None
    /\ accessTokenValue = None /\ manuallySet = FALSE /\ authPromise = None
    /\ IF thirdParty
       THEN call = [c \in Calls |->
                IF c = CHOOSE d \in Calls : TRUE THEN [NoCall EXCEPT !.at = "starting"] ELSE NoCall]
       ELSE call = [c \in Calls |-> NoCall]
    /\ conn = "closed" /\ reconnect = [at |-> "none", on |-> None]
    /\ chan = [t \in Topics |-> NoChannel]
    /\ events = 0
    /\ handed = Nobody /\ unrelayed = FALSE

Happens == events < MaxEvents /\ events' = events + 1
-----------------------------------------------------------------------------
\* The channels, after the client's token became tok: the payload of the next
\* join, unless tok is null, and a message to those that are joined.
\* Mutant: a channel that is not joined keeps its payload.
toldChannels_Joined(tok) == [t \in Topics |->
    IF accessTokenValue = tok \/ chan[t].at # "joined" THEN chan[t]
    ELSE [chan[t] EXCEPT !.payload = IF tok = None THEN @ ELSE tok, !.told = tok]]

\* Mutant: no message to the joined channels.
toldChannels_Quiet(tok) == [t \in Topics |->
    IF accessTokenValue = tok \/ chan[t].at = "none" THEN chan[t]
    ELSE [chan[t] EXCEPT !.payload = IF tok = None THEN @ ELSE tok,
                         !.missed = @ \/ chan[t].at = "joining"]]

toldChannels(tok) == [t \in Topics |->
    IF accessTokenValue = tok \/ chan[t].at = "none" THEN chan[t]
    ELSE [chan[t] EXCEPT !.payload = IF tok = None THEN @ ELSE tok,
                         !.told = IF chan[t].at = "joined" THEN tok ELSE @,
                         !.missed = @ \/ chan[t].at = "joining"]]

\* _performAuth once it has its token, set by hand or by nobody.
\* Mutant: a call without a token leaves the mark as it is.
setToken_KeepsMark(tok, by) ==
    /\ accessTokenValue' = tok /\ manuallySet' = (by # "nobody" \/ manuallySet)
    /\ chan' = toldChannels(tok)
    /\ handed' = IF by = "nobody" THEN Nobody ELSE [by |-> by, token |-> tok]

setToken(tok, by) ==
    /\ accessTokenValue' = tok /\ manuallySet' = (by # "nobody")
    /\ chan' = toldChannels(tok)
    /\ handed' = IF by = "nobody" THEN Nobody ELSE [by |-> by, token |-> tok]

\* A new call of setAuth, in one of the slots that are free.
freeCall == CHOOSE c \in Calls : call[c].at = "idle"

begin(at, auto) ==
    /\ \E c \in Calls : call[c].at = "idle"
    /\ call' = [call EXCEPT ![freeCall] = [NoCall EXCEPT !.at = at, !.auto = auto]]
    /\ authPromise' = freeCall

\* setAuth(tok), up to the end of its _performAuth, which has no await.
handIn(tok, by) == begin("done", FALSE) /\ setToken(tok, by)

\* setAuth(), up to the accessToken callback.
ask(auto) == begin("asked", auto)

autoAskIf(cond) == IF cond THEN ask(TRUE) ELSE UNCHANGED asking

\* _setAuthSafely.
\* Mutant: also for a token set by hand.
setAuthSafely_Always == ask(TRUE)

setAuthSafely == autoAskIf(~manuallySet)

\* _getAccessToken.
getAccessToken == IF session = None /\ ~thirdParty THEN AnonKey ELSE session

\* The callback finds its token.
Read(c) ==
    /\ call[c].at \in {"starting", "asked"}
    /\ call' = [call EXCEPT ![c].at = IF @ = "asked" THEN "read" ELSE "started",
                            ![c].got = getAccessToken]
    /\ UNCHANGED <<world, changedAccessToken, token, authPromise, socket, chan, events>>

\* getSession has an error and no session, which _getAccessToken does not tell
\* from signed out.
ReadsNoSession(c) ==
    /\ call[c].at = "asked" /\ ~thirdParty /\ session # None /\ Happens
    /\ call' = [call EXCEPT ![c].at = "read", ![c].got = AnonKey]
    /\ UNCHANGED <<world, changedAccessToken, token, authPromise, socket, chan>>

\* The callback answers, and the rest of _performAuth runs.
Answered(c) ==
    /\ call[c].at = "read"
    /\ call' = [call EXCEPT ![c] = [NoCall EXCEPT !.at = "done"]]
    /\ setToken(call[c].got, "nobody")
    /\ UNCHANGED <<world, changedAccessToken, authPromise, socket, events>>

\* The callback fails: the cached token takes the place of its answer.
Failed(c) ==
    /\ call[c].at \in {"asked", "read"} /\ Happens
    /\ call' = [call EXCEPT ![c] = [NoCall EXCEPT !.at = "done"]]
    /\ setToken(accessTokenValue, "nobody")
    /\ UNCHANGED <<world, changedAccessToken, authPromise, socket>>

\* The end of setAuth: it forgets the promise, its own or another's, and wakes
\* a _reconnectAuth that waits for its own.
Finish(c) ==
    /\ call[c].at = "done"
    /\ call' = [call EXCEPT ![c] = NoCall]
    /\ authPromise' = None
    /\ reconnect' = IF reconnect.on = c THEN [at |-> "ready", on |-> None] ELSE reconnect
    /\ UNCHANGED <<world, changedAccessToken, token, conn, chan, events>>

\* The constructor of the SupabaseClient has the third party's token: setAuth(token),
\* which asks again when that is null.
Started(c) ==
    /\ call[c].at = "started"
    /\ authPromise' = c
    /\ \/ /\ call[c].got # None
          /\ call' = [call EXCEPT ![c] = [NoCall EXCEPT !.at = "done"]]
          /\ setToken(call[c].got, "setup")
       \/ /\ call[c].got = None
          /\ call' = [call EXCEPT ![c].at = "asked"]
          /\ UNCHANGED <<token, chan>>
    /\ UNCHANGED <<world, changedAccessToken, socket, events>>

\* The third party fails; the constructor warns.
StartFails(c) ==
    /\ call[c].at \in {"starting", "started"} /\ Happens
    /\ call' = [call EXCEPT ![c] = NoCall]
    /\ UNCHANGED <<world, changedAccessToken, token, authPromise, socket, chan>>

\* The application's setAuth(token) and setAuth().
AppHandsIn(tok) ==
    /\ Happens /\ handIn(tok, "app")
    /\ UNCHANGED <<world, changedAccessToken, socket>>

AppAsks ==
    /\ Happens /\ ask(FALSE)
    /\ UNCHANGED <<world, changedAccessToken, token, socket, chan>>
-----------------------------------------------------------------------------
\* The session changes: signed in or refreshed, with an event for the relay.
SignedIn(tok) ==
    /\ ~thirdParty /\ Happens
    /\ session' = tok /\ unrelayed' = FALSE
    /\ authEvents' = Append(authEvents, [event |-> "SIGNED_IN", token |-> tok])
    /\ UNCHANGED <<thirdParty, changedAccessToken, token, asking, socket, chan>>

SignedOut ==
    /\ ~thirdParty /\ session # None /\ Happens
    /\ session' = None /\ unrelayed' = FALSE
    /\ authEvents' = Append(authEvents, [event |-> "SIGNED_OUT", token |-> None])
    /\ UNCHANGED <<thirdParty, changedAccessToken, token, asking, socket, chan>>

\* The session changes with an event that the relay does not look at, such as
\* PASSWORD_RECOVERY or MFA_CHALLENGE_VERIFIED; a third party has no events.
ChangedQuietly(tok) ==
    /\ (thirdParty \/ tok # None) /\ tok # session /\ Happens
    /\ session' = tok /\ unrelayed' = TRUE
    /\ UNCHANGED <<thirdParty, authEvents, changedAccessToken, token, asking, socket, chan>>

\* _handleTokenChanged.
\* Mutant: a sign-out is not looked at.
HandleTokenChanged_In ==
    /\ authEvents # <<>> /\ authEvents' = Tail(authEvents)
    /\ LET e == Head(authEvents) IN
       IF e.event = "SIGNED_IN" /\ changedAccessToken # e.token
       THEN changedAccessToken' = e.token /\ handIn(e.token, "relay")
       ELSE UNCHANGED <<changedAccessToken, token, asking, chan>>
    /\ UNCHANGED <<thirdParty, session, unrelayed, socket, events>>

HandleTokenChanged ==
    /\ authEvents # <<>> /\ authEvents' = Tail(authEvents)
    /\ LET e == Head(authEvents) IN
       \/ /\ e.event = "SIGNED_IN" /\ changedAccessToken # e.token
          /\ changedAccessToken' = e.token
          /\ handIn(e.token, "relay")
       \/ /\ e.event = "SIGNED_IN" /\ changedAccessToken = e.token
          /\ UNCHANGED <<changedAccessToken, token, asking, chan>>
       \/ /\ e.event = "SIGNED_OUT"
          /\ changedAccessToken' = None
          /\ ask(FALSE)
          /\ UNCHANGED <<token, chan>>
    /\ UNCHANGED <<thirdParty, session, unrelayed, socket, events>>
-----------------------------------------------------------------------------
\* connect(): a socket that is not closed is left alone.
connect ==
    \/ /\ conn # "closed" /\ UNCHANGED <<conn, asking>>
    \/ /\ conn = "closed" /\ conn' = "connecting"
       /\ IF authPromise = None THEN setAuthSafely ELSE UNCHANGED asking

AppConnects ==
    /\ Happens /\ connect
    /\ UNCHANGED <<world, changedAccessToken, token, reconnect, chan>>

\* A join is sent, or buffered, with the payload of the moment.
joining(ch) == [ch EXCEPT !.at = "joining", !.sent = ch.payload]

\* The socket opens: the buffer goes out, the channels that failed join again,
\* and the client asks for a token if it has none and no call is under way.
Opens ==
    /\ conn = "connecting" /\ conn' = "open"
    /\ chan' = [t \in Topics |-> IF chan[t].at = "errored" THEN joining(chan[t]) ELSE chan[t]]
    /\ autoAskIf(authPromise = None /\ accessTokenValue = None)
    /\ UNCHANGED <<world, changedAccessToken, token, reconnect, events>>

unjoined(ch) == [NoChannel EXCEPT !.at = "errored", !.payload = ch.payload]

errored(ch) == IF ch.at \in {"joining", "joined"} THEN unjoined(ch) ELSE ch

\* The socket is lost, or the attempt fails: the channels fail, and the reconnect
\* timer is set unless a reconnect is under way.
Drops ==
    /\ conn \in {"connecting", "open"} /\ Happens
    /\ conn' = "closed" /\ chan' = [t \in Topics |-> errored(chan[t])]
    /\ reconnect' = IF reconnect.at = "none" THEN [reconnect EXCEPT !.at = "due"] ELSE reconnect
    /\ UNCHANGED <<world, changedAccessToken, token, asking>>

\* disconnect(), which also resets the reconnect timer.
Disconnect ==
    /\ conn \in {"connecting", "open"} /\ Happens
    /\ conn' = "closing"
    /\ reconnect' = IF reconnect.at = "due" THEN [reconnect EXCEPT !.at = "none"] ELSE reconnect
    /\ UNCHANGED <<world, changedAccessToken, token, asking, chan>>

Closed ==
    /\ conn = "closing" /\ conn' = "closed"
    /\ chan' = [t \in Topics |-> errored(chan[t])]
    /\ UNCHANGED <<world, changedAccessToken, token, asking, reconnect, events>>

\* _reconnectAuth: it waits for the call whose promise the client holds.
Reconnect ==
    /\ reconnect.at = "due"
    /\ reconnect' = IF authPromise = None THEN [reconnect EXCEPT !.at = "ready"]
                    ELSE [at |-> "waiting", on |-> authPromise]
    /\ UNCHANGED <<world, changedAccessToken, token, asking, conn, chan, events>>

Reconnected ==
    /\ reconnect.at = "ready" /\ reconnect' = [at |-> "none", on |-> None]
    /\ connect
    /\ UNCHANGED <<world, changedAccessToken, token, chan, events>>

\* A heartbeat is sent.
Heartbeat ==
    /\ conn = "open" /\ setAuthSafely
    /\ UNCHANGED <<world, changedAccessToken, token, socket, chan, events>>
-----------------------------------------------------------------------------
Create(t) ==
    /\ chan[t].at = "none"
    /\ chan' = [chan EXCEPT ![t] = [NoChannel EXCEPT !.at = "new"]]
    /\ UNCHANGED <<world, changedAccessToken, token, asking, socket, events>>

\* The payload of a first join has the client's token, if there is one.
withToken(ch) == IF accessTokenValue = None THEN ch ELSE [ch EXCEPT !.payload = accessTokenValue]

\* subscribe(): connects, and joins a channel that has not joined yet.
\* Mutant: the join does not carry the client's token.
Subscribe_Bare(t) ==
    /\ chan[t].at # "none"
    /\ IF chan[t].at = "new" THEN UNCHANGED events ELSE Happens
    /\ connect
    /\ chan' = IF chan[t].at = "new" THEN [chan EXCEPT ![t] = joining(@)] ELSE chan
    /\ UNCHANGED <<world, changedAccessToken, token, reconnect>>

Subscribe(t) ==
    /\ chan[t].at # "none"
    /\ IF chan[t].at = "new" THEN UNCHANGED events ELSE Happens
    /\ connect
    /\ chan' = IF chan[t].at # "new" THEN chan
               ELSE [chan EXCEPT ![t] = joining(withToken(@))]
    /\ UNCHANGED <<world, changedAccessToken, token, reconnect>>

\* The join is answered: the server has the token that was sent.
Joined(t) ==
    /\ chan[t].at = "joining" /\ conn = "open"
    /\ chan' = [chan EXCEPT ![t].at = "joined", ![t].told = chan[t].sent, ![t].sent = None]
    /\ autoAskIf(~manuallySet)
    /\ UNCHANGED <<world, changedAccessToken, token, socket, events>>

\* The join is refused or times out; the rejoin timer tries again.
JoinFails(t) ==
    /\ chan[t].at = "joining" /\ conn = "open" /\ Happens
    /\ chan' = [chan EXCEPT ![t] = unjoined(@)]
    /\ UNCHANGED <<world, changedAccessToken, token, asking, socket>>

Rejoin(t) ==
    /\ chan[t].at = "errored" /\ conn = "open"
    /\ chan' = [chan EXCEPT ![t] = joining(@)]
    /\ UNCHANGED <<world, changedAccessToken, token, asking, socket, events>>

\* unsubscribe(): the channel leaves, closes, and is dropped from the list.
Unsubscribe(t) ==
    /\ chan[t].at \notin {"none", "leaving"} /\ Happens
    /\ chan' = [chan EXCEPT ![t] = [unjoined(@) EXCEPT !.at = "leaving"]]
    /\ UNCHANGED <<world, changedAccessToken, token, asking, socket>>

Left(t) ==
    /\ chan[t].at = "leaving"
    /\ chan' = [chan EXCEPT ![t] = NoChannel]
    /\ UNCHANGED <<world, changedAccessToken, token, asking, socket, events>>
-----------------------------------------------------------------------------
CallStep(c) ==
    \/ Read(c) \/ ReadsNoSession(c) \/ Answered(c) \/ Failed(c) \/ Finish(c)
    \/ Started(c) \/ StartFails(c)

WorldStep ==
    \/ \E tok \in Tokens : SignedIn(tok)
    \/ SignedOut
    \/ \E tok \in Tokens \cup {None} : ChangedQuietly(tok)
    \/ \E tok \in Tokens : AppHandsIn(tok)
    \/ AppAsks \/ AppConnects \/ Disconnect \/ Drops

SocketStep == Opens \/ Closed \/ Reconnect \/ Reconnected \/ Heartbeat

ChannelStep(t) ==
    Create(t) \/ Subscribe(t) \/ Joined(t) \/ JoinFails(t) \/ Rejoin(t) \/ Unsubscribe(t) \/ Left(t)

Next ==
    \/ \E c \in Calls : CallStep(c)
    \/ WorldStep
    \/ HandleTokenChanged
    \/ SocketStep
    \/ \E t \in Topics : ChannelStep(t)

Spec == Init /\ [][Next]_vars

\* The callback answers or fails, what was scheduled runs, auth events are
\* delivered, and an open socket sends heartbeats.
FairSpec ==
    /\ Spec
    /\ \A c \in Calls : WF_vars(Read(c)) /\ WF_vars(Answered(c)) /\ WF_vars(Started(c))
                        /\ WF_vars(Finish(c))
    /\ WF_vars(HandleTokenChanged) /\ WF_vars(Heartbeat)
-----------------------------------------------------------------------------
Call == [at : {"idle", "starting", "started", "asked", "read", "done"}, auto : BOOLEAN,
         got : Creds \cup {None}]
Channel == [at : {"none", "new", "joining", "joined", "errored", "leaving"},
            payload : Creds \cup {None}, sent : Creds \cup {None}, told : Creds \cup {None},
            missed : BOOLEAN]
AuthEvent == [event : {"SIGNED_IN"}, token : Tokens] \cup [event : {"SIGNED_OUT"}, token : {None}]

\* The variables have their types.
TypeOK ==
    /\ thirdParty \in BOOLEAN /\ session \in Tokens \cup {None}
    /\ authEvents \in Seq(AuthEvent)
    /\ changedAccessToken \in Tokens \cup {None}
    /\ accessTokenValue \in Creds \cup {None} /\ manuallySet \in BOOLEAN
    /\ authPromise \in Calls \cup {None} /\ call \in [Calls -> Call]
    /\ conn \in {"closed", "connecting", "open", "closing"}
    /\ reconnect \in [at : {"none", "due", "waiting", "ready"}, on : Calls \cup {None}]
    /\ chan \in [Topics -> Channel]
    /\ events \in 0..MaxEvents
    /\ handed \in [by : {"nobody", "app", "relay", "setup"}, token : Creds \cup {None}]
    /\ unrelayed \in BOOLEAN

\* A channel that has joined once joins again with the client's token, whatever
\* happened to the token, the socket and the channel in between.
JoinsWithLatest ==
    \A t \in Topics : chan[t].at \in {"joining", "joined", "errored"} =>
        accessTokenValue \in {None, chan[t].payload}

\* While the token counts as set by hand it is the one that was given to
\* setAuth last, and never the answer of a callback.
HandSetStands == manuallySet => accessTokenValue = handed.token /\ accessTokenValue # None

\* A joined channel has been told the client's token, unless the token changed
\* between its join and the answer, or is null and the channel joined again with
\* the token that its payload kept.
JoinedKnowLatest ==
    \A t \in Topics : chan[t].at = "joined" /\ ~chan[t].missed =>
        \/ chan[t].told = accessTokenValue
        \/ accessTokenValue = None /\ chan[t].told = chan[t].payload

\* The same of a join that is under way: it carries the client's token, unless
\* that changed since, or is null.
JoiningSendLatest ==
    \A t \in Topics : chan[t].at = "joining" /\ ~chan[t].missed =>
        \/ chan[t].sent = accessTokenValue
        \/ accessTokenValue = None /\ chan[t].sent = chan[t].payload

\* The invariant that steps preserve: the above and the types.
RelayInv ==
    TypeOK /\ JoinsWithLatest /\ HandSetStands /\ JoiningSendLatest /\ JoinedKnowLatest

\* While the token counts as set by hand the callback is not asked: not by a
\* join, a heartbeat, a connect or a socket that opens.
CallbackLeftAlone ==
    [][\A c \in Calls : manuallySet /\ call[c].at = "idle" /\ call'[c].at = "asked"
          => ~call'[c].auto]_vars

\* With the socket open the token ends up as that of the session, unless it was
\* set by hand: by the application, or before a change that came without an event.
TokenFollowsSession ==
    <>[](conn = "open" => \/ accessTokenValue = getAccessToken
                          \/ manuallySet /\ (handed.by = "app" \/ unrelayed))

\* A token set by hand is preserved: only an answer that the application or the
\* relay asked for takes its place.
HandSetPreserved == [][\A c \in Calls : manuallySet /\ Answered(c) => ~call[c].auto]_vars
=============================================================================
