-------------------------- MODULE RealtimeAuthProofs --------------------------
(***************************************************************************)
(* Proofs about RealtimeAuth, for any tokens, topics and number of calls.  *)
(*                                                                         *)
(* The token, the mark and the channels change together in setToken, and   *)
(* in no other place: one lemma says what it keeps.  What is left are the  *)
(* steps of the channels, which take the token as it is.                   *)
(***************************************************************************)
EXTENDS RealtimeAuth, TLAPS

Hands == {"nobody", "app", "relay", "setup"}

\* The variables of the token and of the channels.
Heard == <<accessTokenValue, manuallySet, handed, chan>>

\* What holds of one channel ch when the client's token is tok.
ChannelOK(ch, tok) ==
    /\ ch.at \in {"joining", "joined", "errored"} => tok \in {None, ch.payload}
    /\ ch.at = "joining" /\ ~ch.missed => ch.sent = tok \/ (tok = None /\ ch.sent = ch.payload)
    /\ ch.at = "joined" /\ ~ch.missed => ch.told = tok \/ (tok = None /\ ch.told = ch.payload)

\* The invariant, channel by channel.
LEMMA ByChannel ==
    RelayInv <=> TypeOK /\ HandSetStands /\ \A t \in Topics : ChannelOK(chan[t], accessTokenValue)
<1>1. JoinsWithLatest /\ JoiningSendLatest /\ JoinedKnowLatest
      <=> \A t \in Topics : ChannelOK(chan[t], accessTokenValue)
  <2>1. ASSUME JoinsWithLatest, JoiningSendLatest, JoinedKnowLatest, NEW t \in Topics
        PROVE  ChannelOK(chan[t], accessTokenValue)
    BY <2>1 DEF JoinsWithLatest, JoiningSendLatest, JoinedKnowLatest, ChannelOK
  <2>2. ASSUME \A t \in Topics : ChannelOK(chan[t], accessTokenValue)
        PROVE  JoinsWithLatest
    BY <2>2 DEF JoinsWithLatest, ChannelOK
  <2>3. ASSUME \A t \in Topics : ChannelOK(chan[t], accessTokenValue)
        PROVE  JoiningSendLatest
    BY <2>3 DEF JoiningSendLatest, ChannelOK
  <2>4. ASSUME \A t \in Topics : ChannelOK(chan[t], accessTokenValue)
        PROVE  JoinedKnowLatest
    BY <2>4 DEF JoinedKnowLatest, ChannelOK
  <2> QED BY <2>1, <2>2, <2>3, <2>4
<1> QED
  BY <1>1 DEF RelayInv
-----------------------------------------------------------------------------
\* A new call takes a free slot.
LEMMA BeginTyped ==
    ASSUME TypeOK, NEW at \in {"asked", "done"}, NEW auto \in BOOLEAN, begin(at, auto)
    PROVE  /\ call' \in [Calls -> Call] /\ authPromise' \in Calls \cup {None}
           /\ freeCall \in Calls /\ call[freeCall].at = "idle"
           /\ \A c \in Calls : call'[c] = IF c = freeCall
                                          THEN [NoCall EXCEPT !.at = at, !.auto = auto]
                                          ELSE call[c]
<1>1. freeCall \in Calls /\ call[freeCall].at = "idle"
  <2>1. \E c \in Calls : call[c].at = "idle" BY DEF begin
  <2> QED BY <2>1 DEF freeCall
<1>2. [NoCall EXCEPT !.at = at, !.auto = auto] \in Call
  BY DEF NoCall, Call
<1> HIDE DEF freeCall
<1>3. \A c \in Calls : call'[c] = IF c = freeCall
                                  THEN [NoCall EXCEPT !.at = at, !.auto = auto] ELSE call[c]
  BY <1>1 DEF begin, TypeOK
<1>4. call' \in [Calls -> Call]
  BY <1>1, <1>2 DEF begin, TypeOK
<1> QED
  BY <1>1, <1>3, <1>4 DEF begin

\* So does one that may not come about.
LEMMA AskTyped ==
    ASSUME TypeOK, NEW cond \in BOOLEAN, autoAskIf(cond)
    PROVE  call' \in [Calls -> Call] /\ authPromise' \in Calls \cup {None}
<1>1. CASE cond
  <2>1. begin("asked", TRUE) BY <1>1 DEF autoAskIf, ask
  <2> QED BY <2>1, BeginTyped
<1>2. CASE ~cond
  BY <1>2 DEF autoAskIf, asking, TypeOK
<1> QED
  BY <1>1, <1>2

\* The token and what hangs on it have their types.
LEMMA SetTokenTyped ==
    ASSUME TypeOK, NEW tok \in Creds \cup {None}, NEW by \in Hands, setToken(tok, by)
    PROVE  /\ accessTokenValue' \in Creds \cup {None} /\ manuallySet' \in BOOLEAN
           /\ chan' \in [Topics -> Channel]
           /\ handed' \in [by : Hands, token : Creds \cup {None}]
<1>1. chan' \in [Topics -> Channel]
  <2> SUFFICES ASSUME NEW t \in Topics
               PROVE  toldChannels(tok)[t] \in Channel
    BY DEF setToken, toldChannels
  <2>1. chan[t] \in Channel BY DEF TypeOK
  <2> DEFINE pay == IF tok = None THEN chan[t].payload ELSE tok
             say == IF chan[t].at = "joined" THEN tok ELSE chan[t].told
             mis == chan[t].missed \/ chan[t].at = "joining"
  <2>2. pay \in Creds \cup {None} /\ say \in Creds \cup {None} /\ mis \in BOOLEAN
    BY <2>1 DEF Channel
  <2>3. \/ toldChannels(tok)[t] = chan[t]
        \/ toldChannels(tok)[t] = [chan[t] EXCEPT !.payload = pay, !.told = say, !.missed = mis]
    BY DEF toldChannels
  <2> HIDE DEF pay, say, mis
  <2>4. [chan[t] EXCEPT !.payload = pay, !.told = say, !.missed = mis] \in Channel
    BY <2>1, <2>2 DEF Channel
  <2> QED BY <2>1, <2>3, <2>4
<1>2. handed' \in [by : Hands, token : Creds \cup {None}]
  BY DEF setToken, Nobody, Hands
<1> QED
  BY <1>1, <1>2 DEF setToken

\* It keeps each channel in step with the token, and the mark with its hand.
LEMMA SetTokenKeeps ==
    ASSUME RelayInv, NEW tok \in Creds \cup {None}, NEW by \in Hands,
           by # "nobody" => tok # None, setToken(tok, by)
    PROVE  /\ manuallySet' => accessTokenValue' = handed'.token /\ accessTokenValue' # None
           /\ \A t \in Topics : ChannelOK(chan'[t], accessTokenValue')
<1>1. manuallySet' => accessTokenValue' = handed'.token /\ accessTokenValue' # None
  BY DEF setToken
<1>2. ASSUME NEW t \in Topics
      PROVE  ChannelOK(chan'[t], accessTokenValue')
  <2>1. chan[t] \in Channel /\ ChannelOK(chan[t], accessTokenValue)
    BY ByChannel DEF TypeOK
  <2>2. chan'[t] = toldChannels(tok)[t] /\ accessTokenValue' = tok
    BY DEF setToken
  <2>3. CASE accessTokenValue = tok
    BY <2>1, <2>2, <2>3 DEF toldChannels
  <2>4. CASE accessTokenValue # tok /\ chan[t].at = "none"
    BY <2>2, <2>4 DEF toldChannels, ChannelOK
  <2>5. CASE accessTokenValue # tok /\ chan[t].at # "none"
    <3>1. chan'[t] = [chan[t] EXCEPT !.payload = IF tok = None THEN @ ELSE tok,
                                     !.told = IF chan[t].at = "joined" THEN tok ELSE @,
                                     !.missed = @ \/ chan[t].at = "joining"]
      BY <2>2, <2>5 DEF toldChannels
    <3>2. /\ chan'[t].at = chan[t].at
          /\ chan'[t].payload = IF tok = None THEN chan[t].payload ELSE tok
          /\ chan'[t].told = IF chan[t].at = "joined" THEN tok ELSE chan[t].told
          /\ chan'[t].missed = (chan[t].missed \/ chan[t].at = "joining")
      BY <2>1, <3>1 DEF Channel
    <3>3. tok \in {None, chan'[t].payload}
      BY <3>2
    <3>4. ~(chan'[t].at = "joining" /\ ~chan'[t].missed)
      BY <3>2
    <3>5. chan'[t].at = "joined" => chan'[t].told = tok
      BY <3>2
    <3> QED BY <2>2, <3>3, <3>4, <3>5 DEF ChannelOK
  <2> QED BY <2>3, <2>4, <2>5
<1> QED
  BY <1>1, <1>2
-----------------------------------------------------------------------------
\* Whatever leaves the token alone keeps what is said of it and of its channels,
\* if each channel that changes is one that does not claim more than before.
LEMMA TokenKept ==
    ASSUME RelayInv, UNCHANGED token, TypeOK',
           \A t \in Topics : \/ chan'[t] = chan[t]
                             \/ chan'[t].at \in {"none", "new", "leaving"}
                             \/ ChannelOK(chan'[t], accessTokenValue)
    PROVE  RelayInv'
<1>1. HandSetStands'
  BY DEF RelayInv, HandSetStands, token
<1>2. accessTokenValue' = accessTokenValue
  BY DEF token
<1>3. ASSUME NEW t \in Topics
      PROVE  ChannelOK(chan'[t], accessTokenValue')
  <2>1. ChannelOK(chan[t], accessTokenValue) BY ByChannel
  <2>2. CASE chan'[t].at \in {"none", "new", "leaving"}
    BY <2>2 DEF ChannelOK
  <2> QED BY <2>1, <2>2, <1>2
<1>4. (\A t \in Topics : ChannelOK(chan[t], accessTokenValue))'
  BY <1>3
<1> QED
  BY <1>1, <1>4, ByChannel, PTL

\* A step that sets the token keeps the invariant.
LEMMA TokenSet ==
    ASSUME RelayInv, NEW tok \in Creds \cup {None}, NEW by \in Hands,
           by # "nobody" => tok # None, setToken(tok, by), TypeOK'
    PROVE  RelayInv'
<1>1. HandSetStands'
  BY SetTokenKeeps DEF HandSetStands
<1>2. (\A t \in Topics : ChannelOK(chan[t], accessTokenValue))'
  BY SetTokenKeeps
<1> QED
  BY <1>1, <1>2, ByChannel, PTL

\* A channel that joins with its payload is in step, when the payload is.
LEMMA JoiningOK ==
    ASSUME NEW ch \in Channel, NEW tok \in Creds \cup {None}, tok \in {None, ch.payload}
    PROVE  joining(ch) \in Channel /\ ChannelOK(joining(ch), tok)
<1>1. joining(ch) \in Channel
  BY DEF joining, Channel
<1>2. /\ joining(ch).at = "joining" /\ joining(ch).payload = ch.payload
      /\ joining(ch).sent = ch.payload
  BY DEF joining, Channel
<1> QED
  BY <1>1, <1>2 DEF ChannelOK

\* A channel that fails keeps its payload, and claims nothing else.
LEMMA ErroredOK ==
    ASSUME NEW ch \in Channel, NEW tok, ChannelOK(ch, tok), ch.at \in {"joining", "joined", "errored"}
    PROVE  /\ unjoined(ch) \in Channel /\ unjoined(ch).at = "errored"
           /\ ChannelOK(unjoined(ch), tok)
<1>1. unjoined(ch).at = "errored" /\ unjoined(ch).payload = ch.payload
  BY DEF unjoined, NoChannel
<1>2. unjoined(ch) \in Channel
  BY DEF unjoined, NoChannel, Channel
<1> QED
  BY <1>1, <1>2 DEF ChannelOK
-----------------------------------------------------------------------------
\* connect() may begin a call, and leaves the rest alone.
LEMMA ConnectTyped ==
    ASSUME TypeOK, connect
    PROVE  /\ conn' \in {"closed", "connecting", "open", "closing"}
           /\ call' \in [Calls -> Call] /\ authPromise' \in Calls \cup {None}
<1>1. CASE conn # "closed" /\ UNCHANGED <<conn, asking>>
  BY <1>1 DEF asking, TypeOK
<1>2. CASE conn' = "connecting" /\ authPromise = None /\ setAuthSafely
  <2>1. autoAskIf(~manuallySet) /\ (~manuallySet) \in BOOLEAN BY <1>2 DEF setAuthSafely
  <2> QED BY <1>2, <2>1, AskTyped
<1>3. CASE conn' = "connecting" /\ UNCHANGED asking
  BY <1>3 DEF asking, TypeOK
<1> QED
  BY <1>1, <1>2, <1>3 DEF connect

\* What the callback answers.
LEMMA AnswerTyped == TypeOK => getAccessToken \in Creds \cup {None}
  BY DEF TypeOK, getAccessToken, Creds

LEMMA EventsTyped ==
    ASSUME TypeOK, events' = events \/ Happens
    PROVE  events' \in 0..MaxEvents
  BY RealtimeAssumption DEF TypeOK, Happens

\* A record of a call.
LEMMA CallTyped ==
    ASSUME TypeOK, NEW c \in Calls, NEW at \in {"idle", "done", "started", "read", "asked"},
           NEW got \in Creds \cup {None}
    PROVE  /\ NoCall \in Call /\ [NoCall EXCEPT !.at = at] \in Call
           /\ [call EXCEPT ![c].at = at, ![c].got = got] \in [Calls -> Call]
           /\ [call EXCEPT ![c].at = at] \in [Calls -> Call]
<1>1. call \in [Calls -> Call] /\ call[c] \in Call
  BY DEF TypeOK
<1>2. NoCall \in Call /\ [NoCall EXCEPT !.at = at] \in Call
  BY DEF NoCall, Call
<1>3. [call[c] EXCEPT !.at = at, !.got = got] \in Call /\ [call[c] EXCEPT !.at = at] \in Call
  BY <1>1 DEF Call
<1> QED
  BY <1>1, <1>2, <1>3

\* The types, of the steps of a call.
LEMMA CallStepTyped ==
    ASSUME RelayInv, NEW c \in Calls, CallStep(c)
    PROVE  TypeOK'
<1> USE DEF world, token, socket
<1>0. TypeOK /\ None \in Creds \cup {None}
  BY DEF RelayInv
<1>1. CASE Read(c)
  <2>1. call' \in [Calls -> Call]
    <3>1. call[c].at = "asked" => call' = [call EXCEPT ![c].at = "read", ![c].got = getAccessToken]
      BY <1>0, <1>1 DEF Read, TypeOK, Call
    <3>2. call[c].at # "asked"
          => call' = [call EXCEPT ![c].at = "started", ![c].got = getAccessToken]
      BY <1>0, <1>1 DEF Read, TypeOK, Call
    <3>3. getAccessToken \in Creds \cup {None} BY <1>0, AnswerTyped
    <3>4. [call EXCEPT ![c].at = "read", ![c].got = getAccessToken] \in [Calls -> Call]
      BY <1>0, <3>3, CallTyped
    <3>5. [call EXCEPT ![c].at = "started", ![c].got = getAccessToken] \in [Calls -> Call]
      BY <1>0, <3>3, CallTyped
    <3> QED BY <3>1, <3>2, <3>4, <3>5
  <2> QED BY <1>0, <1>1, <2>1 DEF Read, TypeOK
<1>2. CASE ReadsNoSession(c)
  <2>1. call' \in [Calls -> Call]
    BY <1>0, <1>2, CallTyped DEF ReadsNoSession, Creds
  <2>2. events' \in 0..MaxEvents
    BY <1>0, <1>2, EventsTyped DEF ReadsNoSession
  <2> QED BY <1>0, <1>2, <2>1, <2>2 DEF ReadsNoSession, TypeOK
<1>3. CASE Answered(c)
  <2>1. call' \in [Calls -> Call]
    BY <1>0, <1>3, CallTyped DEF Answered, TypeOK
  <2>2. call[c].got \in Creds \cup {None} /\ "nobody" \in Hands
    BY <1>0 DEF TypeOK, Call, Hands
  <2>3. setToken(call[c].got, "nobody")
    BY <1>3 DEF Answered
  <2> QED BY <1>0, <1>3, <2>1, <2>2, <2>3, SetTokenTyped DEF Answered, TypeOK, Hands
<1>4. CASE Failed(c)
  <2>1. call' \in [Calls -> Call]
    BY <1>0, <1>4, CallTyped DEF Failed, TypeOK
  <2>2. accessTokenValue \in Creds \cup {None} /\ "nobody" \in Hands
    BY <1>0 DEF TypeOK, Hands
  <2>3. setToken(accessTokenValue, "nobody") /\ events' \in 0..MaxEvents
    BY <1>0, <1>4, EventsTyped DEF Failed
  <2> QED BY <1>0, <1>4, <2>1, <2>2, <2>3, SetTokenTyped DEF Failed, TypeOK, Hands
<1>5. CASE Finish(c)
  <2>1. call' \in [Calls -> Call]
    BY <1>0, <1>5, CallTyped DEF Finish, TypeOK
  <2>2. reconnect' \in [at : {"none", "due", "waiting", "ready"}, on : Calls \cup {None}]
    BY <1>0, <1>5 DEF Finish, TypeOK
  <2> QED BY <1>0, <1>5, <2>1, <2>2 DEF Finish, TypeOK
<1>6. CASE Started(c) /\ call[c].got # None /\ setToken(call[c].got, "setup")
           /\ call' = [call EXCEPT ![c] = [NoCall EXCEPT !.at = "done"]]
  <2>1. call' \in [Calls -> Call]
    BY <1>0, <1>6, CallTyped DEF TypeOK
  <2>2. call[c].got \in Creds \cup {None} /\ "setup" \in Hands
    BY <1>0 DEF TypeOK, Call, Hands
  <2> QED BY <1>0, <1>6, <2>1, <2>2, SetTokenTyped DEF Started, TypeOK, Hands
<1>7. CASE Started(c) /\ call' = [call EXCEPT ![c].at = "asked"] /\ UNCHANGED <<token, chan>>
  <2>1. call' \in [Calls -> Call]
    BY <1>0, <1>7, CallTyped
  <2> QED BY <1>0, <1>7, <2>1 DEF Started, TypeOK
<1>8. CASE StartFails(c)
  <2>1. call' \in [Calls -> Call]
    BY <1>0, <1>8, CallTyped DEF StartFails, TypeOK
  <2>2. events' \in 0..MaxEvents
    BY <1>0, <1>8, EventsTyped DEF StartFails
  <2> QED BY <1>0, <1>8, <2>1, <2>2 DEF StartFails, TypeOK
<1> QED
  BY <1>1, <1>2, <1>3, <1>4, <1>5, <1>6, <1>7, <1>8 DEF CallStep, Started
-----------------------------------------------------------------------------
\* When the socket closes, the channels fail: they are typed and in step.
LEMMA FailedTyped ==
    ASSUME RelayInv, chan' = [t \in Topics |-> errored(chan[t])]
    PROVE  /\ chan' \in [Topics -> Channel]
           /\ \A t \in Topics : chan'[t] = chan[t] \/ ChannelOK(chan'[t], accessTokenValue)
<1> SUFFICES ASSUME NEW t \in Topics
             PROVE  /\ errored(chan[t]) \in Channel
                    /\ errored(chan[t]) = chan[t] \/ ChannelOK(errored(chan[t]), accessTokenValue)
  OBVIOUS
<1>1. chan[t] \in Channel /\ ChannelOK(chan[t], accessTokenValue)
  BY ByChannel DEF TypeOK
<1>2. CASE chan[t].at \in {"joining", "joined"}
  <2>1. unjoined(chan[t]) \in Channel /\ ChannelOK(unjoined(chan[t]), accessTokenValue)
    BY <1>1, <1>2, ErroredOK
  <2> QED BY <1>2, <2>1 DEF errored
<1>3. CASE chan[t].at \notin {"joining", "joined"}
  BY <1>1, <1>3 DEF errored
<1> QED
  BY <1>2, <1>3

\* A call that begins with a token, as the application and the relay do.
LEMMA HandInTyped ==
    ASSUME TypeOK, NEW tok \in Tokens, NEW by \in {"app", "relay"}, handIn(tok, by)
    PROVE  /\ call' \in [Calls -> Call] /\ authPromise' \in Calls \cup {None}
           /\ accessTokenValue' \in Creds \cup {None} /\ manuallySet' \in BOOLEAN
           /\ chan' \in [Topics -> Channel]
           /\ handed' \in [by : Hands, token : Creds \cup {None}]
<1>1. begin("done", FALSE) /\ setToken(tok, by)
  BY DEF handIn
<1>2. call' \in [Calls -> Call] /\ authPromise' \in Calls \cup {None}
  BY <1>1, BeginTyped
<1>3. tok \in Creds \cup {None} /\ by \in Hands
  BY DEF Creds, Hands
<1> QED
  BY <1>1, <1>2, <1>3, SetTokenTyped

\* An event for the relay hands in a token, is left, or makes it ask for one.
LEMMA RelayCases ==
    ASSUME TypeOK, HandleTokenChanged
    PROVE  /\ authEvents' \in Seq(AuthEvent)
           /\ \/ \E tok \in Tokens : changedAccessToken' = tok /\ handIn(tok, "relay")
              \/ UNCHANGED <<changedAccessToken, token, asking, chan>>
              \/ changedAccessToken' = None /\ ask(FALSE) /\ UNCHANGED <<token, chan>>
<1>1. authEvents \in Seq(AuthEvent) /\ authEvents # <<>>
  BY DEF TypeOK, HandleTokenChanged
<1> DEFINE e == Head(authEvents)
<1>2. e \in AuthEvent /\ Tail(authEvents) \in Seq(AuthEvent)
  BY <1>1
<1>3. e.event = "SIGNED_IN" => e.token \in Tokens
  BY <1>2 DEF AuthEvent
<1>4. \/ e.event = "SIGNED_IN" /\ changedAccessToken' = e.token /\ handIn(e.token, "relay")
      \/ UNCHANGED <<changedAccessToken, token, asking, chan>>
      \/ changedAccessToken' = None /\ ask(FALSE) /\ UNCHANGED <<token, chan>>
  BY DEF HandleTokenChanged
<1>5. authEvents' = Tail(authEvents)
  BY DEF HandleTokenChanged
<1> HIDE DEF e
<1> QED
  BY <1>2, <1>3, <1>4, <1>5

\* The types, of what the world does and of the relay.
LEMMA WorldStepTyped ==
    ASSUME RelayInv, WorldStep \/ HandleTokenChanged
    PROVE  TypeOK'
<1> USE DEF world, token, socket
<1>0. TypeOK
  BY DEF RelayInv
<1>1. ASSUME NEW tok \in Tokens, SignedIn(tok)
      PROVE  TypeOK'
  <2>1. [event |-> "SIGNED_IN", token |-> tok] \in AuthEvent
    BY DEF AuthEvent
  <2>2. authEvents' \in Seq(AuthEvent)
    BY <1>0, <1>1, <2>1 DEF SignedIn, TypeOK
  <2>3. events' \in 0..MaxEvents
    BY <1>0, <1>1, EventsTyped DEF SignedIn
  <2>4. /\ session' = tok /\ unrelayed' = FALSE
        /\ UNCHANGED <<thirdParty, changedAccessToken, token, asking, socket, chan>>
    BY <1>1 DEF SignedIn
  <2>5. session' \in Tokens \cup {None} /\ unrelayed' \in BOOLEAN
    BY <2>4
  <2>6. UNCHANGED <<thirdParty, changedAccessToken, token, asking, socket, chan>>
    BY <2>4
  <2> QED BY <1>0, <2>2, <2>3, <2>5, <2>6 DEF TypeOK, asking
<1>2. CASE SignedOut
  <2>1. [event |-> "SIGNED_OUT", token |-> None] \in AuthEvent
    BY DEF AuthEvent
  <2>2. authEvents' \in Seq(AuthEvent)
    BY <1>0, <1>2, <2>1 DEF SignedOut, TypeOK
  <2>3. events' \in 0..MaxEvents
    BY <1>0, <1>2, EventsTyped DEF SignedOut
  <2>4. /\ session' = None /\ unrelayed' = FALSE
        /\ UNCHANGED <<thirdParty, changedAccessToken, token, asking, socket, chan>>
    BY <1>2 DEF SignedOut
  <2>5. session' \in Tokens \cup {None} /\ unrelayed' \in BOOLEAN
    BY <2>4
  <2>6. UNCHANGED <<thirdParty, changedAccessToken, token, asking, socket, chan>>
    BY <2>4
  <2> QED BY <1>0, <2>2, <2>3, <2>5, <2>6 DEF TypeOK, asking
<1>3. ASSUME NEW tok \in Tokens \cup {None}, ChangedQuietly(tok)
      PROVE  TypeOK'
  <2>1. events' \in 0..MaxEvents
    BY <1>0, <1>3, EventsTyped DEF ChangedQuietly
  <2> QED BY <1>0, <1>3, <2>1 DEF ChangedQuietly, TypeOK, asking
<1>4. ASSUME NEW tok \in Tokens, AppHandsIn(tok)
      PROVE  TypeOK'
  <2>1. events' \in 0..MaxEvents /\ handIn(tok, "app")
    BY <1>0, <1>4, EventsTyped DEF AppHandsIn
  <2>2. /\ call' \in [Calls -> Call] /\ authPromise' \in Calls \cup {None}
        /\ accessTokenValue' \in Creds \cup {None} /\ manuallySet' \in BOOLEAN
        /\ chan' \in [Topics -> Channel]
        /\ handed' \in [by : Hands, token : Creds \cup {None}]
    BY <1>0, <2>1, HandInTyped
  <2>3. UNCHANGED <<world, changedAccessToken, socket>>
    BY <1>4 DEF AppHandsIn
  <2> QED BY <1>0, <2>1, <2>2, <2>3 DEF TypeOK, Hands
<1>5. CASE AppAsks
  <2>1. events' \in 0..MaxEvents /\ begin("asked", FALSE)
    BY <1>0, <1>5, EventsTyped DEF AppAsks, ask
  <2>2. call' \in [Calls -> Call] /\ authPromise' \in Calls \cup {None}
    BY <1>0, <2>1, BeginTyped
  <2> QED BY <1>0, <1>5, <2>1, <2>2 DEF AppAsks, TypeOK
<1>6. CASE AppConnects
  <2>1. events' \in 0..MaxEvents /\ connect
    BY <1>0, <1>6, EventsTyped DEF AppConnects
  <2>2. /\ conn' \in {"closed", "connecting", "open", "closing"}
        /\ call' \in [Calls -> Call] /\ authPromise' \in Calls \cup {None}
    BY <1>0, <2>1, ConnectTyped
  <2> QED BY <1>0, <1>6, <2>1, <2>2 DEF AppConnects, TypeOK
<1>7. CASE Disconnect
  <2>1. events' \in 0..MaxEvents
    BY <1>0, <1>7, EventsTyped DEF Disconnect
  <2>2. reconnect' \in [at : {"none", "due", "waiting", "ready"}, on : Calls \cup {None}]
    BY <1>0, <1>7 DEF Disconnect, TypeOK
  <2> QED BY <1>0, <1>7, <2>1, <2>2 DEF Disconnect, TypeOK, asking
<1>8. CASE Drops
  <2>1. events' \in 0..MaxEvents
    BY <1>0, <1>8, EventsTyped DEF Drops
  <2>2. reconnect' \in [at : {"none", "due", "waiting", "ready"}, on : Calls \cup {None}]
    BY <1>0, <1>8 DEF Drops, TypeOK
  <2>3. chan' \in [Topics -> Channel]
    BY <1>8, FailedTyped DEF Drops
  <2> QED BY <1>0, <1>8, <2>1, <2>2, <2>3 DEF Drops, TypeOK, asking
<1>9. CASE HandleTokenChanged
  <2>1. CASE \E tok \in Tokens : changedAccessToken' = tok /\ handIn(tok, "relay")
    <3>1. PICK tok \in Tokens : changedAccessToken' = tok /\ handIn(tok, "relay")
      BY <2>1
    <3>2. /\ call' \in [Calls -> Call] /\ authPromise' \in Calls \cup {None}
          /\ accessTokenValue' \in Creds \cup {None} /\ manuallySet' \in BOOLEAN
          /\ chan' \in [Topics -> Channel]
          /\ handed' \in [by : Hands, token : Creds \cup {None}]
      BY <1>0, <3>1, HandInTyped
    <3>3. authEvents' \in Seq(AuthEvent)
      BY <1>0, <1>9, RelayCases
    <3>4. UNCHANGED <<thirdParty, session, unrelayed, socket, events>>
      BY <1>9 DEF HandleTokenChanged
    <3> QED BY <1>0, <3>1, <3>2, <3>3, <3>4 DEF TypeOK, Hands
  <2>2. CASE UNCHANGED <<changedAccessToken, token, asking, chan>>
    <3>1. authEvents' \in Seq(AuthEvent)
      BY <1>0, <1>9, RelayCases
    <3>2. UNCHANGED <<thirdParty, session, unrelayed, socket, events>>
      BY <1>9 DEF HandleTokenChanged
    <3> QED BY <1>0, <2>2, <3>1, <3>2 DEF TypeOK, asking
  <2>3. CASE changedAccessToken' = None /\ ask(FALSE) /\ UNCHANGED <<token, chan>>
    <3>1. begin("asked", FALSE) BY <2>3 DEF ask
    <3>2. call' \in [Calls -> Call] /\ authPromise' \in Calls \cup {None}
      BY <1>0, <3>1, BeginTyped
    <3>3. authEvents' \in Seq(AuthEvent)
      BY <1>0, <1>9, RelayCases
    <3>4. UNCHANGED <<thirdParty, session, unrelayed, socket, events>>
      BY <1>9 DEF HandleTokenChanged
    <3> QED BY <1>0, <2>3, <3>2, <3>3, <3>4 DEF TypeOK
  <2> QED BY <1>0, <1>9, <2>1, <2>2, <2>3, RelayCases
<1> QED
  BY <1>1, <1>2, <1>3, <1>4, <1>5, <1>6, <1>7, <1>8, <1>9 DEF WorldStep
-----------------------------------------------------------------------------
\* When the socket opens, the channels that failed join again.
LEMMA ReopenedTyped ==
    ASSUME RelayInv,
           chan' = [t \in Topics |-> IF chan[t].at = "errored" THEN joining(chan[t]) ELSE chan[t]]
    PROVE  /\ chan' \in [Topics -> Channel]
           /\ \A t \in Topics : chan'[t] = chan[t] \/ ChannelOK(chan'[t], accessTokenValue)
<1> DEFINE re(t) == IF chan[t].at = "errored" THEN joining(chan[t]) ELSE chan[t]
<1> SUFFICES ASSUME NEW t \in Topics
             PROVE  re(t) \in Channel /\ (re(t) = chan[t] \/ ChannelOK(re(t), accessTokenValue))
  OBVIOUS
<1>1. chan[t] \in Channel /\ ChannelOK(chan[t], accessTokenValue)
  BY ByChannel DEF TypeOK
<1>2. accessTokenValue \in Creds \cup {None}
  BY DEF RelayInv, TypeOK
<1>3. CASE chan[t].at = "errored"
  <2>1. accessTokenValue \in {None, chan[t].payload}
    BY <1>1, <1>3 DEF ChannelOK
  <2> QED BY <1>1, <1>2, <1>3, <2>1, JoiningOK
<1>4. CASE chan[t].at # "errored"
  BY <1>1, <1>4
<1> QED
  BY <1>3, <1>4

\* The types, of the steps of the socket.
LEMMA SocketStepTyped ==
    ASSUME RelayInv, SocketStep
    PROVE  TypeOK'
<1> USE DEF world, token, socket
<1>0. TypeOK
  BY DEF RelayInv
<1>1. CASE Opens
  <2>1. chan' \in [Topics -> Channel]
    BY <1>1, ReopenedTyped DEF Opens
  <2>2. autoAskIf(authPromise = None /\ accessTokenValue = None)
    BY <1>1 DEF Opens
  <2>3. call' \in [Calls -> Call] /\ authPromise' \in Calls \cup {None}
    BY <1>0, <2>2, AskTyped
  <2> QED BY <1>0, <1>1, <2>1, <2>3 DEF Opens, TypeOK
<1>2. CASE Closed
  <2>1. chan' \in [Topics -> Channel]
    BY <1>2, FailedTyped DEF Closed
  <2> QED BY <1>0, <1>2, <2>1 DEF Closed, TypeOK, asking
<1>3. CASE Reconnect
  <2>1. reconnect' \in [at : {"none", "due", "waiting", "ready"}, on : Calls \cup {None}]
    BY <1>0, <1>3 DEF Reconnect, TypeOK
  <2> QED BY <1>0, <1>3, <2>1 DEF Reconnect, TypeOK, asking
<1>4. CASE Reconnected
  <2>1. /\ conn' \in {"closed", "connecting", "open", "closing"}
        /\ call' \in [Calls -> Call] /\ authPromise' \in Calls \cup {None}
    BY <1>0, <1>4, ConnectTyped DEF Reconnected
  <2>2. reconnect' \in [at : {"none", "due", "waiting", "ready"}, on : Calls \cup {None}]
    BY <1>4 DEF Reconnected
  <2> QED BY <1>0, <1>4, <2>1, <2>2 DEF Reconnected, TypeOK
<1>5. CASE Heartbeat
  <2>1. autoAskIf(~manuallySet)
    BY <1>5 DEF Heartbeat, setAuthSafely
  <2>2. call' \in [Calls -> Call] /\ authPromise' \in Calls \cup {None}
    BY <1>0, <2>1, AskTyped
  <2> QED BY <1>0, <1>5, <2>2 DEF Heartbeat, TypeOK
<1> QED
  BY <1>1, <1>2, <1>3, <1>4, <1>5 DEF SocketStep
-----------------------------------------------------------------------------
\* One channel takes a new record that is typed, and in step if it claims anything.
LEMMA OneChannel ==
    ASSUME RelayInv, NEW t \in Topics, NEW ch \in Channel, chan' = [chan EXCEPT ![t] = ch],
           ch.at \in {"none", "new", "leaving"} \/ ChannelOK(ch, accessTokenValue)
    PROVE  /\ chan' \in [Topics -> Channel]
           /\ \A u \in Topics : \/ chan'[u] = chan[u]
                                \/ chan'[u].at \in {"none", "new", "leaving"}
                                \/ ChannelOK(chan'[u], accessTokenValue)
<1>1. chan \in [Topics -> Channel]
  BY DEF RelayInv, TypeOK
<1>2. \A u \in Topics : chan'[u] = IF u = t THEN ch ELSE chan[u]
  BY <1>1
<1> QED
  BY <1>1, <1>2

\* The records that the steps of a channel write.
LEMMA ChannelRecords ==
    ASSUME RelayInv, NEW t \in Topics, ChannelStep(t)
    PROVE  /\ chan' \in [Topics -> Channel]
           /\ \A u \in Topics : \/ chan'[u] = chan[u]
                                \/ chan'[u].at \in {"none", "new", "leaving"}
                                \/ ChannelOK(chan'[u], accessTokenValue)
<1>1. chan \in [Topics -> Channel] /\ chan[t] \in Channel /\ ChannelOK(chan[t], accessTokenValue)
  BY ByChannel DEF TypeOK
<1>2. accessTokenValue \in Creds \cup {None}
  BY DEF RelayInv, TypeOK
<1>3. CASE Create(t)
  <2>1. [NoChannel EXCEPT !.at = "new"] \in Channel /\ [NoChannel EXCEPT !.at = "new"].at = "new"
    BY DEF NoChannel, Channel
  <2> QED BY <1>3, <2>1, OneChannel DEF Create
<1>4. CASE Subscribe(t) /\ chan[t].at = "new"
  <2> DEFINE ch == withToken(chan[t])
  <2>1. chan' = [chan EXCEPT ![t] = joining(ch)]
    BY <1>4 DEF Subscribe
  <2>2. ch \in Channel /\ accessTokenValue \in {None, ch.payload}
    BY <1>1, <1>2 DEF withToken, Channel
  <2> HIDE DEF ch
  <2>3. joining(ch) \in Channel /\ ChannelOK(joining(ch), accessTokenValue)
    BY <1>2, <2>2, JoiningOK
  <2> QED BY <2>1, <2>3, OneChannel
<1>5. CASE Subscribe(t) /\ chan[t].at # "new"
  BY <1>1, <1>5 DEF Subscribe
<1>6. CASE Joined(t)
  <2> DEFINE ch == [chan[t] EXCEPT !.at = "joined", !.told = chan[t].sent, !.sent = None]
  <2>1. chan' = [chan EXCEPT ![t] = ch] /\ chan[t].at = "joining"
    BY <1>1, <1>6 DEF Joined
  <2>2. /\ ch \in Channel /\ ch.at = "joined" /\ ch.told = chan[t].sent
        /\ ch.payload = chan[t].payload /\ ch.missed = chan[t].missed
    BY <1>1 DEF Channel
  <2> HIDE DEF ch
  <2>3. ChannelOK(ch, accessTokenValue)
    BY <1>1, <2>1, <2>2 DEF ChannelOK
  <2> QED BY <2>1, <2>2, <2>3, OneChannel
<1>7. CASE JoinFails(t)
  <2>1. chan' = [chan EXCEPT ![t] = unjoined(chan[t])] /\ chan[t].at = "joining"
    BY <1>7 DEF JoinFails
  <2>2. unjoined(chan[t]) \in Channel /\ ChannelOK(unjoined(chan[t]), accessTokenValue)
    BY <1>1, <2>1, ErroredOK
  <2> QED BY <2>1, <2>2, OneChannel
<1>8. CASE Rejoin(t)
  <2>1. chan' = [chan EXCEPT ![t] = joining(chan[t])] /\ chan[t].at = "errored"
    BY <1>8 DEF Rejoin
  <2>2. accessTokenValue \in {None, chan[t].payload}
    BY <1>1, <2>1 DEF ChannelOK
  <2>3. joining(chan[t]) \in Channel /\ ChannelOK(joining(chan[t]), accessTokenValue)
    BY <1>1, <1>2, <2>2, JoiningOK
  <2> QED BY <2>1, <2>3, OneChannel
<1>9. CASE Unsubscribe(t)
  <2> DEFINE ch == [unjoined(chan[t]) EXCEPT !.at = "leaving"]
  <2>1. chan' = [chan EXCEPT ![t] = ch]
    BY <1>9 DEF Unsubscribe
  <2>2. ch \in Channel /\ ch.at = "leaving"
    BY <1>1 DEF Channel, unjoined, NoChannel
  <2> HIDE DEF ch
  <2> QED BY <2>1, <2>2, OneChannel
<1>10. CASE Left(t)
  <2>1. NoChannel \in Channel /\ NoChannel.at = "none"
    BY DEF NoChannel, Channel
  <2> QED BY <1>10, <2>1, OneChannel DEF Left
<1> QED
  BY <1>3, <1>4, <1>5, <1>6, <1>7, <1>8, <1>9, <1>10 DEF ChannelStep

\* The types, of the steps of a channel.
LEMMA ChannelStepTyped ==
    ASSUME RelayInv, NEW t \in Topics, ChannelStep(t)
    PROVE  TypeOK' /\ UNCHANGED token
<1> USE DEF world, socket
<1>0. TypeOK /\ chan' \in [Topics -> Channel]
  BY ChannelRecords DEF RelayInv
<1>1. CASE Create(t) \/ Rejoin(t) \/ Left(t)
  <2>1. UNCHANGED <<world, changedAccessToken, token, asking, socket, events>>
    BY <1>1 DEF Create, Rejoin, Left
  <2> QED BY <1>0, <2>1 DEF TypeOK, asking, token
<1>2. CASE JoinFails(t) \/ Unsubscribe(t)
  <2>1. UNCHANGED <<world, changedAccessToken, token, asking, socket>> /\ Happens
    BY <1>2 DEF JoinFails, Unsubscribe
  <2>2. events' \in 0..MaxEvents
    BY <1>0, <2>1, EventsTyped
  <2> QED BY <1>0, <2>1, <2>2 DEF TypeOK, asking, token
<1>3. CASE Subscribe(t)
  <2>1. /\ UNCHANGED <<world, changedAccessToken, token, reconnect>> /\ connect
        /\ events' = events \/ Happens
    BY <1>3 DEF Subscribe
  <2>2. /\ conn' \in {"closed", "connecting", "open", "closing"}
        /\ call' \in [Calls -> Call] /\ authPromise' \in Calls \cup {None}
    BY <1>0, <2>1, ConnectTyped
  <2>3. events' \in 0..MaxEvents
    BY <1>0, <2>1, EventsTyped
  <2> QED BY <1>0, <2>1, <2>2, <2>3 DEF TypeOK, token
<1>4. CASE Joined(t)
  <2>1. /\ UNCHANGED <<world, changedAccessToken, token, socket, events>>
        /\ autoAskIf(~manuallySet)
    BY <1>4 DEF Joined
  <2>2. call' \in [Calls -> Call] /\ authPromise' \in Calls \cup {None}
    BY <1>0, <2>1, AskTyped
  <2> QED BY <1>0, <2>1, <2>2 DEF TypeOK, token
<1> QED
  BY <1>1, <1>2, <1>3, <1>4 DEF ChannelStep
-----------------------------------------------------------------------------
\* What the constructor leaves is in step.
LEMMA InitKeeps == Init => RelayInv
<1> SUFFICES ASSUME Init PROVE RelayInv
  OBVIOUS
<1>1. NoCall \in Call /\ [NoCall EXCEPT !.at = "starting"] \in Call
  BY DEF NoCall, Call
<1>2. call \in [Calls -> Call]
  <2>1. CASE thirdParty
    <3>1. call = [c \in Calls |-> IF c = CHOOSE d \in Calls : TRUE
                                  THEN [NoCall EXCEPT !.at = "starting"] ELSE NoCall]
      BY <2>1 DEF Init
    <3> QED BY <1>1, <3>1
  <2>2. CASE ~thirdParty
    BY <1>1, <2>2 DEF Init
  <2> QED BY <2>1, <2>2
<1>3. NoChannel \in Channel /\ NoChannel.at = "none"
  BY DEF NoChannel, Channel
<1>4. chan \in [Topics -> Channel] /\ \A t \in Topics : ChannelOK(chan[t], accessTokenValue)
  BY <1>3 DEF Init, ChannelOK
<1>5. handed \in [by : {"nobody", "app", "relay", "setup"}, token : Creds \cup {None}]
  BY DEF Init, Nobody
<1>6. authEvents \in Seq(AuthEvent) /\ events \in 0..MaxEvents
  BY RealtimeAssumption DEF Init
<1>7. reconnect \in [at : {"none", "due", "waiting", "ready"}, on : Calls \cup {None}]
  BY DEF Init
<1>8. TypeOK
  BY <1>2, <1>4, <1>5, <1>6, <1>7 DEF Init, TypeOK
<1>9. HandSetStands
  BY DEF Init, HandSetStands
<1> QED
  BY <1>4, <1>8, <1>9, ByChannel

\* Every step keeps the invariant.
LEMMA StepKeeps == RelayInv /\ [Next]_vars => RelayInv'
<1> SUFFICES ASSUME RelayInv, [Next]_vars PROVE RelayInv'
  OBVIOUS
<1>0. TypeOK
  BY DEF RelayInv
<1>1. ASSUME NEW c \in Calls, CallStep(c)
      PROVE  RelayInv'
  <2>1. TypeOK' BY <1>1, CallStepTyped
  <2>2. call[c].got \in Creds \cup {None} /\ accessTokenValue \in Creds \cup {None}
    BY <1>0 DEF TypeOK, Call
  <2>3. "nobody" \in Hands /\ "setup" \in Hands
    BY DEF Hands
  <2>4. CASE Read(c) \/ ReadsNoSession(c) \/ Finish(c) \/ StartFails(c)
    <3>1. UNCHANGED <<token, chan>>
      BY <2>4 DEF Read, ReadsNoSession, Finish, StartFails
    <3> QED BY <2>1, <3>1, TokenKept
  <2>5. CASE Answered(c)
    <3>1. setToken(call[c].got, "nobody") BY <2>5 DEF Answered
    <3> QED BY <2>1, <2>2, <2>3, <3>1, TokenSet
  <2>6. CASE Failed(c)
    <3>1. setToken(accessTokenValue, "nobody") BY <2>6 DEF Failed
    <3> QED BY <2>1, <2>2, <2>3, <3>1, TokenSet
  <2>7. CASE Started(c)
    <3>1. \/ call[c].got # None /\ setToken(call[c].got, "setup")
          \/ UNCHANGED <<token, chan>>
      BY <2>7 DEF Started
    <3>2. CASE call[c].got # None /\ setToken(call[c].got, "setup")
      BY <2>1, <2>2, <2>3, <3>2, TokenSet
    <3>3. CASE UNCHANGED <<token, chan>>
      BY <2>1, <3>3, TokenKept
    <3> QED BY <3>1, <3>2, <3>3
  <2> QED BY <1>1, <2>4, <2>5, <2>6, <2>7 DEF CallStep
<1>2. CASE WorldStep
  <2>1. TypeOK' BY <1>2, WorldStepTyped
  <2>2. CASE \E tok \in Tokens : AppHandsIn(tok)
    <3>1. PICK tok \in Tokens : AppHandsIn(tok) BY <2>2
    <3>2. setToken(tok, "app") BY <3>1 DEF AppHandsIn, handIn
    <3>3. tok \in Creds \cup {None} /\ tok # None /\ "app" \in Hands
      BY RealtimeAssumption DEF Creds, Hands
    <3> QED BY <2>1, <3>2, <3>3, TokenSet
  <2>3. CASE Drops
    <3>1. UNCHANGED token /\ chan' = [t \in Topics |-> errored(chan[t])]
      BY <2>3 DEF Drops
    <3> QED BY <2>1, <3>1, FailedTyped, TokenKept
  <2>4. CASE \/ \E tok \in Tokens : SignedIn(tok)
             \/ SignedOut \/ \E tok \in Tokens \cup {None} : ChangedQuietly(tok)
             \/ AppAsks \/ AppConnects \/ Disconnect
    <3>1. UNCHANGED <<token, chan>>
      BY <2>4 DEF SignedIn, SignedOut, ChangedQuietly, AppAsks, AppConnects, Disconnect
    <3> QED BY <2>1, <3>1, TokenKept
  <2> QED BY <1>2, <2>2, <2>3, <2>4 DEF WorldStep
<1>3. CASE HandleTokenChanged
  <2>1. TypeOK' BY <1>3, WorldStepTyped
  <2>2. CASE \E tok \in Tokens : changedAccessToken' = tok /\ handIn(tok, "relay")
    <3>1. PICK tok \in Tokens : handIn(tok, "relay") BY <2>2
    <3>2. setToken(tok, "relay") BY <3>1 DEF handIn
    <3>3. tok \in Creds \cup {None} /\ tok # None /\ "relay" \in Hands
      BY RealtimeAssumption DEF Creds, Hands
    <3> QED BY <2>1, <3>2, <3>3, TokenSet
  <2>3. CASE UNCHANGED <<token, chan>>
    BY <2>1, <2>3, TokenKept
  <2> QED BY <1>0, <1>3, <2>2, <2>3, RelayCases
<1>4. CASE SocketStep
  <2>1. TypeOK' BY <1>4, SocketStepTyped
  <2>2. CASE Opens
    <3>1. UNCHANGED token BY <2>2 DEF Opens
    <3>2. chan' = [t \in Topics |-> IF chan[t].at = "errored" THEN joining(chan[t]) ELSE chan[t]]
      BY <2>2 DEF Opens
    <3> QED BY <2>1, <3>1, <3>2, ReopenedTyped, TokenKept
  <2>3. CASE Closed
    <3>1. UNCHANGED token /\ chan' = [t \in Topics |-> errored(chan[t])]
      BY <2>3 DEF Closed
    <3> QED BY <2>1, <3>1, FailedTyped, TokenKept
  <2>4. CASE Reconnect \/ Reconnected \/ Heartbeat
    <3>1. UNCHANGED <<token, chan>>
      BY <2>4 DEF Reconnect, Reconnected, Heartbeat
    <3> QED BY <2>1, <3>1, TokenKept
  <2> QED BY <1>4, <2>2, <2>3, <2>4 DEF SocketStep
<1>5. ASSUME NEW t \in Topics, ChannelStep(t)
      PROVE  RelayInv'
  BY <1>5, ChannelStepTyped, ChannelRecords, TokenKept
<1>6. CASE UNCHANGED vars
  <2>1. TypeOK'
    BY <1>0, <1>6 DEF TypeOK, vars, world, token, asking, socket
  <2>2. UNCHANGED <<token, chan>>
    BY <1>6 DEF vars
  <2> QED BY <2>1, <2>2, TokenKept
<1> QED
  BY <1>1, <1>2, <1>3, <1>4, <1>5, <1>6 DEF Next

\* The invariant holds in every reachable state, for any number of calls,
\* channels and events.
THEOREM Invariance == Spec => []RelayInv
  BY InitKeeps, StepKeeps, PTL DEF Spec

\* The variables have their types.
THEOREM TypeCorrect == Spec => []TypeOK
<1>1. RelayInv => TypeOK BY DEF RelayInv
<1> QED BY <1>1, Invariance, PTL

\* A channel joins again with the client's token.
THEOREM JoinsLatest == Spec => []JoinsWithLatest
<1>1. RelayInv => JoinsWithLatest BY DEF RelayInv
<1> QED BY <1>1, Invariance, PTL

\* The token that counts as set by hand is the one that was given to setAuth last.
THEOREM HandStands == Spec => []HandSetStands
<1>1. RelayInv => HandSetStands BY DEF RelayInv
<1> QED BY <1>1, Invariance, PTL

\* A joined channel has been told the client's token, with the exceptions named.
THEOREM JoinedKnow == Spec => []JoinedKnowLatest
<1>1. RelayInv => JoinedKnowLatest BY DEF RelayInv
<1> QED BY <1>1, Invariance, PTL
-----------------------------------------------------------------------------
\* A call that the client begins of itself, begins while no token set by hand is
\* in force: the socket that opens asks only when there is no token at all.
LEMMA AutoCalls ==
    ASSUME RelayInv, manuallySet, connect \/ setAuthSafely
    PROVE  UNCHANGED asking
  BY DEF connect, setAuthSafely, autoAskIf

\* Each step that makes a call asked makes it so on setAuth() of somebody else.
LEMMA AskedOnDemand ==
    ASSUME RelayInv, Next, manuallySet, NEW c \in Calls, call[c].at = "idle",
           call'[c].at = "asked"
    PROVE  ~call'[c].auto
<1>0. TypeOK /\ accessTokenValue # None
  BY DEF RelayInv, HandSetStands
<1>1. ASSUME NEW d \in Calls, CallStep(d)
      PROVE  FALSE
  <2>1. call \in [Calls -> Call] BY <1>0 DEF TypeOK
  <2>2. d # c => call'[c] = call[c]
    BY <1>1, <2>1 DEF CallStep, Read, ReadsNoSession, Answered, Failed, Finish, Started, StartFails
  <2>3. call[d].at # "idle"
    BY <1>1 DEF CallStep, Read, ReadsNoSession, Answered, Failed, Finish, Started, StartFails
  <2> QED BY <2>2, <2>3
<1>2. CASE UNCHANGED call
  BY <1>2
<1>3. CASE ask(FALSE)
  <2>1. begin("asked", FALSE) BY <1>3 DEF ask
  <2>2. call'[c] = [NoCall EXCEPT !.at = "asked", !.auto = FALSE] \/ call'[c] = call[c]
    BY <1>0, <2>1, BeginTyped
  <2> QED BY <2>2 DEF NoCall
<1>4. ASSUME NEW tok \in Tokens, NEW by \in Hands, handIn(tok, by)
      PROVE  FALSE
  <2>1. begin("done", FALSE) BY <1>4 DEF handIn
  <2>2. call'[c] = [NoCall EXCEPT !.at = "done", !.auto = FALSE] \/ call'[c] = call[c]
    BY <1>0, <2>1, BeginTyped
  <2> QED BY <2>2 DEF NoCall
<1>5. CASE WorldStep
  <2>1. UNCHANGED call \/ ask(FALSE) \/ \E tok \in Tokens : handIn(tok, "app")
    <3>1. CASE AppConnects
      BY <3>1, AutoCalls DEF AppConnects, asking
    <3>2. CASE ~AppConnects
      BY <1>5, <3>2 DEF WorldStep, SignedIn, SignedOut, ChangedQuietly, AppHandsIn, AppAsks,
                        Disconnect, Drops, asking
    <3> QED BY <3>1, <3>2
  <2>2. "app" \in Hands BY DEF Hands
  <2> QED BY <1>2, <1>3, <1>4, <2>1, <2>2
<1>6. CASE HandleTokenChanged
  <2>1. UNCHANGED call \/ ask(FALSE) \/ \E tok \in Tokens : handIn(tok, "relay")
    BY <1>0, <1>6, RelayCases DEF asking
  <2>2. "relay" \in Hands BY DEF Hands
  <2> QED BY <1>2, <1>3, <1>4, <2>1, <2>2
<1>7. CASE SocketStep
  <2>1. CASE Opens
    <3>1. UNCHANGED asking BY <1>0, <2>1 DEF Opens, autoAskIf
    <3> QED BY <1>2, <3>1 DEF asking
  <2>2. CASE Closed \/ Reconnect
    BY <1>2, <2>2 DEF Closed, Reconnect, asking
  <2>3. CASE Reconnected \/ Heartbeat
    <3>1. connect \/ setAuthSafely BY <2>3 DEF Reconnected, Heartbeat
    <3> QED BY <1>2, <3>1, AutoCalls DEF asking
  <2> QED BY <1>7, <2>1, <2>2, <2>3 DEF SocketStep
<1>8. ASSUME NEW t \in Topics, ChannelStep(t)
      PROVE  UNCHANGED call
  <2>1. CASE Subscribe(t)
    BY <2>1, AutoCalls DEF Subscribe, asking
  <2>2. CASE Joined(t)
    BY <2>2 DEF Joined, autoAskIf, asking
  <2>3. CASE Create(t) \/ JoinFails(t) \/ Rejoin(t) \/ Unsubscribe(t) \/ Left(t)
    BY <2>3 DEF Create, JoinFails, Rejoin, Unsubscribe, Left, asking
  <2> QED BY <1>8, <2>1, <2>2, <2>3 DEF ChannelStep
<1> QED
  BY <1>1, <1>2, <1>5, <1>6, <1>7, <1>8 DEF Next

\* While the token counts as set by hand, the callback is left alone.
THEOREM LeftAlone == Spec => CallbackLeftAlone
<1>1. RelayInv /\ [Next]_vars
      => [\A c \in Calls : manuallySet /\ call[c].at = "idle" /\ call'[c].at = "asked"
              => ~call'[c].auto]_vars
  BY AskedOnDemand
<1> QED
  BY <1>1, Invariance, PTL DEF Spec, CallbackLeftAlone
=============================================================================
