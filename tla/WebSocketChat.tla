--------------------------- MODULE WebSocketChat ---------------------------
(***************************************************************************)
(* The chat of the web UI: the hook use-websocket-chat.ts and its client   *)
(* websocket-client.ts in one browser tab, and the reconnectable WebSocket *)
(* handler websocket_reconnect.py at the other end of each socket.         *)
(*                                                                         *)
(* A payload the hook keeps (pendingOutgoing, lastSentOutgoing,            *)
(* unacknowledgedOutgoing) is a user message or the answer to a prompt; a  *)
(* workflow is what the server runs for a message it has read.  A link     *)
(* fails without either end knowing: what was under way is lost, the       *)
(* browser is told by onclose and the handler by WebSocketDisconnect.      *)
(***************************************************************************)
EXTENDS Naturals, Sequences, FiniteSets

CONSTANTS
  Convs,       \* the user's conversations
  MaxEvents,   \* bound: messages, prompts, stops, lost links, early timers...
  MaxAuth,     \* MAX_CONSECUTIVE_AUTH_EXPIRED
  MaxTries     \* reconnectAttempts of the client

ASSUME ChatAssumption == {MaxEvents, MaxAuth, MaxTries} \subseteq Nat

VARIABLES
  conv,        \* currentConversation
  streaming,   \* isStreaming
  prompt,      \* pendingInteraction: the workflow that asks, 0 for none
  asked,       \* per conversation, its prompts without a response
  card,        \* conversations that show a connection.* error card
  client,      \* the client of this conversation
  pending,     \* pendingOutgoingRef
  lastSent,    \* lastSentOutgoingRef
  unack,       \* unacknowledgedOutgoingRef; its timer runs while it is set
  auth,        \* consecutiveAuthExpiredRef
  deferred,    \* pendingRotationRef
  failing,     \* onError(CONNECTION_FAILED) awaits the health check
  wrote,       \* the conversation each message was written in
  frames,      \* message frames sent; the last one's number is its id
  socks,       \* the sockets and the handlers that serve them
  route,       \* registry _sockets: the socket of a conversation
  pend,        \* registry _pending_interactions: the workflow that waits
  flows,       \* the workflows
  deaf,        \* the browser does not listen to what it waits for
  events

hookVars == <<conv, streaming, prompt, asked, card, pending, lastSent, unack,
              auth, deferred, failing, wrote>>
serverVars == <<route, pend, flows, deaf>>
chatVars == <<hookVars, client, frames, socks, serverVars, events>>

Nothing == [kind |-> "none", msg |-> 0, to |-> 0, parent |-> 0, retry |-> 0]

ChatInit ==
  /\ conv \in Convs
  /\ streaming = FALSE /\ prompt = 0 /\ asked = [c \in Convs |-> <<>>] /\ card = {}
  /\ client = [ws |-> 0, closed |-> FALSE, tries |-> 0, active |-> 0,
               dials |-> 1, rotating |-> FALSE, redials |-> 0]
  /\ pending = Nothing /\ lastSent = Nothing /\ unack = Nothing
  /\ auth = 0 /\ deferred = FALSE /\ failing = FALSE
  /\ wrote = <<>> /\ frames = 0 /\ socks = <<>>
  /\ route = [c \in Convs |-> 0] /\ pend = [c \in Convs |-> 0]
  /\ flows = <<>> /\ deaf = FALSE /\ events = 0

Event == events < MaxEvents /\ events' = events + 1

----------------------------------------------------------------------------
(* The client: connect, rotate, disconnect and the handlers of its socket.  *)

Connected == client.ws # 0 /\ socks[client.ws].link \in {"open", "lost"}

Connect(cl) ==
  IF cl.ws # 0 /\ socks[cl.ws].link \in {"dialled", "open", "lost"} THEN cl
  ELSE [cl EXCEPT !.closed = FALSE, !.dials = @ + 1]

\* The sockets once the browser has closed the client's.
Shut(ss) == IF client.ws = 0 \/ ss[client.ws].link = "shut" THEN ss
            ELSE [ss EXCEPT ![client.ws].link = "shut", ![client.ws].down = <<>>]

\* A rotation drops the socket before it dials; one under way is joined.
Rotate(ss) ==
  IF client.rotating THEN socks' = ss /\ UNCHANGED client
  ELSE /\ socks' = Shut(ss)
       /\ client' = [client EXCEPT !.ws = 0, !.closed = FALSE, !.tries = 0, !.rotating = TRUE]

\* getSession and getWebSocketUrl are awaited before the socket is made, and
\* whatever became of the client meanwhile, it then has this socket.  Neither
\* can fail: a session that cannot be had is caught, the URL is the page's own.
DialResolves ==
  /\ client.dials > 0 \/ client.rotating
  /\ LET ss == IF client.ws # 0 /\ socks[client.ws].link = "dialled" THEN Shut(socks) ELSE socks
     IN  socks' = Append(ss, [link |-> "dialled", up |-> <<>>, down |-> <<>>, expired |-> FALSE,
                              conv |-> conv, heard |-> FALSE, parent |-> 0, own |-> 0])
  /\ \/ client.rotating
        /\ client' = [client EXCEPT !.ws = Len(socks'), !.rotating = FALSE]
     \/ client.dials > 0
        /\ client' = [client EXCEPT !.ws = Len(socks'), !.dials = @ - 1]
  /\ deaf' = (deaf \/ (client.ws # 0 /\ socks[client.ws].link # "shut"))
  /\ UNCHANGED <<hookVars, frames, route, pend, flows, events>>

\* sendOutgoingPayload on the open socket s, and trackSentOutgoing: a message
\* is known by the id of its frame, an answer by its prompt's parent.
Transmit(p, s, ss, cl) ==
  LET id == IF p.kind = "message" THEN frames + 1 ELSE p.parent
      sent == [p EXCEPT !.parent = id]
  IN  /\ frames' = IF p.kind = "message" THEN id ELSE frames
      /\ socks' = IF ss[s].link = "lost" THEN ss ELSE [ss EXCEPT ![s].up = Append(@, sent)]
      /\ client' = IF p.kind = "message" THEN [cl EXCEPT !.active = id] ELSE cl
      /\ lastSent' = p
      /\ unack' = sent

\* onopen: onConnectionChange('connected') sends what is pending.
Opens(s) ==
  /\ socks[s].link = "dialled"
  /\ card' = card \ {conv} /\ pending' = Nothing
  /\ LET ss == [socks EXCEPT ![s].link = "open"]
         cl == [client EXCEPT !.tries = 0]
     IN  IF pending # Nothing THEN Transmit(pending, s, ss, cl)
         ELSE socks' = ss /\ client' = cl /\ UNCHANGED <<lastSent, unack, frames>>
  /\ UNCHANGED <<conv, streaming, prompt, asked, auth, deferred, failing, wrote, serverVars, events>>

\* The buffers and the flags when the hook gives a request up.
DropPayloads == pending' = Nothing /\ lastSent' = Nothing /\ unack' = Nothing
GiveUp == streaming' = FALSE /\ prompt' = 0 /\ DropPayloads

\* Mutant: what was sent again is sent again
ResendsAlways ==
  /\ pending' = [unack EXCEPT !.retry = 1]
  /\ unack' = Nothing
  /\ UNCHANGED <<streaming, prompt, lastSent>>

\* onConnectionChange after an unintentional close: what no frame has
\* acknowledged is sent once more when the client has connected again.
LosesConnection ==
  IF unack # Nothing /\ unack.retry < 1
  THEN /\ pending' = [unack EXCEPT !.retry = 1]
       /\ unack' = Nothing
       /\ UNCHANGED <<streaming, prompt, lastSent>>
  ELSE /\ streaming' = FALSE /\ prompt' = 0
       /\ IF unack # Nothing THEN DropPayloads ELSE UNCHANGED <<pending, lastSent, unack>>

\* onclose of the client's socket: the hook hears of the first loss only, and
\* of CONNECTION_FAILED when the attempts are used up.
CloseSeen ==
  IF client.closed
  THEN UNCHANGED <<client, streaming, prompt, pending, lastSent, unack, failing>>
  ELSE /\ IF client.tries > 0 /\ client.tries < MaxTries
          THEN UNCHANGED <<streaming, prompt, pending, lastSent, unack>>
          ELSE LosesConnection
       /\ IF client.tries >= MaxTries
          THEN failing' = TRUE /\ UNCHANGED client
          ELSE /\ client' = [client EXCEPT !.tries = @ + 1, !.redials = @ + 1]
               /\ UNCHANGED failing

Closes(s) ==
  /\ socks[s].link = "lost"
  /\ socks' = [socks EXCEPT ![s].link = "shut", ![s].down = <<>>]
  /\ IF client.ws = s THEN CloseSeen
     ELSE UNCHANGED <<client, streaming, prompt, pending, lastSent, unack, failing>>
  /\ UNCHANGED <<conv, asked, card, auth, deferred, wrote, frames, serverVars, events>>

\* The server or the network refuses the handshake.
Refused(s) ==
  /\ Event /\ socks[s].link = "dialled"
  /\ socks' = [socks EXCEPT ![s].link = "shut"]
  /\ CloseSeen
  /\ UNCHANGED <<conv, asked, card, auth, deferred, wrote, frames, serverVars>>

Redial ==
  /\ client.redials > 0
  /\ LET cl == [client EXCEPT !.redials = @ - 1]
     IN  client' = IF client.closed THEN cl ELSE Connect(cl)
  /\ UNCHANGED <<hookVars, frames, socks, serverVars, events>>

\* The health check of CONNECTION_FAILED returns, in whatever conversation.
HealthChecked ==
  /\ failing /\ failing' = FALSE
  /\ card' = card \cup {conv} /\ GiveUp
  /\ UNCHANGED <<conv, asked, auth, deferred, wrote, client, frames, socks, serverVars, events>>

\* useConnectionRecovery: the backend is healthy again.
Recovers ==
  /\ conv \in card /\ card' = card \ {conv}
  /\ client' = Connect(client)
  /\ UNCHANGED <<conv, streaming, prompt, asked, pending, lastSent, unack, auth, deferred,
                 failing, wrote, frames, socks, serverVars, events>>

----------------------------------------------------------------------------
(* What the user does.                                                       *)

\* The token of the open socket has passed its expiry on this clock.
TokenStale == Connected /\ socks[client.ws].expired

\* sendMessage, which the input offers when nothing runs and nothing asks.
SendMessage ==
  LET p == [Nothing EXCEPT !.kind = "message", !.msg = Len(wrote) + 1]
  IN  /\ Event /\ ~streaming /\ prompt = 0
      /\ wrote' = Append(wrote, conv)
      /\ streaming' = TRUE
      /\ \/ TokenStale /\ pending' = p /\ Rotate(socks) /\ UNCHANGED <<lastSent, unack, frames>>
         \/ Connected /\ Transmit(p, client.ws, socks, client) /\ UNCHANGED pending
         \/ /\ ~Connected /\ pending' = p /\ client' = Connect(client)
            /\ UNCHANGED <<lastSent, unack, frames, socks>>
      /\ UNCHANGED <<conv, prompt, asked, card, auth, deferred, failing, serverVars>>

\* respondToInteraction: the prompt counts as answered also when there is no
\* socket to send the answer on.
Respond ==
  LET p == [Nothing EXCEPT !.kind = "answer", !.to = prompt, !.parent = flows[prompt].id]
  IN  /\ prompt # 0 /\ prompt' = 0
      /\ asked' = [asked EXCEPT ![conv] =
                     IF @ = <<>> THEN @ ELSE SubSeq(@, 1, Len(@) - 1)]
      /\ \/ TokenStale /\ pending' = p /\ Rotate(socks) /\ streaming' = TRUE
            /\ UNCHANGED <<lastSent, unack, frames, card>>
         \/ Connected /\ Transmit(p, client.ws, socks, client) /\ streaming' = TRUE
            /\ UNCHANGED <<pending, card>>
         \/ /\ ~Connected /\ card' = card \cup {conv}
            /\ UNCHANGED <<streaming, pending, lastSent, unack, client, frames, socks>>
      /\ UNCHANGED <<conv, auth, deferred, failing, wrote, serverVars, events>>

\* The Stop button disconnects.
Stop ==
  /\ Event /\ streaming /\ streaming' = FALSE
  /\ socks' = Shut(socks)
  /\ client' = [client EXCEPT !.ws = 0, !.closed = TRUE, !.tries = 0]
  /\ UNCHANGED <<conv, prompt, asked, card, pending, lastSent, unack, auth, deferred,
                 failing, wrote, frames, serverVars>>

\* Mutant: the payloads of the conversation that is left are kept
SelectKeepsPayloads(c) ==
  /\ Event /\ ~streaming /\ prompt = 0 /\ c # conv /\ conv' = c
  /\ UNCHANGED streaming
  /\ prompt' = IF asked[c] = <<>> THEN 0 ELSE asked[c][Len(asked[c])]
  /\ UNCHANGED <<pending, lastSent, unack>> /\ auth' = 0 /\ deferred' = FALSE
  /\ socks' = Shut(socks)
  /\ client' = [ws |-> 0, closed |-> FALSE, tries |-> 0, active |-> 0,
                dials |-> 1, rotating |-> FALSE, redials |-> 0]
  /\ UNCHANGED <<asked, card, failing, wrote, frames, serverVars>>

\* selectConversation, restoreSessionState and the cleanup of the effect,
\* which then makes the client of the conversation selected.  Navigation is
\* blocked while something runs or asks.
SelectConversation(c) ==
  /\ Event /\ ~streaming /\ prompt = 0 /\ c # conv /\ conv' = c
  /\ UNCHANGED streaming
  /\ prompt' = IF asked[c] = <<>> THEN 0 ELSE asked[c][Len(asked[c])]
  /\ DropPayloads /\ auth' = 0 /\ deferred' = FALSE
  /\ socks' = Shut(socks)
  /\ client' = [ws |-> 0, closed |-> FALSE, tries |-> 0, active |-> 0,
                dials |-> 1, rotating |-> FALSE, redials |-> 0]
  /\ UNCHANGED <<asked, card, failing, wrote, frames, serverVars>>

----------------------------------------------------------------------------
(* Timers of the hook.                                                       *)

\* Something may yet be answered, and the timer is early.
Answerable ==
  \/ \E s \in DOMAIN socks : socks[s].up # <<>> \/ socks[s].down # <<>>
  \/ \E f \in DOMAIN flows : flows[f].state \in {"running", "answered"}

\* Mutant: the retry that nobody acknowledges is not given up
TimeoutOnce ==
  /\ unack # Nothing /\ unack.retry < 1
  /\ IF Answerable THEN Event ELSE UNCHANGED events
  /\ pending' = [unack EXCEPT !.retry = 1] /\ unack' = Nothing
  /\ Rotate(socks)
  /\ UNCHANGED <<conv, streaming, prompt, lastSent, card, asked, auth, deferred, failing,
                 wrote, frames, serverVars>>

\* No frame within UNACKNOWLEDGED_OUTGOING_ACK_TIMEOUT_MS.
AckTimeout ==
  /\ unack # Nothing
  /\ IF Answerable THEN Event ELSE UNCHANGED events
  /\ IF unack.retry < 1
     THEN /\ pending' = [unack EXCEPT !.retry = 1] /\ unack' = Nothing
          /\ Rotate(socks) /\ UNCHANGED <<streaming, prompt, lastSent, card>>
     ELSE card' = card \cup {conv} /\ GiveUp /\ UNCHANGED <<client, socks>>
  /\ UNCHANGED <<conv, asked, auth, deferred, failing, wrote, frames, serverVars>>

\* The token of the socket is about to expire.
SoftTimer ==
  /\ Connected /\ Event
  /\ IF streaming THEN deferred' = TRUE /\ UNCHANGED <<client, socks>>
     ELSE Rotate(socks) /\ UNCHANGED deferred
  /\ UNCHANGED <<conv, streaming, prompt, asked, card, pending, lastSent, unack, auth,
                 failing, wrote, frames, serverVars>>

DeferredRotation ==
  /\ deferred /\ ~streaming
  /\ deferred' = FALSE /\ Rotate(socks)
  /\ UNCHANGED <<conv, streaming, prompt, asked, card, pending, lastSent, unack, auth,
                 failing, wrote, frames, serverVars, events>>

----------------------------------------------------------------------------
(* The handlers of the server.                                               *)

Lose(s) ==
  /\ Event /\ socks[s].link = "open"
  /\ \E n \in 0..Len(socks[s].up) :
        socks' = [socks EXCEPT ![s].link = "lost", ![s].up = SubSeq(@, 1, n), ![s].down = <<>>]
  /\ UNCHANGED <<hookVars, client, frames, serverVars>>

Expire(s) ==
  /\ Event /\ Connected /\ client.ws = s /\ ~socks[s].expired
  /\ socks' = [socks EXCEPT ![s].expired = TRUE]
  /\ UNCHANGED <<hookVars, client, frames, serverVars>>

Deliver(s, ss, f) ==
  IF ss[s].link = "open" THEN [ss EXCEPT ![s].down = Append(@, f)] ELSE ss

Frame(kind, f, parent) == [kind |-> kind, flow |-> f, parent |-> parent]

\* An answer is next for the handler's own future, which has its result and
\* whose workflow has not gone on yet.
SecondAnswer(s) ==
  /\ socks[s].up # <<>> /\ Head(socks[s].up).kind = "answer" /\ ~socks[s].expired
  /\ socks[s].own # 0 /\ flows[socks[s].own].state = "answered"

\* set_result raises out of run: the server closes the socket, and the
\* conversation is left with it as its route.
ReadsAgain(s) ==
  /\ SecondAnswer(s)
  /\ route' = [route EXCEPT ![socks[s].conv] = s]
  /\ socks' = [socks EXCEPT ![s].link = IF @ = "open" THEN "lost" ELSE @,
                            ![s].up = <<>>, ![s].down = <<>>, ![s].heard = FALSE]
  /\ UNCHANGED <<hookVars, client, frames, pend, flows, deaf, events>>

\* run reads a frame; a message starts a workflow, an answer resolves the
\* future of this handler, or else the one the registry has.
Reads(s) ==
  LET m == Head(socks[s].up)
      c == socks[s].conv
      ss == [socks EXCEPT ![s].up = Tail(@)]
      f == IF socks[s].own # 0 THEN socks[s].own ELSE pend[c]
  IN  /\ socks[s].up # <<>> /\ ~SecondAnswer(s)
      /\ IF socks[s].expired
         THEN socks' = Deliver(s, ss, Frame("auth_expired", 0, 0)) /\ UNCHANGED <<route, pend, flows>>
         ELSE /\ route' = [route EXCEPT ![c] = s]
              /\ \/ /\ m.kind = "message"
                    /\ socks' = [ss EXCEPT ![s].heard = TRUE, ![s].parent = m.parent]
                    /\ flows' = Append(flows, [sock |-> s, msg |-> m.msg, id |-> m.parent,
                                               state |-> "running", quiet |-> FALSE])
                    /\ UNCHANGED pend
                 \/ /\ m.kind = "answer" /\ socks' = ss
                    /\ IF f # 0 /\ flows[f].state = "waiting"
                       THEN /\ flows' = [flows EXCEPT ![f].state = "answered"]
                            /\ pend' = IF socks[s].own = 0 THEN [pend EXCEPT ![c] = 0] ELSE pend
                       ELSE UNCHANGED <<flows, pend>>
      /\ UNCHANGED <<hookVars, client, frames, deaf, events>>

\* WebSocketDisconnect.  There is no task to cancel: NAT keeps none.
Disconnected(s) ==
  LET c == socks[s].conv
  IN  /\ socks[s].heard /\ socks[s].up = <<>> /\ socks[s].link \in {"lost", "shut"}
      /\ socks' = [socks EXCEPT ![s].heard = FALSE]
      /\ route' = IF route[c] = s THEN [route EXCEPT ![c] = 0] ELSE route
      /\ UNCHANGED <<hookVars, client, frames, pend, flows, deaf, events>>

\* create_websocket_message: to the socket the conversation has now, and
\* dropped if it has none.  `last` frames end what the browser waits for.
Tells(f, kind, ss) ==
  LET c == socks[flows[f].sock].conv
      fr == Frame(kind, f, ss[flows[f].sock].parent)
  IN  /\ socks' = IF route[c] = 0 THEN ss ELSE Deliver(route[c], ss, fr)
      /\ deaf' = (deaf \/ (kind # "step" /\ (route[c] = 0 \/ route[c] # client.ws)))

Step(f) ==
  /\ flows[f].state = "running" /\ ~flows[f].quiet
  /\ flows' = [flows EXCEPT ![f].quiet = TRUE]
  /\ Tells(f, "step", socks)
  /\ UNCHANGED <<hookVars, client, frames, route, pend, events>>

\* human_interaction_callback.
Asks(f) ==
  /\ Event /\ flows[f].state = "running"
  /\ flows' = [flows EXCEPT ![f].state = "waiting"]
  /\ pend' = [pend EXCEPT ![socks[flows[f].sock].conv] = f]
  /\ Tells(f, "prompt", [socks EXCEPT ![flows[f].sock].own = f])
  /\ UNCHANGED <<hookVars, client, frames, route>>

\* Its finally clears what the conversation has pending, whose it may be.
Resumes(f) ==
  /\ flows[f].state = "answered"
  /\ flows' = [flows EXCEPT ![f].state = "running"]
  /\ pend' = [pend EXCEPT ![socks[flows[f].sock].conv] = 0]
  /\ socks' = [socks EXCEPT ![flows[f].sock].own = 0]
  /\ UNCHANGED <<hookVars, client, frames, route, deaf, events>>

\* _run_workflow ends: an AuthError is told, another exception is not.
Ends(f, kind) ==
  /\ flows[f].state = "running"
  /\ IF kind = "final" THEN UNCHANGED events ELSE Event
  /\ flows' = [flows EXCEPT ![f].state = "ended"]
  /\ IF kind = "raised" THEN deaf' = TRUE /\ UNCHANGED socks
     ELSE Tells(f, kind, socks)
  /\ UNCHANGED <<hookVars, client, frames, route, pend>>

----------------------------------------------------------------------------
(* The callbacks of the hook.                                                *)

\* isStaleMessage: another frame's, once the client has sent one.
StaleParent(parent) == parent # 0 /\ client.active # 0 /\ parent # client.active

Acknowledged(parent) == IF unack.parent = parent \/ parent = 0 THEN Nothing ELSE unack

OnStep ==
  /\ auth' = 0 /\ unack' = IF streaming THEN Nothing ELSE unack
  /\ UNCHANGED <<streaming, prompt, asked, card, pending, lastSent, client, deaf>>

OnResponse(m) ==
  /\ auth' = 0
  /\ IF StaleParent(m.parent) \/ ~streaming
     THEN /\ deaf' = (deaf \/ streaming)
          /\ UNCHANGED <<streaming, prompt, lastSent, unack>>
     ELSE /\ streaming' = FALSE /\ prompt' = 0 /\ lastSent' = Nothing
          /\ unack' = Acknowledged(m.parent) /\ UNCHANGED deaf
  /\ UNCHANGED <<asked, card, pending, client>>

OnHumanPrompt(m) ==
  /\ unack' = Acknowledged(m.parent)
  /\ prompt' = m.flow /\ asked' = [asked EXCEPT ![conv] = Append(@, m.flow)]
  /\ streaming' = FALSE
  /\ UNCHANGED <<card, pending, lastSent, auth, client, deaf>>

\* Mutant: expired tokens are retried without limit
RetriesAuthForEver ==
  /\ auth' = auth + 1
  /\ pending' = IF lastSent # Nothing THEN lastSent ELSE pending
  /\ unack' = Nothing /\ UNCHANGED <<streaming, prompt, lastSent>>
  /\ UNCHANGED <<asked, card, deaf>>

OnAuthExpired ==
  /\ IF auth < MaxAuth
     THEN /\ auth' = auth + 1
          /\ pending' = IF lastSent # Nothing THEN lastSent ELSE pending
          /\ unack' = Nothing /\ UNCHANGED <<streaming, prompt, lastSent>>
     ELSE auth' = 0 /\ GiveUp
  /\ UNCHANGED <<asked, card, deaf>>

OnError == GiveUp /\ UNCHANGED <<asked, card, auth, client, deaf>>

\* onmessage.  A socket the client no longer has is not listened to.
Receives(s) ==
  LET m == Head(socks[s].down)
      ss == [socks EXCEPT ![s].down = Tail(@)]
  IN  /\ socks[s].link = "open" /\ socks[s].down # <<>>
      /\ IF client.ws # s
         THEN /\ socks' = ss
              /\ UNCHANGED <<streaming, prompt, asked, card, pending, lastSent, unack, auth,
                             client, deaf>>
         ELSE \/ m.kind = "step" /\ socks' = ss /\ OnStep
              \/ m.kind = "final" /\ socks' = ss /\ OnResponse(m)
              \/ m.kind = "prompt" /\ socks' = ss /\ OnHumanPrompt(m)
              \/ m.kind = "error" /\ socks' = ss /\ OnError
              \/ /\ m.kind = "auth_expired" /\ OnAuthExpired
                 /\ IF auth < MaxAuth THEN Rotate(ss)
                    ELSE socks' = ss /\ UNCHANGED client
      /\ UNCHANGED <<conv, deferred, failing, wrote, frames, route, pend, flows, events>>

----------------------------------------------------------------------------

Browser == \/ DialResolves \/ Redial \/ HealthChecked \/ AckTimeout \/ DeferredRotation
           \/ \E s \in DOMAIN socks : Opens(s) \/ Closes(s) \/ Receives(s)
Server == \/ \E s \in DOMAIN socks : Reads(s) \/ ReadsAgain(s) \/ Disconnected(s)
          \/ \E f \in DOMAIN flows : Step(f) \/ Resumes(f) \/ Ends(f, "final")
User == SendMessage \/ Respond \/ Stop \/ \E c \in Convs : SelectConversation(c)
Environment == \/ Recovers \/ SoftTimer
               \/ \E s \in DOMAIN socks : Refused(s) \/ Lose(s) \/ Expire(s)
               \/ \E f \in DOMAIN flows : Asks(f) \/ Ends(f, "error") \/ Ends(f, "raised")

ChatNext == Browser \/ Server \/ User \/ Environment

\* Timers elapse, what is sent arrives or its link is seen to be lost, and
\* workflows end.
ChatFairness == WF_chatVars(Browser) /\ WF_chatVars(Server)

----------------------------------------------------------------------------

\* The variables have their types.
ChatTypeOK ==
  /\ conv \in Convs /\ streaming \in BOOLEAN /\ card \subseteq Convs
  /\ {deferred, failing, deaf} \subseteq BOOLEAN
  /\ {p.kind : p \in {pending, lastSent, unack}} \subseteq {"none", "message", "answer"}
  /\ prompt \in 0..Len(flows) /\ auth \in 0..MaxAuth
  /\ client.ws \in 0..Len(socks) /\ client.tries \in 0..MaxTries
  /\ \A c \in Convs : route[c] \in 0..Len(socks) /\ pend[c] \in 0..Len(flows)
  /\ \A f \in DOMAIN flows : flows[f].sock \in DOMAIN socks /\ flows[f].msg \in DOMAIN wrote
  /\ events \in 0..MaxEvents

\* What the user wrote in a conversation is sent, sent again and run in that
\* conversation alone, and a prompt asks in the conversation it comes from.
StaysInConversation ==
  /\ \A p \in {pending, lastSent, unack} : p.kind = "message" => wrote[p.msg] = conv
  /\ \A f \in DOMAIN flows : wrote[flows[f].msg] = socks[flows[f].sock].conv
  /\ prompt # 0 => socks[flows[prompt].sock].conv = conv

\* However often its delivery is in doubt, a message is run at most twice.
RunsAtMostTwice ==
  \A m \in DOMAIN wrote : Cardinality({f \in DOMAIN flows : flows[f].msg = m}) <= 2

\* The spinner of a request, which has to end, by its outcome or by an error
\* card, unless the last frame of a workflow was lost where nobody can notice.
SpinnerWaits == streaming /\ ~deaf
=============================================================================
