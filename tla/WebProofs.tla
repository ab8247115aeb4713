------------------------------ MODULE WebProofs ------------------------------
(***************************************************************************)
(* What one tab of the web UI guarantees for any conversations, jobs and   *)
(* bounds: proofs about WebSocketChat, about ResearchView and about the    *)
(* two together.                                                           *)
(***************************************************************************)
EXTENDS MCWeb, SequenceTheorems, FiniteSetTheorems, WellFoundedInduction, TLAPS

-----------------------------------------------------------------------------
(* The invariant of the chat: types.                                       *)

Payloads == [kind : {"none", "message", "answer"}, msg : Nat, to : Nat, parent : Nat, retry : 0..1]
Replies == [kind : {"step", "final", "error", "prompt", "auth_expired"}, flow : Nat, parent : Nat]
Sockets == [link : {"dialled", "open", "lost", "shut"}, up : Seq(Payloads), down : Seq(Replies),
            expired : BOOLEAN, conv : Convs, heard : BOOLEAN, parent : Nat, own : Nat]
Workflows == [sock : Nat, msg : Nat, id : Nat, quiet : BOOLEAN,
              state : {"running", "waiting", "answered", "ended"}]
Clients == [ws : Nat, closed : BOOLEAN, tries : 0..MaxTries, active : Nat, dials : Nat,
            rotating : BOOLEAN, redials : Nat]

FlagsTyped ==
  /\ streaming \in BOOLEAN /\ deferred \in BOOLEAN /\ failing \in BOOLEAN /\ deaf \in BOOLEAN

HookTyped ==
  /\ conv \in Convs /\ card \subseteq Convs
  /\ pending \in Payloads /\ lastSent \in Payloads /\ unack \in Payloads
  /\ wrote \in Seq(Convs) /\ frames \in Nat
  /\ prompt \in Nat /\ asked \in [Convs -> Seq(Nat)] /\ auth \in 0..MaxAuth
  /\ route \in [Convs -> Nat] /\ pend \in [Convs -> Nat] /\ events \in 0..MaxEvents

ChatTyped ==
  FlagsTyped /\ HookTyped /\ client \in Clients /\ socks \in Seq(Sockets) /\ flows \in Seq(Workflows)

\* What the variables refer to exists.
Refers ==
  /\ client.ws \in 0..Len(socks)
  /\ prompt \in 0..Len(flows)
  /\ \A c \in Convs : /\ route[c] \in 0..Len(socks) /\ pend[c] \in 0..Len(flows)
                      /\ \A i \in DOMAIN asked[c] : asked[c][i] \in DOMAIN flows
  /\ \A f \in DOMAIN flows : flows[f].sock \in DOMAIN socks /\ flows[f].msg \in DOMAIN wrote
  /\ \A s \in DOMAIN socks :
       /\ socks[s].own \in 0..Len(flows)
       /\ \A i \in DOMAIN socks[s].up : socks[s].up[i].kind = "message" => socks[s].up[i].msg \in DOMAIN wrote
       /\ \A i \in DOMAIN socks[s].down : socks[s].down[i].kind = "prompt" => socks[s].down[i].flow \in DOMAIN flows
  /\ \A p \in {pending, lastSent, unack} : p.kind = "message" => p.msg \in DOMAIN wrote

-----------------------------------------------------------------------------
(* Conversations.                                                          *)

\* The client's socket is of the conversation that is open, the routes are of
\* theirs, and what a socket carries is of its own.
SocketsOwned ==
  /\ client.ws # 0 => socks[client.ws].conv = conv
  /\ \A c \in Convs : route[c] # 0 => socks[route[c]].conv = c
  /\ \A s \in DOMAIN socks :
       /\ \A i \in DOMAIN socks[s].up :
            socks[s].up[i].kind = "message" => wrote[socks[s].up[i].msg] = socks[s].conv
       /\ \A i \in DOMAIN socks[s].down :
            socks[s].down[i].kind = "prompt" => socks[flows[socks[s].down[i].flow].sock].conv = socks[s].conv

PromptsOwned ==
  \A c \in Convs : \A i \in DOMAIN asked[c] : socks[flows[asked[c][i]].sock].conv = c

-----------------------------------------------------------------------------
(* Copies of messages.                                                     *)

IsMessage(p, m) == p.kind = "message" /\ p.msg = m

\* The frames that have run message m or may yet: those under way on a socket
\* whose token is good.
Ran(m, n) == \E f \in DOMAIN flows : flows[f].msg = m /\ flows[f].id = n
UnderWay(m, n) ==
  \E s \in DOMAIN socks :
    /\ ~socks[s].expired
    /\ \E i \in DOMAIN socks[s].up : IsMessage(socks[s].up[i], m) /\ socks[s].up[i].parent = n
Copies(m) == {n \in Nat : Ran(m, n) \/ UnderWay(m, n)}

\* S has n elements at most, for an n up to 2.
AtMost(S, n) ==
  /\ n = 0 => S = {}
  /\ n = 1 => \A a, b \in S : a = b
  /\ n = 2 => \A a, b, c \in S : a = b \/ a = c \/ b = c

\* Frames bear numbers of their own, also those that have become workflows.
Numbered ==
  /\ \A f \in DOMAIN flows : flows[f].id \in 1..frames
  /\ \A f, g \in DOMAIN flows : flows[f].id = flows[g].id => f = g
  /\ \A s \in DOMAIN socks : \A i \in DOMAIN socks[s].up : socks[s].up[i].kind = "message" =>
       /\ socks[s].up[i].parent \in 1..frames
       /\ \A f \in DOMAIN flows : flows[f].id # socks[s].up[i].parent
  /\ \A s, t \in DOMAIN socks : \A i \in DOMAIN socks[s].up, j \in DOMAIN socks[t].up :
       socks[s].up[i].kind = "message" /\ socks[t].up[j].kind = "message"
         /\ socks[s].up[i].parent = socks[t].up[j].parent => s = t /\ i = j

\* A socket that is dialled is the client's, and carries nothing; an expired
\* token is told of only on a socket that has one.
Links ==
  \A s \in DOMAIN socks :
    /\ socks[s].link = "dialled" => /\ client.ws = s /\ ~socks[s].expired
                                    /\ socks[s].up = <<>> /\ socks[s].down = <<>>
    /\ \A i \in DOMAIN socks[s].down : socks[s].down[i].kind = "auth_expired" => socks[s].expired

\* The client's socket may yet tell of an expired token.
MayTell ==
  /\ client.ws # 0 /\ socks[client.ws].link = "open"
  /\ \/ socks[client.ws].up # <<>>
     \/ \E i \in DOMAIN socks[client.ws].down : socks[client.ws].down[i].kind = "auth_expired"

\* What is sent next is counted: the message that waits, its retry, and the
\* one that an expired token would bring back.
LastCounted(m) ==
  MayTell /\ IsMessage(lastSent, m) =>
    IF socks[client.ws].expired THEN AtMost(Copies(m), lastSent.retry)
    ELSE /\ AtMost(Copies(m), lastSent.retry + 1)
         /\ LET up == socks[client.ws].up IN IsMessage(up[Len(up)], m)

Counted2 ==
  \A m \in DOMAIN wrote :
    /\ AtMost(Copies(m), 2)
    /\ IsMessage(pending, m) => AtMost(Copies(m), pending.retry)
    /\ IsMessage(unack, m) /\ unack.retry = 0 => AtMost(Copies(m), 1)
    /\ LastCounted(m)

ChatInv == ChatTyped /\ Refers /\ SocketsOwned /\ PromptsOwned /\ StaysInConversation
           /\ Numbered /\ Links /\ Counted2

-----------------------------------------------------------------------------
(* The invariant of the view.                                              *)

Answers == {"asked", "error", "running", "gone"} \cup Ended
Statuses == {"none", "submitted", "running"} \cup Ended
Stores == [job : Jobs \cup {None}, live : BOOLEAN, status : Statuses, owner : Chats \cup {None},
           active : Jobs \cup {None}, loaded : BOOLEAN]
Sources == [job : Jobs \cup {None}, buf : BOOLEAN, held : BOOLEAN, link : {"up", "down", "shut"}]
Restores == [step : {"banners", "reconnect"}, chat : Chats, job : Jobs, todo : SUBSET Jobs, got : Answers]
Refreshes == [on : BOOLEAN, todo : SUBSET Jobs, got : [Jobs -> Answers]]
Loads == [job : Jobs, chat : Chats, full : BOOLEAN, step : {"status", "data"}, got : Answers]

ViewFlagsTyped == busy \in BOOLEAN /\ refused \in BOOLEAN /\ orphaned \in BOOLEAN /\ acts \in 0..MaxActs

StoreTyped == chat \in Chats /\ store \in Stores /\ shown \subseteq Jobs /\ report \in Jobs \cup {None}

SourceTyped ==
  /\ source \in Sources /\ due \in Jobs \cup {None}
  /\ source.buf \/ source.link # "shut" => source.job \in Jobs
  /\ timers \subseteq Jobs /\ errors \subseteq Jobs /\ fallbacks \subseteq Jobs /\ cancels \subseteq Jobs

\* A job is of a conversation from the moment it is started.
Started ==
  /\ made \in Seq(Jobs) /\ home \in [Jobs -> Chats \cup {None}]
  /\ message \in [Jobs -> [status : Statuses, on : BOOLEAN]]
  /\ server \in [Jobs -> {"none", "running", "gone"} \cup Ended]
  /\ \A j \in Jobs : /\ server[j] = "none" <=> home[j] = None
                     /\ message[j].status = "none" <=> home[j] = None

\* Research that is live and owned is the open conversation's.
StoreOwned ==
  /\ store.owner \in {None, chat}
  /\ store.live /\ store.owner # None => store.job \in Jobs /\ home[store.job] = store.owner
  /\ store.active # None => home[store.active] # None

\* What is under way is about jobs of the conversation it was begun in.
RestoreOwned(t) == t \in Restores /\ home[t.job] = t.chat /\ \A j \in t.todo : home[j] = t.chat
LoadOwned(t) == t \in Loads /\ home[t.job] = t.chat
TasksOwned ==
  /\ \A t \in restores : RestoreOwned(t)
  /\ \A t \in loads : LoadOwned(t)
  /\ refresh \in Refreshes /\ \A j \in refresh.todo : home[j] # None

ViewInv == ViewFlagsTyped /\ StoreTyped /\ SourceTyped /\ Started /\ StoreOwned /\ TasksOwned /\ ViewStaysInChat

-----------------------------------------------------------------------------
(* Lemmas about sockets.                                                   *)

LEMMA SocketFields ==
  ASSUME NEW ss \in Seq(Sockets), NEW s \in DOMAIN ss
  PROVE  /\ ss[s] \in Sockets /\ s \in 1..Len(ss) /\ Len(ss) \in Nat
         /\ ss[s].up \in Seq(Payloads) /\ ss[s].down \in Seq(Replies)
         /\ ss[s].link \in {"dialled", "open", "lost", "shut"}
         /\ ss[s].expired \in BOOLEAN /\ ss[s].conv \in Convs /\ ss[s].own \in Nat /\ ss[s].parent \in Nat
  <1>1. ss[s] \in Sockets /\ s \in 1..Len(ss) /\ Len(ss) \in Nat
    BY ElementOfSeq
  <1> QED
    BY <1>1 DEF Sockets

\* One socket is replaced.
LEMMA PutSocket ==
  ASSUME NEW ss \in Seq(Sockets), NEW s \in DOMAIN ss, NEW x \in Sockets,
         NEW tt, tt = [ss EXCEPT ![s] = x]
  PROVE  /\ tt \in Seq(Sockets) /\ Len(tt) = Len(ss) /\ DOMAIN tt = DOMAIN ss
         /\ tt[s] = x /\ \A r \in DOMAIN ss : r # s => tt[r] = ss[r]
  BY ExceptSeq

\* A socket that is closed, or has lost its link.
LEMMA CutSocket ==
  ASSUME NEW x \in Sockets, NEW l \in {"dialled", "open", "lost", "shut"}, NEW u \in Seq(Payloads)
  PROVE  /\ [x EXCEPT !.link = l] \in Sockets
         /\ [x EXCEPT !.link = l, !.down = <<>>] \in Sockets
         /\ [x EXCEPT !.link = l, !.up = u, !.down = <<>>] \in Sockets
  <1>1. <<>> \in Seq(Replies)
    BY EmptySeq
  <1> QED
    BY <1>1 DEF Sockets

\* t is what r has become, as far as nobody has sent on it.
Calmer(r, t) ==
  /\ t.conv = r.conv /\ t.up = r.up /\ t.expired = r.expired /\ t.own = r.own
  /\ t.link \in {r.link, "shut"}
  /\ \A i \in DOMAIN t.down : \E j \in DOMAIN r.down : t.down[i] = r.down[j]

LEMMA CalmerIsOrder ==
  /\ \A x : Calmer(x, x)
  /\ \A x, y, z : Calmer(x, y) /\ Calmer(y, z) => Calmer(x, z)
  BY DEF Calmer

\* What a step of the browser does to sockets and client, unless it dials or
\* sends.
Calms(ss) ==
  /\ socks' \in Seq(Sockets) /\ Len(socks') = Len(ss) /\ DOMAIN socks' = DOMAIN ss
  /\ client' \in Clients /\ client'.ws \in {0, client.ws}
  /\ client'.ws # client.ws => socks'[client.ws].link = "shut"
  /\ \A r \in DOMAIN ss : Calmer(ss[r], socks'[r])

LEMMA ClosedIsCalmer ==
  ASSUME NEW x \in Sockets
  PROVE  /\ Calmer(x, [x EXCEPT !.link = "shut"])
         /\ Calmer(x, [x EXCEPT !.link = "shut", !.down = <<>>])
  BY DEF Sockets, Calmer

LEMMA ShutEffect ==
  ASSUME NEW ss \in Seq(Sockets), client \in Clients, client.ws \in 0..Len(ss), NEW tt, tt = Shut(ss)
  PROVE  /\ tt \in Seq(Sockets) /\ Len(tt) = Len(ss) /\ DOMAIN tt = DOMAIN ss
         /\ client.ws # 0 => tt[client.ws].link = "shut"
         /\ \A r \in DOMAIN ss : Calmer(ss[r], tt[r])
  <1>1. CASE client.ws = 0 \/ ss[client.ws].link = "shut"
    BY <1>1, CalmerIsOrder DEF Shut
  <1>2. CASE client.ws # 0 /\ ss[client.ws].link # "shut"
    <2> DEFINE w == client.ws
               x == [ss[w] EXCEPT !.link = "shut", !.down = <<>>]
    <2>1. w \in DOMAIN ss /\ ss[w] \in Sockets
      BY <1>2, ElementOfSeq DEF Clients
    <2>2. x \in Sockets /\ x.link = "shut" /\ Calmer(ss[w], x)
      BY <2>1, CutSocket, EmptySeq, ClosedIsCalmer, ZenonT(40) DEF Sockets
    <2>3. tt = [ss EXCEPT ![w] = x]
      BY <1>2, <2>1 DEF Shut
    <2> HIDE DEF x
    <2>5. /\ tt \in Seq(Sockets) /\ Len(tt) = Len(ss) /\ DOMAIN tt = DOMAIN ss
          /\ tt[w] = x /\ \A r \in DOMAIN ss : r # w => tt[r] = ss[r]
      BY <2>1, <2>2, <2>3, PutSocket
    <2> QED
      BY <2>2, <2>5, CalmerIsOrder
  <1> QED
    BY <1>1, <1>2

LEMMA ChatBounds == MaxEvents \in Nat /\ MaxAuth \in Nat /\ MaxTries \in Nat
  BY ChatAssumption

LEMMA ClientFields ==
  ASSUME NEW cl \in Clients
  PROVE  /\ cl.ws \in Nat /\ cl.closed \in BOOLEAN /\ cl.tries \in 0..MaxTries /\ cl.active \in Nat
         /\ cl.dials \in Nat /\ cl.rotating \in BOOLEAN /\ cl.redials \in Nat
  BY DEF Clients

LEMMA RotateEffect ==
  ASSUME NEW ss \in Seq(Sockets), client \in Clients, client.ws \in 0..Len(ss), Rotate(ss)
  PROVE  Calms(ss)
  <1>1. CASE client.rotating
    BY <1>1, CalmerIsOrder DEF Rotate, Calms
  <1>2. CASE ~client.rotating
    <2>1. socks' = Shut(ss) /\ client' = [client EXCEPT !.ws = 0, !.closed = FALSE, !.tries = 0, !.rotating = TRUE]
      BY <1>2 DEF Rotate
    <2>2. client' \in Clients /\ client'.ws = 0
      <3>1. 0 \in Nat /\ FALSE \in BOOLEAN /\ TRUE \in BOOLEAN /\ 0 \in 0..MaxTries
        BY ChatBounds
      <3>2. client' \in Clients
        BY <2>1, <3>1 DEF Clients
      <3> QED
        BY <2>1, <3>2 DEF Clients
    <2> QED
      BY <2>1, <2>2, ShutEffect DEF Calms
  <1> QED
    BY <1>1, <1>2

LEMMA ConnectEffect ==
  ASSUME NEW cl \in Clients PROVE Connect(cl) \in Clients /\ Connect(cl).ws = cl.ws
  <1> DEFINE x == [cl EXCEPT !.closed = FALSE, !.dials = cl.dials + 1]
  <1>1. x \in Clients
    <2>1. FALSE \in BOOLEAN /\ cl.dials + 1 \in Nat
      BY ClientFields
    <2> QED
      BY <2>1 DEF Clients
  <1>2. x.ws = cl.ws
    BY DEF Clients
  <1>3. Connect(cl) = cl \/ Connect(cl) = x
    BY DEF Connect
  <1> QED
    BY <1>1, <1>2, <1>3

\* What onclose does to the client.
LEMMA CloseEffect ==
  ASSUME ChatTyped, CloseSeen
  PROVE  client' \in Clients /\ client'.ws = client.ws
  <1>1. client \in Clients /\ client.tries \in 0..MaxTries /\ client.redials \in Nat
    BY ClientFields DEF ChatTyped, HookTyped
  <1>2. CASE client' = client
    BY <1>1, <1>2
  <1>3. CASE client.tries < MaxTries /\ client' = [client EXCEPT !.tries = @ + 1, !.redials = @ + 1]
    <2>1. client.tries + 1 \in 0..MaxTries /\ client.redials + 1 \in Nat
      BY <1>1, <1>3, ChatBounds
    <2> QED
      BY <1>1, <1>3, <2>1 DEF Clients
  <1> QED
    BY <1>1, <1>2, <1>3, ChatBounds DEF CloseSeen

-----------------------------------------------------------------------------
(* What each step does to sockets and client.                              *)

\* Nothing happens to the sockets, or one is replaced by a calmer one.
LEMMA Unmoved ==
  ASSUME ChatTyped, client.ws \in 0..Len(socks), client' \in Clients, client'.ws = client.ws, socks' = socks
  PROVE  Calms(socks)
  BY CalmerIsOrder DEF Calms, ChatTyped

LEMMA CalmPut ==
  ASSUME ChatTyped, client.ws \in 0..Len(socks), client' \in Clients, client'.ws = client.ws,
         NEW s \in DOMAIN socks, NEW x \in Sockets, Calmer(socks[s], x), socks' = [socks EXCEPT ![s] = x]
  PROVE  Calms(socks)
  <1>1. socks \in Seq(Sockets)
    BY DEF ChatTyped, HookTyped
  <1>2. /\ socks' \in Seq(Sockets) /\ Len(socks') = Len(socks) /\ DOMAIN socks' = DOMAIN socks
        /\ socks'[s] = x /\ \A r \in DOMAIN socks : r # s => socks'[r] = socks[r]
    BY <1>1, PutSocket
  <1> QED
    BY <1>2, CalmerIsOrder DEF Calms

LEMMA ClosesCalms ==
  ASSUME ChatTyped, client.ws \in 0..Len(socks), NEW s \in DOMAIN socks, Closes(s) \/ Refused(s)
  PROVE  Calms(socks)
  <1>0. socks \in Seq(Sockets) /\ client \in Clients /\ socks[s] \in Sockets
    BY SocketFields DEF ChatTyped, HookTyped
  <1>1. client' \in Clients /\ client'.ws = client.ws
    BY <1>0, CloseEffect DEF Closes, Refused
  <1>2. CASE Closes(s)
    <2> DEFINE x == [socks[s] EXCEPT !.link = "shut", !.down = <<>>]
    <2>1. x \in Sockets /\ Calmer(socks[s], x)
      BY <1>0, CutSocket, EmptySeq, ClosedIsCalmer, ZenonT(40) DEF Sockets
    <2>2. socks' = [socks EXCEPT ![s] = x]
      BY <1>0, <1>2 DEF Closes
    <2> QED
      BY <1>1, <2>1, <2>2, CalmPut
  <1>3. CASE Refused(s)
    <2> DEFINE x == [socks[s] EXCEPT !.link = "shut"]
    <2>1. x \in Sockets /\ Calmer(socks[s], x)
      BY <1>0, CutSocket, EmptySeq, ClosedIsCalmer, ZenonT(40) DEF Sockets
    <2>2. socks' = [socks EXCEPT ![s] = x]
      BY <1>0, <1>3 DEF Refused
    <2> QED
      BY <1>1, <2>1, <2>2, CalmPut
  <1> QED
    BY <1>2, <1>3

LEMMA DisconnectedCalms ==
  ASSUME ChatTyped, client.ws \in 0..Len(socks), NEW s \in DOMAIN socks, Disconnected(s)
  PROVE  Calms(socks)
  <1>0. socks \in Seq(Sockets) /\ client \in Clients /\ socks[s] \in Sockets
    BY SocketFields DEF ChatTyped, HookTyped
  <1> DEFINE x == [socks[s] EXCEPT !.heard = FALSE]
  <1>1. x \in Sockets /\ Calmer(socks[s], x)
    BY <1>0 DEF Sockets, Calmer
  <1>2. socks' = [socks EXCEPT ![s] = x] /\ client' = client
    BY <1>0 DEF Disconnected
  <1> QED
    BY <1>0, <1>1, <1>2, CalmPut

LEMMA ReceivesCalms ==
  ASSUME ChatTyped, client.ws \in 0..Len(socks), NEW s \in DOMAIN socks, Receives(s)
  PROVE  Calms(socks)
  <1>0. socks \in Seq(Sockets) /\ client \in Clients /\ socks[s] \in Sockets /\ socks[s].down \in Seq(Replies)
    BY SocketFields DEF ChatTyped, HookTyped
  <1> DEFINE x == [socks[s] EXCEPT !.down = Tail(@)]
             ss == [socks EXCEPT ![s].down = Tail(@)]
  <1>1. /\ Tail(socks[s].down) \in Seq(Replies)
        /\ \A i \in DOMAIN Tail(socks[s].down) :
             i + 1 \in DOMAIN socks[s].down /\ Tail(socks[s].down)[i] = socks[s].down[i + 1]
    BY <1>0, HeadTailProperties, LenProperties DEF Receives
  <1>2. x \in Sockets /\ Calmer(socks[s], x)
    BY <1>0, <1>1 DEF Sockets, Calmer
  <1>3. ss = [socks EXCEPT ![s] = x]
    BY <1>0
  <1>4. /\ ss \in Seq(Sockets) /\ Len(ss) = Len(socks) /\ DOMAIN ss = DOMAIN socks
        /\ \A r \in DOMAIN socks : Calmer(socks[r], ss[r])
    <2> HIDE DEF x, ss
    <2>1. /\ ss \in Seq(Sockets) /\ Len(ss) = Len(socks) /\ DOMAIN ss = DOMAIN socks
          /\ ss[s] = x /\ \A r \in DOMAIN socks : r # s => ss[r] = socks[r]
      BY <1>0, <1>2, <1>3, PutSocket
    <2> QED
      BY <1>2, <2>1, CalmerIsOrder
  <1>5. (socks' = ss /\ client' = client) \/ Rotate(ss)
    BY DEF Receives, OnStep, OnResponse, OnHumanPrompt, OnError
  <1> HIDE DEF ss, x
  <1>6. Calms(ss)
    BY <1>0, <1>4, <1>5, RotateEffect, CalmerIsOrder DEF Calms
  <1> QED
    BY <1>4, <1>6, CalmerIsOrder DEF Calms

\* The user, the timers and the answers of other requests.
LEMMA TurnsCalm ==
  ASSUME ChatTyped, client.ws \in 0..Len(socks),
         \/ Redial \/ HealthChecked \/ Recovers \/ Stop \/ AckTimeout \/ SoftTimer \/ DeferredRotation
         \/ \E c \in Convs : SelectConversation(c)
  PROVE  Calms(socks)
  <1>0. socks \in Seq(Sockets) /\ client \in Clients
    BY DEF ChatTyped, HookTyped
  <1>1. CASE Redial
    <2> DEFINE cl == [client EXCEPT !.redials = @ - 1]
    <2>1. cl \in Clients /\ cl.ws = client.ws
      BY <1>0, <1>1 DEF Redial, Clients
    <2>2. client' = cl \/ client' = Connect(cl)
      BY <1>1 DEF Redial
    <2> HIDE DEF cl
    <2>3. client' \in Clients /\ client'.ws = client.ws
      BY <2>1, <2>2, ConnectEffect
    <2> QED
      BY <1>1, <2>3, Unmoved DEF Redial
  <1>2. CASE HealthChecked
    BY <1>0, <1>2, Unmoved DEF HealthChecked
  <1>3. CASE Recovers
    BY <1>0, <1>3, ConnectEffect, Unmoved DEF Recovers
  <1>4. CASE Stop \/ \E c \in Convs : SelectConversation(c)
    <2>1. socks' = Shut(socks)
      BY <1>4 DEF Stop, SelectConversation
    <2>2. client' \in Clients /\ client'.ws = 0
      <3>1. 0 \in 0..MaxTries
        BY ChatBounds
      <3>2. CASE Stop
        <4>1. client' = [client EXCEPT !.ws = 0, !.closed = TRUE, !.tries = 0]
          BY <3>2 DEF Stop
        <4> QED
          BY <1>0, <3>1, <4>1 DEF Clients
      <3>3. CASE \E c \in Convs : SelectConversation(c)
        <4>1. client' = [ws |-> 0, closed |-> FALSE, tries |-> 0, active |-> 0,
                         dials |-> 1, rotating |-> FALSE, redials |-> 0]
          BY <3>3 DEF SelectConversation
        <4> QED
          BY <3>1, <4>1 DEF Clients
      <3> QED
        BY <1>4, <3>2, <3>3
    <2> QED
      BY <1>0, <2>1, <2>2, ShutEffect DEF Calms
  <1>5. CASE AckTimeout \/ SoftTimer \/ DeferredRotation
    <2>1. Rotate(socks) \/ (socks' = socks /\ client' = client)
      <3>1. CASE AckTimeout
        BY <3>1 DEF AckTimeout
      <3>2. CASE SoftTimer
        BY <3>2 DEF SoftTimer
      <3>3. CASE DeferredRotation
        BY <3>3 DEF DeferredRotation
      <3> QED
        BY <1>5, <3>1, <3>2, <3>3
    <2> QED
      BY <1>0, <2>1, RotateEffect, Unmoved
  <1> QED
    BY <1>1, <1>2, <1>3, <1>4, <1>5

\* A dial makes a socket and drops one that was dialled before.
Dials ==
  LET w == Len(socks) + 1
  IN  /\ socks' \in Seq(Sockets) /\ Len(socks') = w /\ DOMAIN socks' = DOMAIN socks \cup {w}
      /\ client' \in Clients /\ client'.ws = w
      /\ \A r \in DOMAIN socks : Calmer(socks[r], socks'[r])
      /\ client.ws # 0 => socks'[client.ws].link # "dialled"
      /\ socks'[w] = [link |-> "dialled", up |-> <<>>, down |-> <<>>, expired |-> FALSE,
                      conv |-> conv, heard |-> FALSE, parent |-> 0, own |-> 0]

LEMMA DialEffect ==
  ASSUME ChatTyped, client.ws \in 0..Len(socks), DialResolves
  PROVE  Dials
  <1> DEFINE ss == IF client.ws # 0 /\ socks[client.ws].link = "dialled" THEN Shut(socks) ELSE socks
             x == [link |-> "dialled", up |-> <<>>, down |-> <<>>, expired |-> FALSE,
                   conv |-> conv, heard |-> FALSE, parent |-> 0, own |-> 0]
             w == Len(socks) + 1
  <1>0. socks \in Seq(Sockets) /\ client \in Clients /\ Len(socks) \in Nat
    BY LenProperties DEF ChatTyped, HookTyped
  <1>1. /\ ss \in Seq(Sockets) /\ Len(ss) = Len(socks) /\ DOMAIN ss = DOMAIN socks
        /\ \A r \in DOMAIN socks : Calmer(socks[r], ss[r])
        /\ client.ws # 0 => ss[client.ws].link # "dialled"
    BY <1>0, ShutEffect, CalmerIsOrder
  <1>2. x \in Sockets
    <2>1. <<>> \in Seq(Payloads) /\ <<>> \in Seq(Replies)
      BY EmptySeq
    <2> QED
      BY <2>1 DEF ChatTyped, HookTyped, Sockets
  <1>3. socks' = Append(ss, x)
    BY DEF DialResolves
  <1> HIDE DEF ss, x
  <1>4. /\ socks' \in Seq(Sockets) /\ Len(socks') = w /\ socks'[w] = x
        /\ \A r \in DOMAIN socks : socks'[r] = ss[r]
        /\ DOMAIN socks' = DOMAIN socks \cup {w}
    <2>1. /\ Append(ss, x) \in Seq(Sockets) /\ Len(Append(ss, x)) = Len(ss) + 1
          /\ \A r \in 1..Len(ss) : Append(ss, x)[r] = ss[r]
          /\ Append(ss, x)[Len(ss) + 1] = x
      BY <1>1, <1>2, AppendProperties
    <2>2. DOMAIN socks' = 1..w /\ DOMAIN socks = 1..Len(socks)
      BY <1>0, <1>1, <1>3, <2>1
    <2> QED
      BY <1>0, <1>1, <1>3, <2>1, <2>2
  <1>5. client' \in Clients /\ client'.ws = w
    <2>1. w \in Nat /\ client.dials \in Nat
      BY <1>0, ClientFields
    <2>2. \/ client' = [client EXCEPT !.ws = w, !.rotating = FALSE]
          \/ client.dials > 0 /\ client' = [client EXCEPT !.ws = w, !.dials = client.dials - 1]
      BY <1>4 DEF DialResolves
    <2>3. client.dials > 0 => client.dials - 1 \in Nat
      BY <2>1
    <2> HIDE DEF w
    <2> QED
      BY <1>0, <2>1, <2>2, <2>3 DEF Clients
  <1>6. client.ws # 0 => client.ws \in DOMAIN socks
    BY <1>0
  <1> QED
    BY <1>1, <1>4, <1>5, <1>6 DEF Dials, x

\* A payload as it is sent, and what sending it on socket s does.
Sent(p) == [p EXCEPT !.parent = IF p.kind = "message" THEN frames + 1 ELSE p.parent]

Sends(p, s, ss) ==
  /\ socks' \in Seq(Sockets) /\ Len(socks') = Len(ss) /\ DOMAIN socks' = DOMAIN ss
  /\ client' \in Clients /\ client'.ws = client.ws
  /\ \A r \in DOMAIN ss : r # s => socks'[r] = ss[r]
  /\ \/ ss[s].link = "lost" /\ socks'[s] = ss[s]
     \/ ss[s].link # "lost" /\ socks'[s] = [ss[s] EXCEPT !.up = Append(@, Sent(p))]
  /\ frames' = IF p.kind = "message" THEN frames + 1 ELSE frames
  /\ lastSent' = p /\ unack' = Sent(p) /\ Sent(p) \in Payloads

LEMMA SentPayload ==
  ASSUME frames \in Nat, NEW p \in Payloads
  PROVE  /\ Sent(p) \in Payloads /\ Sent(p).kind = p.kind /\ Sent(p).msg = p.msg /\ Sent(p).retry = p.retry
         /\ p.kind = "message" => Sent(p).parent = frames + 1
  BY DEF Sent, Payloads

LEMMA TransmitEffect ==
  ASSUME frames \in Nat, NEW p \in Payloads, NEW ss \in Seq(Sockets), NEW s \in DOMAIN ss,
         NEW cl \in Clients, cl.ws = client.ws, Transmit(p, s, ss, cl)
  PROVE  Sends(p, s, ss)
  <1> DEFINE x == [ss[s] EXCEPT !.up = Append(@, Sent(p))]
  <1>1. /\ frames' = IF p.kind = "message" THEN frames + 1 ELSE frames
        /\ lastSent' = p /\ unack' = Sent(p) /\ Sent(p) \in Payloads
    BY SentPayload DEF Transmit, Sent
  <1>2. client' \in Clients /\ client'.ws = client.ws
    <2>1. client' = cl \/ client' = [cl EXCEPT !.active = frames + 1]
      BY DEF Transmit
    <2> QED
      BY <2>1 DEF Clients
  <1>3. CASE ss[s].link = "lost"
    BY <1>1, <1>2, <1>3 DEF Transmit, Sends
  <1>4. CASE ss[s].link # "lost"
    <2>1. x \in Sockets
      <3>1. Append(ss[s].up, Sent(p)) \in Seq(Payloads)
        BY <1>1, SocketFields, AppendProperties
      <3>2. ss[s] \in Sockets
        BY SocketFields
      <3> QED
        BY <3>1, <3>2 DEF Sockets
    <2>2. socks' = [ss EXCEPT ![s] = x]
      BY <1>4 DEF Transmit, Sent
    <2> HIDE DEF x
    <2>3. /\ socks' \in Seq(Sockets) /\ Len(socks') = Len(ss) /\ DOMAIN socks' = DOMAIN ss
          /\ socks'[s] = x /\ \A r \in DOMAIN ss : r # s => socks'[r] = ss[r]
      BY <2>1, <2>2, PutSocket
    <2> QED
      BY <1>1, <1>2, <1>4, <2>3 DEF Sends, x
  <1> QED
    BY <1>3, <1>4

\* A reply fr may have been added to what r brings.
Adds(r, t, fr) ==
  /\ t.conv = r.conv /\ t.up = r.up /\ t.expired = r.expired /\ t.own = r.own /\ t.link = r.link
  /\ \A i \in DOMAIN t.down : (\E j \in DOMAIN r.down : t.down[i] = r.down[j]) \/ t.down[i] = fr

LEMMA DeliverEffect ==
  ASSUME NEW ss \in Seq(Sockets), NEW s \in DOMAIN ss, NEW fr \in Replies, NEW tt, tt = Deliver(s, ss, fr)
  PROVE  /\ tt \in Seq(Sockets) /\ Len(tt) = Len(ss) /\ DOMAIN tt = DOMAIN ss
         /\ \A r \in DOMAIN ss : r # s => tt[r] = ss[r]
         /\ Adds(ss[s], tt[s], fr)
         /\ tt[s] = ss[s] \/ ss[s].link = "open"
  <1> DEFINE x == [ss[s] EXCEPT !.down = Append(@, fr)]
  <1>0. ss[s] \in Sockets /\ ss[s].down \in Seq(Replies)
    BY SocketFields
  <1>1. CASE ss[s].link # "open"
    BY <1>1 DEF Deliver, Adds
  <1>2. CASE ss[s].link = "open"
    <2>1. /\ Append(ss[s].down, fr) \in Seq(Replies)
          /\ \A i \in DOMAIN Append(ss[s].down, fr) :
               (\E j \in DOMAIN ss[s].down : Append(ss[s].down, fr)[i] = ss[s].down[j]) \/ Append(ss[s].down, fr)[i] = fr
      <3>1. /\ Append(ss[s].down, fr) \in Seq(Replies) /\ Len(Append(ss[s].down, fr)) = Len(ss[s].down) + 1
            /\ \A i \in 1..Len(ss[s].down) : Append(ss[s].down, fr)[i] = ss[s].down[i]
            /\ Append(ss[s].down, fr)[Len(ss[s].down) + 1] = fr
        BY <1>0, AppendProperties
      <3>2. /\ DOMAIN Append(ss[s].down, fr) = 1..(Len(ss[s].down) + 1)
            /\ DOMAIN ss[s].down = 1..Len(ss[s].down) /\ Len(ss[s].down) \in Nat
        BY <1>0, <3>1, LenProperties
      <3> QED
        BY <3>1, <3>2
    <2>2. x \in Sockets /\ Adds(ss[s], x, fr)
      BY <1>0, <2>1 DEF Sockets, Adds
    <2>3. tt = [ss EXCEPT ![s] = x]
      BY <1>2 DEF Deliver
    <2> HIDE DEF x
    <2> QED
      BY <1>2, <2>2, <2>3, PutSocket
  <1> QED
    BY <1>1, <1>2

\* What a workflow f does: its state changes, and a reply may be on its way on
\* the route of its conversation.
RouteOf(f) == route[socks[flows[f].sock].conv]

Speaks(f) ==
  /\ socks' \in Seq(Sockets) /\ Len(socks') = Len(socks) /\ DOMAIN socks' = DOMAIN socks
  /\ \A r \in DOMAIN socks :
       /\ socks'[r].conv = socks[r].conv /\ socks'[r].up = socks[r].up
       /\ socks'[r].expired = socks[r].expired /\ socks'[r].link = socks[r].link
       /\ socks'[r].own \in {0, f, socks[r].own}
       /\ socks'[r].down # socks[r].down => socks[r].link = "open"
       /\ \A i \in DOMAIN socks'[r].down :
            \/ \E j \in DOMAIN socks[r].down : socks'[r].down[i] = socks[r].down[j]
            \/ /\ r = RouteOf(f) /\ socks'[r].down[i].flow = f
               /\ socks'[r].down[i].kind # "auth_expired"
  /\ flows' \in Seq(Workflows) /\ Len(flows') = Len(flows) /\ DOMAIN flows' = DOMAIN flows
  /\ \A g \in DOMAIN flows :
       flows'[g].sock = flows[g].sock /\ flows'[g].msg = flows[g].msg /\ flows'[g].id = flows[g].id

LEMMA FlowFields ==
  ASSUME flows \in Seq(Workflows), NEW f \in DOMAIN flows
  PROVE  /\ flows[f] \in Workflows /\ f \in 1..Len(flows) /\ f \in Nat /\ Len(flows) \in Nat
         /\ flows[f].sock \in Nat /\ flows[f].msg \in Nat /\ flows[f].id \in Nat
  <1>1. flows[f] \in Workflows /\ f \in 1..Len(flows) /\ Len(flows) \in Nat
    BY ElementOfSeq
  <1> QED
    BY <1>1 DEF Workflows

LEMMA PutFlow ==
  ASSUME flows \in Seq(Workflows), NEW f \in DOMAIN flows,
         \/ \E b \in BOOLEAN : flows' = [flows EXCEPT ![f].quiet = b]
         \/ \E st \in {"running", "waiting", "answered", "ended"} : flows' = [flows EXCEPT ![f].state = st]
  PROVE  /\ flows' \in Seq(Workflows) /\ Len(flows') = Len(flows) /\ DOMAIN flows' = DOMAIN flows
         /\ \A g \in DOMAIN flows :
              flows'[g].sock = flows[g].sock /\ flows'[g].msg = flows[g].msg /\ flows'[g].id = flows[g].id
  <1>1. PICK x \in Workflows : /\ flows' = [flows EXCEPT ![f] = x]
                              /\ x.sock = flows[f].sock /\ x.msg = flows[f].msg /\ x.id = flows[f].id
    <2>0. flows[f] \in Workflows
      BY FlowFields
    <2>1. CASE \E b \in BOOLEAN : flows' = [flows EXCEPT ![f].quiet = b]
      <3>1. PICK b \in BOOLEAN : flows' = [flows EXCEPT ![f].quiet = b]
        BY <2>1
      <3>2. [flows[f] EXCEPT !.quiet = b] \in Workflows
        BY <2>0 DEF Workflows
      <3> QED
        BY <2>0, <3>1, <3>2 DEF Workflows
    <2>2. CASE \E st \in {"running", "waiting", "answered", "ended"} : flows' = [flows EXCEPT ![f].state = st]
      <3>1. PICK st \in {"running", "waiting", "answered", "ended"} : flows' = [flows EXCEPT ![f].state = st]
        BY <2>2
      <3>2. [flows[f] EXCEPT !.state = st] \in Workflows
        BY <2>0 DEF Workflows
      <3> QED
        BY <2>0, <3>1, <3>2 DEF Workflows
    <2> QED
      BY <2>1, <2>2
  <1>2. /\ flows' \in Seq(Workflows) /\ Len(flows') = Len(flows) /\ DOMAIN flows' = DOMAIN flows
        /\ flows'[f] = x /\ \A g \in DOMAIN flows : g # f => flows'[g] = flows[g]
    BY <1>1, ExceptSeq
  <1> QED
    BY <1>1, <1>2

\* A workflow tells, after its handler has changed what it owns.
LEMMA TellsEffect ==
  ASSUME ChatTyped, Refers, NEW f \in DOMAIN flows, NEW kind \in {"step", "final", "error", "prompt"},
         NEW ss \in Seq(Sockets), Len(ss) = Len(socks), DOMAIN ss = DOMAIN socks,
         NEW o \in {0, f}, ss = socks \/ ss = [socks EXCEPT ![flows[f].sock].own = o],
         Tells(f, kind, ss)
  PROVE  /\ socks' \in Seq(Sockets) /\ Len(socks') = Len(socks) /\ DOMAIN socks' = DOMAIN socks
         /\ \A r \in DOMAIN socks :
              /\ socks'[r].conv = socks[r].conv /\ socks'[r].up = socks[r].up
              /\ socks'[r].expired = socks[r].expired /\ socks'[r].link = socks[r].link
              /\ socks'[r].own \in {0, f, socks[r].own}
              /\ socks'[r].down # socks[r].down => socks[r].link = "open"
              /\ \A i \in DOMAIN socks'[r].down :
                   \/ \E j \in DOMAIN socks[r].down : socks'[r].down[i] = socks[r].down[j]
                   \/ /\ r = RouteOf(f) /\ socks'[r].down[i].flow = f
                      /\ socks'[r].down[i].kind # "auth_expired"
  <1>0. socks \in Seq(Sockets) /\ flows[f].sock \in DOMAIN socks
    BY DEF ChatTyped, HookTyped, Refers
  <1>1. \A r \in DOMAIN socks :
          /\ ss[r].conv = socks[r].conv /\ ss[r].up = socks[r].up /\ ss[r].expired = socks[r].expired
          /\ ss[r].link = socks[r].link /\ ss[r].down = socks[r].down /\ ss[r].own \in {0, f, socks[r].own}
    <2>1. CASE ss = socks
      BY <2>1
    <2>2. CASE ss = [socks EXCEPT ![flows[f].sock].own = o]
      <3> DEFINE x == [socks[flows[f].sock] EXCEPT !.own = o]
      <3>1. socks[flows[f].sock] \in Sockets
        BY <1>0, SocketFields
      <3>2. \A r \in DOMAIN socks : r # flows[f].sock => ss[r] = socks[r]
        BY <1>0, <2>2
      <3>3. ss[flows[f].sock] = x
        BY <1>0, <2>2
      <3>4. /\ x.conv = socks[flows[f].sock].conv /\ x.up = socks[flows[f].sock].up
            /\ x.expired = socks[flows[f].sock].expired /\ x.link = socks[flows[f].sock].link
            /\ x.down = socks[flows[f].sock].down /\ x.own = o
        BY <3>1 DEF Sockets
      <3> QED
        BY <3>2, <3>3, <3>4
    <2> QED
      BY <2>1, <2>2
  <1> DEFINE fr == Frame(kind, f, ss[flows[f].sock].parent)
             w == RouteOf(f)
  <1>2. fr \in Replies /\ fr.flow = f /\ fr.kind # "auth_expired"
    <2>1. f \in Nat /\ ss[flows[f].sock].parent \in Nat
      BY <1>0, SocketFields, FlowFields DEF ChatTyped, HookTyped
    <2> QED
      BY <2>1 DEF Frame, Replies
  <1>3. w \in 0..Len(socks)
    BY <1>0, SocketFields DEF RouteOf, Refers
  <1>4. CASE w = 0
    BY <1>0, <1>1, <1>4 DEF Tells, RouteOf
  <1>5. CASE w # 0
    <2>1. w \in DOMAIN ss
      BY <1>0, <1>3, <1>5, LenProperties
    <2>2. socks' = Deliver(w, ss, fr)
      BY <1>0, <1>5 DEF Tells, RouteOf
    <2> HIDE DEF fr, w
    <2>3. /\ socks' \in Seq(Sockets) /\ Len(socks') = Len(ss) /\ DOMAIN socks' = DOMAIN ss
          /\ \A r \in DOMAIN ss : r # w => socks'[r] = ss[r]
          /\ Adds(ss[w], socks'[w], fr) /\ (socks'[w] = ss[w] \/ ss[w].link = "open")
      BY <1>2, <2>1, <2>2, DeliverEffect
    <2> QED
      BY <1>1, <1>2, <2>1, <2>3 DEF Adds, w
  <1> QED
    BY <1>4, <1>5

LEMMA OwnSocket ==
  ASSUME ChatTyped, NEW s \in DOMAIN socks, NEW o \in Nat, NEW tt, tt = [socks EXCEPT ![s].own = o]
  PROVE  /\ tt \in Seq(Sockets) /\ Len(tt) = Len(socks) /\ DOMAIN tt = DOMAIN socks
         /\ tt[s] = [socks[s] EXCEPT !.own = o] /\ \A r \in DOMAIN socks : r # s => tt[r] = socks[r]
  <1> DEFINE x == [socks[s] EXCEPT !.own = o]
  <1>0. socks \in Seq(Sockets) /\ socks[s] \in Sockets
    BY SocketFields DEF ChatTyped, HookTyped
  <1>1. x \in Sockets
    BY <1>0 DEF Sockets
  <1>2. tt = [socks EXCEPT ![s] = x]
    BY <1>0
  <1> HIDE DEF x
  <1>3. /\ tt \in Seq(Sockets) /\ Len(tt) = Len(socks) /\ DOMAIN tt = DOMAIN socks
        /\ tt[s] = x /\ \A r \in DOMAIN socks : r # s => tt[r] = socks[r]
    BY <1>0, <1>1, <1>2, PutSocket
  <1> QED
    BY <1>3 DEF x

LEMMA WorkflowSpeaks ==
  ASSUME ChatTyped, Refers, NEW f \in DOMAIN flows,
         Step(f) \/ Asks(f) \/ Resumes(f) \/ Ends(f, "final") \/ Ends(f, "error") \/ Ends(f, "raised")
  PROVE  Speaks(f)
  <1>0. socks \in Seq(Sockets) /\ flows \in Seq(Workflows) /\ flows[f].sock \in DOMAIN socks /\ f \in Nat
    BY FlowFields DEF ChatTyped, HookTyped, Refers
  <1>1. CASE Step(f)
    <2>1. flows' = [flows EXCEPT ![f].quiet = TRUE] /\ Tells(f, "step", socks)
      BY <1>1 DEF Step
    <2> QED
      BY <1>0, <2>1, TellsEffect, PutFlow DEF Speaks
  <1>2. CASE Asks(f)
    <2> DEFINE ss == [socks EXCEPT ![flows[f].sock].own = f]
    <2>1. flows' = [flows EXCEPT ![f].state = "waiting"] /\ Tells(f, "prompt", ss)
      BY <1>2 DEF Asks
    <2>2. ss \in Seq(Sockets) /\ Len(ss) = Len(socks) /\ DOMAIN ss = DOMAIN socks
      BY <1>0, OwnSocket
    <2>3. ss = [socks EXCEPT ![flows[f].sock].own = f]
      OBVIOUS
    <2> HIDE DEF ss
    <2> QED
      BY <1>0, <2>1, <2>2, <2>3, TellsEffect, PutFlow DEF Speaks
  <1>3. CASE Resumes(f)
    <2>1. /\ flows' = [flows EXCEPT ![f].state = "running"]
          /\ socks' = [socks EXCEPT ![flows[f].sock].own = 0]
      BY <1>3 DEF Resumes
    <2>2. /\ socks' \in Seq(Sockets) /\ Len(socks') = Len(socks) /\ DOMAIN socks' = DOMAIN socks
          /\ socks'[flows[f].sock] = [socks[flows[f].sock] EXCEPT !.own = 0]
          /\ \A r \in DOMAIN socks : r # flows[f].sock => socks'[r] = socks[r]
      BY <1>0, <2>1, OwnSocket, ZenonT(40)
    <2>3. \A r \in DOMAIN socks :
            /\ socks'[r].conv = socks[r].conv /\ socks'[r].up = socks[r].up
            /\ socks'[r].expired = socks[r].expired /\ socks'[r].link = socks[r].link
            /\ socks'[r].own \in {0, f, socks[r].own} /\ socks'[r].down = socks[r].down
      <3>1. socks[flows[f].sock] \in Sockets
        BY <1>0, SocketFields
      <3> QED
        BY <2>2, <3>1, ZenonT(40) DEF Sockets
    <2> QED
      BY <1>0, <2>1, <2>2, <2>3, PutFlow DEF Speaks
  <1>4. CASE Ends(f, "final")
    <2>1. flows' = [flows EXCEPT ![f].state = "ended"] /\ Tells(f, "final", socks)
      BY <1>4 DEF Ends
    <2> QED
      BY <1>0, <2>1, TellsEffect, PutFlow DEF Speaks
  <1>6. CASE Ends(f, "error")
    <2>1. flows' = [flows EXCEPT ![f].state = "ended"] /\ Tells(f, "error", socks)
      BY <1>6 DEF Ends
    <2> QED
      BY <1>0, <2>1, TellsEffect, PutFlow DEF Speaks
  <1>5. CASE Ends(f, "raised")
    <2>1. flows' = [flows EXCEPT ![f].state = "ended"] /\ socks' = socks
      BY <1>5 DEF Ends
    <2> QED
      BY <1>0, <2>1, PutFlow DEF Speaks
  <1> QED
    BY <1>1, <1>2, <1>3, <1>4, <1>5, <1>6

\* The link of s is lost or shut, with the end of what was sent on it.
Loses(s) ==
  /\ socks' \in Seq(Sockets) /\ Len(socks') = Len(socks) /\ DOMAIN socks' = DOMAIN socks
  /\ \A r \in DOMAIN socks : r # s => socks'[r] = socks[r]
  /\ socks'[s].conv = socks[s].conv /\ socks'[s].own = socks[s].own /\ socks'[s].expired = socks[s].expired
  /\ socks'[s].link \in {"lost", "shut"} /\ socks'[s].down = <<>>
  /\ \E n \in 0..Len(socks[s].up) : socks'[s].up = SubSeq(socks[s].up, 1, n)

LEMMA LoseEffect ==
  ASSUME ChatTyped, NEW s \in DOMAIN socks, Lose(s)
  PROVE  Loses(s)
  <1>0. socks \in Seq(Sockets) /\ socks[s] \in Sockets /\ socks[s].up \in Seq(Payloads) /\ Len(socks[s].up) \in Nat
    BY SocketFields, LenProperties DEF ChatTyped, HookTyped
  <1>1. PICK n \in 0..Len(socks[s].up) :
          socks' = [socks EXCEPT ![s].link = "lost", ![s].up = SubSeq(@, 1, n), ![s].down = <<>>]
    BY DEF Lose
  <1> DEFINE x == [socks[s] EXCEPT !.link = "lost", !.up = SubSeq(@, 1, n), !.down = <<>>]
  <1>2. x \in Sockets
    <2>1. SubSeq(socks[s].up, 1, n) \in Seq(Payloads)
      BY <1>0, SubSeqProperties
    <2> QED
      BY <1>0, <2>1, CutSocket
  <1>3. socks' = [socks EXCEPT ![s] = x]
    BY <1>0, <1>1
  <1>4. /\ x.conv = socks[s].conv /\ x.own = socks[s].own /\ x.expired = socks[s].expired
        /\ x.link = "lost" /\ x.down = <<>> /\ x.up = SubSeq(socks[s].up, 1, n)
    BY <1>0 DEF Sockets
  <1> HIDE DEF x
  <1>5. /\ socks' \in Seq(Sockets) /\ Len(socks') = Len(socks) /\ DOMAIN socks' = DOMAIN socks
        /\ socks'[s] = x /\ \A r \in DOMAIN socks : r # s => socks'[r] = socks[r]
    BY <1>0, <1>2, <1>3, PutSocket
  <1> QED
    BY <1>4, <1>5 DEF Loses

\* The handler of s raises out of run.
LEMMA ReadsAgainEffect ==
  ASSUME ChatTyped, Links, NEW s \in DOMAIN socks, ReadsAgain(s)
  PROVE  Loses(s)
  <1>0. /\ socks \in Seq(Sockets) /\ socks[s] \in Sockets /\ socks[s].up \in Seq(Payloads) /\ Len(socks[s].up) \in Nat
        /\ socks[s].up # <<>> /\ socks[s].link \in {"open", "lost", "shut"}
    BY SocketFields, LenProperties DEF ChatTyped, ReadsAgain, SecondAnswer, Links
  <1> DEFINE l == IF socks[s].link = "open" THEN "lost" ELSE socks[s].link
             x == [socks[s] EXCEPT !.link = l, !.up = <<>>, !.down = <<>>, !.heard = FALSE]
  <1>1. l \in {"lost", "shut"}
    BY <1>0
  <1>2. socks' = [socks EXCEPT ![s] = x]
    BY <1>0 DEF ReadsAgain
  <1> HIDE DEF l
  <1>3. x \in Sockets
    BY <1>0, <1>1, EmptySeq DEF Sockets
  <1>4. /\ x.conv = socks[s].conv /\ x.own = socks[s].own /\ x.expired = socks[s].expired
        /\ x.link = l /\ x.down = <<>> /\ x.up = <<>>
    BY <1>0 DEF Sockets
  <1> HIDE DEF x
  <1>5. /\ socks' \in Seq(Sockets) /\ Len(socks') = Len(socks) /\ DOMAIN socks' = DOMAIN socks
        /\ socks'[s] = x /\ \A r \in DOMAIN socks : r # s => socks'[r] = socks[r]
    BY <1>0, <1>2, <1>3, PutSocket
  <1>6. SubSeq(socks[s].up, 1, 0) = <<>> /\ 0 \in 0..Len(socks[s].up)
    BY <1>0, SubSeqProperties, EmptySeq
  <1> QED
    BY <1>1, <1>4, <1>5, <1>6 DEF Loses

\* The token of s expires.
LEMMA ExpireEffect ==
  ASSUME ChatTyped, NEW s \in DOMAIN socks, Expire(s)
  PROVE  /\ socks' \in Seq(Sockets) /\ Len(socks') = Len(socks) /\ DOMAIN socks' = DOMAIN socks
         /\ \A r \in DOMAIN socks : r # s => socks'[r] = socks[r]
         /\ socks'[s] = [socks[s] EXCEPT !.expired = TRUE]
  <1> DEFINE x == [socks[s] EXCEPT !.expired = TRUE]
  <1>0. socks \in Seq(Sockets) /\ socks[s] \in Sockets
    BY SocketFields DEF ChatTyped, HookTyped
  <1>1. x \in Sockets /\ socks' = [socks EXCEPT ![s] = x]
    BY <1>0 DEF Sockets, Expire
  <1> HIDE DEF x
  <1>2. /\ socks' \in Seq(Sockets) /\ Len(socks') = Len(socks) /\ DOMAIN socks' = DOMAIN socks
        /\ socks'[s] = x /\ \A r \in DOMAIN socks : r # s => socks'[r] = socks[r]
    BY <1>0, <1>1, PutSocket
  <1> QED
    BY <1>2 DEF x

\* The handler of s reads its next frame; a message becomes a workflow unless
\* the token has expired.
ReadsNext(s) ==
  LET m == socks[s].up[1]
  IN  /\ socks[s].up # <<>> /\ m \in Payloads
      /\ socks' \in Seq(Sockets) /\ Len(socks') = Len(socks) /\ DOMAIN socks' = DOMAIN socks
      /\ \A r \in DOMAIN socks : r # s => socks'[r] = socks[r]
      /\ socks'[s].conv = socks[s].conv /\ socks'[s].expired = socks[s].expired
      /\ socks'[s].link = socks[s].link /\ socks'[s].own = socks[s].own
      /\ socks'[s].up = Tail(socks[s].up)
      /\ socks'[s].down # socks[s].down => socks[s].link = "open"
      /\ \A i \in DOMAIN socks'[s].down :
           \/ \E j \in DOMAIN socks[s].down : socks'[s].down[i] = socks[s].down[j]
           \/ socks[s].expired /\ socks'[s].down[i].kind = "auth_expired"
      /\ \/ /\ socks[s].expired \/ m.kind # "message"
            /\ flows' \in Seq(Workflows) /\ Len(flows') = Len(flows) /\ DOMAIN flows' = DOMAIN flows
            /\ \A g \in DOMAIN flows :
                 flows'[g].sock = flows[g].sock /\ flows'[g].msg = flows[g].msg /\ flows'[g].id = flows[g].id
         \/ /\ ~socks[s].expired /\ m.kind = "message"
            /\ \E w \in Workflows : /\ flows' = Append(flows, w)
                                    /\ w.sock = s /\ w.msg = m.msg /\ w.id = m.parent

LEMMA ReadsEffect ==
  ASSUME ChatTyped, Refers, NEW s \in DOMAIN socks, Reads(s)
  PROVE  ReadsNext(s)
  <1> DEFINE m == Head(socks[s].up)
             u == Tail(socks[s].up)
             x == [socks[s] EXCEPT !.up = u]
             ss == [socks EXCEPT ![s].up = Tail(@)]
  <1>0. /\ socks \in Seq(Sockets) /\ socks[s] \in Sockets /\ socks[s].up \in Seq(Payloads)
        /\ flows \in Seq(Workflows) /\ s \in Nat /\ socks[s].up # <<>> /\ socks[s].conv \in Convs
    BY SocketFields DEF ChatTyped, HookTyped, Reads
  <1>1. m \in Payloads /\ m = socks[s].up[1] /\ u \in Seq(Payloads)
    BY <1>0, HeadTailProperties
  <1>2. x \in Sockets
    BY <1>0, <1>1 DEF Sockets
  <1>3. ss = [socks EXCEPT ![s] = x]
    BY <1>0
  <1>4. /\ x.up = u /\ x.conv = socks[s].conv /\ x.expired = socks[s].expired /\ x.link = socks[s].link
        /\ x.own = socks[s].own /\ x.down = socks[s].down
    BY <1>0 DEF Sockets
  <1> HIDE DEF x
  <1>5. /\ ss \in Seq(Sockets) /\ Len(ss) = Len(socks) /\ DOMAIN ss = DOMAIN socks
        /\ ss[s] = x /\ \A r \in DOMAIN socks : r # s => ss[r] = socks[r]
    <2> HIDE DEF ss
    <2> QED
      BY <1>0, <1>2, <1>3, PutSocket
  <1>6. CASE socks[s].expired
    <2> DEFINE fr == Frame("auth_expired", 0, 0)
    <2>1. socks' = Deliver(s, ss, fr) /\ flows' = flows
      BY <1>6 DEF Reads
    <2>2. fr \in Replies /\ fr.kind = "auth_expired"
      BY DEF Frame, Replies
    <2> HIDE DEF fr, ss, m, u
    <2>3. /\ socks' \in Seq(Sockets) /\ Len(socks') = Len(ss) /\ DOMAIN socks' = DOMAIN ss
          /\ \A r \in DOMAIN ss : r # s => socks'[r] = ss[r]
          /\ Adds(ss[s], socks'[s], fr) /\ (socks'[s] = ss[s] \/ ss[s].link = "open")
      BY <1>5, <2>1, <2>2, DeliverEffect
    <2>4. /\ socks'[s].conv = socks[s].conv /\ socks'[s].expired = socks[s].expired
          /\ socks'[s].link = socks[s].link /\ socks'[s].own = socks[s].own
          /\ socks'[s].up = u
          /\ (socks'[s].down # socks[s].down => socks[s].link = "open")
          /\ \A i \in DOMAIN socks'[s].down :
              \/ \E j \in DOMAIN socks[s].down : socks'[s].down[i] = socks[s].down[j]
              \/ socks[s].expired /\ socks'[s].down[i].kind = "auth_expired"
      BY <1>4, <1>5, <1>6, <2>2, <2>3, ZenonT(40) DEF Adds
    <2> QED
      BY <1>0, <1>1, <1>5, <1>6, <2>1, <2>3, <2>4 DEF ReadsNext, u
  <1>7. CASE ~socks[s].expired /\ m.kind = "message"
    <2> DEFINE y == [x EXCEPT !.heard = TRUE, !.parent = m.parent]
               w == [sock |-> s, msg |-> m.msg, id |-> m.parent, state |-> "running", quiet |-> FALSE]
    <2>1. m.parent \in Nat /\ m.msg \in Nat
      BY <1>1 DEF Payloads
    <2>2. y \in Sockets /\ w \in Workflows
      BY <1>0, <1>2, <2>1 DEF Sockets, Workflows
    <2>3. socks' = [ss EXCEPT ![s] = y] /\ flows' = Append(flows, w)
      BY <1>0, <1>5, <1>7 DEF Reads
    <2>4. /\ y.up = x.up /\ y.conv = x.conv /\ y.expired = x.expired /\ y.link = x.link
          /\ y.own = x.own /\ y.down = x.down
      BY <1>2 DEF Sockets
    <2>5. w.sock = s /\ w.msg = m.msg /\ w.id = m.parent
      OBVIOUS
    <2> HIDE DEF y, ss, m, u, w
    <2>6. /\ socks' \in Seq(Sockets) /\ Len(socks') = Len(ss) /\ DOMAIN socks' = DOMAIN ss
          /\ socks'[s] = y /\ \A r \in DOMAIN ss : r # s => socks'[r] = ss[r]
      BY <1>5, <2>2, <2>3, PutSocket
    <2>7. ~socks[s].expired /\ m.kind = "message" /\ \E v \in Workflows :
            flows' = Append(flows, v) /\ v.sock = s /\ v.msg = m.msg /\ v.id = m.parent
      BY <1>7, <2>2, <2>3, <2>5
    <2> QED
      BY <1>0, <1>1, <1>4, <1>5, <2>4, <2>6, <2>7 DEF ReadsNext, u
  <1>8. CASE ~socks[s].expired /\ m.kind = "answer"
    <2>1. socks' = ss
      BY <1>8 DEF Reads
    <2>2. /\ flows' \in Seq(Workflows) /\ Len(flows') = Len(flows) /\ DOMAIN flows' = DOMAIN flows
          /\ \A g \in DOMAIN flows :
               flows'[g].sock = flows[g].sock /\ flows'[g].msg = flows[g].msg /\ flows'[g].id = flows[g].id
      <3>1. CASE flows' = flows
        BY <1>0, <3>1
      <3>2. CASE \E f \in DOMAIN flows : flows' = [flows EXCEPT ![f].state = "answered"]
        BY <1>0, <3>2, PutFlow
      <3>3. \/ flows' = flows
            \/ LET f == IF socks[s].own # 0 THEN socks[s].own ELSE pend[socks[s].conv]
               IN  f # 0 /\ flows' = [flows EXCEPT ![f].state = "answered"]
        BY <1>8 DEF Reads
      <3>4. socks[s].own \in 0..Len(flows) /\ pend[socks[s].conv] \in 0..Len(flows) /\ DOMAIN flows = 1..Len(flows)
        BY <1>0, LenProperties DEF Refers
      <3> QED
        BY <3>1, <3>2, <3>3, <3>4
    <2> HIDE DEF ss, m, u
    <2> QED
      BY <1>0, <1>1, <1>4, <1>5, <1>8, <2>1, <2>2 DEF ReadsNext, u
  <1> QED
    BY <1>0, <1>6, <1>7, <1>8 DEF Reads

-----------------------------------------------------------------------------
(* Every step keeps the types.                                             *)

LEMMA NothingTyped ==
  /\ Nothing \in Payloads /\ Nothing.kind = "none" /\ Nothing.retry = 0
  /\ \A p \in Payloads : /\ [p EXCEPT !.retry = 1] \in Payloads
                         /\ [p EXCEPT !.retry = 1].kind = p.kind /\ [p EXCEPT !.retry = 1].msg = p.msg
                         /\ [p EXCEPT !.retry = 1].retry = 1
  BY DEF Nothing, Payloads

LEMMA PayloadFields ==
  ASSUME NEW p \in Payloads, NEW n \in Nat, NEW k \in Nat
  PROVE  /\ [p EXCEPT !.kind = "message", !.msg = n] \in Payloads
         /\ [p EXCEPT !.kind = "message", !.msg = n].kind = "message"
         /\ [p EXCEPT !.kind = "message", !.msg = n].msg = n
         /\ [p EXCEPT !.kind = "message", !.msg = n].retry = p.retry
         /\ [p EXCEPT !.kind = "answer", !.to = n, !.parent = k] \in Payloads
         /\ [p EXCEPT !.kind = "answer", !.to = n, !.parent = k].kind = "answer"
  BY DEF Payloads

\* The message that is written, and the answer to the prompt.
NewMessage == [Nothing EXCEPT !.kind = "message", !.msg = Len(wrote) + 1]
NewAnswer == [Nothing EXCEPT !.kind = "answer", !.to = prompt, !.parent = flows[prompt].id]

LEMMA NewTyped ==
  ASSUME ChatTyped, Refers
  PROVE  /\ NewMessage \in Payloads /\ NewMessage.kind = "message" /\ NewMessage.msg = Len(wrote) + 1
         /\ NewMessage.retry = 0
         /\ prompt # 0 => NewAnswer \in Payloads /\ NewAnswer.kind = "answer"
  <1>1. Len(wrote) \in Nat
    BY DEF ChatTyped, HookTyped
  <1>2. prompt # 0 => prompt \in Nat /\ flows[prompt].id \in Nat
    <2>1. prompt # 0 => prompt \in DOMAIN flows
      BY LenProperties DEF ChatTyped, HookTyped, Refers
    <2> QED
      BY <2>1, FlowFields DEF ChatTyped, HookTyped
  <1>3. Nothing \in Payloads /\ Nothing.retry = 0 /\ Len(wrote) + 1 \in Nat
    BY <1>1, NothingTyped
  <1>4. /\ NewMessage \in Payloads /\ NewMessage.kind = "message" /\ NewMessage.msg = Len(wrote) + 1
        /\ NewMessage.retry = 0
    BY <1>3, PayloadFields, ZenonT(40) DEF NewMessage
  <1>5. prompt # 0 => NewAnswer \in Payloads /\ NewAnswer.kind = "answer"
    <2> DEFINE id == flows[prompt].id
    <2>1. NewAnswer = [Nothing EXCEPT !.kind = "answer", !.to = prompt, !.parent = id]
      BY DEF NewAnswer
    <2>2. prompt # 0 => prompt \in Nat /\ id \in Nat
      BY <1>2
    <2> HIDE DEF id
    <2>3. \A n, k \in Nat : LET a == [Nothing EXCEPT !.kind = "answer", !.to = n, !.parent = k]
                            IN  a \in Payloads /\ a.kind = "answer"
      BY <1>3, PayloadFields
    <2>4. CASE prompt # 0
      BY <2>1, <2>2, <2>3, <2>4
    <2> QED
      BY <2>4
  <1> QED
    BY <1>4, <1>5

LEMMA EventTyped ==
  ASSUME events \in 0..MaxEvents, Event \/ events' = events PROVE events' \in 0..MaxEvents
  BY ChatBounds DEF Event

\* Timers, dials and answers of other requests.
LEMMA TimerTypes ==
  ASSUME ChatTyped, Refers, AckTimeout \/ SoftTimer \/ DeferredRotation \/ DialResolves \/ Redial \/ HealthChecked \/ Recovers
  PROVE  HookTyped' /\ FlagsTyped'
  <1>1. CASE AckTimeout
    <2>1. pending' \in Payloads /\ lastSent' \in Payloads /\ unack' \in Payloads
      BY <1>1, NothingTyped DEF AckTimeout, GiveUp, DropPayloads, ChatTyped, HookTyped
    <2>2. conv' \in Convs /\ card' \subseteq Convs /\ prompt' \in Nat /\ asked' \in [Convs -> Seq(Nat)]
      BY <1>1 DEF AckTimeout, GiveUp, DropPayloads, ChatTyped, HookTyped
    <2>3. FlagsTyped'
      BY <1>1 DEF AckTimeout, GiveUp, DropPayloads, ChatTyped, FlagsTyped, hookVars, serverVars
    <2>4. events' \in 0..MaxEvents /\ auth' \in 0..MaxAuth
      BY <1>1, EventTyped, ChatBounds DEF AckTimeout, GiveUp, DropPayloads, ChatTyped, HookTyped
    <2>5. wrote' \in Seq(Convs) /\ frames' \in Nat
      BY <1>1 DEF AckTimeout, GiveUp, DropPayloads, ChatTyped, HookTyped
    <2> QED
      BY <1>1, <2>1, <2>2, <2>3, <2>4, <2>5 DEF AckTimeout, GiveUp, DropPayloads, ChatTyped, HookTyped, serverVars
  <1>2. CASE SoftTimer
    <2>1. pending' \in Payloads /\ lastSent' \in Payloads /\ unack' \in Payloads
      BY <1>2, NothingTyped DEF SoftTimer, ChatTyped, HookTyped
    <2>2. conv' \in Convs /\ card' \subseteq Convs /\ prompt' \in Nat /\ asked' \in [Convs -> Seq(Nat)]
      BY <1>2 DEF SoftTimer, ChatTyped, HookTyped
    <2>3. FlagsTyped'
      BY <1>2 DEF SoftTimer, ChatTyped, FlagsTyped, hookVars, serverVars
    <2>4. events' \in 0..MaxEvents /\ auth' \in 0..MaxAuth
      BY <1>2, EventTyped, ChatBounds DEF SoftTimer, ChatTyped, HookTyped
    <2>5. wrote' \in Seq(Convs) /\ frames' \in Nat
      BY <1>2 DEF SoftTimer, ChatTyped, HookTyped
    <2> QED
      BY <1>2, <2>1, <2>2, <2>3, <2>4, <2>5 DEF SoftTimer, ChatTyped, HookTyped, serverVars
  <1>3. CASE DeferredRotation
    <2>1. pending' \in Payloads /\ lastSent' \in Payloads /\ unack' \in Payloads
      BY <1>3, NothingTyped DEF DeferredRotation, ChatTyped, HookTyped
    <2>2. conv' \in Convs /\ card' \subseteq Convs /\ prompt' \in Nat /\ asked' \in [Convs -> Seq(Nat)]
      BY <1>3 DEF DeferredRotation, ChatTyped, HookTyped
    <2>3. FlagsTyped'
      BY <1>3 DEF DeferredRotation, ChatTyped, FlagsTyped, hookVars, serverVars
    <2>4. events' \in 0..MaxEvents /\ auth' \in 0..MaxAuth
      BY <1>3, EventTyped, ChatBounds DEF DeferredRotation, ChatTyped, HookTyped
    <2>5. wrote' \in Seq(Convs) /\ frames' \in Nat
      BY <1>3 DEF DeferredRotation, ChatTyped, HookTyped
    <2> QED
      BY <1>3, <2>1, <2>2, <2>3, <2>4, <2>5 DEF DeferredRotation, ChatTyped, HookTyped, serverVars
  <1>4. CASE DialResolves
    <2>1. pending' \in Payloads /\ lastSent' \in Payloads /\ unack' \in Payloads
      BY <1>4, NothingTyped DEF DialResolves, hookVars, ChatTyped, HookTyped
    <2>2. conv' \in Convs /\ card' \subseteq Convs /\ prompt' \in Nat /\ asked' \in [Convs -> Seq(Nat)]
      BY <1>4 DEF DialResolves, hookVars, ChatTyped, HookTyped
    <2>3. FlagsTyped'
      BY <1>4 DEF DialResolves, hookVars, ChatTyped, FlagsTyped, hookVars, serverVars
    <2>4. events' \in 0..MaxEvents /\ auth' \in 0..MaxAuth
      BY <1>4, EventTyped, ChatBounds DEF DialResolves, hookVars, ChatTyped, HookTyped
    <2>5. wrote' \in Seq(Convs) /\ frames' \in Nat
      BY <1>4 DEF DialResolves, hookVars, ChatTyped, HookTyped
    <2> QED
      BY <1>4, <2>1, <2>2, <2>3, <2>4, <2>5 DEF DialResolves, hookVars, ChatTyped, HookTyped, serverVars
  <1>5. CASE Redial
    <2>1. pending' \in Payloads /\ lastSent' \in Payloads /\ unack' \in Payloads
      BY <1>5, NothingTyped DEF Redial, hookVars, serverVars, ChatTyped, HookTyped
    <2>2. conv' \in Convs /\ card' \subseteq Convs /\ prompt' \in Nat /\ asked' \in [Convs -> Seq(Nat)]
      BY <1>5 DEF Redial, hookVars, serverVars, ChatTyped, HookTyped
    <2>3. FlagsTyped'
      BY <1>5 DEF Redial, hookVars, serverVars, ChatTyped, FlagsTyped, hookVars, serverVars
    <2>4. events' \in 0..MaxEvents /\ auth' \in 0..MaxAuth
      BY <1>5, EventTyped, ChatBounds DEF Redial, hookVars, serverVars, ChatTyped, HookTyped
    <2>5. wrote' \in Seq(Convs) /\ frames' \in Nat
      BY <1>5 DEF Redial, hookVars, serverVars, ChatTyped, HookTyped
    <2> QED
      BY <1>5, <2>1, <2>2, <2>3, <2>4, <2>5 DEF Redial, hookVars, serverVars, ChatTyped, HookTyped, serverVars
  <1>6. CASE HealthChecked
    <2>1. pending' \in Payloads /\ lastSent' \in Payloads /\ unack' \in Payloads
      BY <1>6, NothingTyped DEF HealthChecked, GiveUp, DropPayloads, ChatTyped, HookTyped
    <2>2. conv' \in Convs /\ card' \subseteq Convs /\ prompt' \in Nat /\ asked' \in [Convs -> Seq(Nat)]
      BY <1>6 DEF HealthChecked, GiveUp, DropPayloads, ChatTyped, HookTyped
    <2>3. FlagsTyped'
      BY <1>6 DEF HealthChecked, GiveUp, DropPayloads, ChatTyped, FlagsTyped, hookVars, serverVars
    <2>4. events' \in 0..MaxEvents /\ auth' \in 0..MaxAuth
      BY <1>6, EventTyped, ChatBounds DEF HealthChecked, GiveUp, DropPayloads, ChatTyped, HookTyped
    <2>5. wrote' \in Seq(Convs) /\ frames' \in Nat
      BY <1>6 DEF HealthChecked, GiveUp, DropPayloads, ChatTyped, HookTyped
    <2> QED
      BY <1>6, <2>1, <2>2, <2>3, <2>4, <2>5 DEF HealthChecked, GiveUp, DropPayloads, ChatTyped, HookTyped, serverVars
  <1>7. CASE Recovers
    <2>1. pending' \in Payloads /\ lastSent' \in Payloads /\ unack' \in Payloads
      BY <1>7, NothingTyped DEF Recovers, ChatTyped, HookTyped
    <2>2. conv' \in Convs /\ card' \subseteq Convs /\ prompt' \in Nat /\ asked' \in [Convs -> Seq(Nat)]
      BY <1>7 DEF Recovers, ChatTyped, HookTyped
    <2>3. FlagsTyped'
      BY <1>7 DEF Recovers, ChatTyped, FlagsTyped, hookVars, serverVars
    <2>4. events' \in 0..MaxEvents /\ auth' \in 0..MaxAuth
      BY <1>7, EventTyped, ChatBounds DEF Recovers, ChatTyped, HookTyped
    <2>5. wrote' \in Seq(Convs) /\ frames' \in Nat
      BY <1>7 DEF Recovers, ChatTyped, HookTyped
    <2> QED
      BY <1>7, <2>1, <2>2, <2>3, <2>4, <2>5 DEF Recovers, ChatTyped, HookTyped, serverVars
  <1> QED
    BY <1>1, <1>2, <1>3, <1>4, <1>5, <1>6, <1>7

\* What onclose does.
LEMMA LossTypes ==
  ASSUME ChatTyped, Refers, NEW s \in DOMAIN socks, Closes(s) \/ Refused(s)
  PROVE  HookTyped' /\ FlagsTyped'
  <1>1. CASE Closes(s)
    <2>1. pending' \in Payloads /\ lastSent' \in Payloads /\ unack' \in Payloads
      BY <1>1, NothingTyped DEF Closes, CloseSeen, LosesConnection, DropPayloads, ChatTyped, HookTyped
    <2>2. conv' \in Convs /\ card' \subseteq Convs /\ prompt' \in Nat /\ asked' \in [Convs -> Seq(Nat)]
      BY <1>1 DEF Closes, CloseSeen, LosesConnection, DropPayloads, ChatTyped, HookTyped
    <2>3. FlagsTyped'
      BY <1>1 DEF Closes, CloseSeen, LosesConnection, DropPayloads, ChatTyped, FlagsTyped, hookVars, serverVars
    <2>4. events' \in 0..MaxEvents /\ auth' \in 0..MaxAuth
      BY <1>1, EventTyped, ChatBounds DEF Closes, CloseSeen, LosesConnection, DropPayloads, ChatTyped, HookTyped
    <2>5. wrote' \in Seq(Convs) /\ frames' \in Nat
      BY <1>1 DEF Closes, CloseSeen, LosesConnection, DropPayloads, ChatTyped, HookTyped
    <2> QED
      BY <1>1, <2>1, <2>2, <2>3, <2>4, <2>5 DEF Closes, CloseSeen, LosesConnection, DropPayloads, ChatTyped, HookTyped, serverVars
  <1>2. CASE Refused(s)
    <2>1. pending' \in Payloads /\ lastSent' \in Payloads /\ unack' \in Payloads
      BY <1>2, NothingTyped DEF Refused, CloseSeen, LosesConnection, DropPayloads, ChatTyped, HookTyped
    <2>2. conv' \in Convs /\ card' \subseteq Convs /\ prompt' \in Nat /\ asked' \in [Convs -> Seq(Nat)]
      BY <1>2 DEF Refused, CloseSeen, LosesConnection, DropPayloads, ChatTyped, HookTyped
    <2>3. FlagsTyped'
      BY <1>2 DEF Refused, CloseSeen, LosesConnection, DropPayloads, ChatTyped, FlagsTyped, hookVars, serverVars
    <2>4. events' \in 0..MaxEvents /\ auth' \in 0..MaxAuth
      BY <1>2, EventTyped, ChatBounds DEF Refused, CloseSeen, LosesConnection, DropPayloads, ChatTyped, HookTyped
    <2>5. wrote' \in Seq(Convs) /\ frames' \in Nat
      BY <1>2 DEF Refused, CloseSeen, LosesConnection, DropPayloads, ChatTyped, HookTyped
    <2> QED
      BY <1>2, <2>1, <2>2, <2>3, <2>4, <2>5 DEF Refused, CloseSeen, LosesConnection, DropPayloads, ChatTyped, HookTyped, serverVars
  <1> QED
    BY <1>1, <1>2

\* What a workflow does, and what the network does to a socket.
LEMMA ServerTypes ==
  ASSUME ChatTyped, Refers, NEW f \in DOMAIN flows,
         Step(f) \/ Asks(f) \/ Resumes(f) \/ Ends(f, "final") \/ Ends(f, "error") \/ Ends(f, "raised")
  PROVE  HookTyped' /\ FlagsTyped'
  <1>0. f \in Nat /\ flows[f].sock \in DOMAIN socks /\ socks[flows[f].sock].conv \in Convs
    <2>1. flows[f].sock \in DOMAIN socks /\ socks \in Seq(Sockets) /\ flows \in Seq(Workflows)
      BY DEF ChatTyped, Refers
    <2> QED
      BY <2>1, SocketFields, FlowFields
  <1>1. CASE Step(f)
    <2>1. pending' \in Payloads /\ lastSent' \in Payloads /\ unack' \in Payloads
      BY <1>1, NothingTyped DEF Step, Tells, hookVars, ChatTyped, HookTyped
    <2>2. conv' \in Convs /\ card' \subseteq Convs /\ prompt' \in Nat /\ asked' \in [Convs -> Seq(Nat)]
      BY <1>1 DEF Step, Tells, hookVars, ChatTyped, HookTyped
    <2>3. FlagsTyped'
      BY <1>1 DEF Step, Tells, hookVars, ChatTyped, FlagsTyped, serverVars
    <2>4. events' \in 0..MaxEvents /\ auth' \in 0..MaxAuth
      BY <1>1, EventTyped, ChatBounds DEF Step, Tells, hookVars, ChatTyped, HookTyped
    <2>5. wrote' \in Seq(Convs) /\ frames' \in Nat
      BY <1>1 DEF Step, Tells, hookVars, ChatTyped, HookTyped
    <2>6. route' \in [Convs -> Nat] /\ pend' \in [Convs -> Nat]
      BY <1>1, <1>0 DEF Step, Tells, hookVars, ChatTyped, HookTyped, serverVars
    <2> QED
      BY <2>1, <2>2, <2>3, <2>4, <2>5, <2>6 DEF HookTyped
  <1>2. CASE Asks(f)
    <2>1. pending' \in Payloads /\ lastSent' \in Payloads /\ unack' \in Payloads
      BY <1>2, NothingTyped DEF Asks, Tells, hookVars, ChatTyped, HookTyped
    <2>2. conv' \in Convs /\ card' \subseteq Convs /\ prompt' \in Nat /\ asked' \in [Convs -> Seq(Nat)]
      BY <1>2 DEF Asks, Tells, hookVars, ChatTyped, HookTyped
    <2>3. FlagsTyped'
      BY <1>2 DEF Asks, Tells, hookVars, ChatTyped, FlagsTyped, serverVars
    <2>4. events' \in 0..MaxEvents /\ auth' \in 0..MaxAuth
      BY <1>2, EventTyped, ChatBounds DEF Asks, Tells, hookVars, ChatTyped, HookTyped
    <2>5. wrote' \in Seq(Convs) /\ frames' \in Nat
      BY <1>2 DEF Asks, Tells, hookVars, ChatTyped, HookTyped
    <2>6. route' \in [Convs -> Nat] /\ pend' \in [Convs -> Nat]
      BY <1>2, <1>0 DEF Asks, Tells, hookVars, ChatTyped, HookTyped, serverVars
    <2> QED
      BY <2>1, <2>2, <2>3, <2>4, <2>5, <2>6 DEF HookTyped
  <1>3. CASE Resumes(f)
    <2>1. pending' \in Payloads /\ lastSent' \in Payloads /\ unack' \in Payloads
      BY <1>3, NothingTyped DEF Resumes, hookVars, ChatTyped, HookTyped
    <2>2. conv' \in Convs /\ card' \subseteq Convs /\ prompt' \in Nat /\ asked' \in [Convs -> Seq(Nat)]
      BY <1>3 DEF Resumes, hookVars, ChatTyped, HookTyped
    <2>3. FlagsTyped'
      BY <1>3 DEF Resumes, hookVars, ChatTyped, FlagsTyped, serverVars
    <2>4. events' \in 0..MaxEvents /\ auth' \in 0..MaxAuth
      BY <1>3, EventTyped, ChatBounds DEF Resumes, hookVars, ChatTyped, HookTyped
    <2>5. wrote' \in Seq(Convs) /\ frames' \in Nat
      BY <1>3 DEF Resumes, hookVars, ChatTyped, HookTyped
    <2>6. route' \in [Convs -> Nat] /\ pend' \in [Convs -> Nat]
      BY <1>3, <1>0 DEF Resumes, hookVars, ChatTyped, HookTyped, serverVars
    <2> QED
      BY <2>1, <2>2, <2>3, <2>4, <2>5, <2>6 DEF HookTyped
  <1>4. CASE Ends(f, "final")
    <2>1. pending' \in Payloads /\ lastSent' \in Payloads /\ unack' \in Payloads
      BY <1>4, NothingTyped DEF Ends, Tells, hookVars, ChatTyped, HookTyped
    <2>2. conv' \in Convs /\ card' \subseteq Convs /\ prompt' \in Nat /\ asked' \in [Convs -> Seq(Nat)]
      BY <1>4 DEF Ends, Tells, hookVars, ChatTyped, HookTyped
    <2>3. FlagsTyped'
      BY <1>4 DEF Ends, Tells, hookVars, ChatTyped, FlagsTyped, serverVars
    <2>4. events' \in 0..MaxEvents /\ auth' \in 0..MaxAuth
      BY <1>4, EventTyped, ChatBounds DEF Ends, Tells, hookVars, ChatTyped, HookTyped
    <2>5. wrote' \in Seq(Convs) /\ frames' \in Nat
      BY <1>4 DEF Ends, Tells, hookVars, ChatTyped, HookTyped
    <2>6. route' \in [Convs -> Nat] /\ pend' \in [Convs -> Nat]
      BY <1>4, <1>0 DEF Ends, Tells, hookVars, ChatTyped, HookTyped, serverVars
    <2> QED
      BY <2>1, <2>2, <2>3, <2>4, <2>5, <2>6 DEF HookTyped
  <1>5. CASE Ends(f, "error")
    <2>1. pending' \in Payloads /\ lastSent' \in Payloads /\ unack' \in Payloads
      BY <1>5, NothingTyped DEF Ends, Tells, hookVars, ChatTyped, HookTyped
    <2>2. conv' \in Convs /\ card' \subseteq Convs /\ prompt' \in Nat /\ asked' \in [Convs -> Seq(Nat)]
      BY <1>5 DEF Ends, Tells, hookVars, ChatTyped, HookTyped
    <2>3. FlagsTyped'
      BY <1>5 DEF Ends, Tells, hookVars, ChatTyped, FlagsTyped, serverVars
    <2>4. events' \in 0..MaxEvents /\ auth' \in 0..MaxAuth
      BY <1>5, EventTyped, ChatBounds DEF Ends, Tells, hookVars, ChatTyped, HookTyped
    <2>5. wrote' \in Seq(Convs) /\ frames' \in Nat
      BY <1>5 DEF Ends, Tells, hookVars, ChatTyped, HookTyped
    <2>6. route' \in [Convs -> Nat] /\ pend' \in [Convs -> Nat]
      BY <1>5, <1>0 DEF Ends, Tells, hookVars, ChatTyped, HookTyped, serverVars
    <2> QED
      BY <2>1, <2>2, <2>3, <2>4, <2>5, <2>6 DEF HookTyped
  <1>6. CASE Ends(f, "raised")
    <2>1. pending' \in Payloads /\ lastSent' \in Payloads /\ unack' \in Payloads
      BY <1>6, NothingTyped DEF Ends, hookVars, ChatTyped, HookTyped
    <2>2. conv' \in Convs /\ card' \subseteq Convs /\ prompt' \in Nat /\ asked' \in [Convs -> Seq(Nat)]
      BY <1>6 DEF Ends, hookVars, ChatTyped, HookTyped
    <2>3. FlagsTyped'
      BY <1>6 DEF Ends, hookVars, ChatTyped, FlagsTyped, serverVars
    <2>4. events' \in 0..MaxEvents /\ auth' \in 0..MaxAuth
      BY <1>6, EventTyped, ChatBounds DEF Ends, hookVars, ChatTyped, HookTyped
    <2>5. wrote' \in Seq(Convs) /\ frames' \in Nat
      BY <1>6 DEF Ends, hookVars, ChatTyped, HookTyped
    <2>6. route' \in [Convs -> Nat] /\ pend' \in [Convs -> Nat]
      BY <1>6, <1>0 DEF Ends, hookVars, ChatTyped, HookTyped, serverVars
    <2> QED
      BY <2>1, <2>2, <2>3, <2>4, <2>5, <2>6 DEF HookTyped
  <1> QED
    BY <1>1, <1>2, <1>3, <1>4, <1>5, <1>6

LEMMA SocketTypes ==
  ASSUME ChatTyped, Refers, NEW s \in DOMAIN socks, Reads(s) \/ ReadsAgain(s) \/ Disconnected(s) \/ Lose(s) \/ Expire(s)
  PROVE  HookTyped' /\ FlagsTyped'
  <1>0. s \in Nat /\ socks[s].conv \in Convs
    BY SocketFields DEF ChatTyped
  <1>1. CASE Reads(s)
    <2>1. pending' \in Payloads /\ lastSent' \in Payloads /\ unack' \in Payloads
      BY <1>1, NothingTyped DEF Reads, hookVars, ChatTyped, HookTyped
    <2>2. conv' \in Convs /\ card' \subseteq Convs /\ prompt' \in Nat /\ asked' \in [Convs -> Seq(Nat)]
      BY <1>1 DEF Reads, hookVars, ChatTyped, HookTyped
    <2>3. FlagsTyped'
      BY <1>1 DEF Reads, hookVars, ChatTyped, FlagsTyped, serverVars
    <2>4. events' \in 0..MaxEvents /\ auth' \in 0..MaxAuth
      BY <1>1, EventTyped, ChatBounds DEF Reads, hookVars, ChatTyped, HookTyped
    <2>5. wrote' \in Seq(Convs) /\ frames' \in Nat
      BY <1>1 DEF Reads, hookVars, ChatTyped, HookTyped
    <2>6. route' \in [Convs -> Nat] /\ pend' \in [Convs -> Nat]
      <3>1. /\ route' = route \/ route' = [route EXCEPT ![socks[s].conv] = s]
            /\ pend' = pend \/ pend' = [pend EXCEPT ![socks[s].conv] = 0]
        BY <1>1 DEF Reads
      <3>2. route \in [Convs -> Nat] /\ pend \in [Convs -> Nat]
        BY DEF ChatTyped, HookTyped
      <3> QED
        BY <1>0, <3>1, <3>2
    <2> QED
      BY <2>1, <2>2, <2>3, <2>4, <2>5, <2>6 DEF HookTyped
  <1>2. CASE Disconnected(s)
    <2>1. pending' \in Payloads /\ lastSent' \in Payloads /\ unack' \in Payloads
      BY <1>2, NothingTyped DEF Disconnected, hookVars, ChatTyped, HookTyped
    <2>2. conv' \in Convs /\ card' \subseteq Convs /\ prompt' \in Nat /\ asked' \in [Convs -> Seq(Nat)]
      BY <1>2 DEF Disconnected, hookVars, ChatTyped, HookTyped
    <2>3. FlagsTyped'
      BY <1>2 DEF Disconnected, hookVars, ChatTyped, FlagsTyped, serverVars
    <2>4. events' \in 0..MaxEvents /\ auth' \in 0..MaxAuth
      BY <1>2, EventTyped, ChatBounds DEF Disconnected, hookVars, ChatTyped, HookTyped
    <2>5. wrote' \in Seq(Convs) /\ frames' \in Nat
      BY <1>2 DEF Disconnected, hookVars, ChatTyped, HookTyped
    <2>6. route' \in [Convs -> Nat] /\ pend' \in [Convs -> Nat]
      BY <1>2, <1>0 DEF Disconnected, hookVars, ChatTyped, HookTyped, serverVars
    <2> QED
      BY <2>1, <2>2, <2>3, <2>4, <2>5, <2>6 DEF HookTyped
  <1>3. CASE Lose(s)
    <2>1. pending' \in Payloads /\ lastSent' \in Payloads /\ unack' \in Payloads
      BY <1>3, NothingTyped DEF Lose, hookVars, ChatTyped, HookTyped
    <2>2. conv' \in Convs /\ card' \subseteq Convs /\ prompt' \in Nat /\ asked' \in [Convs -> Seq(Nat)]
      BY <1>3 DEF Lose, hookVars, ChatTyped, HookTyped
    <2>3. FlagsTyped'
      BY <1>3 DEF Lose, hookVars, ChatTyped, FlagsTyped, serverVars
    <2>4. events' \in 0..MaxEvents /\ auth' \in 0..MaxAuth
      BY <1>3, EventTyped, ChatBounds DEF Lose, hookVars, ChatTyped, HookTyped
    <2>5. wrote' \in Seq(Convs) /\ frames' \in Nat
      BY <1>3 DEF Lose, hookVars, ChatTyped, HookTyped
    <2>6. route' \in [Convs -> Nat] /\ pend' \in [Convs -> Nat]
      BY <1>3, <1>0 DEF Lose, hookVars, ChatTyped, HookTyped, serverVars
    <2> QED
      BY <2>1, <2>2, <2>3, <2>4, <2>5, <2>6 DEF HookTyped
  <1>4. CASE Expire(s)
    <2>1. pending' \in Payloads /\ lastSent' \in Payloads /\ unack' \in Payloads
      BY <1>4, NothingTyped DEF Expire, hookVars, ChatTyped, HookTyped
    <2>2. conv' \in Convs /\ card' \subseteq Convs /\ prompt' \in Nat /\ asked' \in [Convs -> Seq(Nat)]
      BY <1>4 DEF Expire, hookVars, ChatTyped, HookTyped
    <2>3. FlagsTyped'
      BY <1>4 DEF Expire, hookVars, ChatTyped, FlagsTyped, serverVars
    <2>4. events' \in 0..MaxEvents /\ auth' \in 0..MaxAuth
      BY <1>4, EventTyped, ChatBounds DEF Expire, hookVars, ChatTyped, HookTyped
    <2>5. wrote' \in Seq(Convs) /\ frames' \in Nat
      BY <1>4 DEF Expire, hookVars, ChatTyped, HookTyped
    <2>6. route' \in [Convs -> Nat] /\ pend' \in [Convs -> Nat]
      BY <1>4, <1>0 DEF Expire, hookVars, ChatTyped, HookTyped, serverVars
    <2> QED
      BY <2>1, <2>2, <2>3, <2>4, <2>5, <2>6 DEF HookTyped
  <1>5. CASE ReadsAgain(s)
    <2>1. pending' \in Payloads /\ lastSent' \in Payloads /\ unack' \in Payloads
      BY <1>5, NothingTyped DEF ReadsAgain, hookVars, ChatTyped, HookTyped
    <2>2. conv' \in Convs /\ card' \subseteq Convs /\ prompt' \in Nat /\ asked' \in [Convs -> Seq(Nat)]
      BY <1>5 DEF ReadsAgain, hookVars, ChatTyped, HookTyped
    <2>3. FlagsTyped'
      BY <1>5 DEF ReadsAgain, hookVars, ChatTyped, FlagsTyped, serverVars
    <2>4. events' \in 0..MaxEvents /\ auth' \in 0..MaxAuth
      BY <1>5, EventTyped, ChatBounds DEF ReadsAgain, hookVars, ChatTyped, HookTyped
    <2>5. wrote' \in Seq(Convs) /\ frames' \in Nat
      BY <1>5 DEF ReadsAgain, hookVars, ChatTyped, HookTyped
    <2>6. route' \in [Convs -> Nat] /\ pend' \in [Convs -> Nat]
      BY <1>5, <1>0 DEF ReadsAgain, hookVars, ChatTyped, HookTyped, serverVars
    <2> QED
      BY <2>1, <2>2, <2>3, <2>4, <2>5, <2>6 DEF HookTyped
  <1> QED
    BY <1>1, <1>2, <1>3, <1>4, <1>5

\* What the user does.
LEMMA UserTypes ==
  ASSUME ChatTyped, Refers, SendMessage \/ Respond \/ Stop \/ \E c \in Convs : SelectConversation(c)
  PROVE  HookTyped' /\ FlagsTyped'
  <1>0. /\ NewMessage \in Payloads /\ (prompt # 0 => NewAnswer \in Payloads)
        /\ (frames \in Nat => Sent(NewMessage) \in Payloads) /\ (frames \in Nat /\ prompt # 0 => Sent(NewAnswer) \in Payloads)
    BY NewTyped, SentPayload
  <1>1. CASE SendMessage
    <2>0. \/ pending' = NewMessage /\ lastSent' = lastSent /\ unack' = unack /\ frames' = frames
          \/ pending' = pending /\ lastSent' = NewMessage /\ unack' = Sent(NewMessage) /\ frames' = frames + 1
      BY <1>1, NewTyped DEF SendMessage, Transmit, Sent, NewMessage
    <2>1. pending' \in Payloads /\ lastSent' \in Payloads /\ unack' \in Payloads /\ frames' \in Nat
      BY <1>0, <2>0 DEF ChatTyped, HookTyped
    <2>2. conv' \in Convs /\ card' \subseteq Convs /\ prompt' \in Nat /\ asked' \in [Convs -> Seq(Nat)]
      BY <1>1 DEF SendMessage, ChatTyped, HookTyped
    <2>3. FlagsTyped'
      BY <1>1 DEF SendMessage, ChatTyped, FlagsTyped, serverVars
    <2>4. events' \in 0..MaxEvents /\ auth' \in 0..MaxAuth
      BY <1>1, EventTyped DEF SendMessage, ChatTyped, HookTyped
    <2>5. wrote' \in Seq(Convs)
      BY <1>1, AppendProperties DEF SendMessage, ChatTyped, HookTyped
    <2>6. route' \in [Convs -> Nat] /\ pend' \in [Convs -> Nat]
      BY <1>1 DEF SendMessage, ChatTyped, HookTyped, serverVars
    <2> QED
      BY <2>1, <2>2, <2>3, <2>4, <2>5, <2>6 DEF HookTyped
  <1>2. CASE Respond
    <2>0. \/ pending' = NewAnswer /\ lastSent' = lastSent /\ unack' = unack /\ frames' = frames
          \/ pending' = pending /\ lastSent' = NewAnswer /\ unack' = Sent(NewAnswer) /\ frames' = frames
          \/ pending' = pending /\ lastSent' = lastSent /\ unack' = unack /\ frames' = frames
      <3>1. prompt # 0 /\ NewAnswer.kind = "answer"
        BY <1>2, NewTyped DEF Respond
      <3> QED
        BY <1>2, <3>1 DEF Respond, Transmit, Sent, NewAnswer
    <2>1. pending' \in Payloads /\ lastSent' \in Payloads /\ unack' \in Payloads /\ frames' \in Nat
      BY <1>0, <1>2, <2>0 DEF ChatTyped, HookTyped, Respond
    <2>2. conv' \in Convs /\ card' \subseteq Convs /\ prompt' \in Nat
      BY <1>2 DEF Respond, ChatTyped, HookTyped
    <2>7. asked' \in [Convs -> Seq(Nat)]
      <3>1. asked[conv] \in Seq(Nat) /\ Len(asked[conv]) \in Nat
        BY DEF ChatTyped, HookTyped
      <3>2. asked[conv] # <<>> => SubSeq(asked[conv], 1, Len(asked[conv]) - 1) \in Seq(Nat)
        BY <3>1, SubSeqProperties, EmptySeq
      <3>3. asked' = [asked EXCEPT ![conv] = IF asked[conv] = <<>> THEN asked[conv]
                                             ELSE SubSeq(asked[conv], 1, Len(asked[conv]) - 1)]
        BY <1>2 DEF Respond
      <3> QED
        BY <3>1, <3>2, <3>3 DEF ChatTyped, HookTyped
    <2>3. FlagsTyped'
      BY <1>2 DEF Respond, ChatTyped, FlagsTyped, serverVars
    <2>4. events' \in 0..MaxEvents /\ auth' \in 0..MaxAuth /\ wrote' \in Seq(Convs)
      BY <1>2 DEF Respond, ChatTyped, HookTyped
    <2>6. route' \in [Convs -> Nat] /\ pend' \in [Convs -> Nat]
      BY <1>2 DEF Respond, ChatTyped, HookTyped, serverVars
    <2> QED
      BY <2>1, <2>2, <2>3, <2>4, <2>6, <2>7 DEF HookTyped
  <1>3. CASE Stop
    <2>1. pending' \in Payloads /\ lastSent' \in Payloads /\ unack' \in Payloads
      BY <1>3, NothingTyped DEF Stop, ChatTyped, HookTyped
    <2>2. conv' \in Convs /\ card' \subseteq Convs /\ prompt' \in Nat /\ asked' \in [Convs -> Seq(Nat)]
      BY <1>3 DEF Stop, ChatTyped, HookTyped
    <2>3. FlagsTyped'
      BY <1>3 DEF Stop, ChatTyped, FlagsTyped, serverVars
    <2>4. events' \in 0..MaxEvents /\ auth' \in 0..MaxAuth
      BY <1>3, EventTyped, ChatBounds DEF Stop, ChatTyped, HookTyped
    <2>5. wrote' \in Seq(Convs) /\ frames' \in Nat
      BY <1>3 DEF Stop, ChatTyped, HookTyped
    <2>6. route' \in [Convs -> Nat] /\ pend' \in [Convs -> Nat]
      BY <1>3 DEF Stop, ChatTyped, HookTyped, serverVars
    <2> QED
      BY <2>1, <2>2, <2>3, <2>4, <2>5, <2>6 DEF HookTyped
  <1>4. CASE \E c \in Convs : SelectConversation(c)
    <2>0. PICK c \in Convs : SelectConversation(c)
      BY <1>4
    <2>1. pending' \in Payloads /\ lastSent' \in Payloads /\ unack' \in Payloads
      BY <2>0, NothingTyped DEF SelectConversation, DropPayloads
    <2>2. conv' \in Convs /\ card' \subseteq Convs /\ asked' \in [Convs -> Seq(Nat)]
      BY <2>0 DEF SelectConversation, ChatTyped, HookTyped
    <2>7. prompt' \in Nat
      <3>1. asked[c] \in Seq(Nat) /\ (asked[c] # <<>> => Len(asked[c]) \in DOMAIN asked[c])
        BY EmptySeq, LenProperties DEF ChatTyped, HookTyped
      <3> QED
        BY <2>0, <3>1, ElementOfSeq DEF SelectConversation
    <2>3. FlagsTyped'
      BY <2>0 DEF SelectConversation, ChatTyped, FlagsTyped, serverVars
    <2>4. events' \in 0..MaxEvents /\ auth' \in 0..MaxAuth
      BY <2>0, EventTyped, ChatBounds DEF SelectConversation, ChatTyped, HookTyped
    <2>5. wrote' \in Seq(Convs) /\ frames' \in Nat
      BY <2>0 DEF SelectConversation, ChatTyped, HookTyped
    <2>6. route' \in [Convs -> Nat] /\ pend' \in [Convs -> Nat]
      BY <2>0 DEF SelectConversation, ChatTyped, HookTyped, serverVars
    <2> QED
      BY <2>1, <2>2, <2>3, <2>4, <2>5, <2>6, <2>7 DEF HookTyped
  <1> QED
    BY <1>1, <1>2, <1>3, <1>4

\* What opens a socket sends what is pending.
LEMMA OpensTypes ==
  ASSUME ChatTyped, Refers, NEW s \in DOMAIN socks, Opens(s)
  PROVE  HookTyped' /\ FlagsTyped'
  <1>0. /\ pending' = Nothing
        /\ \/ lastSent' = pending /\ unack' = Sent(pending) /\ frames' \in {frames, frames + 1}
           \/ lastSent' = lastSent /\ unack' = unack /\ frames' = frames
    BY DEF Opens, Transmit, Sent
  <1>1. pending' \in Payloads /\ lastSent' \in Payloads /\ unack' \in Payloads /\ frames' \in Nat
    BY <1>0, NothingTyped, SentPayload DEF ChatTyped, HookTyped
  <1>2. conv' \in Convs /\ card' \subseteq Convs /\ prompt' \in Nat /\ asked' \in [Convs -> Seq(Nat)]
    BY DEF Opens, ChatTyped, HookTyped
  <1>3. FlagsTyped'
    BY DEF Opens, ChatTyped, FlagsTyped, serverVars
  <1>4. events' \in 0..MaxEvents /\ auth' \in 0..MaxAuth /\ wrote' \in Seq(Convs)
    BY DEF Opens, ChatTyped, HookTyped
  <1>6. route' \in [Convs -> Nat] /\ pend' \in [Convs -> Nat]
    BY DEF Opens, ChatTyped, HookTyped, serverVars
  <1> QED
    BY <1>1, <1>2, <1>3, <1>4, <1>6 DEF HookTyped

\* What the hook does with a reply.
LEMMA ReceivesTypes ==
  ASSUME ChatTyped, Refers, NEW s \in DOMAIN socks, Receives(s)
  PROVE  HookTyped' /\ FlagsTyped'
  <1> DEFINE m == Head(socks[s].down)
  <1>0. m \in Replies /\ m.flow \in Nat
    <2>1. socks[s].down \in Seq(Replies) /\ socks[s].down # <<>>
      BY SocketFields DEF ChatTyped, Receives
    <2>2. m \in Replies
      BY <2>1, HeadTailProperties
    <2> QED
      BY <2>2 DEF Replies
  <1>1. /\ conv' = conv /\ wrote' = wrote /\ frames' = frames /\ events' = events
        /\ route' = route /\ pend' = pend /\ deferred' = deferred /\ failing' = failing
    BY DEF Receives
  <1>2. \/ UNCHANGED <<streaming, prompt, asked, card, pending, lastSent, unack, auth, deaf>>
        \/ OnStep \/ OnResponse(m) \/ OnHumanPrompt(m) \/ OnError \/ OnAuthExpired
    BY DEF Receives
  <1> HIDE DEF m
  <1>3. pending' \in Payloads /\ lastSent' \in Payloads /\ unack' \in Payloads
    BY <1>2, NothingTyped DEF OnStep, OnResponse, OnHumanPrompt, OnError, OnAuthExpired, GiveUp, DropPayloads,
       Acknowledged, ChatTyped, HookTyped
  <1>4. card' \subseteq Convs /\ prompt' \in Nat
    BY <1>0, <1>2 DEF OnStep, OnResponse, OnHumanPrompt, OnError, OnAuthExpired, GiveUp, ChatTyped, HookTyped
  <1>5. asked' \in [Convs -> Seq(Nat)]
    <2>1. asked' = asked \/ asked' = [asked EXCEPT ![conv] = Append(asked[conv], m.flow)]
      BY <1>2 DEF OnStep, OnResponse, OnHumanPrompt, OnError, OnAuthExpired
    <2>2. Append(asked[conv], m.flow) \in Seq(Nat)
      BY <1>0, AppendProperties DEF ChatTyped, HookTyped
    <2> QED
      BY <2>1, <2>2 DEF ChatTyped, HookTyped
  <1>6. streaming' \in BOOLEAN /\ deaf' \in BOOLEAN
    BY <1>2 DEF OnStep, OnResponse, OnHumanPrompt, OnError, OnAuthExpired, GiveUp, ChatTyped, FlagsTyped
  <1>7. auth' \in 0..MaxAuth
    BY <1>2, ChatBounds DEF OnStep, OnResponse, OnHumanPrompt, OnError, OnAuthExpired, ChatTyped, HookTyped
  <1> QED
    BY <1>1, <1>3, <1>4, <1>5, <1>6, <1>7 DEF HookTyped, FlagsTyped, ChatTyped

-----------------------------------------------------------------------------
(* What the user's messages, and an opening socket, send.                  *)

LEMMA ConnectedSocket ==
  ASSUME ChatTyped, client.ws \in 0..Len(socks), Connected
  PROVE  /\ client.ws \in DOMAIN socks /\ client.ws # 0
         /\ socks[client.ws].link \in {"open", "lost"}
  BY LenProperties DEF ChatTyped, Connected

LEMMA SendMessageEffect ==
  ASSUME ChatTyped, Refers, SendMessage
  PROVE  \/ /\ Calms(socks) /\ frames' = frames
            /\ pending' = NewMessage /\ lastSent' = lastSent /\ unack' = unack
         \/ Connected /\ Sends(NewMessage, client.ws, socks) /\ pending' = pending
  <1>0. /\ socks \in Seq(Sockets) /\ client \in Clients /\ client.ws \in 0..Len(socks) /\ frames \in Nat
        /\ NewMessage \in Payloads
    BY NewTyped DEF ChatTyped, HookTyped, Refers
  <1>1. CASE pending' = NewMessage /\ Rotate(socks) /\ UNCHANGED <<lastSent, unack, frames>>
    BY <1>0, <1>1, RotateEffect
  <1>2. CASE Connected /\ Transmit(NewMessage, client.ws, socks, client) /\ UNCHANGED pending
    BY <1>0, <1>2, ConnectedSocket, TransmitEffect
  <1>3. CASE pending' = NewMessage /\ client' = Connect(client) /\ UNCHANGED <<lastSent, unack, frames, socks>>
    BY <1>0, <1>3, ConnectEffect, Unmoved
  <1> QED
    BY <1>1, <1>2, <1>3 DEF SendMessage, NewMessage

LEMMA RespondEffect ==
  ASSUME ChatTyped, Refers, Respond
  PROVE  \/ /\ Calms(socks) /\ frames' = frames
            /\ pending' \in {pending, NewAnswer} /\ lastSent' = lastSent /\ unack' = unack
         \/ Connected /\ Sends(NewAnswer, client.ws, socks) /\ pending' = pending
  <1>0. /\ socks \in Seq(Sockets) /\ client \in Clients /\ client.ws \in 0..Len(socks) /\ frames \in Nat
        /\ NewAnswer \in Payloads
    BY NewTyped DEF ChatTyped, HookTyped, Refers, Respond
  <1>1. CASE pending' = NewAnswer /\ Rotate(socks) /\ UNCHANGED <<lastSent, unack, frames>>
    BY <1>0, <1>1, RotateEffect
  <1>2. CASE Connected /\ Transmit(NewAnswer, client.ws, socks, client) /\ UNCHANGED pending
    BY <1>0, <1>2, ConnectedSocket, TransmitEffect
  <1>3. CASE UNCHANGED <<pending, lastSent, unack, client, frames, socks>>
    BY <1>0, <1>3, Unmoved
  <1> QED
    BY <1>1, <1>2, <1>3 DEF Respond, NewAnswer

\* The sockets once s has opened.
Opened(s) == [socks EXCEPT ![s].link = "open"]

LEMMA OpenedSocket ==
  ASSUME ChatTyped, NEW s \in DOMAIN socks
  PROVE  /\ Opened(s) \in Seq(Sockets) /\ Len(Opened(s)) = Len(socks) /\ DOMAIN Opened(s) = DOMAIN socks
         /\ \A r \in DOMAIN socks : r # s => Opened(s)[r] = socks[r]
         /\ Opened(s)[s] = [socks[s] EXCEPT !.link = "open"]
         /\ Opened(s)[s].up = socks[s].up /\ Opened(s)[s].down = socks[s].down
         /\ Opened(s)[s].expired = socks[s].expired /\ Opened(s)[s].conv = socks[s].conv
         /\ Opened(s)[s].own = socks[s].own /\ Opened(s)[s].link = "open"
  <1> DEFINE x == [socks[s] EXCEPT !.link = "open"]
  <1>0. socks \in Seq(Sockets) /\ socks[s] \in Sockets
    BY SocketFields DEF ChatTyped
  <1>1. x \in Sockets /\ Opened(s) = [socks EXCEPT ![s] = x]
    BY <1>0 DEF Opened, Sockets
  <1>2. /\ x.up = socks[s].up /\ x.down = socks[s].down /\ x.expired = socks[s].expired
        /\ x.conv = socks[s].conv /\ x.own = socks[s].own /\ x.link = "open"
    BY <1>0 DEF Sockets
  <1>3. x = [socks[s] EXCEPT !.link = "open"]
    OBVIOUS
  <1> HIDE DEF x
  <1>4. /\ Opened(s) \in Seq(Sockets) /\ Len(Opened(s)) = Len(socks) /\ DOMAIN Opened(s) = DOMAIN socks
        /\ Opened(s)[s] = x /\ \A r \in DOMAIN socks : r # s => Opened(s)[r] = socks[r]
    BY <1>0, <1>1, PutSocket
  <1> QED
    BY <1>2, <1>3, <1>4

LEMMA OpensEffect ==
  ASSUME ChatTyped, Refers, NEW s \in DOMAIN socks, Opens(s)
  PROVE  /\ socks[s].link = "dialled" /\ pending' = Nothing
         /\ \/ /\ pending = Nothing /\ socks' = Opened(s) /\ client' \in Clients /\ client'.ws = client.ws
               /\ frames' = frames /\ lastSent' = lastSent /\ unack' = unack
            \/ Sends(pending, s, Opened(s))
  <1> DEFINE cl == [client EXCEPT !.tries = 0]
  <1>0. client \in Clients /\ frames \in Nat /\ pending \in Payloads
    BY DEF ChatTyped, HookTyped
  <1>1. cl \in Clients /\ cl.ws = client.ws
    <2>1. 0 \in 0..MaxTries
      BY ChatBounds
    <2> QED
      BY <1>0, <2>1 DEF Clients
  <1>2. IF pending # Nothing THEN Transmit(pending, s, Opened(s), cl)
        ELSE socks' = Opened(s) /\ client' = cl /\ UNCHANGED <<lastSent, unack, frames>>
    BY DEF Opens, Opened
  <1> HIDE DEF cl
  <1>3. CASE pending = Nothing
    BY <1>1, <1>2, <1>3 DEF Opens
  <1>4. CASE pending # Nothing
    <2>1. Sends(pending, s, Opened(s))
      BY <1>0, <1>1, <1>2, <1>4, OpenedSocket, TransmitEffect
    <2> QED
      BY <2>1 DEF Opens
  <1> QED
    BY <1>3, <1>4

-----------------------------------------------------------------------------
(* What every step does, by what becomes of sockets, workflows, payloads.  *)

\* Nothing is sent: what the hook keeps stays, is dropped, or waits to be sent.
Fades ==
  /\ unack' \in {unack, Nothing} /\ lastSent' \in {lastSent, Nothing}
  /\ \/ pending' \in {pending, Nothing} /\ wrote' = wrote
     \/ pending' = NewAnswer /\ pending'.kind = "answer" /\ wrote' = wrote
     \/ pending' = NewMessage /\ wrote' = Append(wrote, conv) /\ conv' = conv
     \/ unack.retry = 0 /\ pending' = [unack EXCEPT !.retry = 1] /\ wrote' = wrote
     \/ pending' = lastSent /\ MayTell /\ socks[client.ws].expired /\ wrote' = wrote
  /\ \/ conv' = conv
     \/ client'.ws = 0 /\ pending' = Nothing /\ lastSent' = Nothing /\ unack' = Nothing
  /\ frames' = frames

\* Payload p is sent on the client's socket.
Sender(p, s) ==
  /\ s = client.ws /\ s \in DOMAIN socks /\ p \in Payloads
  /\ \/ /\ socks[s].link \in {"open", "lost"} /\ Sends(p, s, socks) /\ pending' = pending
        /\ \/ p = NewMessage /\ wrote' = Append(wrote, conv)
           \/ p = NewAnswer /\ p.kind = "answer" /\ wrote' = wrote
     \/ /\ socks[s].link = "dialled" /\ Sends(p, s, Opened(s))
        /\ p = pending /\ pending' = Nothing /\ wrote' = wrote
  /\ conv' = conv /\ flows' = flows

ChatStep ==
  \/ Fades /\ Calms(socks) /\ flows' = flows
  \/ Fades /\ Dials /\ flows' = flows /\ conv' = conv
  \/ \E s \in DOMAIN socks :
       /\ Fades /\ conv' = conv /\ socks[s].link = "dialled" /\ socks' = Opened(s)
       /\ client' \in Clients /\ client'.ws = client.ws /\ flows' = flows
  \/ \E f \in DOMAIN flows : Fades /\ conv' = conv /\ client' = client /\ Speaks(f)
  \/ \E s \in DOMAIN socks : Fades /\ conv' = conv /\ client' = client /\ flows' = flows /\ Loses(s)
  \/ \E s \in DOMAIN socks :
       /\ Fades /\ conv' = conv /\ client' = client /\ flows' = flows
       /\ s = client.ws /\ socks[s].link \in {"open", "lost"} /\ ~socks[s].expired
       /\ socks' \in Seq(Sockets) /\ Len(socks') = Len(socks) /\ DOMAIN socks' = DOMAIN socks
       /\ \A r \in DOMAIN socks : r # s => socks'[r] = socks[r]
       /\ socks'[s] = [socks[s] EXCEPT !.expired = TRUE]
  \/ \E s \in DOMAIN socks : Fades /\ conv' = conv /\ client' = client /\ ReadsNext(s)
  \/ \E p \in Payloads, s \in DOMAIN socks : Sender(p, s)

\* The payloads do not change.
LEMMA SamePayloads ==
  ASSUME UNCHANGED <<conv, pending, lastSent, unack, wrote, frames>> PROVE Fades
  BY DEF Fades

LEMMA RetryOnce ==
  ASSUME ChatTyped, unack.retry < 1 PROVE unack.retry = 0
  BY DEF ChatTyped, HookTyped, Payloads

LEMMA ReceivesFade ==
  ASSUME ChatTyped, client.ws \in 0..Len(socks), Links, NEW s \in DOMAIN socks, Receives(s)
  PROVE  Fades
  <1> DEFINE m == Head(socks[s].down)
  <1>1. /\ conv' = conv /\ wrote' = wrote /\ frames' = frames
        /\ socks[s].link = "open" /\ socks[s].down # <<>>
    BY DEF Receives
  <1>2. \/ UNCHANGED <<pending, lastSent, unack>>
        \/ OnStep \/ OnResponse(m) \/ OnHumanPrompt(m) \/ OnError
        \/ client.ws = s /\ m.kind = "auth_expired" /\ OnAuthExpired
    BY DEF Receives
  <1>3. client.ws = s /\ m.kind = "auth_expired" => MayTell /\ socks[client.ws].expired
    <2>1. socks[s].down \in Seq(Replies) /\ s # 0
      BY SocketFields DEF ChatTyped
    <2>2. 1 \in DOMAIN socks[s].down /\ m = socks[s].down[1]
      BY <1>1, <2>1, HeadTailProperties, LenProperties, EmptySeq
    <2> QED
      BY <1>1, <2>1, <2>2 DEF MayTell, Links
  <1> HIDE DEF m
  <1>4. unack' \in {unack, Nothing} /\ lastSent' \in {lastSent, Nothing}
    BY <1>2 DEF OnStep, OnResponse, OnHumanPrompt, OnError, OnAuthExpired, GiveUp, DropPayloads, Acknowledged
  <1>5. \/ pending' \in {pending, Nothing}
        \/ pending' = lastSent /\ MayTell /\ socks[client.ws].expired
    BY <1>2, <1>3 DEF OnStep, OnResponse, OnHumanPrompt, OnError, OnAuthExpired, GiveUp, DropPayloads
  <1> QED
    BY <1>1, <1>4, <1>5 DEF Fades

LEMMA BrowserFades ==
  ASSUME ChatTyped, Redial \/ HealthChecked \/ Recovers \/ Stop \/ AckTimeout \/ SoftTimer \/ DeferredRotation
  PROVE  Fades /\ flows' = flows
  <1>1. CASE Redial
    BY <1>1, SamePayloads DEF Redial, hookVars, serverVars
  <1>2. CASE HealthChecked
    BY <1>2 DEF HealthChecked, GiveUp, DropPayloads, serverVars, Fades
  <1>3. CASE Recovers
    BY <1>3, SamePayloads DEF Recovers, serverVars
  <1>4. CASE Stop
    BY <1>4, SamePayloads DEF Stop, serverVars
  <1>5. CASE AckTimeout
    <2>1. /\ unack' \in {unack, Nothing} /\ lastSent' \in {lastSent, Nothing}
          /\ conv' = conv /\ wrote' = wrote /\ frames' = frames /\ flows' = flows
          /\ pending' = Nothing \/ (unack.retry < 1 /\ pending' = [unack EXCEPT !.retry = 1])
      BY <1>5 DEF AckTimeout, GiveUp, DropPayloads, serverVars
    <2> QED
      BY <2>1, RetryOnce DEF Fades
  <1>6. CASE SoftTimer
    BY <1>6, SamePayloads DEF SoftTimer, serverVars
  <1>7. CASE DeferredRotation
    BY <1>7, SamePayloads DEF DeferredRotation, serverVars
  <1> QED
    BY <1>1, <1>2, <1>3, <1>4, <1>5, <1>6, <1>7

LEMMA LossFades ==
  ASSUME ChatTyped, NEW s \in DOMAIN socks, Closes(s) \/ Refused(s)
  PROVE  Fades /\ flows' = flows
  <1>1. conv' = conv /\ wrote' = wrote /\ frames' = frames /\ flows' = flows
    BY DEF Closes, Refused, serverVars
  <1>2. CloseSeen \/ UNCHANGED <<pending, lastSent, unack>>
    BY DEF Closes, Refused
  <1>3. /\ unack' \in {unack, Nothing} /\ lastSent' \in {lastSent, Nothing}
        /\ pending' \in {pending, Nothing} \/ (unack.retry < 1 /\ pending' = [unack EXCEPT !.retry = 1])
    BY <1>2 DEF CloseSeen, LosesConnection, DropPayloads
  <1> QED
    BY <1>1, <1>3, RetryOnce DEF Fades

LEMMA ServerFades ==
  ASSUME \/ \E s \in DOMAIN socks : Reads(s) \/ ReadsAgain(s) \/ Disconnected(s) \/ Lose(s) \/ Expire(s)
         \/ \E f \in DOMAIN flows : Step(f) \/ Asks(f) \/ Resumes(f) \/ Ends(f, "final") \/ Ends(f, "error") \/ Ends(f, "raised")
         \/ DialResolves
  PROVE  Fades /\ conv' = conv /\ (~DialResolves /\ ~(\E s \in DOMAIN socks : Disconnected(s)) => client' = client)
  <1>1. UNCHANGED <<conv, pending, lastSent, unack, wrote, frames>>
    BY DEF Reads, ReadsAgain, Disconnected, Lose, Expire, Step, Asks, Resumes, Ends, DialResolves, hookVars
  <1>2. ~DialResolves => client' = client
    BY DEF Reads, ReadsAgain, Disconnected, Lose, Expire, Step, Asks, Resumes, Ends
  <1> QED
    BY <1>1, <1>2, SamePayloads

LEMMA ChatSteps ==
  ASSUME ChatTyped, Refers, Links, ChatNext
  PROVE  ChatStep
  <1>0. client.ws \in 0..Len(socks)
    BY DEF Refers
  <1>1. CASE Redial \/ HealthChecked \/ Recovers \/ Stop \/ AckTimeout \/ SoftTimer \/ DeferredRotation
    BY <1>0, <1>1, BrowserFades, TurnsCalm DEF ChatStep
  <1>2. CASE \E c \in Convs : SelectConversation(c)
    <2>1. Calms(socks)
      BY <1>0, <1>2, TurnsCalm
    <2>2. flows' = flows /\ Fades
      BY <1>2 DEF SelectConversation, DropPayloads, serverVars, Fades
    <2> QED
      BY <2>1, <2>2 DEF ChatStep
  <1>3. CASE DialResolves
    <2>1. flows' = flows
      BY <1>3 DEF DialResolves
    <2> QED
      BY <1>0, <1>3, <2>1, DialEffect, ServerFades DEF ChatStep
  <1>4. CASE \E s \in DOMAIN socks : Closes(s) \/ Refused(s)
    BY <1>0, <1>4, ClosesCalms, LossFades DEF ChatStep
  <1>5. ASSUME NEW s \in DOMAIN socks, Receives(s) PROVE ChatStep
    <2>1. flows' = flows
      BY <1>5 DEF Receives
    <2> QED
      BY <1>0, <1>5, <2>1, ReceivesCalms, ReceivesFade DEF ChatStep
  <1>6. ASSUME NEW s \in DOMAIN socks, Disconnected(s) PROVE ChatStep
    <2>1. flows' = flows
      BY <1>6 DEF Disconnected
    <2> QED
      BY <1>0, <1>6, <2>1, DisconnectedCalms, ServerFades DEF ChatStep
  <1>7. ASSUME NEW s \in DOMAIN socks, Opens(s) PROVE ChatStep
    <2>1. conv' = conv /\ wrote' = wrote /\ flows' = flows
      BY <1>7 DEF Opens, serverVars
    <2>2. socks[s].link = "dialled" /\ pending' = Nothing /\ s = client.ws /\ pending \in Payloads
      BY <1>7, OpensEffect DEF Links, ChatTyped, HookTyped
    <2>3. CASE /\ pending = Nothing /\ socks' = Opened(s) /\ client' \in Clients /\ client'.ws = client.ws
               /\ frames' = frames /\ lastSent' = lastSent /\ unack' = unack
      <3>1. Fades
        BY <2>1, <2>2, <2>3 DEF Fades
      <3> QED
        BY <2>1, <2>2, <2>3, <3>1 DEF ChatStep
    <2>4. CASE Sends(pending, s, Opened(s))
      <3>1. Sender(pending, s)
        BY <2>1, <2>2, <2>4 DEF Sender
      <3> QED
        BY <2>2, <3>1 DEF ChatStep
    <2> QED
      BY <1>7, <2>3, <2>4, OpensEffect
  <1>8. CASE SendMessage
    <2>1. conv' = conv /\ wrote' = Append(wrote, conv) /\ flows' = flows /\ NewMessage \in Payloads
      BY <1>8, NewTyped DEF SendMessage, serverVars
    <2>2. CASE /\ Calms(socks) /\ frames' = frames
               /\ pending' = NewMessage /\ lastSent' = lastSent /\ unack' = unack
      BY <2>1, <2>2 DEF Fades, ChatStep
    <2>3. CASE Connected /\ Sends(NewMessage, client.ws, socks) /\ pending' = pending
      <3>1. Sender(NewMessage, client.ws) /\ client.ws \in DOMAIN socks
        BY <1>0, <2>1, <2>3, ConnectedSocket DEF Sender
      <3> QED
        BY <2>1, <3>1 DEF ChatStep
    <2> QED
      BY <1>8, <2>2, <2>3, SendMessageEffect
  <1>9. CASE Respond
    <2>1. conv' = conv /\ wrote' = wrote /\ flows' = flows /\ NewAnswer \in Payloads /\ NewAnswer.kind = "answer"
      BY <1>9, NewTyped DEF Respond, serverVars
    <2>2. CASE /\ Calms(socks) /\ frames' = frames
               /\ pending' \in {pending, NewAnswer} /\ lastSent' = lastSent /\ unack' = unack
      BY <2>1, <2>2 DEF Fades, ChatStep
    <2>3. CASE Connected /\ Sends(NewAnswer, client.ws, socks) /\ pending' = pending
      <3>1. Sender(NewAnswer, client.ws) /\ client.ws \in DOMAIN socks
        BY <1>0, <2>1, <2>3, ConnectedSocket DEF Sender
      <3> QED
        BY <2>1, <3>1 DEF ChatStep
    <2> QED
      BY <1>9, <2>2, <2>3, RespondEffect
  <1>10. ASSUME NEW s \in DOMAIN socks, Reads(s) PROVE ChatStep
    <2>1. client' = client
      BY <1>10 DEF Reads
    <2> QED
      BY <1>10, <2>1, ReadsEffect, ServerFades DEF ChatStep
  <1>11. ASSUME NEW s \in DOMAIN socks, Lose(s) PROVE ChatStep
    <2>1. client' = client /\ flows' = flows
      BY <1>11 DEF Lose, serverVars
    <2> QED
      BY <1>11, <2>1, LoseEffect, ServerFades DEF ChatStep
  <1>12. ASSUME NEW s \in DOMAIN socks, Expire(s) PROVE ChatStep
    <2>1. client' = client /\ flows' = flows /\ s = client.ws /\ ~socks[s].expired /\ socks[s].link \in {"open", "lost"}
      BY <1>12 DEF Expire, serverVars, Connected
    <2>2. Fades /\ conv' = conv
      BY <1>12, ServerFades
    <2> QED
      BY <1>12, <2>1, <2>2, ExpireEffect DEF ChatStep
  <1>13. ASSUME NEW f \in DOMAIN flows,
                Step(f) \/ Asks(f) \/ Resumes(f) \/ Ends(f, "final") \/ Ends(f, "error") \/ Ends(f, "raised")
         PROVE  ChatStep
    <2>1. client' = client
      BY <1>13 DEF Step, Asks, Resumes, Ends
    <2> QED
      BY <1>13, <2>1, WorkflowSpeaks, ServerFades DEF ChatStep
  <1>14. ASSUME NEW s \in DOMAIN socks, ReadsAgain(s) PROVE ChatStep
    <2>1. client' = client /\ flows' = flows
      BY <1>14 DEF ReadsAgain
    <2> QED
      BY <1>14, <2>1, ReadsAgainEffect, ServerFades DEF ChatStep
  <1> QED
    BY <1>1, <1>2, <1>3, <1>4, <1>5, <1>6, <1>7, <1>8, <1>9, <1>10, <1>11, <1>12, <1>13, <1>14
    DEF ChatNext, Browser, Server, User, Environment

\* What is there stays, and where what is new comes from.
Grows ==
  /\ Len(socks) <= Len(socks') /\ Len(flows) <= Len(flows')
  /\ \A r \in DOMAIN socks : r \in DOMAIN socks' /\ socks'[r].conv = socks[r].conv
  /\ \A g \in DOMAIN flows :
       /\ g \in DOMAIN flows' /\ flows'[g].sock = flows[g].sock
       /\ flows'[g].msg = flows[g].msg /\ flows'[g].id = flows[g].id

NewFlows ==
  \A g \in DOMAIN flows' :
    \/ g \in DOMAIN flows
    \/ \E s \in DOMAIN socks : \E i \in DOMAIN socks[s].up :
         /\ socks[s].up[i].kind = "message" /\ flows'[g].sock = s
         /\ flows'[g].msg = socks[s].up[i].msg

NewUps ==
  \A s \in DOMAIN socks' : \A i \in DOMAIN socks'[s].up :
    \/ s \in DOMAIN socks /\ \E j \in DOMAIN socks[s].up : socks'[s].up[i] = socks[s].up[j]
    \/ \E p \in Payloads : Sender(p, s) /\ socks'[s].up[i] = Sent(p)

NewDowns ==
  \A s \in DOMAIN socks' : \A i \in DOMAIN socks'[s].down :
    \/ s \in DOMAIN socks /\ \E j \in DOMAIN socks[s].down : socks'[s].down[i] = socks[s].down[j]
    \/ /\ s \in DOMAIN socks /\ socks[s].expired /\ socks'[s].down[i].kind = "auth_expired"
    \/ /\ s \in DOMAIN socks /\ socks'[s].down[i].kind # "auth_expired"
       /\ \E f \in DOMAIN flows : s = RouteOf(f) /\ socks'[s].down[i].flow = f

NewOwns ==
  \A s \in DOMAIN socks' :
    socks'[s].own = 0 \/ socks'[s].own \in DOMAIN flows \/ (s \in DOMAIN socks /\ socks'[s].own = socks[s].own)

NewClient ==
  client'.ws # 0 =>
    /\ conv' = conv /\ client'.ws \in DOMAIN socks'
    /\ client'.ws = client.ws \/ socks'[client'.ws].conv = conv

Stays == \A r \in DOMAIN socks : r \in DOMAIN socks' /\ (socks[r].expired => socks'[r].expired)

Moves == Grows /\ NewFlows /\ NewUps /\ NewDowns /\ NewOwns /\ NewClient /\ Stays
         /\ client' \in Clients /\ socks' \in Seq(Sockets) /\ flows' \in Seq(Workflows)

\* A step that adds nothing, and leaves the workflows and the client.
LEMMA CalmMoves ==
  ASSUME ChatTyped, Refers, flows' = flows, Calms(socks), Fades
  PROVE  Moves
  <1>0. socks \in Seq(Sockets) /\ client \in Clients /\ Len(socks) \in Nat /\ Len(flows) \in Nat
        /\ DOMAIN socks = 1..Len(socks) /\ flows \in Seq(Workflows) /\ client.ws \in 0..Len(socks)
    BY LenProperties DEF ChatTyped, Refers
  <1>1. Grows /\ Stays
    BY <1>0 DEF Grows, Stays, Calms, Calmer
  <1>2. NewFlows /\ NewOwns
    BY DEF NewFlows, NewOwns, Calms, Calmer
  <1>3. NewUps
    BY DEF NewUps, Calms, Calmer
  <1>4. NewDowns
    BY DEF NewDowns, Calms, Calmer
  <1>5. NewClient
    BY <1>0 DEF NewClient, Calms, Fades
  <1> QED
    BY <1>0, <1>1, <1>2, <1>3, <1>4, <1>5 DEF Moves, Calms

LEMMA DialMoves ==
  ASSUME ChatTyped, Refers, flows' = flows, Dials, conv' = conv
  PROVE  Moves
  <1> DEFINE w == Len(socks) + 1
             x == [link |-> "dialled", up |-> <<>>, down |-> <<>>, expired |-> FALSE,
                   conv |-> conv, heard |-> FALSE, parent |-> 0, own |-> 0]
  <1>0. socks \in Seq(Sockets) /\ Len(socks) \in Nat /\ Len(flows) \in Nat
        /\ flows \in Seq(Workflows) /\ w \in Nat /\ w # 0 /\ x.up = <<>> /\ x.down = <<>> /\ x.own = 0 /\ x.conv = conv
    BY LenProperties DEF ChatTyped
  <1>9. DOMAIN x.up = {} /\ DOMAIN x.down = {}
    BY <1>0
  <1> HIDE DEF x
  <1>1. /\ socks' \in Seq(Sockets) /\ Len(socks') = w /\ DOMAIN socks' = DOMAIN socks \cup {w}
        /\ client' \in Clients /\ client'.ws = w /\ socks'[w] = x
        /\ \A r \in DOMAIN socks : Calmer(socks[r], socks'[r])
    BY DEF Dials, x
  <1> HIDE DEF w
  <1>2. Grows /\ Stays
    BY <1>0, <1>1 DEF Grows, Stays, Calmer, w
  <1>3. NewFlows /\ NewOwns
    BY <1>0, <1>1 DEF NewFlows, NewOwns, Calmer
  <1>4. NewUps
    BY <1>1, <1>9 DEF NewUps, Calmer
  <1>5. NewDowns
    BY <1>1, <1>9 DEF NewDowns, Calmer
  <1>6. NewClient
    BY <1>0, <1>1 DEF NewClient
  <1> QED
    BY <1>0, <1>1, <1>2, <1>3, <1>4, <1>5, <1>6 DEF Moves

LEMMA OpenedMoves ==
  ASSUME ChatTyped, Refers, NEW s \in DOMAIN socks, socks' = Opened(s), client' \in Clients,
         client'.ws = client.ws, flows' = flows, conv' = conv
  PROVE  Moves
  <1>0. socks \in Seq(Sockets) /\ Len(socks) \in Nat /\ Len(flows) \in Nat
        /\ DOMAIN socks = 1..Len(socks) /\ flows \in Seq(Workflows) /\ client.ws \in 0..Len(socks)
    BY LenProperties DEF ChatTyped, Refers
  <1>1. /\ socks' \in Seq(Sockets) /\ Len(socks') = Len(socks) /\ DOMAIN socks' = DOMAIN socks
        /\ \A r \in DOMAIN socks :
             /\ socks'[r].up = socks[r].up /\ socks'[r].down = socks[r].down /\ socks'[r].own = socks[r].own
             /\ socks'[r].conv = socks[r].conv /\ socks'[r].expired = socks[r].expired
    BY OpenedSocket
  <1>2. Grows /\ Stays
    BY <1>0, <1>1 DEF Grows, Stays
  <1>3. NewFlows /\ NewOwns /\ NewClient
    BY <1>0, <1>1 DEF NewFlows, NewOwns, NewClient
  <1>4. NewUps
    BY <1>1 DEF NewUps
  <1>5. NewDowns
    BY <1>1 DEF NewDowns
  <1> QED
    BY <1>0, <1>1, <1>2, <1>3, <1>4, <1>5 DEF Moves

LEMMA SpeaksMoves ==
  ASSUME ChatTyped, Refers, NEW f \in DOMAIN flows, Speaks(f), client' = client, conv' = conv
  PROVE  Moves
  <1>0. socks \in Seq(Sockets) /\ Len(socks) \in Nat /\ Len(flows) \in Nat /\ client \in Clients
        /\ DOMAIN socks = 1..Len(socks) /\ flows \in Seq(Workflows) /\ client.ws \in 0..Len(socks)
    BY LenProperties DEF ChatTyped, Refers
  <1>2. Grows /\ Stays
    BY <1>0 DEF Grows, Stays, Speaks
  <1>3. NewFlows /\ NewOwns
    BY DEF NewFlows, NewOwns, Speaks
  <1>4. NewUps
    BY DEF NewUps, Speaks
  <1>5. NewDowns
    BY DEF NewDowns, Speaks
  <1>6. NewClient
    BY <1>0 DEF NewClient, Speaks
  <1> QED
    BY <1>0, <1>2, <1>3, <1>4, <1>5, <1>6 DEF Moves, Speaks

\* The network does something to the socket s.
LEMMA NetworkMoves ==
  ASSUME ChatTyped, Refers, NEW s \in DOMAIN socks, flows' = flows, client' = client, conv' = conv,
         \/ Loses(s)
         \/ /\ socks' \in Seq(Sockets) /\ Len(socks') = Len(socks) /\ DOMAIN socks' = DOMAIN socks
            /\ \A r \in DOMAIN socks : r # s => socks'[r] = socks[r]
            /\ socks'[s] = [socks[s] EXCEPT !.expired = TRUE]
  PROVE  Moves
  <1>0. socks \in Seq(Sockets) /\ Len(socks) \in Nat /\ Len(flows) \in Nat /\ client \in Clients
        /\ DOMAIN socks = 1..Len(socks) /\ flows \in Seq(Workflows) /\ client.ws \in 0..Len(socks)
        /\ socks[s] \in Sockets /\ socks[s].up \in Seq(Payloads)
    BY LenProperties, SocketFields DEF ChatTyped, Refers
  <1>1. /\ socks' \in Seq(Sockets) /\ Len(socks') = Len(socks) /\ DOMAIN socks' = DOMAIN socks
        /\ \A r \in DOMAIN socks : r # s => socks'[r] = socks[r]
    BY DEF Loses
  <1>2. /\ socks'[s].own = socks[s].own /\ socks'[s].conv = socks[s].conv
        /\ socks[s].expired => socks'[s].expired
        /\ \A i \in DOMAIN socks'[s].up : i \in DOMAIN socks[s].up /\ socks'[s].up[i] = socks[s].up[i]
        /\ \A i \in DOMAIN socks'[s].down : i \in DOMAIN socks[s].down /\ socks'[s].down[i] = socks[s].down[i]
    <2>1. CASE Loses(s)
      <3>1. PICK n \in 0..Len(socks[s].up) : socks'[s].up = SubSeq(socks[s].up, 1, n)
        BY <2>1 DEF Loses
      <3>2. /\ socks'[s].down = <<>>
            /\ socks'[s].own = socks[s].own /\ socks'[s].conv = socks[s].conv /\ socks'[s].expired = socks[s].expired
        BY <2>1 DEF Loses
      <3>3. \A i \in DOMAIN SubSeq(socks[s].up, 1, n) :
              i \in DOMAIN socks[s].up /\ SubSeq(socks[s].up, 1, n)[i] = socks[s].up[i]
        BY <1>0, SubSeqProperties, LenProperties
      <3> QED
        BY <3>1, <3>2, <3>3
    <2>2. CASE socks'[s] = [socks[s] EXCEPT !.expired = TRUE]
      BY <1>0, <2>2 DEF Sockets
    <2> QED
      BY <2>1, <2>2
  <1>9. \A r \in DOMAIN socks : /\ r \in DOMAIN socks' /\ socks'[r].conv = socks[r].conv
                                /\ socks[r].expired => socks'[r].expired
    BY <1>1, <1>2
  <1>3. Grows /\ Stays
    <2>1. Stays
      BY <1>9 DEF Stays
    <2>2. Grows
      BY <1>0, <1>1, <1>9 DEF Grows
    <2> QED
      BY <2>1, <2>2
  <1>4. NewFlows /\ NewOwns
    BY <1>1, <1>2 DEF NewFlows, NewOwns
  <1>5. NewUps
    BY <1>1, <1>2 DEF NewUps
  <1>6. NewDowns
    BY <1>1, <1>2 DEF NewDowns
  <1>7. NewClient
    BY <1>0, <1>1 DEF NewClient
  <1> QED
    BY <1>0, <1>1, <1>3, <1>4, <1>5, <1>6, <1>7 DEF Moves

LEMMA ReadsMoves ==
  ASSUME ChatTyped, Refers, NEW s \in DOMAIN socks, ReadsNext(s), client' = client, conv' = conv
  PROVE  Moves
  <1>0. socks \in Seq(Sockets) /\ Len(socks) \in Nat /\ Len(flows) \in Nat /\ client \in Clients
        /\ DOMAIN socks = 1..Len(socks) /\ flows \in Seq(Workflows) /\ client.ws \in 0..Len(socks)
        /\ socks[s].up \in Seq(Payloads) /\ DOMAIN flows = 1..Len(flows)
    BY LenProperties, SocketFields DEF ChatTyped, Refers
  <1>1. /\ socks' \in Seq(Sockets) /\ Len(socks') = Len(socks) /\ DOMAIN socks' = DOMAIN socks
        /\ \A r \in DOMAIN socks : r # s => socks'[r] = socks[r]
        /\ socks'[s].conv = socks[s].conv /\ socks'[s].expired = socks[s].expired /\ socks'[s].own = socks[s].own
        /\ socks'[s].up = Tail(socks[s].up) /\ socks[s].up # <<>>
    BY DEF ReadsNext
  <1>2. /\ 1 \in DOMAIN socks[s].up
        /\ \A i \in DOMAIN Tail(socks[s].up) :
             i + 1 \in DOMAIN socks[s].up /\ Tail(socks[s].up)[i] = socks[s].up[i + 1]
    BY <1>0, <1>1, HeadTailProperties, LenProperties
  <1>3. /\ flows' \in Seq(Workflows) /\ Len(flows) <= Len(flows')
        /\ \A g \in DOMAIN flows : /\ g \in DOMAIN flows' /\ flows'[g].sock = flows[g].sock
                                   /\ flows'[g].msg = flows[g].msg /\ flows'[g].id = flows[g].id
        /\ NewFlows
    <2>1. CASE /\ flows' \in Seq(Workflows) /\ Len(flows') = Len(flows) /\ DOMAIN flows' = DOMAIN flows
               /\ \A g \in DOMAIN flows :
                    flows'[g].sock = flows[g].sock /\ flows'[g].msg = flows[g].msg /\ flows'[g].id = flows[g].id
      BY <1>0, <2>1 DEF NewFlows
    <2>2. ASSUME NEW w \in Workflows, flows' = Append(flows, w), socks[s].up[1].kind = "message",
                 w.sock = s, w.msg = socks[s].up[1].msg
          PROVE  /\ flows' \in Seq(Workflows) /\ Len(flows) <= Len(flows')
                 /\ \A g \in DOMAIN flows : /\ g \in DOMAIN flows' /\ flows'[g].sock = flows[g].sock
                                            /\ flows'[g].msg = flows[g].msg /\ flows'[g].id = flows[g].id
                 /\ NewFlows
      <3>1. /\ flows' \in Seq(Workflows) /\ Len(flows') = Len(flows) + 1
            /\ \A g \in 1..Len(flows) : flows'[g] = flows[g]
            /\ flows'[Len(flows) + 1] = w
        BY <1>0, <2>2, AppendProperties
      <3>2. DOMAIN flows' = DOMAIN flows \cup {Len(flows) + 1}
        BY <1>0, <3>1, LenProperties
      <3>3. NewFlows
        BY <1>2, <2>2, <3>1, <3>2 DEF NewFlows
      <3> QED
        BY <1>0, <3>1, <3>2, <3>3
    <2> QED
      BY <2>1, <2>2 DEF ReadsNext
  <1>4. Grows /\ Stays
    <2>0. \A r \in DOMAIN socks : /\ r \in DOMAIN socks' /\ socks'[r].conv = socks[r].conv
                                  /\ socks[r].expired => socks'[r].expired
      BY <1>1
    <2>1. Stays
      BY <2>0 DEF Stays
    <2>2. Grows
      BY <1>0, <1>1, <1>3, <2>0 DEF Grows
    <2> QED
      BY <2>1, <2>2
  <1>5. NewOwns
    BY <1>1 DEF NewOwns
  <1>6. NewUps
    <2>1. \A i \in DOMAIN socks'[s].up : \E j \in DOMAIN socks[s].up : socks'[s].up[i] = socks[s].up[j]
      BY <1>1, <1>2
    <2>2. ASSUME NEW r \in DOMAIN socks', NEW i \in DOMAIN socks'[r].up
          PROVE  r \in DOMAIN socks /\ \E j \in DOMAIN socks[r].up : socks'[r].up[i] = socks[r].up[j]
      <3>1. CASE r = s
        BY <2>1, <3>1
      <3>2. CASE r # s
        <4>1. r \in DOMAIN socks /\ socks'[r] = socks[r]
          BY <1>1, <3>2
        <4> QED
          BY <2>2, <4>1
      <3> QED
        BY <3>1, <3>2
    <2> QED
      BY <2>2 DEF NewUps
  <1>7. NewDowns
    BY <1>1 DEF NewDowns, ReadsNext
  <1>8. NewClient
    BY <1>0, <1>1 DEF NewClient
  <1> QED
    BY <1>0, <1>1, <1>3, <1>4, <1>5, <1>6, <1>7, <1>8 DEF Moves

\* What sending p on s does to the sockets.
LEMMA SendsOn ==
  ASSUME ChatTyped, NEW p, NEW s \in DOMAIN socks, NEW ss,
         Len(ss) = Len(socks), DOMAIN ss = DOMAIN socks, ss[s] \in Sockets,
         \A r \in DOMAIN socks : r # s => ss[r] = socks[r],
         ss[s].up = socks[s].up, ss[s].down = socks[s].down, ss[s].expired = socks[s].expired,
         ss[s].conv = socks[s].conv, ss[s].own = socks[s].own, ss[s].link \in {"open", "lost"},
         Sends(p, s, ss)
  PROVE  /\ socks' \in Seq(Sockets) /\ Len(socks') = Len(socks) /\ DOMAIN socks' = DOMAIN socks
         /\ client' \in Clients /\ client'.ws = client.ws
         /\ \A r \in DOMAIN socks : r # s => socks'[r] = socks[r]
         /\ socks'[s].conv = socks[s].conv /\ socks'[s].expired = socks[s].expired
         /\ socks'[s].own = socks[s].own /\ socks'[s].down = socks[s].down
         /\ \/ socks'[s].link = "lost" /\ socks'[s].up = socks[s].up
            \/ socks'[s].link = "open" /\ socks'[s].up = Append(socks[s].up, Sent(p))
         /\ \A i \in DOMAIN socks'[s].up :
              \/ i \in DOMAIN socks[s].up /\ socks'[s].up[i] = socks[s].up[i]
              \/ i = Len(socks[s].up) + 1 /\ socks'[s].up[i] = Sent(p)
         /\ frames' = IF p.kind = "message" THEN frames + 1 ELSE frames
         /\ lastSent' = p /\ unack' = Sent(p) /\ Sent(p) \in Payloads
  <1>3. /\ socks' \in Seq(Sockets) /\ Len(socks') = Len(socks) /\ DOMAIN socks' = DOMAIN socks
        /\ client' \in Clients /\ client'.ws = client.ws
        /\ \A r \in DOMAIN socks : r # s => socks'[r] = socks[r]
        /\ frames' = IF p.kind = "message" THEN frames + 1 ELSE frames
        /\ lastSent' = p /\ unack' = Sent(p) /\ Sent(p) \in Payloads
    BY DEF Sends
  <1>4. CASE ss[s].link = "lost" /\ socks'[s] = ss[s]
    BY <1>3, <1>4
  <1>5. CASE ss[s].link # "lost" /\ socks'[s] = [ss[s] EXCEPT !.up = Append(@, Sent(p))]
    <2>1. socks[s].up \in Seq(Payloads)
      BY SocketFields DEF ChatTyped
    <2>2. /\ socks'[s].up = Append(socks[s].up, Sent(p)) /\ socks'[s].down = ss[s].down /\ socks'[s].own = ss[s].own
          /\ socks'[s].conv = ss[s].conv /\ socks'[s].expired = ss[s].expired /\ socks'[s].link = ss[s].link
      BY <1>5 DEF Sockets
    <2>3. /\ \A i \in 1..Len(socks[s].up) : Append(socks[s].up, Sent(p))[i] = socks[s].up[i]
          /\ Append(socks[s].up, Sent(p))[Len(socks[s].up) + 1] = Sent(p)
          /\ DOMAIN Append(socks[s].up, Sent(p)) = 1..(Len(socks[s].up) + 1)
          /\ DOMAIN socks[s].up = 1..Len(socks[s].up) /\ Len(socks[s].up) \in Nat
      BY <1>3, <2>1, AppendProperties, LenProperties
    <2>4. \A i \in DOMAIN socks'[s].up :
            \/ i \in DOMAIN socks[s].up /\ socks'[s].up[i] = socks[s].up[i]
            \/ i = Len(socks[s].up) + 1 /\ socks'[s].up[i] = Sent(p)
      BY <2>2, <2>3
    <2> QED
      BY <1>3, <1>5, <2>2, <2>4
  <1> QED
    BY <1>4, <1>5 DEF Sends

LEMMA SenderSockets ==
  ASSUME ChatTyped, NEW p, NEW s \in DOMAIN socks, Sender(p, s)
  PROVE  /\ socks' \in Seq(Sockets) /\ Len(socks') = Len(socks) /\ DOMAIN socks' = DOMAIN socks
         /\ client' \in Clients /\ client'.ws = client.ws
         /\ \A r \in DOMAIN socks : r # s => socks'[r] = socks[r]
         /\ socks'[s].conv = socks[s].conv /\ socks'[s].expired = socks[s].expired
         /\ socks'[s].own = socks[s].own /\ socks'[s].down = socks[s].down
         /\ \/ socks'[s].link = "lost" /\ socks'[s].up = socks[s].up
            \/ socks'[s].link = "open" /\ socks'[s].up = Append(socks[s].up, Sent(p))
         /\ \A i \in DOMAIN socks'[s].up :
              \/ i \in DOMAIN socks[s].up /\ socks'[s].up[i] = socks[s].up[i]
              \/ i = Len(socks[s].up) + 1 /\ socks'[s].up[i] = Sent(p)
         /\ frames' = IF p.kind = "message" THEN frames + 1 ELSE frames
         /\ lastSent' = p /\ unack' = Sent(p) /\ Sent(p) \in Payloads
  <1>1. CASE Sends(p, s, socks) /\ socks[s].link \in {"open", "lost"}
    <2>1. socks[s] \in Sockets
      BY SocketFields DEF ChatTyped
    <2> QED
      BY <1>1, <2>1, SendsOn
  <1>2. CASE Sends(p, s, Opened(s))
    <2>1. Opened(s)[s] \in Sockets
      BY OpenedSocket, SocketFields
    <2> QED
      BY <1>2, <2>1, OpenedSocket, SendsOn
  <1> QED
    BY <1>1, <1>2 DEF Sender

LEMMA SenderMoves ==
  ASSUME ChatTyped, Refers, NEW p \in Payloads, NEW s \in DOMAIN socks, Sender(p, s)
  PROVE  Moves
  <1>0. socks \in Seq(Sockets) /\ Len(socks) \in Nat /\ Len(flows) \in Nat /\ frames \in Nat
        /\ DOMAIN socks = 1..Len(socks) /\ flows \in Seq(Workflows) /\ client.ws \in 0..Len(socks)
        /\ flows' = flows /\ conv' = conv
    BY LenProperties DEF ChatTyped, Refers, HookTyped, Sender
  <1>1. /\ socks' \in Seq(Sockets) /\ Len(socks') = Len(socks) /\ DOMAIN socks' = DOMAIN socks
        /\ client' \in Clients /\ client'.ws = client.ws
        /\ \A r \in DOMAIN socks : r # s => socks'[r] = socks[r]
        /\ socks'[s].conv = socks[s].conv /\ socks'[s].expired = socks[s].expired
        /\ socks'[s].own = socks[s].own /\ socks'[s].down = socks[s].down
        /\ \A i \in DOMAIN socks'[s].up :
              \/ i \in DOMAIN socks[s].up /\ socks'[s].up[i] = socks[s].up[i]
              \/ i = Len(socks[s].up) + 1 /\ socks'[s].up[i] = Sent(p)
    BY <1>0, SenderSockets
  <1>2. \A r \in DOMAIN socks : /\ r \in DOMAIN socks' /\ socks'[r].conv = socks[r].conv
                                /\ socks[r].expired => socks'[r].expired
    BY <1>1
  <1>3. Stays
    BY <1>2 DEF Stays
  <1>4. Grows
    BY <1>0, <1>1, <1>2 DEF Grows
  <1>5. NewFlows /\ NewClient
    BY <1>0, <1>1 DEF NewFlows, NewClient
  <1>6. NewOwns
    BY <1>1 DEF NewOwns
  <1>7. NewDowns
    BY <1>1 DEF NewDowns
  <1>8. NewUps
    <2>1. ASSUME NEW r \in DOMAIN socks', NEW i \in DOMAIN socks'[r].up
          PROVE  \/ r \in DOMAIN socks /\ \E j \in DOMAIN socks[r].up : socks'[r].up[i] = socks[r].up[j]
                 \/ \E q \in Payloads : Sender(q, r) /\ socks'[r].up[i] = Sent(q)
      <3>1. CASE r = s
        BY <1>1, <2>1, <3>1
      <3>2. CASE r # s
        <4>1. r \in DOMAIN socks /\ socks'[r] = socks[r]
          BY <1>1, <3>2
        <4> QED
          BY <2>1, <4>1
      <3> QED
        BY <3>1, <3>2
    <2> QED
      BY <2>1 DEF NewUps
  <1> QED
    BY <1>0, <1>1, <1>3, <1>4, <1>5, <1>6, <1>7, <1>8 DEF Moves

LEMMA ChatMoves ==
  ASSUME ChatTyped, Refers, ChatStep PROVE Moves
  BY CalmMoves, DialMoves, OpenedMoves, SpeaksMoves, NetworkMoves, ReadsMoves, SenderMoves DEF ChatStep

LEMMA ChatTypes ==
  ASSUME ChatTyped, Refers, Links, ChatNext PROVE ChatTyped'
  <1>1. HookTyped' /\ FlagsTyped'
    BY TimerTypes, LossTypes, ServerTypes, SocketTypes, UserTypes, OpensTypes, ReceivesTypes
    DEF ChatNext, Browser, Server, User, Environment
  <1>2. client' \in Clients /\ socks' \in Seq(Sockets) /\ flows' \in Seq(Workflows)
    BY ChatSteps, ChatMoves DEF Moves
  <1> QED
    BY <1>1, <1>2 DEF ChatTyped

-----------------------------------------------------------------------------
(* Conversations are kept apart.                                           *)

\* Workflow f has asked in conversation c, as far as the browser knows.
Known(f, c) ==
  \/ \E i \in DOMAIN asked[c] : asked[c][i] = f
  \/ c = conv /\ f = prompt /\ prompt # 0
  \/ /\ c = conv /\ client.ws \in DOMAIN socks
     /\ \E i \in DOMAIN socks[client.ws].down :
          socks[client.ws].down[i].kind = "prompt" /\ socks[client.ws].down[i].flow = f

NewPrompts ==
  /\ prompt' # 0 => Known(prompt', conv')
  /\ \A c \in Convs : \A i \in DOMAIN asked'[c] : Known(asked'[c][i], c)

NewRoutes ==
  \A c \in Convs :
    /\ \/ route'[c] \in {0, route[c]}
       \/ route'[c] \in DOMAIN socks /\ socks[route'[c]].conv = c
    /\ pend'[c] \in {0, pend[c]} \/ pend'[c] \in DOMAIN flows

NewPayloads ==
  /\ wrote' \in {wrote, Append(wrote, conv)}
  /\ \A p \in {pending', lastSent', unack'} : p.kind = "message" =>
       /\ conv' = conv
       /\ \/ \E q \in {pending, lastSent, unack} : q.kind = "message" /\ q.msg = p.msg
          \/ wrote' = Append(wrote, conv) /\ p.msg = Len(wrote) + 1

LEMMA ChatPrompts ==
  ASSUME ChatTyped, Refers, ChatNext PROVE NewPrompts
  <1>1. CASE prompt' \in {0, prompt} /\ asked' = asked /\ conv' = conv
    BY <1>1 DEF NewPrompts, Known
  <1>2. CASE Respond
    <2>1. prompt' = 0 /\ asked' = [asked EXCEPT ![conv] = IF asked[conv] = <<>> THEN asked[conv]
                                             ELSE SubSeq(asked[conv], 1, Len(asked[conv]) - 1)]
      BY <1>2 DEF Respond
    <2>2. asked \in [Convs -> Seq(Nat)] /\ asked[conv] \in Seq(Nat) /\ Len(asked[conv]) \in Nat
      BY DEF ChatTyped, HookTyped
    <2>3. asked[conv] # <<>> =>
            \A i \in DOMAIN SubSeq(asked[conv], 1, Len(asked[conv]) - 1) :
               /\ i \in DOMAIN asked[conv]
               /\ SubSeq(asked[conv], 1, Len(asked[conv]) - 1)[i] = asked[conv][i]
      BY <2>2, SubSeqProperties, LenProperties, EmptySeq
    <2>4. ASSUME NEW c \in Convs, NEW i \in DOMAIN asked'[c] PROVE Known(asked'[c][i], c)
      <3>1. i \in DOMAIN asked[c] /\ asked'[c][i] = asked[c][i]
        BY <2>1, <2>2, <2>3, <2>4
      <3> QED
        BY <3>1 DEF Known
    <2> QED
      BY <2>1, <2>4 DEF NewPrompts
  <1>3. ASSUME NEW c \in Convs, SelectConversation(c) PROVE NewPrompts
    <2>1. asked' = asked /\ conv' = c /\ prompt' = IF asked[c] = <<>> THEN 0 ELSE asked[c][Len(asked[c])]
      BY <1>3 DEF SelectConversation
    <2>2. asked[c] \in Seq(Nat) /\ (asked[c] # <<>> => Len(asked[c]) \in DOMAIN asked[c])
      BY EmptySeq, LenProperties DEF ChatTyped, HookTyped
    <2> QED
      BY <2>1, <2>2 DEF NewPrompts, Known
  <1>4. ASSUME NEW s \in DOMAIN socks, Receives(s) PROVE NewPrompts
    <2> DEFINE m == Head(socks[s].down)
    <2>1. \/ prompt' \in {0, prompt} /\ asked' = asked /\ conv' = conv
          \/ client.ws = s /\ m.kind = "prompt" /\ OnHumanPrompt(m) /\ conv' = conv
      BY <1>4 DEF Receives, OnStep, OnResponse, OnError, OnAuthExpired, GiveUp
    <2>2. CASE client.ws = s /\ m.kind = "prompt" /\ OnHumanPrompt(m) /\ conv' = conv
      <3>1. socks[s].down \in Seq(Replies) /\ socks[s].down # <<>>
        BY <1>4, SocketFields DEF ChatTyped, Receives
      <3>2. 1 \in DOMAIN socks[s].down /\ m = socks[s].down[1] /\ m \in Replies
        BY <3>1, HeadTailProperties, LenProperties, EmptySeq
      <3> HIDE DEF m
      <3>3. Known(m.flow, conv)
        BY <2>2, <3>2 DEF Known
      <3>4. prompt' = m.flow /\ asked' = [asked EXCEPT ![conv] = Append(asked[conv], m.flow)]
        BY <2>2 DEF OnHumanPrompt
      <3>5. /\ asked \in [Convs -> Seq(Nat)] /\ asked[conv] \in Seq(Nat) /\ Len(asked[conv]) \in Nat
            /\ conv \in Convs /\ m.flow \in Nat
        BY <3>2 DEF ChatTyped, HookTyped, Replies
      <3>6. \A i \in DOMAIN Append(asked[conv], m.flow) :
              \/ i \in DOMAIN asked[conv] /\ Append(asked[conv], m.flow)[i] = asked[conv][i]
              \/ Append(asked[conv], m.flow)[i] = m.flow
        BY <3>5, AppendProperties, LenProperties
      <3>7. ASSUME NEW c \in Convs, NEW i \in DOMAIN asked'[c] PROVE Known(asked'[c][i], c)
        <4>1. CASE i \in DOMAIN asked[c] /\ asked'[c][i] = asked[c][i]
          BY <4>1 DEF Known
        <4>2. CASE c = conv /\ asked'[c][i] = m.flow
          BY <3>3, <4>2
        <4> QED
          BY <3>4, <3>5, <3>6, <3>7, <4>1, <4>2
      <3> QED
        BY <2>2, <3>3, <3>4, <3>7 DEF NewPrompts
    <2> QED
      BY <1>1, <2>1, <2>2
  <1>5. ASSUME \/ Redial \/ HealthChecked \/ Recovers \/ Stop \/ AckTimeout \/ SoftTimer \/ DeferredRotation
               \/ DialResolves \/ SendMessage
        PROVE  prompt' \in {0, prompt} /\ asked' = asked /\ conv' = conv
    BY <1>5 DEF Redial, HealthChecked, Recovers, Stop, AckTimeout, SoftTimer, DeferredRotation, DialResolves,
       SendMessage, GiveUp, hookVars
  <1>6. ASSUME NEW s \in DOMAIN socks,
               Opens(s) \/ Closes(s) \/ Refused(s) \/ Reads(s) \/ ReadsAgain(s) \/ Disconnected(s) \/ Lose(s) \/ Expire(s)
        PROVE  prompt' \in {0, prompt} /\ asked' = asked /\ conv' = conv
    BY <1>6 DEF Opens, Closes, Refused, Reads, ReadsAgain, Disconnected, Lose, Expire, CloseSeen, LosesConnection,
       hookVars
  <1>7. ASSUME NEW f \in DOMAIN flows,
               Step(f) \/ Asks(f) \/ Resumes(f) \/ Ends(f, "final") \/ Ends(f, "error") \/ Ends(f, "raised")
        PROVE  prompt' \in {0, prompt} /\ asked' = asked /\ conv' = conv
    BY <1>7 DEF Step, Asks, Resumes, Ends, hookVars
  <1> QED
    BY <1>1, <1>2, <1>3, <1>4, <1>5, <1>6, <1>7 DEF ChatNext, Browser, Server, User, Environment

LEMMA ChatRoutes ==
  ASSUME ChatTyped, Refers, ChatNext PROVE NewRoutes
  <1>0. route \in [Convs -> Nat] /\ pend \in [Convs -> Nat]
    BY DEF ChatTyped, HookTyped
  <1>1. CASE route' = route /\ pend' = pend
    BY <1>1 DEF NewRoutes
  <1>2. ASSUME NEW s \in DOMAIN socks, Reads(s) \/ ReadsAgain(s) \/ Disconnected(s) PROVE NewRoutes
    <2>1. /\ route' = route \/ route' = [route EXCEPT ![socks[s].conv] = s]
                            \/ route' = [route EXCEPT ![socks[s].conv] = 0]
          /\ pend' = pend \/ pend' = [pend EXCEPT ![socks[s].conv] = 0]
      BY <1>2 DEF Reads, ReadsAgain, Disconnected
    <2> QED
      BY <1>0, <2>1 DEF NewRoutes
  <1>3. ASSUME NEW f \in DOMAIN flows, Asks(f) \/ Resumes(f) PROVE NewRoutes
    <2>1. route' = route /\ (pend' = [pend EXCEPT ![socks[flows[f].sock].conv] = f]
                             \/ pend' = [pend EXCEPT ![socks[flows[f].sock].conv] = 0])
      BY <1>3 DEF Asks, Resumes
    <2> QED
      BY <1>0, <2>1 DEF NewRoutes
  <1>4. ASSUME \/ Redial \/ HealthChecked \/ Recovers \/ Stop \/ AckTimeout \/ SoftTimer \/ DeferredRotation
               \/ DialResolves \/ SendMessage \/ Respond \/ \E c \in Convs : SelectConversation(c)
        PROVE  route' = route /\ pend' = pend
    BY <1>4 DEF Redial, HealthChecked, Recovers, Stop, AckTimeout, SoftTimer, DeferredRotation, DialResolves,
       SendMessage, Respond, SelectConversation, serverVars
  <1>5. ASSUME NEW s \in DOMAIN socks, Opens(s) \/ Closes(s) \/ Refused(s) \/ Receives(s) \/ Lose(s) \/ Expire(s)
        PROVE  route' = route /\ pend' = pend
    BY <1>5 DEF Opens, Closes, Refused, Receives, Lose, Expire, serverVars
  <1>6. ASSUME NEW f \in DOMAIN flows, Step(f) \/ Ends(f, "final") \/ Ends(f, "error") \/ Ends(f, "raised")
        PROVE  route' = route /\ pend' = pend
    BY <1>6 DEF Step, Ends
  <1> QED
    BY <1>1, <1>2, <1>3, <1>4, <1>5, <1>6 DEF ChatNext, Browser, Server, User, Environment

LEMMA ChatPayloads ==
  ASSUME ChatTyped, Refers, ChatStep PROVE NewPayloads
  <1>0. /\ Nothing.kind = "none" /\ NewMessage.msg = Len(wrote) + 1
        /\ [unack EXCEPT !.retry = 1].kind = unack.kind /\ [unack EXCEPT !.retry = 1].msg = unack.msg
    BY NothingTyped, NewTyped DEF ChatTyped, HookTyped
  <1>1. CASE Fades
    <2>1. wrote' \in {wrote, Append(wrote, conv)}
      BY <1>1 DEF Fades
    <2>2. /\ unack'.kind = "message" => conv' = conv /\ unack' = unack
          /\ lastSent'.kind = "message" => conv' = conv /\ lastSent' = lastSent
      BY <1>0, <1>1 DEF Fades
    <2>3. pending'.kind = "message" =>
             /\ conv' = conv
             /\ \/ \E q \in {pending, lastSent, unack} : q.kind = "message" /\ q.msg = pending'.msg
                \/ wrote' = Append(wrote, conv) /\ pending'.msg = Len(wrote) + 1
      BY <1>0, <1>1 DEF Fades
    <2> QED
      BY <2>1, <2>2, <2>3 DEF NewPayloads
  <1>2. ASSUME NEW p \in Payloads, NEW s \in DOMAIN socks, Sender(p, s) PROVE NewPayloads
    <2>1. /\ conv' = conv /\ wrote' \in {wrote, Append(wrote, conv)}
          /\ pending' \in {pending, Nothing}
          /\ \/ p = pending
             \/ p.kind = "answer"
             \/ wrote' = Append(wrote, conv) /\ p.msg = Len(wrote) + 1
      BY <1>0, <1>2 DEF Sender
    <2>2. lastSent' = p /\ unack' = Sent(p) /\ Sent(p).kind = p.kind /\ Sent(p).msg = p.msg
      BY <1>2, SenderSockets, SentPayload DEF ChatTyped, HookTyped
    <2> QED
      BY <1>0, <2>1, <2>2 DEF NewPayloads
  <1> QED
    BY <1>1, <1>2 DEF ChatStep

LEMMA WroteGrows ==
  ASSUME ChatTyped, NewPayloads
  PROVE  /\ \A m \in DOMAIN wrote : m \in DOMAIN wrote' /\ wrote'[m] = wrote[m]
         /\ wrote' = Append(wrote, conv) =>
              Len(wrote) + 1 \in DOMAIN wrote' /\ wrote'[Len(wrote) + 1] = conv
  <1>1. wrote \in Seq(Convs) /\ conv \in Convs /\ Len(wrote) \in Nat /\ DOMAIN wrote = 1..Len(wrote)
    BY LenProperties DEF ChatTyped, HookTyped
  <1>2. /\ \A m \in 1..Len(wrote) : Append(wrote, conv)[m] = wrote[m]
        /\ Append(wrote, conv)[Len(wrote) + 1] = conv
        /\ DOMAIN Append(wrote, conv) = 1..(Len(wrote) + 1)
    BY <1>1, AppendProperties, LenProperties
  <1> QED
    BY <1>1, <1>2 DEF NewPayloads

\* The messages the hook keeps are of the conversation that is open.
LEMMA PayloadsOwned ==
  ASSUME ChatTyped, Refers, StaysInConversation, NewPayloads,
         NEW p \in {pending', lastSent', unack'}, p.kind = "message"
  PROVE  p.msg \in DOMAIN wrote' /\ wrote'[p.msg] = conv' /\ conv' = conv
  <1>1. CASE \E q \in {pending, lastSent, unack} : q.kind = "message" /\ q.msg = p.msg
    BY <1>1, WroteGrows DEF NewPayloads, Refers, StaysInConversation
  <1>2. CASE wrote' = Append(wrote, conv) /\ p.msg = Len(wrote) + 1
    BY <1>2, WroteGrows DEF NewPayloads
  <1> QED
    BY <1>1, <1>2 DEF NewPayloads

LEMMA KnownOwned ==
  ASSUME ChatTyped, Refers, SocketsOwned, PromptsOwned, StaysInConversation,
         NEW c \in Convs, NEW f, Known(f, c)
  PROVE  f \in DOMAIN flows /\ socks[flows[f].sock].conv = c
  <1>1. CASE \E i \in DOMAIN asked[c] : asked[c][i] = f
    BY <1>1 DEF Refers, PromptsOwned
  <1>2. CASE c = conv /\ f = prompt /\ prompt # 0
    <2>1. prompt \in DOMAIN flows
      BY <1>2, LenProperties DEF ChatTyped, Refers
    <2> QED
      BY <1>2, <2>1 DEF StaysInConversation
  <1>3. CASE /\ c = conv /\ client.ws \in DOMAIN socks
             /\ \E i \in DOMAIN socks[client.ws].down :
                  socks[client.ws].down[i].kind = "prompt" /\ socks[client.ws].down[i].flow = f
    <2>1. client.ws # 0
      BY <1>3, LenProperties DEF ChatTyped
    <2> QED
      BY <1>3, <2>1 DEF Refers, SocketsOwned
  <1> QED
    BY <1>1, <1>2, <1>3 DEF Known

\* A workflow keeps its conversation.
LEMMA FlowStays ==
  ASSUME ChatTyped, Refers, Moves, NEW f \in DOMAIN flows
  PROVE  /\ f \in DOMAIN flows' /\ flows'[f].sock \in DOMAIN socks' /\ flows'[f].sock \in DOMAIN socks
         /\ socks'[flows'[f].sock].conv = socks[flows[f].sock].conv
         /\ flows'[f].msg = flows[f].msg
  BY DEF Moves, Grows, Refers

LEMMA SentMessage ==
  ASSUME ChatTyped, Refers, StaysInConversation, SocketsOwned, NewPayloads, NEW p \in Payloads, NEW s \in DOMAIN socks,
         Sender(p, s), p.kind = "message"
  PROVE  Sent(p).msg \in DOMAIN wrote' /\ wrote'[Sent(p).msg] = socks[s].conv
  <1>1. lastSent' = p /\ Sent(p).msg = p.msg
    BY SenderSockets, SentPayload DEF ChatTyped, HookTyped
  <1>2. s = client.ws /\ s # 0
    BY SocketFields DEF Sender, ChatTyped
  <1>3. socks[s].conv = conv
    BY <1>2 DEF SocketsOwned
  <1> QED
    BY <1>1, <1>3, PayloadsOwned

\* What a socket carries after the step.
LEMMA UpsOwned ==
  ASSUME ChatTyped, Refers, StaysInConversation, SocketsOwned, NewPayloads, Moves,
         NEW s \in DOMAIN socks', NEW i \in DOMAIN socks'[s].up, socks'[s].up[i].kind = "message"
  PROVE  socks'[s].up[i].msg \in DOMAIN wrote' /\ wrote'[socks'[s].up[i].msg] = socks'[s].conv
  <1>1. CASE s \in DOMAIN socks /\ \E j \in DOMAIN socks[s].up : socks'[s].up[i] = socks[s].up[j]
    <2>1. PICK j \in DOMAIN socks[s].up : socks'[s].up[i] = socks[s].up[j]
      BY <1>1
    <2>2. socks[s].up[j].msg \in DOMAIN wrote /\ wrote[socks[s].up[j].msg] = socks[s].conv
      BY <1>1, <2>1 DEF Refers, SocketsOwned
    <2> QED
      BY <1>1, <2>1, <2>2, WroteGrows DEF Moves, Grows
  <1>2. ASSUME NEW p \in Payloads, Sender(p, s), socks'[s].up[i] = Sent(p)
        PROVE  socks'[s].up[i].msg \in DOMAIN wrote' /\ wrote'[socks'[s].up[i].msg] = socks'[s].conv
    <2>1. s \in DOMAIN socks /\ p.kind = "message"
      BY <1>2, SentPayload DEF Sender, ChatTyped, HookTyped
    <2>2. socks'[s].conv = socks[s].conv
      BY <2>1 DEF Moves, Grows
    <2> QED
      BY <1>2, <2>1, <2>2, SentMessage
  <1> QED
    BY <1>1, <1>2 DEF Moves, NewUps

LEMMA DownsOwned ==
  ASSUME ChatTyped, Refers, SocketsOwned, Moves,
         NEW s \in DOMAIN socks', NEW i \in DOMAIN socks'[s].down, socks'[s].down[i].kind = "prompt"
  PROVE  LET f == socks'[s].down[i].flow
         IN  f \in DOMAIN flows' /\ socks'[flows'[f].sock].conv = socks'[s].conv
  <1>0. s \in DOMAIN socks /\ socks'[s].conv = socks[s].conv
    BY DEF Moves, Grows, NewDowns
  <1>1. CASE \E j \in DOMAIN socks[s].down : socks'[s].down[i] = socks[s].down[j]
    BY <1>0, <1>1, FlowStays DEF Refers, SocketsOwned
  <1>2. CASE \E f \in DOMAIN flows : s = RouteOf(f) /\ socks'[s].down[i].flow = f
    <2>1. PICK f \in DOMAIN flows : s = RouteOf(f) /\ socks'[s].down[i].flow = f
      BY <1>2
    <2>2. socks[flows[f].sock].conv \in Convs /\ s # 0
      BY <1>0, SocketFields DEF Refers, ChatTyped
    <2>3. socks[s].conv = socks[flows[f].sock].conv
      BY <2>1, <2>2 DEF SocketsOwned, RouteOf
    <2> QED
      BY <1>0, <2>1, <2>3, FlowStays
  <1> QED
    BY <1>1, <1>2 DEF Moves, NewDowns

LEMMA FlowsOwned ==
  ASSUME ChatTyped, Refers, StaysInConversation, SocketsOwned, NewPayloads, Moves, NEW g \in DOMAIN flows'
  PROVE  /\ flows'[g].sock \in DOMAIN socks' /\ flows'[g].msg \in DOMAIN wrote'
         /\ wrote'[flows'[g].msg] = socks'[flows'[g].sock].conv
  <1>1. CASE g \in DOMAIN flows
    <2>1. flows[g].msg \in DOMAIN wrote /\ wrote[flows[g].msg] = socks[flows[g].sock].conv
      BY <1>1 DEF Refers, StaysInConversation
    <2> QED
      BY <1>1, <2>1, FlowStays, WroteGrows
  <1>2. CASE g \notin DOMAIN flows
    <2>0. PICK s \in DOMAIN socks : \E i \in DOMAIN socks[s].up :
             /\ socks[s].up[i].kind = "message" /\ flows'[g].sock = s
             /\ flows'[g].msg = socks[s].up[i].msg
      BY <1>2 DEF Moves, NewFlows
    <2>1. PICK i \in DOMAIN socks[s].up :
             /\ socks[s].up[i].kind = "message" /\ flows'[g].sock = s
             /\ flows'[g].msg = socks[s].up[i].msg
      BY <2>0
    <2>2. socks[s].up[i].msg \in DOMAIN wrote /\ wrote[socks[s].up[i].msg] = socks[s].conv
      BY <2>1 DEF Refers, SocketsOwned
    <2>3. s \in DOMAIN socks' /\ socks'[s].conv = socks[s].conv
      BY DEF Moves, Grows
    <2> QED
      BY <2>1, <2>2, <2>3, WroteGrows
  <1> QED
    BY <1>1, <1>2

LEMMA RoutesOwned ==
  ASSUME ChatTyped, ChatTyped', Refers, SocketsOwned, Moves, NewRoutes, NEW c \in Convs
  PROVE  /\ route'[c] \in 0..Len(socks') /\ pend'[c] \in 0..Len(flows')
         /\ route'[c] # 0 => socks'[route'[c]].conv = c
  <1>0. /\ DOMAIN socks = 1..Len(socks) /\ DOMAIN flows = 1..Len(flows) /\ Len(socks) \in Nat /\ Len(flows) \in Nat
        /\ Len(socks') \in Nat /\ Len(flows') \in Nat /\ Len(socks) <= Len(socks') /\ Len(flows) <= Len(flows')
    BY LenProperties DEF ChatTyped, Moves, Grows
  <1>1. route[c] \in 0..Len(socks) /\ pend[c] \in 0..Len(flows)
    BY DEF Refers
  <1>2. route'[c] # 0 => route'[c] \in DOMAIN socks /\ socks[route'[c]].conv = c
    BY <1>0, <1>1 DEF NewRoutes, SocketsOwned
  <1>3. pend'[c] \in 0..Len(flows')
    BY <1>0, <1>1 DEF NewRoutes
  <1>4. route'[c] # 0 => socks'[route'[c]].conv = c
    BY <1>2 DEF Moves, Grows
  <1> QED
    BY <1>0, <1>2, <1>3, <1>4

\* The references and the conversations after the step.
LEMMA ChatIsolated ==
  ASSUME ChatTyped, ChatTyped', Refers, SocketsOwned, PromptsOwned, StaysInConversation,
         Moves, NewRoutes, NewPrompts, NewPayloads
  PROVE  Refers' /\ SocketsOwned' /\ PromptsOwned' /\ StaysInConversation'
  <1>0. /\ DOMAIN flows' = 1..Len(flows') /\ Len(flows') \in Nat /\ DOMAIN flows = 1..Len(flows) /\ Len(flows) \in Nat
        /\ DOMAIN socks' = 1..Len(socks') /\ Len(socks') \in Nat /\ conv' \in Convs
    BY LenProperties DEF ChatTyped, HookTyped
  <1>1. /\ client'.ws \in 0..Len(socks')
        /\ client'.ws # 0 => socks'[client'.ws].conv = conv'
    <2>1. CASE client'.ws = 0
      BY <1>0, <2>1
    <2>2. CASE client'.ws # 0
      <3>1. conv' = conv /\ client'.ws \in DOMAIN socks' /\ (client'.ws = client.ws \/ socks'[client'.ws].conv = conv)
        BY <2>2 DEF Moves, NewClient
      <3>2. client'.ws = client.ws => client.ws \in DOMAIN socks /\ socks[client.ws].conv = conv
        BY <2>2, LenProperties DEF Refers, SocketsOwned, ChatTyped
      <3>3. client'.ws = client.ws => socks'[client'.ws].conv = conv
        BY <3>2 DEF Moves, Grows
      <3> QED
        BY <1>0, <3>1, <3>3
    <2> QED
      BY <2>1, <2>2
  <1>2. /\ prompt' \in 0..Len(flows')
        /\ prompt' # 0 => socks'[flows'[prompt'].sock].conv = conv'
    <2>1. prompt' # 0 => prompt' \in DOMAIN flows /\ socks[flows[prompt'].sock].conv = conv'
      BY <1>0, KnownOwned DEF NewPrompts
    <2>2. prompt' # 0 => prompt' \in DOMAIN flows' /\ socks'[flows'[prompt'].sock].conv = conv'
      BY <2>1, FlowStays
    <2> QED
      BY <1>0, <2>2
  <1>3. \A c \in Convs : \A i \in DOMAIN asked'[c] :
           asked'[c][i] \in DOMAIN flows' /\ socks'[flows'[asked'[c][i]].sock].conv = c
    BY KnownOwned, FlowStays DEF NewPrompts
  <1>4. \A s \in DOMAIN socks' : socks'[s].own \in 0..Len(flows')
    BY <1>0 DEF Moves, NewOwns, Grows, Refers
  <1>5. \A p \in {pending', lastSent', unack'} : p.kind = "message" => p.msg \in DOMAIN wrote' /\ wrote'[p.msg] = conv'
    BY PayloadsOwned
  <1>6. Refers'
    <2>1. \A c \in Convs : route'[c] \in 0..Len(socks') /\ pend'[c] \in 0..Len(flows')
      BY RoutesOwned
    <2>2. \A f \in DOMAIN flows' : flows'[f].sock \in DOMAIN socks' /\ flows'[f].msg \in DOMAIN wrote'
      BY FlowsOwned
    <2>3. \A s \in DOMAIN socks' :
            \A i \in DOMAIN socks'[s].up : socks'[s].up[i].kind = "message" => socks'[s].up[i].msg \in DOMAIN wrote'
      BY UpsOwned
    <2>4. \A s \in DOMAIN socks' :
            \A i \in DOMAIN socks'[s].down : socks'[s].down[i].kind = "prompt" => socks'[s].down[i].flow \in DOMAIN flows'
      BY DownsOwned
    <2> QED
      BY <1>1, <1>2, <1>3, <1>4, <1>5, <2>1, <2>2, <2>3, <2>4 DEF Refers
  <1>7. SocketsOwned'
    <2>1. \A c \in Convs : route'[c] # 0 => socks'[route'[c]].conv = c
      BY RoutesOwned
    <2>2. \A s \in DOMAIN socks' :
            \A i \in DOMAIN socks'[s].up : socks'[s].up[i].kind = "message" => wrote'[socks'[s].up[i].msg] = socks'[s].conv
      BY UpsOwned
    <2>3. \A s \in DOMAIN socks' :
            \A i \in DOMAIN socks'[s].down : socks'[s].down[i].kind = "prompt" =>
              socks'[flows'[socks'[s].down[i].flow].sock].conv = socks'[s].conv
      BY DownsOwned
    <2> QED
      BY <1>1, <2>1, <2>2, <2>3 DEF SocketsOwned
  <1>8. PromptsOwned'
    BY <1>3 DEF PromptsOwned
  <1>9. StaysInConversation'
    <2>1. \A f \in DOMAIN flows' : wrote'[flows'[f].msg] = socks'[flows'[f].sock].conv
      BY FlowsOwned
    <2> QED
      BY <1>2, <1>5, <2>1 DEF StaysInConversation
  <1> QED
    BY <1>6, <1>7, <1>8, <1>9

-----------------------------------------------------------------------------
(* Frames are numbered, and a dialled socket carries nothing.              *)

LEMMA NoElements ==
  ASSUME NEW S, NEW q \in Seq(S), DOMAIN q = {} PROVE q = <<>>
  <1>1. Len(q) \in Nat /\ DOMAIN q = 1..Len(q)
    BY LenProperties
  <1>2. Len(q) = 0
    BY <1>1
  <1> QED
    BY <1>2, EmptySeq

LEMMA AuthTold ==
  ASSUME Links, Moves, NEW s \in DOMAIN socks', NEW i \in DOMAIN socks'[s].down,
         socks'[s].down[i].kind = "auth_expired"
  PROVE  socks'[s].expired
  <1>1. s \in DOMAIN socks
    BY DEF Moves, NewDowns
  <1>2. socks[s].expired
    BY <1>1 DEF Moves, NewDowns, Links
  <1> QED
    BY <1>1, <1>2 DEF Moves, Stays

\* A socket that is dialled after a step that does not dial was so before.
LEMMA DialledStays ==
  ASSUME ChatTyped, Refers, Links, NEW s \in DOMAIN socks, s \in DOMAIN socks', socks'[s] \in Sockets,
         socks[s].link = "dialled", socks'[s].up = socks[s].up, socks'[s].expired = socks[s].expired,
         \A i \in DOMAIN socks'[s].down : \E j \in DOMAIN socks[s].down : socks'[s].down[i] = socks[s].down[j]
  PROVE  client.ws = s /\ ~socks'[s].expired /\ socks'[s].up = <<>> /\ socks'[s].down = <<>>
  <1>1. client.ws = s /\ ~socks[s].expired /\ socks[s].up = <<>> /\ socks[s].down = <<>>
    BY DEF Links
  <1>2. DOMAIN socks'[s].down = {} /\ socks'[s].down \in Seq(Replies)
    BY <1>1 DEF Sockets
  <1> QED
    BY <1>1, <1>2, NoElements

LEMMA CalmLinks ==
  ASSUME ChatTyped, Refers, Links, Calms(socks), NEW s \in DOMAIN socks', socks'[s].link = "dialled"
  PROVE  client'.ws = s /\ ~socks'[s].expired /\ socks'[s].up = <<>> /\ socks'[s].down = <<>>
  <1>1. s \in DOMAIN socks /\ socks'[s] \in Sockets
    BY SocketFields DEF Calms
  <1>2. Calmer(socks[s], socks'[s])
    BY <1>1 DEF Calms
  <1>3. client.ws = s /\ ~socks'[s].expired /\ socks'[s].up = <<>> /\ socks'[s].down = <<>>
    BY <1>1, <1>2, DialledStays DEF Calmer
  <1>4. client'.ws = client.ws
    BY <1>3 DEF Calms
  <1> QED
    BY <1>3, <1>4

LEMMA DialLinks ==
  ASSUME ChatTyped, Refers, Links, Dials, NEW s \in DOMAIN socks', socks'[s].link = "dialled"
  PROVE  client'.ws = s /\ ~socks'[s].expired /\ socks'[s].up = <<>> /\ socks'[s].down = <<>>
  <1>1. CASE s = Len(socks) + 1
    BY <1>1 DEF Dials
  <1>2. CASE s # Len(socks) + 1
    <2>1. s \in DOMAIN socks /\ Calmer(socks[s], socks'[s]) /\ s # 0
      BY <1>2, LenProperties DEF Dials, ChatTyped
    <2>2. socks[s].link = "dialled"
      BY <2>1 DEF Calmer
    <2>3. client.ws = s
      BY <2>1, <2>2 DEF Links
    <2> QED
      BY <2>1, <2>3 DEF Dials
  <1> QED
    BY <1>1, <1>2

LEMMA OtherLinks ==
  ASSUME ChatTyped, Refers, Links, ChatStep, Moves, ~(Calms(socks)), ~Dials,
         NEW s \in DOMAIN socks', socks'[s].link = "dialled"
  PROVE  client'.ws = s /\ ~socks'[s].expired /\ socks'[s].up = <<>> /\ socks'[s].down = <<>>
  <1>0. socks'[s] \in Sockets
    BY SocketFields DEF Moves
  <1>1. ASSUME NEW r \in DOMAIN socks, DOMAIN socks' = DOMAIN socks, socks'[r].link # "dialled", client'.ws = client.ws,
               \A t \in DOMAIN socks : t # r => socks'[t] = socks[t]
        PROVE  client'.ws = s /\ ~socks'[s].expired /\ socks'[s].up = <<>> /\ socks'[s].down = <<>>
    BY <1>1 DEF Links
  <1>2. ASSUME NEW r \in DOMAIN socks, socks' = Opened(r), client'.ws = client.ws
        PROVE  DOMAIN socks' = DOMAIN socks /\ socks'[r].link # "dialled" /\ \A t \in DOMAIN socks : t # r => socks'[t] = socks[t]
    BY <1>2, OpenedSocket
  <1>3. ASSUME NEW f \in DOMAIN flows, Speaks(f), client' = client
        PROVE  client'.ws = s /\ ~socks'[s].expired /\ socks'[s].up = <<>> /\ socks'[s].down = <<>>
    <2>1. s \in DOMAIN socks /\ socks[s].link = "dialled"
      BY <1>3 DEF Speaks
    <2>2. socks'[s].down = socks[s].down /\ socks'[s].up = socks[s].up /\ socks'[s].expired = socks[s].expired
      BY <1>3, <2>1 DEF Speaks
    <2> QED
      BY <1>3, <2>1, <2>2 DEF Links
  <1>4. ASSUME NEW r \in DOMAIN socks, Loses(r)
        PROVE  DOMAIN socks' = DOMAIN socks /\ socks'[r].link # "dialled" /\ \A t \in DOMAIN socks : t # r => socks'[t] = socks[t]
    BY <1>4 DEF Loses
  <1>5. ASSUME NEW r \in DOMAIN socks, DOMAIN socks' = DOMAIN socks, socks[r].link \in {"open", "lost"},
               socks'[r] = [socks[r] EXCEPT !.expired = TRUE]
        PROVE  socks'[r].link # "dialled"
    <2>1. socks[r] \in Sockets
      BY SocketFields DEF ChatTyped
    <2> QED
      BY <1>5, <2>1 DEF Sockets
  <1>6. ASSUME NEW r \in DOMAIN socks, ReadsNext(r)
        PROVE  DOMAIN socks' = DOMAIN socks /\ socks'[r].link # "dialled" /\ \A t \in DOMAIN socks : t # r => socks'[t] = socks[t]
    BY <1>6 DEF ReadsNext, Links
  <1>7. ASSUME NEW p \in Payloads, NEW r \in DOMAIN socks, Sender(p, r)
        PROVE  /\ DOMAIN socks' = DOMAIN socks /\ socks'[r].link # "dialled" /\ client'.ws = client.ws
               /\ \A t \in DOMAIN socks : t # r => socks'[t] = socks[t]
    BY <1>7, SenderSockets
  <1> QED
    BY <1>1, <1>2, <1>3, <1>4, <1>5, <1>6, <1>7 DEF ChatStep

LEMMA ChatLinks ==
  ASSUME ChatTyped, Refers, Links, ChatStep PROVE Links'
  <1>1. Moves
    BY ChatMoves
  <1>2. \A s \in DOMAIN socks' : socks'[s].link = "dialled" =>
          client'.ws = s /\ ~socks'[s].expired /\ socks'[s].up = <<>> /\ socks'[s].down = <<>>
    BY <1>1, CalmLinks, DialLinks, OtherLinks
  <1> QED
    BY <1>1, <1>2, AuthTold DEF Links

\* Nothing is sent, and nothing is read.
Kept ==
  /\ frames' = frames /\ DOMAIN flows' = DOMAIN flows
  /\ \A g \in DOMAIN flows : flows'[g].msg = flows[g].msg /\ flows'[g].id = flows[g].id
  /\ \A s \in DOMAIN socks' : \A i \in DOMAIN socks'[s].up :
       s \in DOMAIN socks /\ i \in DOMAIN socks[s].up /\ socks'[s].up[i] = socks[s].up[i]

LEMMA ChatKept ==
  ASSUME ChatTyped, Refers, ChatStep
  PROVE  \/ Kept /\ Fades
         \/ \E s \in DOMAIN socks : ReadsNext(s) /\ Fades /\ client' = client
         \/ \E p \in Payloads, s \in DOMAIN socks : Sender(p, s)
  <1>1. CASE Fades /\ Calms(socks) /\ flows' = flows
    <2>1. Kept
      BY <1>1 DEF Kept, Calms, Calmer, Fades
    <2> QED
      BY <1>1, <2>1
  <1>2. CASE Fades /\ Dials /\ flows' = flows
    <2>1. \A s \in DOMAIN socks' : s \in DOMAIN socks \/ socks'[s].up = <<>>
      BY <1>2 DEF Dials
    <2>2. \A s \in DOMAIN socks : socks'[s].up = socks[s].up
      BY <1>2 DEF Dials, Calmer
    <2>3. Kept
      BY <1>2, <2>1, <2>2 DEF Kept, Fades
    <2> QED
      BY <1>2, <2>3
  <1>3. ASSUME NEW s \in DOMAIN socks, Fades, socks' = Opened(s), flows' = flows PROVE Kept
    <2>1. DOMAIN socks' = DOMAIN socks /\ \A r \in DOMAIN socks : socks'[r].up = socks[r].up
      BY <1>3, OpenedSocket
    <2> QED
      BY <1>3, <2>1 DEF Kept, Fades
  <1>4. ASSUME NEW f \in DOMAIN flows, Fades, Speaks(f) PROVE Kept
    BY <1>4 DEF Kept, Fades, Speaks
  <1>5. ASSUME NEW s \in DOMAIN socks, Fades, flows' = flows, DOMAIN socks' = DOMAIN socks,
               \A r \in DOMAIN socks : r # s => socks'[r] = socks[r],
               \A i \in DOMAIN socks'[s].up : i \in DOMAIN socks[s].up /\ socks'[s].up[i] = socks[s].up[i]
        PROVE  Kept
    <2>1. ASSUME NEW r \in DOMAIN socks', NEW i \in DOMAIN socks'[r].up
          PROVE  r \in DOMAIN socks /\ i \in DOMAIN socks[r].up /\ socks'[r].up[i] = socks[r].up[i]
      <3>1. CASE r = s
        BY <1>5, <2>1, <3>1
      <3>2. CASE r # s
        <4>1. r \in DOMAIN socks /\ socks'[r] = socks[r]
          BY <1>5, <3>2
        <4> QED
          BY <2>1, <4>1
      <3> QED
        BY <3>1, <3>2
    <2> QED
      BY <1>5, <2>1 DEF Kept, Fades
  <1>6. ASSUME NEW s \in DOMAIN socks, Loses(s)
        PROVE  /\ DOMAIN socks' = DOMAIN socks /\ \A r \in DOMAIN socks : r # s => socks'[r] = socks[r]
               /\ \A i \in DOMAIN socks'[s].up : i \in DOMAIN socks[s].up /\ socks'[s].up[i] = socks[s].up[i]
    <2>1. socks[s] \in Sockets /\ socks[s].up \in Seq(Payloads)
      BY SocketFields DEF ChatTyped
    <2>2. PICK n \in 0..Len(socks[s].up) : socks'[s].up = SubSeq(socks[s].up, 1, n)
      BY <1>6 DEF Loses
    <2>4. \A i \in DOMAIN SubSeq(socks[s].up, 1, n) :
            i \in DOMAIN socks[s].up /\ SubSeq(socks[s].up, 1, n)[i] = socks[s].up[i]
      BY <2>1, SubSeqProperties, LenProperties
    <2> QED
      BY <1>6, <2>2, <2>4 DEF Loses
  <1>7. ASSUME NEW s \in DOMAIN socks, socks'[s] = [socks[s] EXCEPT !.expired = TRUE]
        PROVE  socks'[s].up = socks[s].up
    <2>1. socks[s] \in Sockets
      BY SocketFields DEF ChatTyped
    <2> QED
      BY <1>7, <2>1 DEF Sockets
  <1> QED
    BY <1>1, <1>2, <1>3, <1>4, <1>5, <1>6, <1>7 DEF ChatStep

LEMMA KeptNumbered ==
  ASSUME Numbered, Kept PROVE Numbered'
  <1>1. /\ \A f \in DOMAIN flows' : flows'[f].id \in 1..frames'
        /\ \A f, g \in DOMAIN flows' : flows'[f].id = flows'[g].id => f = g
    BY DEF Numbered, Kept
  <1>2. \A s \in DOMAIN socks' : \A i \in DOMAIN socks'[s].up : socks'[s].up[i].kind = "message" =>
          /\ socks'[s].up[i].parent \in 1..frames'
          /\ \A f \in DOMAIN flows' : flows'[f].id # socks'[s].up[i].parent
    BY DEF Numbered, Kept
  <1>3. \A s, t \in DOMAIN socks' : \A i \in DOMAIN socks'[s].up, j \in DOMAIN socks'[t].up :
          socks'[s].up[i].kind = "message" /\ socks'[t].up[j].kind = "message"
            /\ socks'[s].up[i].parent = socks'[t].up[j].parent => s = t /\ i = j
    BY DEF Numbered, Kept
  <1> QED
    BY <1>1, <1>2, <1>3 DEF Numbered

LEMMA KeptCopies ==
  ASSUME Kept, Stays, NEW m PROVE Copies(m)' \subseteq Copies(m)
  <1>1. ASSUME NEW n, Ran(m, n)' PROVE Ran(m, n)
    BY <1>1 DEF Ran, Kept
  <1>2. ASSUME NEW n, UnderWay(m, n)' PROVE UnderWay(m, n)
    BY <1>2 DEF UnderWay, Kept, Stays, IsMessage
  <1> QED
    BY <1>1, <1>2 DEF Copies

\* A frame that is read moves from a socket to a workflow.
LEMMA ReadsPlaces ==
  ASSUME ChatTyped, NEW s \in DOMAIN socks, ReadsNext(s)
  PROVE  /\ DOMAIN socks' = DOMAIN socks /\ 1 \in DOMAIN socks[s].up
         /\ \A r \in DOMAIN socks : socks'[r].expired = socks[r].expired
         /\ \A r \in DOMAIN socks : r # s => socks'[r].up = socks[r].up
         /\ \A i \in DOMAIN socks'[s].up :
              i + 1 \in DOMAIN socks[s].up /\ i + 1 # 1 /\ socks'[s].up[i] = socks[s].up[i + 1]
  <1>1. socks[s].up \in Seq(Payloads) /\ socks[s].up # <<>> /\ socks'[s].up = Tail(socks[s].up)
    BY SocketFields DEF ChatTyped, ReadsNext
  <1>2. /\ 1 \in DOMAIN socks[s].up
        /\ \A i \in DOMAIN Tail(socks[s].up) :
             i + 1 \in DOMAIN socks[s].up /\ i + 1 # 1 /\ Tail(socks[s].up)[i] = socks[s].up[i + 1]
    BY <1>1, HeadTailProperties, LenProperties
  <1> QED
    BY <1>1, <1>2 DEF ReadsNext

LEMMA ReadsFlows ==
  ASSUME ChatTyped, NEW s \in DOMAIN socks, ReadsNext(s)
  PROVE  \/ /\ DOMAIN flows' = DOMAIN flows
            /\ \A g \in DOMAIN flows : flows'[g].msg = flows[g].msg /\ flows'[g].id = flows[g].id
         \/ /\ DOMAIN flows' = DOMAIN flows \cup {Len(flows) + 1}
            /\ \A g \in DOMAIN flows : flows'[g].msg = flows[g].msg /\ flows'[g].id = flows[g].id
            /\ Len(flows) + 1 \notin DOMAIN flows
            /\ socks[s].up[1].kind = "message" /\ ~socks[s].expired
            /\ flows'[Len(flows) + 1].msg = socks[s].up[1].msg /\ flows'[Len(flows) + 1].id = socks[s].up[1].parent
  <1>1. CASE socks[s].expired \/ socks[s].up[1].kind # "message"
    BY <1>1 DEF ReadsNext
  <1>2. CASE ~socks[s].expired /\ socks[s].up[1].kind = "message"
    <2>1. PICK w \in Workflows : flows' = Append(flows, w) /\ w.msg = socks[s].up[1].msg /\ w.id = socks[s].up[1].parent
      BY <1>2 DEF ReadsNext
    <2>2. flows \in Seq(Workflows) /\ Len(flows) \in Nat /\ DOMAIN flows = 1..Len(flows)
      BY LenProperties DEF ChatTyped
    <2>3. /\ \A g \in 1..Len(flows) : flows'[g] = flows[g]
          /\ flows'[Len(flows) + 1] = w /\ DOMAIN flows' = 1..(Len(flows) + 1)
      BY <2>1, <2>2, AppendProperties, LenProperties
    <2>4. DOMAIN flows' = DOMAIN flows \cup {Len(flows) + 1} /\ Len(flows) + 1 \notin DOMAIN flows
      BY <2>2, <2>3
    <2>5. \A g \in DOMAIN flows : flows'[g] = flows[g]
      BY <2>2, <2>3
    <2> QED
      BY <1>2, <2>1, <2>3, <2>4, <2>5
  <1> QED
    BY <1>1, <1>2

LEMMA ReadsNumbered ==
  ASSUME ChatTyped, Numbered, frames' = frames, NEW s \in DOMAIN socks, ReadsNext(s) PROVE Numbered'
  <1> DEFINE Place(r, i) == IF r = s THEN i + 1 ELSE i
  <1>1. \A r \in DOMAIN socks' : \A i \in DOMAIN socks'[r].up :
          /\ r \in DOMAIN socks /\ Place(r, i) \in DOMAIN socks[r].up /\ socks'[r].up[i] = socks[r].up[Place(r, i)]
          /\ r = s => Place(r, i) # 1
    BY ReadsPlaces
  <1>2. \A r \in DOMAIN socks : \A i \in DOMAIN socks'[r].up, j \in DOMAIN socks'[r].up : Place(r, i) = Place(r, j) => i = j
    <2>1. ASSUME NEW r \in DOMAIN socks, NEW i \in DOMAIN socks'[r].up, NEW j \in DOMAIN socks'[r].up, Place(r, i) = Place(r, j)
          PROVE  i = j
      <3>1. socks'[r] \in Sockets
        BY SocketFields DEF ReadsNext
      <3>2. i \in Nat /\ j \in Nat
        BY <3>1, LenProperties DEF Sockets
      <3> QED
        BY <2>1, <3>2
    <2> QED
      BY <2>1
  <1> HIDE DEF Place
  <1>3. \A p, q \in DOMAIN socks' : \A i \in DOMAIN socks'[p].up, j \in DOMAIN socks'[q].up :
          socks'[p].up[i].kind = "message" /\ socks'[q].up[j].kind = "message"
            /\ socks'[p].up[i].parent = socks'[q].up[j].parent => p = q /\ i = j
    BY <1>1, <1>2 DEF Numbered
  <1>4. \A r \in DOMAIN socks' : \A i \in DOMAIN socks'[r].up : socks'[r].up[i].kind = "message" =>
          /\ socks'[r].up[i].parent \in 1..frames'
          /\ \A f \in DOMAIN flows : flows[f].id # socks'[r].up[i].parent
    BY <1>1 DEF Numbered
  <1>5. CASE /\ DOMAIN flows' = DOMAIN flows
             /\ \A g \in DOMAIN flows : flows'[g].msg = flows[g].msg /\ flows'[g].id = flows[g].id
    BY <1>3, <1>4, <1>5 DEF Numbered
  <1>6. CASE /\ DOMAIN flows' = DOMAIN flows \cup {Len(flows) + 1}
             /\ \A g \in DOMAIN flows : flows'[g].msg = flows[g].msg /\ flows'[g].id = flows[g].id
             /\ Len(flows) + 1 \notin DOMAIN flows
             /\ socks[s].up[1].kind = "message" /\ ~socks[s].expired
             /\ flows'[Len(flows) + 1].msg = socks[s].up[1].msg /\ flows'[Len(flows) + 1].id = socks[s].up[1].parent
    <2> DEFINE z == Len(flows) + 1
    <2> HIDE DEF z
    <2>0. /\ DOMAIN flows' = DOMAIN flows \cup {z} /\ flows'[z].id = socks[s].up[1].parent
          /\ \A g \in DOMAIN flows : flows'[g].id = flows[g].id
      BY <1>6 DEF z
    <2>1. /\ socks[s].up[1].parent \in 1..frames'
          /\ \A f \in DOMAIN flows : flows[f].id # socks[s].up[1].parent
      BY <1>6, ReadsPlaces DEF Numbered
    <2>2. /\ \A f \in DOMAIN flows' : flows'[f].id \in 1..frames'
          /\ \A f, g \in DOMAIN flows' : flows'[f].id = flows'[g].id => f = g
      BY <2>0, <2>1 DEF Numbered
    <2>3. ASSUME NEW r \in DOMAIN socks', NEW i \in DOMAIN socks'[r].up, socks'[r].up[i].kind = "message"
          PROVE  \A f \in DOMAIN flows' : flows'[f].id # socks'[r].up[i].parent
      <3>1. socks'[r].up[i].parent # socks[s].up[1].parent
        <4>1. /\ r \in DOMAIN socks /\ Place(r, i) \in DOMAIN socks[r].up /\ socks'[r].up[i] = socks[r].up[Place(r, i)]
              /\ r = s => Place(r, i) # 1
          BY <1>1, <2>3
        <4>2. 1 \in DOMAIN socks[s].up
          BY ReadsPlaces
        <4> QED
          BY <1>6, <2>3, <4>1, <4>2 DEF Numbered
      <3> QED
        BY <1>4, <2>0, <2>3, <3>1
    <2> QED
      BY <1>3, <1>4, <2>2, <2>3 DEF Numbered
  <1> QED
    BY <1>5, <1>6, ReadsFlows

LEMMA ReadsCopies ==
  ASSUME ChatTyped, NEW s \in DOMAIN socks, ReadsNext(s), NEW m PROVE Copies(m)' \subseteq Copies(m)
  <1>1. ASSUME NEW n, UnderWay(m, n)' PROVE UnderWay(m, n)
    <2>1. PICK r \in DOMAIN socks' : /\ ~socks'[r].expired
                                     /\ \E i \in DOMAIN socks'[r].up : IsMessage(socks'[r].up[i], m) /\ socks'[r].up[i].parent = n
      BY <1>1 DEF UnderWay
    <2>2. r \in DOMAIN socks /\ \A i \in DOMAIN socks'[r].up : \E j \in DOMAIN socks[r].up : socks'[r].up[i] = socks[r].up[j]
      BY ReadsPlaces
    <2>3. ~socks[r].expired
      BY <2>1, <2>2, ReadsPlaces
    <2> QED
      BY <2>1, <2>2, <2>3 DEF UnderWay
  <1>2. ASSUME NEW n, Ran(m, n)' PROVE Ran(m, n) \/ UnderWay(m, n)
    <2>1. PICK f \in DOMAIN flows' : flows'[f].msg = m /\ flows'[f].id = n
      BY <1>2 DEF Ran
    <2>2. CASE f \in DOMAIN flows
      BY <2>1, <2>2, ReadsFlows DEF Ran
    <2>3. CASE f \notin DOMAIN flows
      <3>1. socks[s].up[1].kind = "message" /\ ~socks[s].expired /\ socks[s].up[1].msg = m /\ socks[s].up[1].parent = n
        BY <2>1, <2>3, ReadsFlows
      <3> QED
        BY <3>1, ReadsPlaces DEF UnderWay, IsMessage
    <2> QED
      BY <2>2, <2>3
  <1> QED
    BY <1>1, <1>2 DEF Copies

LEMMA SenderNumbered ==
  ASSUME ChatTyped, Numbered, NEW p \in Payloads, NEW s \in DOMAIN socks, Sender(p, s) PROVE Numbered'
  <1>0. /\ frames \in Nat /\ flows' = flows /\ DOMAIN socks' = DOMAIN socks
        /\ frames' = IF p.kind = "message" THEN frames + 1 ELSE frames
        /\ Sent(p).kind = p.kind /\ (p.kind = "message" => Sent(p).parent = frames + 1)
    BY SenderSockets, SentPayload DEF ChatTyped, HookTyped, Sender
  <1>1. \A r \in DOMAIN socks : \A i \in DOMAIN socks'[r].up :
          \/ i \in DOMAIN socks[r].up /\ socks'[r].up[i] = socks[r].up[i]
          \/ r = s /\ i = Len(socks[s].up) + 1 /\ socks'[r].up[i] = Sent(p)
    BY SenderSockets
  <1>2. frames' \in Nat /\ \A n \in 1..frames : n \in 1..frames' /\ n # frames + 1
    BY <1>0
  <1>3. p.kind = "message" => frames + 1 \in 1..frames'
    BY <1>0
  <1>4. /\ \A f \in DOMAIN flows' : flows'[f].id \in 1..frames'
        /\ \A f, g \in DOMAIN flows' : flows'[f].id = flows'[g].id => f = g
    BY <1>0, <1>2 DEF Numbered
  <1>5. \A r \in DOMAIN socks' : \A i \in DOMAIN socks'[r].up : socks'[r].up[i].kind = "message" =>
          /\ socks'[r].up[i].parent \in 1..frames'
          /\ \A f \in DOMAIN flows' : flows'[f].id # socks'[r].up[i].parent
    <2>1. ASSUME NEW r \in DOMAIN socks', NEW i \in DOMAIN socks'[r].up, socks'[r].up[i].kind = "message"
          PROVE  /\ socks'[r].up[i].parent \in 1..frames'
                 /\ \A f \in DOMAIN flows' : flows'[f].id # socks'[r].up[i].parent
      <3>1. CASE i \in DOMAIN socks[r].up /\ socks'[r].up[i] = socks[r].up[i]
        BY <1>0, <1>2, <2>1, <3>1 DEF Numbered
      <3>2. CASE r = s /\ i = Len(socks[s].up) + 1 /\ socks'[r].up[i] = Sent(p)
        BY <1>0, <1>2, <1>3, <2>1, <3>2 DEF Numbered
      <3> QED
        BY <1>0, <1>1, <2>1, <3>1, <3>2
    <2> QED
      BY <2>1
  <1>6. ASSUME NEW r \in DOMAIN socks, NEW q \in DOMAIN socks, NEW i \in DOMAIN socks'[r].up, NEW j \in DOMAIN socks'[q].up,
               socks'[r].up[i].kind = "message", socks'[q].up[j].kind = "message",
               socks'[r].up[i].parent = socks'[q].up[j].parent
        PROVE  r = q /\ i = j
    <2>1. CASE i \in DOMAIN socks[r].up /\ socks'[r].up[i] = socks[r].up[i]
      <3>1. CASE j \in DOMAIN socks[q].up /\ socks'[q].up[j] = socks[q].up[j]
        BY <1>6, <2>1, <3>1 DEF Numbered
      <3>2. CASE q = s /\ j = Len(socks[s].up) + 1 /\ socks'[q].up[j] = Sent(p)
        <4>1. socks[r].up[i].parent \in 1..frames /\ socks[r].up[i].parent = frames + 1
          BY <1>0, <1>6, <2>1, <3>2 DEF Numbered
        <4> QED
          BY <1>2, <4>1
      <3> QED
        BY <1>1, <1>6, <3>1, <3>2
    <2>2. CASE r = s /\ i = Len(socks[s].up) + 1 /\ socks'[r].up[i] = Sent(p)
      <3>1. CASE j \in DOMAIN socks[q].up /\ socks'[q].up[j] = socks[q].up[j]
        <4>1. socks[q].up[j].parent \in 1..frames /\ socks[q].up[j].parent = frames + 1
          BY <1>0, <1>6, <2>2, <3>1 DEF Numbered
        <4> QED
          BY <1>2, <4>1
      <3>2. CASE q = s /\ j = Len(socks[s].up) + 1
        BY <2>2, <3>2
      <3> QED
        BY <1>1, <1>6, <3>1, <3>2
    <2> QED
      BY <1>1, <1>6, <2>1, <2>2
  <1> QED
    BY <1>0, <1>4, <1>5, <1>6 DEF Numbered

\* One more copy, of the message that is sent, unless the socket's token has
\* expired.
LEMMA SenderCopies ==
  ASSUME ChatTyped, NEW p \in Payloads, NEW s \in DOMAIN socks, Sender(p, s), NEW m
  PROVE  /\ Copies(m)' \subseteq Copies(m) \cup {frames + 1}
         /\ ~IsMessage(p, m) \/ socks[s].expired => Copies(m)' \subseteq Copies(m)
  <1>0. /\ frames \in Nat /\ flows' = flows /\ DOMAIN socks' = DOMAIN socks
        /\ Sent(p).kind = p.kind /\ (p.kind = "message" => Sent(p).parent = frames + 1) /\ Sent(p).msg = p.msg
    BY SenderSockets, SentPayload DEF ChatTyped, HookTyped, Sender
  <1>1. \A r \in DOMAIN socks : \A i \in DOMAIN socks'[r].up :
          \/ i \in DOMAIN socks[r].up /\ socks'[r].up[i] = socks[r].up[i]
          \/ r = s /\ socks'[r].up[i] = Sent(p)
    BY SenderSockets
  <1>2. \A r \in DOMAIN socks : socks'[r].expired = socks[r].expired
    BY SenderSockets
  <1>3. ASSUME NEW n, UnderWay(m, n)'
        PROVE  UnderWay(m, n) \/ (n = frames + 1 /\ IsMessage(p, m) /\ ~socks[s].expired)
    <2>1. PICK r \in DOMAIN socks' : /\ ~socks'[r].expired
                                     /\ \E i \in DOMAIN socks'[r].up : IsMessage(socks'[r].up[i], m) /\ socks'[r].up[i].parent = n
      BY <1>3 DEF UnderWay
    <2>2. PICK i \in DOMAIN socks'[r].up : IsMessage(socks'[r].up[i], m) /\ socks'[r].up[i].parent = n
      BY <2>1
    <2>3. r \in DOMAIN socks /\ ~socks[r].expired
      BY <1>0, <1>2, <2>1
    <2>4. CASE i \in DOMAIN socks[r].up /\ socks'[r].up[i] = socks[r].up[i]
      BY <2>2, <2>3, <2>4 DEF UnderWay
    <2>5. CASE r = s /\ socks'[r].up[i] = Sent(p)
      BY <1>0, <2>2, <2>3, <2>5 DEF IsMessage
    <2> QED
      BY <1>1, <2>3, <2>4, <2>5
  <1>4. ASSUME NEW n, Ran(m, n)' PROVE Ran(m, n)
    BY <1>0, <1>4 DEF Ran
  <1> QED
    BY <1>3, <1>4 DEF Copies

LEMMA ChatNumbered ==
  ASSUME ChatTyped, Refers, Numbered, ChatStep PROVE Numbered'
  BY ChatKept, KeptNumbered, ReadsNumbered, SenderNumbered DEF Fades

-----------------------------------------------------------------------------
(* Copies are counted.                                                     *)

LEMMA AtMostLess ==
  ASSUME NEW S, NEW T, S \subseteq T, NEW n \in 0..2, AtMost(T, n) PROVE AtMost(S, n)
  BY DEF AtMost

LEMMA AtMostMore ==
  ASSUME NEW S, NEW n \in 0..1, AtMost(S, n) PROVE AtMost(S, n + 1)
  BY DEF AtMost

LEMMA AtMostAdd ==
  ASSUME NEW S, NEW T, NEW x, S \subseteq T \cup {x}, NEW n \in 0..1, AtMost(T, n) PROVE AtMost(S, n + 1)
  <1>1. CASE n = 0
    BY <1>1 DEF AtMost
  <1>2. CASE n = 1
    BY <1>2 DEF AtMost
  <1> QED
    BY <1>1, <1>2

LEMMA AtMostCut ==
  ASSUME NEW S, NEW T, NEW x \in T, S \subseteq T, x \notin S, NEW n \in 0..1, AtMost(T, n + 1) PROVE AtMost(S, n)
  <1>1. CASE n = 0
    BY <1>1 DEF AtMost
  <1>2. CASE n = 1
    BY <1>2 DEF AtMost
  <1> QED
    BY <1>1, <1>2

LEMMA NoCopies ==
  ASSUME Refers, NEW m, m \notin DOMAIN wrote PROVE Copies(m) = {}
  BY DEF Refers, Copies, Ran, UnderWay, IsMessage

LEMMA NewIsNew ==
  ASSUME ChatTyped, Refers PROVE NewMessage.msg \notin DOMAIN wrote
  <1>1. wrote \in Seq(Convs) /\ Len(wrote) \in Nat /\ DOMAIN wrote = 1..Len(wrote)
    BY LenProperties DEF ChatTyped, HookTyped
  <1>2. NewMessage.msg = Len(wrote) + 1
    BY NewTyped
  <1> QED
    BY <1>1, <1>2

LEMMA PayloadTypes ==
  ASSUME ChatTyped
  PROVE  /\ pending \in Payloads /\ lastSent \in Payloads /\ unack \in Payloads
         /\ pending.retry \in 0..1 /\ lastSent.retry \in 0..1 /\ unack.retry \in 0..1
  BY DEF ChatTyped, HookTyped, Payloads

\* An expired token may be told of after a step only if it could be before.
ToldBefore ==
  MayTell' =>
    /\ MayTell /\ client'.ws = client.ws
    /\ socks'[client.ws].expired = socks[client.ws].expired
    /\ socks'[client.ws].up # <<>> =>
         LET up == socks[client.ws].up
             next == socks'[client.ws].up
         IN  next[Len(next)] = up[Len(up)]

LEMMA CalmTells ==
  ASSUME ChatTyped, Refers, Calms(socks) PROVE ToldBefore
  <1>1. CASE client'.ws = 0
    BY <1>1 DEF ToldBefore, MayTell
  <1>2. CASE client'.ws = client.ws /\ client.ws # 0
    <2>1. client.ws \in DOMAIN socks
      BY <1>2, LenProperties DEF ChatTyped, Refers
    <2>2. Calmer(socks[client.ws], socks'[client.ws])
      BY <2>1 DEF Calms
    <2> QED
      BY <1>2, <2>2 DEF ToldBefore, MayTell, Calmer
  <1> QED
    BY <1>1, <1>2 DEF Calms

\* The sockets but r stay as they are.
LEMMA OtherTells ==
  ASSUME ChatTyped, Refers, NEW r \in DOMAIN socks, client'.ws = client.ws,
         \A t \in DOMAIN socks : t # r => socks'[t] = socks[t], client.ws # r
  PROVE  ToldBefore
  <1>1. CASE client.ws = 0
    BY <1>1 DEF ToldBefore, MayTell
  <1>2. CASE client.ws # 0
    <2>1. client.ws \in DOMAIN socks
      BY <1>2, LenProperties DEF ChatTyped, Refers
    <2>2. socks'[client.ws] = socks[client.ws]
      BY <2>1
    <2> QED
      BY <2>2 DEF ToldBefore, MayTell
  <1> QED
    BY <1>1, <1>2

LEMMA ReadsTells ==
  ASSUME ChatTyped, Refers, NEW s \in DOMAIN socks, ReadsNext(s), client' = client PROVE ToldBefore
  <1>1. CASE client.ws # s
    BY <1>1, OtherTells DEF ReadsNext
  <1>2. CASE client.ws = s
    <2>1. /\ socks[s].up \in Seq(Payloads) /\ socks[s].up # <<>> /\ socks'[s].up = Tail(socks[s].up)
          /\ socks'[s].expired = socks[s].expired /\ socks'[s].link = socks[s].link
      BY SocketFields DEF ChatTyped, ReadsNext
    <2>2. Tail(socks[s].up) # <<>> => Tail(socks[s].up)[Len(Tail(socks[s].up))] = socks[s].up[Len(socks[s].up)]
      <3>1. /\ Tail(socks[s].up) \in Seq(Payloads) /\ Len(Tail(socks[s].up)) = Len(socks[s].up) - 1
            /\ \A i \in 1..Len(Tail(socks[s].up)) : Tail(socks[s].up)[i] = socks[s].up[i + 1]
            /\ Len(socks[s].up) \in Nat
        BY <2>1, HeadTailProperties, LenProperties
      <3>2. Tail(socks[s].up) # <<>> => Len(Tail(socks[s].up)) \in 1..Len(Tail(socks[s].up))
        BY <3>1, EmptySeq, LenProperties
      <3> QED
        BY <3>1, <3>2
    <2> QED
      BY <1>2, <2>1, <2>2 DEF ToldBefore, MayTell
  <1> QED
    BY <1>1, <1>2

LEMMA FadesTells ==
  ASSUME ChatTyped, Refers, Links, ChatStep, Fades
  PROVE  \/ ToldBefore
         \/ /\ client' = client /\ client.ws \in DOMAIN socks /\ ~socks[client.ws].expired
            /\ flows' = flows /\ DOMAIN socks' = DOMAIN socks
            /\ socks'[client.ws] = [socks[client.ws] EXCEPT !.expired = TRUE]
            /\ \A r \in DOMAIN socks : r # client.ws => socks'[r] = socks[r]
         \/ \E p \in Payloads, s \in DOMAIN socks : Sender(p, s)
  <1>1. CASE Calms(socks)
    BY <1>1, CalmTells
  <1>2. CASE Dials
    BY <1>2 DEF Dials, ToldBefore, MayTell
  <1>3. ASSUME NEW s \in DOMAIN socks, socks[s].link = "dialled", socks' = Opened(s), client'.ws = client.ws
        PROVE  ToldBefore
    <2>1. client.ws = s /\ socks[s].up = <<>> /\ socks[s].down = <<>>
      BY <1>3 DEF Links
    <2>2. socks'[s].up = <<>> /\ socks'[s].down = <<>>
      BY <1>3, <2>1, OpenedSocket
    <2> QED
      BY <1>3, <2>1, <2>2 DEF ToldBefore, MayTell
  <1>4. ASSUME NEW f \in DOMAIN flows, Speaks(f), client' = client PROVE ToldBefore
    <2>1. CASE client.ws = 0
      BY <1>4, <2>1 DEF ToldBefore, MayTell
    <2>2. CASE client.ws # 0
      <3>1. client.ws \in DOMAIN socks
        BY <2>2, LenProperties DEF ChatTyped, Refers
      <3>2. LET r == client.ws
            IN /\ socks'[r].up = socks[r].up /\ socks'[r].expired = socks[r].expired /\ socks'[r].link = socks[r].link
               /\ \A i \in DOMAIN socks'[r].down : socks'[r].down[i].kind = "auth_expired" =>
                    \E j \in DOMAIN socks[r].down : socks[r].down[j].kind = "auth_expired"
        BY <1>4, <3>1 DEF Speaks
      <3> QED
        BY <1>4, <3>2 DEF ToldBefore, MayTell
    <2> QED
      BY <2>1, <2>2
  <1>5. ASSUME NEW s \in DOMAIN socks, Loses(s), client' = client PROVE ToldBefore
    <2>1. CASE client.ws # s
      BY <1>5, <2>1, OtherTells DEF Loses
    <2>2. CASE client.ws = s
      <3>1. socks'[s].link # "open"
        BY <1>5 DEF Loses
      <3> QED
        BY <1>5, <2>2, <3>1 DEF ToldBefore, MayTell
    <2> QED
      BY <2>1, <2>2
  <1> QED
    BY <1>1, <1>2, <1>3, <1>4, <1>5, ReadsTells DEF ChatStep

\* A message that is not yet written has no copies, now or next.
LEMMA NewCounted ==
  ASSUME Refers, NEW m, m \notin DOMAIN wrote, Copies(m)' \subseteq Copies(m), NEW n \in 0..2
  PROVE  AtMost(Copies(m)', n)
  <1>1. Copies(m)' = {}
    BY NoCopies
  <1> QED
    BY <1>1 DEF AtMost

\* What the hook keeps stays counted when nothing is sent.
LEMMA FadesCounted ==
  ASSUME ChatTyped, Refers, Counted2, Fades, NEW m, Copies(m)' \subseteq Copies(m)
  PROVE  /\ AtMost(Copies(m)', 2)
         /\ IsMessage(pending', m) => AtMost(Copies(m)', pending'.retry)
         /\ IsMessage(unack', m) /\ unack'.retry = 0 => AtMost(Copies(m)', 1)
  <1>0. /\ Nothing.kind = "none" /\ 0 \in 0..2 /\ 1 \in 0..2 /\ 2 \in 0..2
        /\ NewMessage.msg \notin DOMAIN wrote /\ NewMessage.retry = 0
        /\ pending.retry \in 0..2 /\ lastSent.retry \in 0..2
        /\ [unack EXCEPT !.retry = 1].kind = unack.kind /\ [unack EXCEPT !.retry = 1].msg = unack.msg
        /\ [unack EXCEPT !.retry = 1].retry = 1
    BY NothingTyped, NewTyped, NewIsNew, PayloadTypes
  <1>1. CASE m \notin DOMAIN wrote
    <2>1. AtMost(Copies(m)', 0) /\ AtMost(Copies(m)', 1) /\ AtMost(Copies(m)', 2)
      BY <1>0, <1>1, NewCounted
    <2>2. AtMost(Copies(m)', pending.retry) /\ AtMost(Copies(m)', lastSent.retry)
      BY <1>0, <1>1, NewCounted
    <2> QED
      BY <1>0, <2>1, <2>2 DEF Fades, IsMessage
  <1>2. CASE m \in DOMAIN wrote
    <2>1. AtMost(Copies(m)', 2)
      BY <1>0, <1>2, AtMostLess DEF Counted2
    <2>2. AtMost(Copies(m), 1) => AtMost(Copies(m)', 1)
      BY <1>0, AtMostLess
    <2>3. AtMost(Copies(m), pending.retry) => AtMost(Copies(m)', pending.retry)
      BY <1>0, AtMostLess
    <2>4. AtMost(Copies(m), lastSent.retry) => AtMost(Copies(m)', lastSent.retry)
      BY <1>0, AtMostLess
    <2>5. IsMessage(unack', m) /\ unack'.retry = 0 => AtMost(Copies(m)', 1)
      BY <1>0, <1>2, <2>2 DEF Fades, IsMessage, Counted2
    <2>6. ASSUME IsMessage(pending', m) PROVE AtMost(Copies(m)', pending'.retry)
      <3>1. CASE pending' = pending
        BY <1>2, <2>3, <2>6, <3>1 DEF Counted2
      <3>2. CASE pending' = NewMessage
        BY <1>0, <1>2, <2>6, <3>2 DEF IsMessage
      <3>3. CASE unack.retry = 0 /\ pending' = [unack EXCEPT !.retry = 1]
        <4>1. IsMessage(unack, m) /\ pending'.retry = 1
          BY <1>0, <2>6, <3>3 DEF IsMessage
        <4> QED
          BY <1>2, <2>2, <3>3, <4>1 DEF Counted2
      <3>4. CASE pending' = lastSent /\ MayTell /\ socks[client.ws].expired
        BY <1>2, <2>4, <2>6, <3>4 DEF Counted2, LastCounted
      <3> QED
        BY <1>0, <2>6, <3>1, <3>2, <3>3, <3>4 DEF Fades, IsMessage
    <2> QED
      BY <2>1, <2>5, <2>6
  <1> QED
    BY <1>1, <1>2

\* What an expired token would bring back, when none expires.
LEMMA LastKept ==
  ASSUME ChatTyped, ChatTyped', Refers, Refers', Links', Counted2, Fades, NEW m, Copies(m)' \subseteq Copies(m), ToldBefore
  PROVE  LastCounted(m)'
  <1> SUFFICES ASSUME MayTell', IsMessage(lastSent', m) PROVE LastCounted(m)'
    BY DEF LastCounted
  <1>1. lastSent' = lastSent
    BY NothingTyped DEF Fades, IsMessage
  <1>2. MayTell /\ client'.ws = client.ws /\ socks'[client.ws].expired = socks[client.ws].expired
    BY DEF ToldBefore
  <1>3. lastSent.retry \in 0..2 /\ lastSent.retry + 1 \in 0..2
    BY PayloadTypes
  <1>4. LastCounted(m)
    BY <1>1 DEF Counted2, Refers, IsMessage
  <1>5. CASE socks[client.ws].expired
    <2>1. AtMost(Copies(m), lastSent.retry)
      BY <1>1, <1>2, <1>4, <1>5 DEF LastCounted
    <2>2. AtMost(Copies(m)', lastSent.retry)
      BY <1>3, <2>1, AtMostLess
    <2> QED
      BY <1>1, <1>2, <1>5, <2>2 DEF LastCounted
  <1>6. CASE ~socks[client.ws].expired
    <2>1. AtMost(Copies(m), lastSent.retry + 1) /\ LET up == socks[client.ws].up IN IsMessage(up[Len(up)], m)
      BY <1>1, <1>2, <1>4, <1>6 DEF LastCounted
    <2>2. AtMost(Copies(m)', lastSent.retry + 1)
      BY <1>3, <2>1, AtMostLess
    <2>3. socks'[client.ws].up # <<>>
      <3>1. client.ws \in DOMAIN socks'
        BY <1>2, LenProperties DEF MayTell, Refers, ChatTyped
      <3> QED
        BY <1>2, <1>6, <3>1 DEF MayTell, Links
    <2>4. LET up == socks'[client.ws].up IN IsMessage(up[Len(up)], m)
      BY <1>2, <2>1, <2>3 DEF ToldBefore
    <2> QED
      BY <1>1, <1>2, <1>6, <2>2, <2>4 DEF LastCounted
  <1> QED
    BY <1>5, <1>6

\* The token expires of a socket that still carries the last message: the
\* handler will not run it.
LEMMA LastExpires ==
  ASSUME ChatTyped, Refers, Numbered, Links, Counted2, Fades, NEW m, Copies(m)' \subseteq Copies(m),
         client' = client, client.ws \in DOMAIN socks, ~socks[client.ws].expired,
         flows' = flows, DOMAIN socks' = DOMAIN socks,
         socks'[client.ws] = [socks[client.ws] EXCEPT !.expired = TRUE],
         \A r \in DOMAIN socks : r # client.ws => socks'[r] = socks[r]
  PROVE  LastCounted(m)'
  <1> SUFFICES ASSUME MayTell', IsMessage(lastSent', m) PROVE LastCounted(m)'
    BY DEF LastCounted
  <1> DEFINE w == client.ws
             l == Len(socks[w].up)
  <1>1. lastSent' = lastSent
    BY NothingTyped DEF Fades, IsMessage
  <1>2. socks[w] \in Sockets /\ socks[w].up \in Seq(Payloads)
    BY SocketFields DEF ChatTyped
  <1>3. /\ socks'[w].expired /\ socks'[w].link = socks[w].link
        /\ socks'[w].up = socks[w].up /\ socks'[w].down = socks[w].down
    BY <1>2 DEF Sockets
  <1>4. socks[w].up # <<>> /\ MayTell
    BY <1>3 DEF MayTell, Links
  <1>5. l \in DOMAIN socks[w].up
    BY <1>2, <1>4, LenProperties, EmptySeq
  <1>6. LastCounted(m)
    BY <1>1 DEF Counted2, Refers, IsMessage
  <1>7. AtMost(Copies(m), lastSent.retry + 1) /\ IsMessage(socks[w].up[l], m)
    BY <1>1, <1>4, <1>6 DEF LastCounted
  <1> HIDE DEF l
  <1>0. PICK n : n = socks[w].up[l].parent
    OBVIOUS
  <1>8. n \in Nat /\ \A f \in DOMAIN flows : flows[f].id # n
    <2>1. n \in 1..frames
      BY <1>0, <1>5, <1>7 DEF Numbered, IsMessage
    <2>2. \A f \in DOMAIN flows : flows[f].id # n
      BY <1>0, <1>5, <1>7 DEF Numbered, IsMessage
    <2> QED
      BY <2>1, <2>2
  <1>9. n \in Copies(m)
    BY <1>0, <1>4, <1>5, <1>7, <1>8 DEF Copies, UnderWay
  <1>10. ASSUME n \in Copies(m)' PROVE FALSE
    <2>1. ~Ran(m, n)'
      BY <1>8 DEF Ran
    <2>2. PICK r \in DOMAIN socks' : /\ ~socks'[r].expired
                                     /\ \E i \in DOMAIN socks'[r].up : IsMessage(socks'[r].up[i], m) /\ socks'[r].up[i].parent = n
      BY <1>10, <2>1 DEF Copies, UnderWay
    <2>3. r # w /\ r \in DOMAIN socks /\ socks'[r] = socks[r]
      BY <1>3, <2>2
    <2>4. PICK i \in DOMAIN socks[r].up : IsMessage(socks[r].up[i], m) /\ socks[r].up[i].parent = n
      BY <2>2, <2>3
    <2> QED
      BY <1>0, <1>5, <1>7, <2>3, <2>4 DEF Numbered, IsMessage
  <1>11. lastSent.retry \in 0..1
    BY PayloadTypes
  <1>12. AtMost(Copies(m)', lastSent.retry)
    BY <1>7, <1>9, <1>10, <1>11, AtMostCut
  <1> QED
    BY <1>1, <1>3, <1>12 DEF LastCounted

LEMMA SenderCounted ==
  ASSUME ChatTyped, Refers, Counted2, NEW p \in Payloads, NEW s \in DOMAIN socks, Sender(p, s), NEW m
  PROVE  /\ AtMost(Copies(m)', 2)
         /\ IsMessage(pending', m) => AtMost(Copies(m)', pending'.retry)
         /\ IsMessage(unack', m) /\ unack'.retry = 0 => AtMost(Copies(m)', 1)
         /\ LastCounted(m)'
  <1>a. /\ lastSent' = p /\ unack' = Sent(p) /\ s = client.ws
    BY DEF Sender, Sends
  <1>b. Sent(p).kind = p.kind /\ Sent(p).msg = p.msg /\ Sent(p).retry = p.retry
    BY SentPayload DEF ChatTyped, HookTyped
  <1>c. client'.ws = client.ws /\ socks'[s].expired = socks[s].expired
    BY SenderSockets
  <1>d. p.retry \in 0..1 /\ pending.retry \in 0..1
    BY PayloadTypes DEF Payloads
  <1>e. Nothing.kind = "none"
    BY NothingTyped
  <1>f. NewMessage.msg \notin DOMAIN wrote /\ NewMessage.retry = 0
    BY NewTyped, NewIsNew
  <1>0. /\ lastSent' = p /\ unack' = Sent(p) /\ Sent(p).kind = p.kind /\ Sent(p).msg = p.msg /\ Sent(p).retry = p.retry
        /\ s = client.ws /\ client'.ws = client.ws /\ socks'[s].expired = socks[s].expired
        /\ p.retry \in 0..1 /\ pending.retry \in 0..1 /\ Nothing.kind = "none"
        /\ NewMessage.msg \notin DOMAIN wrote /\ NewMessage.retry = 0
        /\ 0 \in 0..2 /\ 1 \in 0..2 /\ 2 \in 0..2
    BY <1>a, <1>b, <1>c, <1>d, <1>e, <1>f
  <1>1. CASE ~IsMessage(p, m)
    <2>1. Copies(m)' \subseteq Copies(m)
      BY <1>1, SenderCopies
    <2>2. ~IsMessage(unack', m) /\ LastCounted(m)'
      BY <1>0, <1>1 DEF IsMessage, LastCounted
    <2>3. AtMost(Copies(m)', 2) /\ (IsMessage(pending, m) => AtMost(Copies(m)', pending.retry))
      <3>1. CASE m \in DOMAIN wrote
        <4>1. AtMost(Copies(m), 2) /\ (IsMessage(pending, m) => AtMost(Copies(m), pending.retry))
          BY <3>1 DEF Counted2
        <4>2. pending.retry \in 0..2
          BY <1>0
        <4> QED
          BY <1>0, <2>1, <4>1, <4>2, AtMostLess
      <3>2. CASE m \notin DOMAIN wrote
        <4>1. pending.retry \in 0..2
          BY <1>0
        <4> QED
          BY <1>0, <2>1, <3>2, <4>1, NewCounted
      <3> QED
        BY <3>1, <3>2
    <2>4. IsMessage(pending', m) => pending' = pending
      BY <1>0 DEF Sender, IsMessage
    <2> QED
      BY <2>2, <2>3, <2>4
  <1>2. CASE IsMessage(p, m)
    <2>1. AtMost(Copies(m), p.retry)
      <3>1. CASE p = pending
        BY <1>2, <3>1 DEF Counted2, Refers, IsMessage
      <3>2. CASE p = NewMessage
        <4>1. Copies(m) = {}
          BY <1>0, <1>2, <3>2, NoCopies DEF IsMessage
        <4> QED
          BY <1>0, <3>2, <4>1 DEF AtMost
      <3> QED
        BY <1>2, <3>1, <3>2 DEF Sender, IsMessage
    <2>2. AtMost(Copies(m)', p.retry + 1)
      <3>1. Copies(m)' \subseteq Copies(m) \cup {frames + 1}
        BY SenderCopies
      <3> QED
        BY <1>0, <2>1, <3>1, AtMostAdd
    <2>3. AtMost(Copies(m)', 2) /\ (p.retry = 0 => AtMost(Copies(m)', 1))
      <3>1. CASE p.retry = 0
        <4>1. AtMost(Copies(m)', 1)
          BY <2>2, <3>1
        <4> QED
          BY <3>1, <4>1, AtMostMore
      <3>2. CASE p.retry = 1
        BY <2>2, <3>2
      <3> QED
        BY <1>0, <3>1, <3>2
    <2>4. ~IsMessage(pending', m)
      <3>1. CASE pending' = Nothing
        BY <1>0, <3>1 DEF IsMessage
      <3>2. CASE pending' = pending /\ p = NewMessage
        BY <1>0, <1>2, <3>2 DEF IsMessage, Refers
      <3> QED
        BY <1>2, <3>1, <3>2 DEF Sender, IsMessage
    <2>5. LastCounted(m)'
      <3>1. CASE socks[s].expired
        <4>1. Copies(m)' \subseteq Copies(m) /\ p.retry \in 0..2
          BY <1>0, <3>1, SenderCopies
        <4>2. AtMost(Copies(m)', p.retry)
          BY <2>1, <4>1, AtMostLess
        <4> QED
          BY <1>0, <3>1, <4>2 DEF LastCounted
      <3>2. CASE ~socks[s].expired
        <4>1. MayTell' => socks'[s].up = Append(socks[s].up, Sent(p))
          BY <1>0, SenderSockets DEF MayTell
        <4>2. LET up == Append(socks[s].up, Sent(p)) IN up[Len(up)] = Sent(p)
          <5>1. socks[s].up \in Seq(Payloads) /\ Sent(p) \in Payloads
            BY SocketFields, SenderSockets DEF ChatTyped
          <5> QED
            BY <5>1, AppendProperties
        <4>3. IsMessage(Sent(p), m)
          BY <1>0, <1>2 DEF IsMessage
        <4> QED
          BY <1>0, <2>2, <3>2, <4>1, <4>2, <4>3 DEF LastCounted
      <3> QED
        BY <3>1, <3>2
    <2> QED
      BY <1>0, <2>3, <2>4, <2>5
  <1> QED
    BY <1>1, <1>2

LEMMA ChatCounted ==
  ASSUME ChatTyped, ChatTyped', Refers, Refers', Numbered, Links, Links', Counted2, ChatStep
  PROVE  Counted2'
  <1>1. ASSUME Fades, \A m : Copies(m)' \subseteq Copies(m) PROVE Counted2' \/ \E p \in Payloads, s \in DOMAIN socks : Sender(p, s)
    <2>1. CASE ToldBefore
      BY <1>1, <2>1, FadesCounted, LastKept DEF Counted2
    <2>2. CASE /\ client' = client /\ client.ws \in DOMAIN socks /\ ~socks[client.ws].expired
               /\ flows' = flows /\ DOMAIN socks' = DOMAIN socks
               /\ socks'[client.ws] = [socks[client.ws] EXCEPT !.expired = TRUE]
               /\ \A r \in DOMAIN socks : r # client.ws => socks'[r] = socks[r]
      BY <1>1, <2>2, FadesCounted, LastExpires DEF Counted2
    <2> QED
      BY <1>1, <2>1, <2>2, FadesTells
  <1>2. CASE \E p \in Payloads, s \in DOMAIN socks : Sender(p, s)
    BY <1>2, SenderCounted DEF Counted2
  <1>3. CASE Kept /\ Fades
    <2>1. Stays
      BY ChatMoves DEF Moves
    <2> QED
      BY <1>1, <1>2, <1>3, <2>1, KeptCopies
  <1>4. ASSUME NEW s \in DOMAIN socks, ReadsNext(s), Fades PROVE Counted2'
    BY <1>1, <1>2, <1>4, ReadsCopies
  <1> QED
    BY <1>2, <1>3, <1>4, ChatKept

-----------------------------------------------------------------------------
(* The chat.                                                               *)

LEMMA ChatStarts == ChatInit => ChatInv
  <1> SUFFICES ASSUME ChatInit PROVE ChatInv
    OBVIOUS
  <1>1. /\ MaxEvents \in Nat /\ MaxAuth \in Nat /\ MaxTries \in Nat
        /\ Nothing \in Payloads /\ Nothing.kind = "none"
    BY ChatBounds, NothingTyped
  <1>2. socks = <<>> /\ flows = <<>> /\ wrote = <<>> /\ DOMAIN socks = {} /\ DOMAIN flows = {} /\ DOMAIN wrote = {}
        /\ Len(socks) = 0 /\ Len(flows) = 0
    BY EmptySeq DEF ChatInit
  <1>3. socks \in Seq(Sockets) /\ flows \in Seq(Workflows) /\ wrote \in Seq(Convs)
        /\ asked \in [Convs -> Seq(Nat)] /\ \A c \in Convs : asked[c] = <<>> /\ DOMAIN asked[c] = {}
    BY EmptySeq DEF ChatInit
  <1>4. ChatTyped
    <2>1. client \in Clients
      BY <1>1 DEF ChatInit, Clients
    <2>2. FlagsTyped
      BY DEF ChatInit, FlagsTyped
    <2>3. HookTyped
      BY <1>1, <1>3 DEF ChatInit, HookTyped
    <2> QED
      BY <1>3, <2>1, <2>2, <2>3 DEF ChatTyped
  <1>5. Refers /\ SocketsOwned /\ PromptsOwned /\ StaysInConversation
    BY <1>1, <1>2, <1>3 DEF ChatInit, Refers, SocketsOwned, PromptsOwned, StaysInConversation
  <1>6. Numbered /\ Links /\ Counted2
    BY <1>2 DEF Numbered, Links, Counted2
  <1> QED
    BY <1>4, <1>5, <1>6 DEF ChatInv

LEMMA ChatPreserves == ChatInv /\ ChatNext => ChatInv'
  <1> SUFFICES ASSUME ChatInv, ChatNext PROVE ChatInv'
    OBVIOUS
  <1>1. /\ ChatTyped /\ Refers /\ SocketsOwned /\ PromptsOwned /\ StaysInConversation
        /\ Numbered /\ Links /\ Counted2
    BY DEF ChatInv
  <1>2. ChatTyped' /\ ChatStep
    BY <1>1, ChatTypes, ChatSteps
  <1>3. Refers' /\ SocketsOwned' /\ PromptsOwned' /\ StaysInConversation'
    BY <1>1, <1>2, ChatMoves, ChatRoutes, ChatPrompts, ChatPayloads, ChatIsolated
  <1>4. Links' /\ Numbered'
    BY <1>1, <1>2, ChatLinks, ChatNumbered
  <1>5. Counted2'
    BY <1>1, <1>2, <1>3, <1>4, ChatCounted
  <1> QED
    BY <1>2, <1>3, <1>4, <1>5 DEF ChatInv

LEMMA ChatStutters == ChatInv /\ UNCHANGED chatVars => ChatInv'
  <1> SUFFICES ASSUME ChatInv, UNCHANGED chatVars PROVE ChatInv'
    OBVIOUS
  <1> USE DEF ChatInv, chatVars, hookVars, serverVars
  <1>1. ChatTyped'
    BY DEF ChatTyped, FlagsTyped, HookTyped
  <1>2. Refers'
    BY DEF Refers
  <1>3. SocketsOwned' /\ PromptsOwned' /\ StaysInConversation'
    BY DEF SocketsOwned, PromptsOwned, StaysInConversation
  <1>4. Numbered' /\ Links'
    BY DEF Numbered, Links
  <1>5. Counted2'
    BY SMTT(30) DEF Counted2, LastCounted, MayTell, Copies, Ran, UnderWay, AtMost, IsMessage
  <1> QED
    BY <1>1, <1>2, <1>3, <1>4, <1>5

LEMMA ChatInvariant == ChatInit /\ [][ChatNext]_chatVars => []ChatInv
  <1>1. ChatInv /\ [ChatNext]_chatVars => ChatInv'
    BY ChatPreserves, ChatStutters
  <1> QED
    BY <1>1, ChatStarts, PTL

LEMMA ChatInvTypes == ChatInv => ChatTypeOK
  <1> SUFFICES ASSUME ChatInv PROVE ChatTypeOK
    OBVIOUS
  <1>1. ChatTyped /\ Refers
    BY DEF ChatInv
  <1>2. client.tries \in 0..MaxTries
    BY <1>1 DEF ChatTyped, Clients
  <1>3. {p.kind : p \in {pending, lastSent, unack}} \subseteq {"none", "message", "answer"}
    BY <1>1 DEF ChatTyped, HookTyped, Payloads
  <1> QED
    BY <1>1, <1>2, <1>3 DEF ChatTypeOK, ChatTyped, FlagsTyped, HookTyped, Refers

LEMMA SmallSet ==
  ASSUME NEW S, AtMost(S, 2) PROVE Cardinality(S) <= 2
  <1>0. \A a, b, c \in S : a = b \/ a = c \/ b = c
    BY DEF AtMost
  <1>1. CASE S = {}
    <2>1. Cardinality(S) = 0
      BY <1>1, FS_EmptySet
    <2> QED
      BY <2>1
  <1>2. CASE S # {}
    <2>1. PICK a : a \in S
      BY <1>2
    <2>2. IsFiniteSet({a}) /\ Cardinality({a}) = 1
      BY FS_Singleton
    <2>3. CASE S = {a}
      BY <2>2, <2>3
    <2>4. CASE S # {a}
      <3>1. PICK b : b \in S /\ b # a
        BY <2>1, <2>4
      <3>2. S = {a} \cup {b}
        BY <1>0, <2>1, <3>1
      <3>3. Cardinality({a} \cup {b}) = IF b \in {a} THEN Cardinality({a}) ELSE Cardinality({a}) + 1
        BY <2>2, FS_AddElement
      <3> QED
        BY <2>2, <3>1, <3>2, <3>3
    <2> QED
      BY <2>3, <2>4
  <1> QED
    BY <1>1, <1>2

\* The runs of a message are copies of it, and different runs have different
\* frames.
LEMMA ChatInvRuns == ChatInv => RunsAtMostTwice
  <1> SUFFICES ASSUME ChatInv, NEW m \in DOMAIN wrote
               PROVE  Cardinality({f \in DOMAIN flows : flows[f].msg = m}) <= 2
    BY DEF RunsAtMostTwice
  <1> DEFINE runs == {f \in DOMAIN flows : flows[f].msg = m}
  <1>1. \A f \in runs : flows[f].id \in Copies(m)
    <2>1. \A f \in DOMAIN flows : flows[f].id \in Nat
      <3>1. Numbered /\ frames \in Nat
        BY DEF ChatInv, ChatTyped, HookTyped
      <3> QED
        BY <3>1 DEF Numbered
    <2> QED
      BY <2>1 DEF Copies, Ran
  <1>2. AtMost(Copies(m), 2)
    BY DEF ChatInv, Counted2
  <1>3. \A f, g \in runs : flows[f].id = flows[g].id => f = g
    BY DEF ChatInv, Numbered
  <1>4. \A a, b, c \in runs : a = b \/ a = c \/ b = c
    BY <1>1, <1>2, <1>3 DEF AtMost
  <1>5. AtMost(runs, 2)
    BY <1>4 DEF AtMost
  <1> QED
    BY <1>5, SmallSet

-----------------------------------------------------------------------------
(* The view: the latest job, and the records of what is under way.         *)

LEMMA MaxExists ==
  ASSUME NEW n \in Nat, NEW S, S \subseteq 1..n, S # {}
  PROVE  Max(S) \in S
  <1> DEFINE T == {x \in Nat : n - x \in S}
             less == OpToRel(<, Nat)
  <1>1. \A k \in S : k \in Nat /\ n - k \in Nat /\ n - (n - k) = k
    OBVIOUS
  <1>2. T \subseteq Nat /\ T # {}
    BY <1>1
  <1>3. PICK t \in T : \A u \in T : ~ (<<u, t>> \in less)
    BY <1>2, NatLessThanWellFounded, WFMin
  <1>4. \A u \in T : <<u, t>> \in Nat \X Nat /\ (u < t => <<u, t>> \in less)
    BY <1>3 DEF OpToRel
  <1>5. \A u \in T : t <= u
    <2>1. \A u \in T : u \in Nat /\ ~ (u < t)
      BY <1>3, <1>4
    <2> HIDE DEF T
    <2>2. t \in Nat
      BY <1>2, <1>3
    <2> QED
      BY <2>1, <2>2
  <1>6. n - t \in S /\ t \in Nat
    BY <1>3
  <1>7. \A l \in S : n - l \in T
    BY <1>1
  <1>8. \A l \in S : n - t >= l
    BY <1>1, <1>5, <1>6, <1>7
  <1> QED
    BY <1>6, <1>8 DEF Max

LEMMA NewestIsOne ==
  ASSUME NEW ms \in Seq(Jobs), NEW js
  PROVE  Newest(ms, js) = None \/ Newest(ms, js) \in js \cap Jobs
  <1> DEFINE own == {k \in DOMAIN ms : ms[k] \in js}
  <1>1. CASE own = {}
    BY <1>1 DEF Newest
  <1>2. CASE own # {}
    <2>1. Len(ms) \in Nat /\ own \subseteq 1..Len(ms)
      BY LenProperties
    <2>2. Max(own) \in own
      BY <1>2, <2>1, MaxExists
    <2>3. Newest(ms, js) = ms[Max(own)]
      BY <1>2 DEF Newest
    <2> HIDE DEF own
    <2>4. \A k \in own : k \in DOMAIN ms /\ ms[k] \in js
      BY DEF own
    <2>5. ms[Max(own)] \in Jobs
      BY <2>2, <2>4, LenProperties
    <2> QED
      BY <2>2, <2>3, <2>4, <2>5
  <1> QED
    BY <1>1, <1>2

LEMMA NoneIsNone == None \notin Jobs /\ None \notin Chats /\ MaxActs \in Nat
  BY ViewAssumption

LEMMA LatestIsOf ==
  ASSUME Started, NEW c
  PROVE  Latest(c) = None \/ (Latest(c) \in Jobs /\ home[Latest(c)] = c)
  BY NewestIsOne DEF Started, Latest

\* A check of banners is about jobs of its conversation.
LEMMA CheckingOwned ==
  ASSUME NEW h, NEW c \in Chats, NEW todo \in SUBSET Jobs, \A j \in todo : h[j] = c, NEW t \in Checking(c, todo)
  PROVE  t \in Restores /\ h[t.job] = t.chat /\ \A j \in t.todo : h[j] = t.chat
  <1>1. CASE todo = {}
    BY <1>1 DEF Checking
  <1>2. CASE todo # {}
    <2>1. PICK j \in todo : t = [step |-> "banners", chat |-> c, job |-> j, todo |-> todo \ {j}, got |-> "asked"]
      BY <1>2 DEF Checking
    <2> QED
      BY <2>1 DEF Restores, Answers
  <1> QED
    BY <1>1, <1>2

LEMMA RestoringOwned ==
  ASSUME made' \in Seq(Jobs), NEW c \in Chats, NEW t \in Restoring(c)
  PROVE  RestoreOwned(t)'
  <1> DEFINE js == {j \in Jobs : /\ home'[j] = c /\ message'[j].on
                                 /\ message'[j].status \in {"submitted", "running"}}
             on == Newest(made', js)
  <1>1. on = None \/ on \in js
    BY NewestIsOne
  <1>2. CASE on # None
    <2>1. t = [step |-> "reconnect", chat |-> c, job |-> on, todo |-> {}, got |-> "asked"]
      BY <1>2 DEF Restoring
    <2>2. on \in Jobs /\ home'[on] = c
      BY <1>1, <1>2
    <2> HIDE DEF on
    <2> QED
      BY <2>1, <2>2 DEF RestoreOwned, Restores, Answers
  <1>3. CASE on = None
    <2>1. t \in Checking(c, Starting(c))
      BY <1>3 DEF Restoring
    <2>2. Starting(c) \in SUBSET Jobs /\ \A j \in Starting(c) : home'[j] = c
      BY DEF Starting
    <2> QED
      BY <2>1, <2>2, CheckingOwned DEF RestoreOwned
  <1> QED
    BY <1>2, <1>3

-----------------------------------------------------------------------------
(* The view: jobs and their messages.                                      *)

SettledMessages ==
  /\ message' \in [Jobs -> [status : Statuses, on : BOOLEAN]]
  /\ \A j \in Jobs : message'[j].status = "none" <=> message[j].status = "none"

LEMMA SettledKeeps ==
  ASSUME Started, NEW j \in Jobs, home[j] # None, NEW s \in Ended, message' = Settled(j, s)
  PROVE  SettledMessages
  <1>1. message' = [message EXCEPT ![j] = [status |-> s, on |-> FALSE]]
    BY DEF Settled
  <1>2. s \in Statuses /\ s # "none"
    BY DEF Statuses, Ended
  <1>3. message[j].status # "none"
    BY DEF Started
  <1> QED
    BY <1>1, <1>2, <1>3 DEF SettledMessages, Started

LEMMA SameMessages ==
  ASSUME Started, message' = message PROVE SettledMessages
  BY DEF SettledMessages, Started

LEMMA EndsLiveKeeps ==
  ASSUME Started, StoreTyped, StoreOwned, NEW s \in Ended, NEW j, NEW b, EndsLive(s, j, b)
  PROVE  SettledMessages /\ home' = home /\ made' = made /\ chat' = chat /\ busy' = FALSE
  <1>1. CASE store.owner # None /\ store.active # None
    <2>1. store.active \in Jobs /\ home[store.active] # None
      BY <1>1 DEF StoreTyped, Stores, StoreOwned
    <2>2. message' = Settled(store.active, s)
      BY <1>1 DEF EndsLive
    <2> QED
      BY <2>1, <2>2, SettledKeeps DEF EndsLive
  <1>2. CASE ~(store.owner # None /\ store.active # None)
    BY <1>2, SameMessages DEF EndsLive
  <1> QED
    BY <1>1, <1>2

LEMMA EndedReply ==
  ASSUME Started, NEW t \in Restores
  PROVE  t.got \notin {"asked", "error", "running", "gone"} => t.got \in Ended
  BY DEF Restores, Answers

LEMMA ReconnectKeeps ==
  ASSUME Started, NEW t, RestoreOwned(t), Reconnects(t)
  PROVE  SettledMessages
  <1>1. t \in Restores /\ t.job \in Jobs /\ home[t.job] # None
    BY NoneIsNone DEF RestoreOwned, Restores
  <1>2. CASE message' = message
    BY <1>2, SameMessages
  <1>3. CASE message' = Settled(t.job, "failure")
    BY <1>1, <1>3, SettledKeeps DEF Ended
  <1>4. CASE message' = [message EXCEPT ![t.job].on = FALSE]
    BY <1>1, <1>4, ZenonT(40) DEF Started, SettledMessages
  <1>5. CASE t.got \notin {"asked", "error", "running", "gone"} /\ message' = Settled(t.job, t.got)
    BY <1>1, <1>5, EndedReply, SettledKeeps
  <1> QED
    BY <1>2, <1>3, <1>4, <1>5 DEF Reconnects

LEMMA BannersKeep ==
  ASSUME Started, NEW t, RestoreOwned(t), ChecksBanner(t)
  PROVE  SettledMessages
  <1>1. t.job \in Jobs /\ home[t.job] # None
    BY NoneIsNone DEF RestoreOwned, Restores
  <1>2. CASE message' = message
    BY <1>2, SameMessages
  <1>3. CASE \E s \in Ended : message' = Settled(t.job, s)
    BY <1>1, <1>3, SettledKeeps
  <1> QED
    BY <1>2, <1>3 DEF ChecksBanner

LEMMA LoadKeeps ==
  ASSUME Started, NEW t, LoadOwned(t), LoadClears(t)
  PROVE  SettledMessages
  <1>1. t.job \in Jobs /\ home[t.job] # None
    BY NoneIsNone DEF LoadOwned, Loads
  <1>2. CASE message' = message
    BY <1>2, SameMessages
  <1>3. CASE message' = Settled(t.job, "failure")
    BY <1>1, <1>3, SettledKeeps DEF Ended
  <1> QED
    BY <1>2, <1>3 DEF LoadClears, LoadFails

LEMMA RefreshKeeps ==
  ASSUME Started, TasksOwned, RefreshApplies
  PROVE  SettledMessages
  <1>0. refresh.got \in [Jobs -> Answers]
    BY DEF TasksOwned, Refreshes
  <1>1. PICK known \in SUBSET Jobs :
          /\ \A j \in known : home[j] # None /\ refresh.got[j] \notin {"asked", "error"}
          /\ message' = [j \in Jobs |->
               IF j \in known
               THEN IF refresh.got[j] = "running" THEN [status |-> "running", on |-> TRUE]
                    ELSE [status |-> IF refresh.got[j] = "gone" THEN "failure" ELSE refresh.got[j],
                          on |-> FALSE]
               ELSE message[j]]
    <2> DEFINE known == {j \in {Latest(c) : c \in Chats} \ {None} : refresh.got[j] \notin {"asked", "error"}}
    <2>1. \A c \in Chats : Latest(c) = None \/ (Latest(c) \in Jobs /\ home[Latest(c)] = c)
      BY LatestIsOf
    <2>2. \A j \in known : j \in Jobs /\ home[j] # None /\ refresh.got[j] \notin {"asked", "error"}
      BY <2>1, NoneIsNone
    <2>3. message' = [j \in Jobs |->
               IF j \in known
               THEN IF refresh.got[j] = "running" THEN [status |-> "running", on |-> TRUE]
                    ELSE [status |-> IF refresh.got[j] = "gone" THEN "failure" ELSE refresh.got[j],
                          on |-> FALSE]
               ELSE message[j]]
      BY DEF RefreshApplies
    <2> HIDE DEF known
    <2>4. known \in SUBSET Jobs
      BY <2>2
    <2> QED
      BY <2>2, <2>3, <2>4
  <1>2. ASSUME NEW j \in Jobs
        PROVE  /\ message'[j] \in [status : Statuses, on : BOOLEAN]
               /\ message'[j].status = "none" <=> message[j].status = "none"
    <2>1. CASE j \notin known
      BY <1>1, <2>1 DEF Started
    <2>2. CASE j \in known
      <3>1. message[j].status # "none" /\ refresh.got[j] \in {"running", "gone"} \cup Ended
        BY <1>0, <1>1, <2>2 DEF Started, Answers
      <3> QED
        BY <1>1, <2>2, <3>1 DEF Statuses, Ended
    <2> QED
      BY <2>1, <2>2
  <1>3. message' \in [Jobs -> [status : Statuses, on : BOOLEAN]]
    BY <1>1, <1>2
  <1> QED
    BY <1>2, <1>3 DEF SettledMessages

JobsKept ==
  /\ home' = home /\ made' = made /\ SettledMessages
  /\ server' \in [Jobs -> {"none", "running", "gone"} \cup Ended]
  /\ \A j \in Jobs : server'[j] = "none" <=> server[j] = "none"

LEMMA SameJobs ==
  ASSUME Started, SettledMessages, home' = home, made' = made, server' = server PROVE JobsKept
  BY DEF JobsKept, Started

\* Only the server's word on a job that was started changes.
LEMMA ServerTurns ==
  ASSUME Started, message' = message, home' = home, made' = made, NEW j \in Jobs, NEW s \in {"gone"} \cup Ended,
         server' = [server EXCEPT ![j] = s], server[j] # "none"
  PROVE  JobsKept
  <1>1. SettledMessages
    BY SameMessages
  <1>2. s # "none"
    BY DEF Ended
  <1> QED
    BY <1>1, <1>2 DEF JobsKept, Started

LEMMA FollowsKeeps ==
  ASSUME Started, StoreTyped, StoreOwned, SourceTyped, Follows PROVE JobsKept
  <1>1. CASE Streams \/ ReplayCompletes \/ Relinks \/ JobMissing
    <2>1. message' = message /\ home' = home /\ made' = made /\ server' = server
      BY <1>1 DEF Streams, ReplayCompletes, Relinks, JobMissing, Refuses, Drops, storeVars
    <2> QED
      BY <2>1, SameMessages, SameJobs
  <1>2. CASE StreamStatus
    <2>1. SettledMessages /\ home' = home /\ made' = made
      <3>1. CASE OwnerActive(source.job)
        BY <1>2, <3>1, EndsLiveKeeps DEF StreamStatus
      <3>2. CASE ~OwnerActive(source.job)
        BY <1>2, <3>2, SameMessages DEF StreamStatus
      <3> QED
        BY <3>1, <3>2
    <2> QED
      BY <1>2, <2>1, SameJobs DEF StreamStatus
  <1>3. ASSUME NEW j \in Jobs, HealthAnswers(j) PROVE JobsKept
    <2>1. SettledMessages /\ home' = home /\ made' = made
      BY <1>3, EndsLiveKeeps DEF HealthAnswers, Ended
    <2> QED
      BY <1>3, <2>1, SameJobs DEF HealthAnswers
  <1>4. ASSUME NEW j \in Jobs, CancelFallback(j) PROVE JobsKept
    <2>1. SettledMessages /\ home' = home /\ made' = made
      <3>1. CASE store.live /\ store.job = j
        BY <1>4, <3>1, EndsLiveKeeps DEF CancelFallback, Ended
      <3>2. CASE ~(store.live /\ store.job = j)
        BY <1>4, <3>2, SameMessages DEF CancelFallback
      <3> QED
        BY <3>1, <3>2
    <2> QED
      BY <1>4, <2>1, SameJobs DEF CancelFallback
  <1>5. ASSUME NEW j \in Jobs, CancelAnswered(j) PROVE JobsKept
    <2>1. message' = message /\ home' = home /\ made' = made
      BY <1>5 DEF CancelAnswered, storeVars
    <2>2. CASE server' = server
      BY <2>1, <2>2, SameMessages, SameJobs
    <2>3. CASE server[j] = "running" /\ server' = [server EXCEPT ![j] = "interrupted"]
      BY <2>1, <2>3, ServerTurns DEF Ended
    <2> QED
      BY <1>5, <2>2, <2>3 DEF CancelAnswered
  <1> QED
    BY <1>1, <1>2, <1>3, <1>4, <1>5 DEF Follows

LEMMA AsyncKeeps ==
  ASSUME Started, TasksOwned, Async PROVE JobsKept
  <1>1. ASSUME NEW t \in restores, Reconnects(t) PROVE JobsKept
    <2>1. SettledMessages
      BY <1>1, ReconnectKeeps DEF TasksOwned
    <2> QED
      BY <1>1, <2>1, SameJobs DEF Reconnects
  <1>2. ASSUME NEW t \in restores, ChecksBanner(t) PROVE JobsKept
    <2>1. SettledMessages
      BY <1>2, BannersKeep DEF TasksOwned
    <2> QED
      BY <1>2, <2>1, SameJobs DEF ChecksBanner
  <1>3. ASSUME NEW t \in loads, LoadClears(t) PROVE JobsKept
    <2>1. SettledMessages
      BY <1>3, LoadKeeps DEF TasksOwned
    <2> QED
      BY <1>3, <2>1, SameJobs DEF LoadClears
  <1>4. CASE RefreshApplies
    BY <1>4, RefreshKeeps, SameJobs DEF RefreshApplies
  <1>5. ASSUME NEW t, RestoreAnswers(t) \/ LoadAnswers(t) \/ LoadShows(t) PROVE JobsKept
    <2>1. message' = message /\ home' = home /\ made' = made /\ server' = server
      BY <1>5 DEF RestoreAnswers, LoadAnswers, LoadShows, storeVars
    <2> QED
      BY <2>1, SameMessages, SameJobs
  <1>6. ASSUME NEW j, RefreshReads(j) PROVE JobsKept
    <2>1. message' = message /\ home' = home /\ made' = made /\ server' = server
      BY <1>6 DEF RefreshReads, storeVars
    <2> QED
      BY <2>1, SameMessages, SameJobs
  <1> QED
    BY <1>1, <1>2, <1>3, <1>4, <1>5, <1>6 DEF Async

LEMMA OthersKeep ==
  ASSUME Started, StoreTyped, Clicks \/ Outside \/ \E j \in Jobs : JobEnds(j)
  PROVE  JobsKept \/ \E j \in Jobs : Escalates(j)
  <1>1. ASSUME message' = message, home' = home, made' = made, server' = server PROVE JobsKept
    BY <1>1, SameMessages, SameJobs
  <1>2. CASE Reload \/ Cancel \/ RefreshStarts \/ Completes \/ StreamData \/ LinkDrops \/ RefusesOnce \/ GivesUp
    BY <1>1, <1>2 DEF Reload, Cancel, RefreshStarts, Completes, StreamData, LinkDrops, RefusesOnce, Refuses, GivesUp, Drops,
                      storeVars
  <1>3. ASSUME NEW c, Select(c) PROVE JobsKept
    BY <1>1, <1>3 DEF Select
  <1>4. ASSUME NEW j, NEW full, LoadStarts(j, full) PROVE JobsKept
    BY <1>1, <1>4 DEF LoadStarts, storeVars
  <1>5. ASSUME NEW j, AbandonedFlush(j) PROVE JobsKept
    BY <1>1, <1>5 DEF AbandonedFlush
  <1>6. ASSUME NEW t, LoadBreaks(t) PROVE JobsKept
    BY <1>1, <1>6 DEF LoadBreaks
  <1>7. ASSUME NEW j \in Jobs, JobEnds(j) PROVE JobsKept
    <2>1. message' = message /\ home' = home /\ made' = made /\ server[j] # "none"
      BY <1>7 DEF JobEnds, storeVars
    <2>2. PICK s \in {"success", "failure"} : server' = [server EXCEPT ![j] = s]
      BY <1>7 DEF JobEnds
    <2> QED
      BY <2>1, <2>2, ServerTurns DEF Ended
  <1>8. ASSUME NEW j \in Jobs, JobExpires(j) PROVE JobsKept
    <2>1. message' = message /\ home' = home /\ made' = made /\ server[j] # "none"
      BY <1>8 DEF JobExpires, storeVars, Ended
    <2> QED
      BY <1>8, <2>1, ServerTurns DEF JobExpires
  <1> QED
    BY <1>2, <1>3, <1>4, <1>5, <1>6, <1>7, <1>8 DEF Clicks, Outside

LEMMA ViewKeeps ==
  ASSUME ViewInv, ViewNext PROVE JobsKept \/ \E j \in Jobs : Escalates(j)
  BY FollowsKeeps, AsyncKeeps, OthersKeep DEF ViewInv, ViewNext

\* What a job belongs to does not change.
HomesKept ==
  /\ home' \in [Jobs -> Chats \cup {None}]
  /\ \A j \in Jobs : home[j] # None => home'[j] = home[j]

LEMMA ViewStarted ==
  ASSUME ViewInv, ViewNext PROVE Started' /\ HomesKept
  <1>0. Started /\ chat \in Chats
    BY DEF ViewInv, StoreTyped
  <1>1. CASE JobsKept
    BY <1>0, <1>1 DEF JobsKept, SettledMessages, Started, HomesKept
  <1>2. ASSUME NEW j \in Jobs, Escalates(j) PROVE Started' /\ HomesKept
    <2>1. /\ server[j] = "none" /\ server' = [server EXCEPT ![j] = "running"]
          /\ made' = Append(made, j) /\ home' = [home EXCEPT ![j] = chat]
          /\ message' = [message EXCEPT ![j] = [status |-> "submitted", on |-> TRUE]]
      BY <1>2 DEF Escalates
    <2>2. home[j] = None /\ chat # None
      BY <1>0, <2>1, NoneIsNone DEF Started
    <2>3. HomesKept
      BY <1>0, <2>1, <2>2 DEF HomesKept, Started
    <2>4. made' \in Seq(Jobs)
      BY <1>0, <2>1, AppendProperties DEF Started
    <2>5. message' \in [Jobs -> [status : Statuses, on : BOOLEAN]]
      BY <1>0, <2>1 DEF Started, Statuses
    <2>6. server' \in [Jobs -> {"none", "running", "gone"} \cup Ended]
      BY <1>0, <2>1 DEF Started
    <2>7. \A i \in Jobs : /\ server'[i] = "none" <=> home'[i] = None
                          /\ message'[i].status = "none" <=> home'[i] = None
      BY <1>0, <2>1, <2>2 DEF Started
    <2> QED
      BY <2>3, <2>4, <2>5, <2>6, <2>7 DEF Started, HomesKept
  <1> QED
    BY <1>1, <1>2, ViewKeeps

-----------------------------------------------------------------------------
(* The view: the store and what is shown.                                  *)

Mine == {j \in Jobs : home[j] = chat}
StoreGood == StoreTyped' /\ StoreOwned' /\ ViewStaysInChat'

LEMMA OwnerIsMine ==
  ASSUME StoreOwned, NEW j, OwnerActive(j) PROVE j \in Mine
  BY DEF StoreOwned, OwnerActive, Mine

\* The store goes on with its owner, and what is added is of the conversation.
LEMMA StoreStays ==
  ASSUME Started, HomesKept, StoreTyped, StoreOwned, ViewStaysInChat,
         chat' = chat, store' \in Stores, store'.owner = store.owner, store'.active = store.active,
         store'.live => store.live /\ store'.job \in {store.job} \cup Mine,
         shown' \subseteq shown \cup Mine, report' \in {report, None} \cup Mine
  PROVE  StoreGood
  <1>0. chat \in Chats /\ chat # None
    BY NoneIsNone DEF StoreTyped
  <1>1. StoreTyped'
    BY DEF StoreTyped, Mine
  <1>2. StoreOwned'
    <2>1. store'.owner \in {None, chat'}
      BY DEF StoreOwned
    <2>2. store'.active # None => home'[store'.active] # None
      BY DEF StoreOwned, HomesKept, StoreTyped, Stores
    <2>3. ASSUME store'.live, store'.owner # None
          PROVE  store'.job \in Jobs /\ home'[store'.job] = store'.owner
      <3>1. store'.owner = chat
        BY <2>1, <2>3
      <3>2. store'.job \in Jobs /\ home[store'.job] = chat
        BY <2>3, <3>1 DEF StoreOwned, Mine
      <3> QED
        BY <1>0, <3>1, <3>2 DEF HomesKept
    <2> QED
      BY <2>1, <2>2, <2>3 DEF StoreOwned
  <1>3. ViewStaysInChat'
    BY <1>0 DEF ViewStaysInChat, StoreTyped, HomesKept, Mine
  <1> QED
    BY <1>1, <1>2, <1>3 DEF StoreGood

\* The store is given another content, and what was shown is not shown any more.
LEMMA StoreIsReset ==
  ASSUME chat' \in Chats, store' \in Stores, store'.owner \in {None, chat'},
         store'.active # None => home'[store'.active] # None,
         store'.live => store'.job \in Jobs /\ home'[store'.job] = store'.owner,
         shown' = {}, report' = None
  PROVE  StoreGood
  BY DEF StoreGood, StoreTyped, StoreOwned, ViewStaysInChat

LEMMA IdleTyped ==
  /\ Idle \in Stores /\ ~Idle.live /\ Idle.owner = None /\ Idle.active = None
  BY DEF Idle, Stores, Statuses

LEMMA RestoredTyped ==
  ASSUME Started, NEW c \in Chats
  PROVE  /\ Restored(c) \in Stores /\ ~Restored(c).live /\ Restored(c).owner = c
         /\ Restored(c).active # None => home[Restored(c).active] # None
  <1>1. Latest(c) = None \/ (Latest(c) \in Jobs /\ home[Latest(c)] = c)
    BY LatestIsOf
  <1> QED
    BY <1>1, NoneIsNone DEF Restored, Idle, Stores, Statuses

LEMMA SameStore ==
  ASSUME ViewInv, HomesKept, chat' = chat, store' = store,
         shown' \subseteq shown \cup Mine, report' \in {report, None} \cup Mine
  PROVE  StoreGood
  <1>1. store' \in Stores
    BY DEF ViewInv, StoreTyped
  <1> QED
    BY <1>1, StoreStays DEF ViewInv

LEMMA FollowsStore ==
  ASSUME ViewInv, HomesKept, Follows PROVE StoreGood
  <1>0. store \in Stores /\ StoreOwned
    BY DEF ViewInv, StoreTyped
  <1>1. CASE Streams \/ Relinks
    <2>1. chat' = chat /\ store' = store /\ shown' = shown /\ report' = report
      BY <1>1 DEF Streams, Relinks, storeVars
    <2> QED
      BY <2>1, SameStore
  <1>2. CASE ReplayCompletes
    <2>1. chat' = chat /\ store' = store /\ shown' \subseteq shown \cup Mine /\ report' \in {report, None} \cup Mine
      BY <1>0, <1>2, OwnerIsMine DEF ReplayCompletes, Flushed
    <2> QED
      BY <2>1, SameStore
  <1>3. CASE JobMissing
    <2>1. chat' = chat /\ store' = store /\ shown' \subseteq shown \cup Mine /\ report' = report
      BY <1>0, <1>3, OwnerIsMine DEF JobMissing, Refuses, Drops, Flushed
    <2> QED
      BY <2>1, SameStore
  <1>4. ASSUME chat' = chat, shown' = shown, report' = report, NEW b \in BOOLEAN, NEW s \in Statuses,
               store' = store \/ store' = [store EXCEPT !.live = FALSE, !.status = s, !.loaded = b]
        PROVE  StoreGood
    <2>1. CASE store' = store
      BY <1>4, <2>1, SameStore
    <2>2. CASE store' = [store EXCEPT !.live = FALSE, !.status = s, !.loaded = b]
      <3>1. store' \in Stores /\ store'.owner = store.owner /\ store'.active = store.active /\ ~store'.live
        BY <1>0, <2>2 DEF Stores
      <3> QED
        BY <1>4, <3>1, StoreStays DEF ViewInv
    <2> QED
      BY <1>4, <2>1, <2>2
  <1>5. CASE StreamStatus
    <2>1. chat' = chat /\ shown' = shown /\ report' = report /\ server[source.job] \in Ended
      BY <1>5 DEF StreamStatus, EndsLive
    <2>2. store' = store \/ store' = [store EXCEPT !.live = FALSE, !.status = server[source.job], !.loaded = TRUE]
      BY <1>5 DEF StreamStatus
    <2>3. server[source.job] \in Statuses
      BY <2>1 DEF Statuses
    <2> QED
      BY <1>4, <2>1, <2>2, <2>3
  <1>6. ASSUME NEW j, HealthAnswers(j) PROVE StoreGood
    <2>1. chat' = chat /\ shown' = shown /\ report' = report /\ store' = [store EXCEPT !.live = FALSE, !.loaded = TRUE]
      BY <1>6 DEF HealthAnswers, EndsLive
    <2>2. store.status \in Statuses /\ store' = [store EXCEPT !.live = FALSE, !.status = store.status, !.loaded = TRUE]
      BY <1>0, <2>1 DEF Stores
    <2> QED
      BY <1>4, <2>1, <2>2
  <1>7. ASSUME NEW j, CancelFallback(j) PROVE StoreGood
    <2>1. chat' = chat /\ shown' = shown /\ report' = report
          /\ (store' = store \/ store' = [store EXCEPT !.live = FALSE])
      BY <1>7 DEF CancelFallback, EndsLive
    <2>2. store.status \in Statuses /\ store.loaded \in BOOLEAN
          /\ [store EXCEPT !.live = FALSE] = [store EXCEPT !.live = FALSE, !.status = store.status, !.loaded = store.loaded]
      BY <1>0 DEF Stores
    <2> QED
      BY <1>4, <2>1, <2>2
  <1>8. ASSUME NEW j, CancelAnswered(j) PROVE StoreGood
    <2>1. chat' = chat /\ store' = store /\ shown' = shown /\ report' = report
      BY <1>8 DEF CancelAnswered, storeVars
    <2> QED
      BY <2>1, SameStore
  <1> QED
    BY <1>1, <1>2, <1>3, <1>5, <1>6, <1>7, <1>8 DEF Follows

LEMMA AsyncStore ==
  ASSUME ViewInv, HomesKept, Async PROVE StoreGood
  <1>0. store \in Stores /\ StoreOwned /\ chat \in Chats
    BY DEF ViewInv, StoreTyped
  <1>1. ASSUME chat' = chat, shown' = shown, report' = report, store' = store PROVE StoreGood
    BY <1>1, SameStore
  <1>2. ASSUME NEW t, RestoreAnswers(t) \/ ChecksBanner(t) \/ LoadAnswers(t) PROVE StoreGood
    BY <1>1, <1>2 DEF RestoreAnswers, ChecksBanner, LoadAnswers, storeVars
  <1>3. ASSUME NEW j, RefreshReads(j) PROVE StoreGood
    BY <1>1, <1>3 DEF RefreshReads, storeVars
  <1>4. ASSUME NEW t \in restores, Reconnects(t) PROVE StoreGood
    <2>1. RestoreOwned(t) /\ chat' = chat /\ home' = home
      BY <1>4 DEF ViewInv, TasksOwned, Reconnects
    <2>2. CASE store' = store /\ shown' = shown /\ report' = report
      BY <1>1, <2>1, <2>2
    <2>3. CASE /\ chat = t.chat /\ shown' = {} /\ report' = None
               /\ store' = [job |-> t.job, live |-> TRUE, status |-> "running", owner |-> chat,
                            active |-> t.job, loaded |-> FALSE]
      <3>1. t.job \in Jobs /\ home'[t.job] = chat /\ chat # None
        BY <1>0, <2>1, <2>3, NoneIsNone DEF RestoreOwned, Restores
      <3>2. store' \in Stores
        BY <1>0, <2>3, <3>1 DEF Stores, Statuses
      <3> QED
        BY <1>0, <2>1, <2>3, <3>1, <3>2, StoreIsReset
    <2> QED
      BY <1>4, <2>2, <2>3 DEF Reconnects
  <1>5. CASE RefreshApplies
    <2>1. chat' = chat
      BY <1>5 DEF RefreshApplies
    <2>2. CASE store' = store /\ shown' = shown /\ report' = report
      BY <1>1, <2>1, <2>2
    <2>3. CASE store' = Idle /\ shown' = {} /\ report' = None
      BY <1>0, <2>1, <2>3, IdleTyped, StoreIsReset
    <2> QED
      BY <1>5, <2>2, <2>3 DEF RefreshApplies
  <1>6. ASSUME NEW t \in loads, LoadClears(t) PROVE StoreGood
    <2>1. LoadOwned(t) /\ chat' = chat /\ home' = home /\ report' = report
      BY <1>6 DEF ViewInv, TasksOwned, LoadClears, LoadFails
    <2>2. CASE store' = store /\ shown' = shown
      BY <1>1, <2>1, <2>2
    <2>3. CASE t.got \in Ended /\ store' = [Idle EXCEPT !.status = t.got] /\ shown' = {}
      <3>1. store' \in Stores /\ ~store'.live /\ store'.owner = None /\ store'.active = None
        BY <2>3 DEF Stores, Statuses, Idle
      <3>2. StoreTyped' /\ StoreOwned'
        BY <1>0, <2>1, <2>3, <3>1 DEF StoreTyped, StoreOwned, ViewInv
      <3>3. ViewStaysInChat'
        BY <2>1, <2>3 DEF ViewStaysInChat, ViewInv
      <3> QED
        BY <3>2, <3>3 DEF StoreGood
    <2>4. CASE store' = [store EXCEPT !.live = FALSE] /\ shown' = shown
      <3>1. store' \in Stores /\ store'.owner = store.owner /\ store'.active = store.active /\ ~store'.live
        BY <1>0, <2>4 DEF Stores
      <3> QED
        BY <2>1, <2>4, <3>1, StoreStays DEF ViewInv
    <2> QED
      BY <1>6, <2>2, <2>3, <2>4 DEF LoadClears, LoadFails
  <1>7. ASSUME NEW t \in loads, LoadShows(t) PROVE StoreGood
    <2>1. LoadOwned(t) /\ chat' = chat /\ home' = home
      BY <1>7 DEF ViewInv, TasksOwned, LoadShows
    <2>2. CASE ~ScopeCurrent(t)
      BY <1>1, <1>7, <2>1, <2>2 DEF LoadShows
    <2>3. CASE ScopeCurrent(t)
      <3>1. t.job \in Mine /\ t.full \in BOOLEAN
        BY <2>1, <2>3 DEF LoadOwned, Loads, ScopeCurrent, Mine
      <3>2. store' = [store EXCEPT !.job = t.job, !.loaded = store.loaded \/ t.full]
        BY <1>7, <2>3 DEF LoadShows
      <3>3. /\ store' \in Stores /\ store'.owner = store.owner /\ store'.active = store.active
            /\ store'.live = store.live /\ store'.job = t.job
        BY <1>0, <3>1, <3>2 DEF Stores, Mine
      <3>4. shown' \subseteq shown \cup Mine /\ report' \in {report, None} \cup Mine
        BY <1>7, <2>3, <3>1 DEF LoadShows
      <3> QED
        BY <2>1, <3>1, <3>3, <3>4, StoreStays DEF ViewInv
    <2> QED
      BY <2>2, <2>3
  <1> QED
    BY <1>2, <1>3, <1>4, <1>5, <1>6, <1>7 DEF Async

LEMMA ClicksStore ==
  ASSUME ViewInv, HomesKept, Clicks PROVE StoreGood
  <1>0. store \in Stores /\ StoreOwned /\ chat \in Chats /\ Started /\ chat # None
    BY NoneIsNone DEF ViewInv, StoreTyped
  <1>1. CASE Cancel \/ RefreshStarts
    <2>1. chat' = chat /\ shown' = shown /\ report' = report /\ store' = store
      BY <1>1 DEF Cancel, RefreshStarts, storeVars
    <2> QED
      BY <2>1, SameStore
  <1>2. ASSUME NEW j, NEW full, LoadStarts(j, full) PROVE StoreGood
    <2>1. chat' = chat /\ shown' = shown /\ report' = report /\ store' = store
      BY <1>2 DEF LoadStarts, storeVars
    <2> QED
      BY <2>1, SameStore
  <1>3. ASSUME chat' \in Chats, home' = home, store' = Restored(chat'), shown' = {}, report' = None
        PROVE  StoreGood
    BY <1>0, <1>3, RestoredTyped, StoreIsReset
  <1>4. CASE Reload
    BY <1>0, <1>3, <1>4 DEF Reload
  <1>5. ASSUME NEW c \in Chats, Select(c) PROVE StoreGood
    BY <1>3, <1>5 DEF Select
  <1>6. ASSUME NEW j \in Jobs, Escalates(j) PROVE StoreGood
    <2>1. /\ chat' = chat /\ home' = [home EXCEPT ![j] = chat] /\ shown' = {} /\ report' = None
          /\ store' = [job |-> j, live |-> TRUE, status |-> "submitted", owner |-> chat,
                       active |-> j, loaded |-> FALSE]
      BY <1>6 DEF Escalates
    <2>2. home'[j] = chat
      BY <1>0, <2>1 DEF Started
    <2>3. store' \in Stores
      BY <1>0, <2>1 DEF Stores, Statuses
    <2> QED
      BY <1>0, <2>1, <2>2, <2>3, StoreIsReset
  <1> QED
    BY <1>1, <1>2, <1>4, <1>5, <1>6 DEF Clicks

LEMMA OutsideStore ==
  ASSUME ViewInv, HomesKept, Outside \/ \E j \in Jobs : JobEnds(j) PROVE StoreGood
  <1>0. store \in Stores /\ StoreOwned
    BY DEF ViewInv, StoreTyped
  <1>1. ASSUME chat' = chat, store' = store, shown' \subseteq shown \cup Mine, report' \in {report, None} \cup Mine
        PROVE  StoreGood
    BY <1>1, SameStore
  <1>2. CASE LinkDrops \/ Completes
    BY <1>1, <1>2 DEF LinkDrops, Completes, storeVars
  <1>3. CASE RefusesOnce \/ GivesUp
    <2>1. chat' = chat /\ store' = store /\ shown' \subseteq shown \cup Mine /\ report' = report
      BY <1>0, <1>3, OwnerIsMine DEF RefusesOnce, GivesUp, Refuses, Drops, Flushed
    <2> QED
      BY <1>1, <2>1
  <1>4. ASSUME NEW j \in Jobs, AbandonedFlush(j) \/ JobExpires(j) \/ JobEnds(j) PROVE StoreGood
    <2>1. chat' = chat /\ store' = store /\ shown' \subseteq shown \cup Mine /\ report' = report
      BY <1>0, <1>4, OwnerIsMine DEF AbandonedFlush, JobExpires, JobEnds, storeVars
    <2> QED
      BY <1>1, <2>1
  <1>5. CASE StreamData
    <2>1. chat' = chat
      BY <1>5 DEF StreamData
    <2>2. CASE source.buf
      BY <1>1, <1>5, <2>1, <2>2 DEF StreamData
    <2>3. CASE ~source.buf
      <3>1. source.job \in Mine
        BY <1>0, <1>5, <2>3, OwnerIsMine DEF StreamData
      <3>2. /\ shown' = shown \cup {source.job} /\ report' \in {report, source.job}
            /\ store' = [store EXCEPT !.status = "running"]
        BY <1>5, <2>3 DEF StreamData
      <3>3. /\ store' \in Stores /\ store'.owner = store.owner /\ store'.active = store.active
            /\ store'.live = store.live /\ store'.job = store.job
        BY <1>0, <3>2 DEF Stores, Statuses
      <3>4. shown' \subseteq shown \cup Mine /\ report' \in {report, None} \cup Mine
        BY <3>1, <3>2
      <3> QED
        BY <2>1, <3>3, <3>4, StoreStays DEF ViewInv
    <2> QED
      BY <2>2, <2>3
  <1>6. ASSUME NEW t \in loads, LoadBreaks(t) PROVE StoreGood
    <2>1. LoadOwned(t) /\ chat' = chat
      BY <1>6 DEF ViewInv, TasksOwned, LoadBreaks
    <2>2. CASE ~ScopeCurrent(t)
      BY <1>1, <1>6, <2>1, <2>2 DEF LoadBreaks
    <2>3. CASE ScopeCurrent(t)
      <3>1. t.job \in Mine
        BY <2>1, <2>3 DEF LoadOwned, Loads, ScopeCurrent, Mine
      <3>2. store' = [store EXCEPT !.live = FALSE] /\ shown' = {t.job} /\ report' \in {report, t.job}
        BY <1>6, <2>3 DEF LoadBreaks
      <3>3. store' \in Stores /\ store'.owner = store.owner /\ store'.active = store.active /\ ~store'.live
        BY <1>0, <3>2 DEF Stores
      <3>4. shown' \subseteq shown \cup Mine /\ report' \in {report, None} \cup Mine
        BY <3>1, <3>2
      <3> QED
        BY <2>1, <3>3, <3>4, StoreStays DEF ViewInv
    <2> QED
      BY <2>2, <2>3
  <1> QED
    BY <1>2, <1>3, <1>4, <1>5, <1>6 DEF Outside

LEMMA ViewStores ==
  ASSUME ViewInv, ViewNext, HomesKept PROVE StoreGood
  BY FollowsStore, AsyncStore, ClicksStore, OutsideStore DEF ViewNext

-----------------------------------------------------------------------------
(* The view: the stream and its timers.                                    *)

\* What a step may add to the timers and to what awaits a health check.
SourceGood ==
  /\ source' \in Sources /\ due' \in Jobs \cup {None}
  /\ source'.buf \/ source'.link # "shut" => source'.job \in Jobs
  /\ timers' \subseteq Jobs

LEMMA AbandonedTyped == ASSUME SourceTyped PROVE Abandoned \subseteq Jobs
  BY DEF Abandoned, SourceTyped

LEMMA SourceStays ==
  ASSUME SourceTyped, source' = source, due' = due, timers' \subseteq timers \cup Abandoned PROVE SourceGood
  BY AbandonedTyped DEF SourceTyped, SourceGood

LEMMA NoSourceTyped == NoSource \in Sources /\ ~NoSource.buf /\ NoSource.link = "shut"
  BY DEF NoSource, Sources

LEMMA EffectGood ==
  ASSUME SourceTyped, store' \in Stores, Effect PROVE SourceGood
  <1>1. CASE source' = source /\ due' = due /\ timers' = timers
    BY <1>1, SourceStays
  <1>2. CASE /\ source' = NoSource /\ timers' = timers \cup Abandoned
             /\ due' = IF store'.job # None /\ store'.live THEN store'.job ELSE None
    <2>1. due' \in Jobs \cup {None}
      BY <1>2 DEF Stores
    <2> QED
      BY <1>2, <2>1, AbandonedTyped, NoSourceTyped DEF SourceGood, SourceTyped
  <1> QED
    BY <1>1, <1>2 DEF Effect

\* The source is shut, or its buffer emptied, or its link changes.
LEMMA SourceChanges ==
  ASSUME SourceTyped, due' = due, timers' = timers, NEW b \in BOOLEAN, NEW h \in BOOLEAN, b => source.buf,
         NEW l \in {"up", "down", "shut"}, l # "shut" => source.link # "shut",
         source' = [source EXCEPT !.buf = b, !.held = h, !.link = l]
  PROVE  SourceGood
  BY DEF SourceTyped, SourceGood, Sources

LEMMA SourceFields ==
  ASSUME SourceTyped
  PROVE  /\ source.buf \in BOOLEAN /\ source.held \in BOOLEAN /\ source.link \in {"up", "down", "shut"}
         /\ \A l : [source EXCEPT !.link = l] = [source EXCEPT !.buf = source.buf, !.held = source.held, !.link = l]
         /\ \A h : [source EXCEPT !.held = h] = [source EXCEPT !.buf = source.buf, !.held = h, !.link = source.link]
         /\ \A l : [source EXCEPT !.link = l, !.buf = FALSE, !.held = FALSE]
                     = [source EXCEPT !.buf = FALSE, !.held = FALSE, !.link = l]
         /\ [source EXCEPT !.buf = FALSE, !.held = FALSE]
              = [source EXCEPT !.buf = FALSE, !.held = FALSE, !.link = source.link]
  BY DEF SourceTyped, Sources

LEMMA DropsSource ==
  ASSUME SourceTyped, Drops PROVE SourceGood
  BY SourceFields, SourceChanges DEF Drops

LEMMA ViewSource ==
  ASSUME ViewInv, ViewNext, store' \in Stores PROVE SourceGood
  <1>0. SourceTyped /\ Started
    BY DEF ViewInv
  <1>f. /\ source.buf \in BOOLEAN /\ source.held \in BOOLEAN /\ source.link \in {"up", "down", "shut"}
        /\ \A l : [source EXCEPT !.link = l] = [source EXCEPT !.buf = source.buf, !.held = source.held, !.link = l]
        /\ \A h : [source EXCEPT !.held = h] = [source EXCEPT !.buf = source.buf, !.held = h, !.link = source.link]
        /\ [source EXCEPT !.buf = FALSE, !.held = FALSE]
             = [source EXCEPT !.buf = FALSE, !.held = FALSE, !.link = source.link]
    BY <1>0, SourceFields
  <1>1. ASSUME source' = source, due' = due, timers' \subseteq timers PROVE SourceGood
    BY <1>0, <1>1, SourceStays
  <1>2. ASSUME NEW rs, Effects(rs) PROVE SourceGood
    BY <1>0, <1>2, EffectGood DEF Effects
  <1>3. CASE Streams
    <2>1. /\ source' = [job |-> due, buf |-> store.status # "submitted", held |-> FALSE, link |-> "up"]
          /\ due \in Jobs /\ due' = None /\ timers' = timers \cup Abandoned
      BY <1>0, <1>3 DEF Streams, SourceTyped
    <2> QED
      BY <1>0, <2>1, AbandonedTyped DEF SourceGood, SourceTyped, Sources
  <1>4. CASE ReplayCompletes
    <2>1. source' = [source EXCEPT !.buf = FALSE, !.held = FALSE] /\ due' = due /\ timers' = timers
      BY <1>4 DEF ReplayCompletes
    <2> QED
      BY <1>0, <1>f, <2>1, SourceChanges
  <1>5. CASE StreamStatus
    <2>1. CASE Effect
      BY <1>0, <2>1, EffectGood
    <2>2. CASE source' = [source EXCEPT !.link = "shut"] /\ due' = due /\ timers' = timers
      BY <1>0, <1>f, <2>2, SourceChanges
    <2> QED
      BY <1>5, <2>1, <2>2 DEF StreamStatus
  <1>6. CASE Relinks \/ LinkDrops
    <2>1. PICK l \in {"up", "down"} : source' = [source EXCEPT !.link = l] /\ due' = due /\ timers' = timers
                                      /\ source.link # "shut"
      BY <1>6 DEF Relinks, LinkDrops
    <2> QED
      BY <1>0, <2>1 DEF SourceGood, SourceTyped, Sources
  <1>7. CASE JobMissing \/ RefusesOnce \/ GivesUp
    BY <1>0, <1>7, DropsSource DEF JobMissing, RefusesOnce, Refuses, GivesUp
  <1>8. ASSUME NEW j, HealthAnswers(j) PROVE SourceGood
    <2>1. CASE Effect
      BY <1>0, <2>1, EffectGood
    <2>2. CASE source' = [source EXCEPT !.link = "shut"] /\ due' = due /\ timers' = timers
      BY <1>0, <1>f, <2>2, SourceChanges
    <2> QED
      BY <1>8, <2>1, <2>2 DEF HealthAnswers
  <1>9. ASSUME NEW j, CancelFallback(j) \/ Escalates(j) \/ Select(j) PROVE SourceGood
    BY <1>2, <1>9 DEF CancelFallback, Escalates, Select
  <1>10. ASSUME NEW t, Reconnects(t) \/ LoadClears(t) \/ LoadShows(t) \/ LoadBreaks(t) PROVE SourceGood
    BY <1>2, <1>10 DEF Reconnects, LoadClears, LoadShows, LoadBreaks
  <1>11. CASE RefreshApplies
    BY <1>2, <1>11 DEF RefreshApplies
  <1>12. ASSUME NEW t, RestoreAnswers(t) \/ ChecksBanner(t) \/ LoadAnswers(t) PROVE SourceGood
    BY <1>1, <1>12 DEF RestoreAnswers, ChecksBanner, LoadAnswers, hookVars2
  <1>13. CASE Cancel \/ RefreshStarts \/ Completes
    BY <1>1, <1>13 DEF Cancel, RefreshStarts, Completes, hookVars2
  <1>14. ASSUME NEW j, CancelAnswered(j) \/ RefreshReads(j) \/ JobEnds(j) \/ JobExpires(j) \/ AbandonedFlush(j) PROVE SourceGood
    BY <1>1, <1>14 DEF CancelAnswered, RefreshReads, JobEnds, JobExpires, AbandonedFlush, hookVars2
  <1>15. ASSUME NEW j, NEW full, LoadStarts(j, full) PROVE SourceGood
    BY <1>1, <1>15 DEF LoadStarts, hookVars2
  <1>16. CASE Reload
    <2>1. source' = NoSource /\ due' = None /\ timers' = {}
      BY <1>16 DEF Reload
    <2> QED
      BY <2>1, NoSourceTyped DEF SourceGood
  <1>17. CASE StreamData
    <2>1. due' = due /\ timers' = timers /\ (source' = source \/ source' = [source EXCEPT !.held = TRUE])
      BY <1>17 DEF StreamData
    <2>2. CASE source' = source
      BY <1>1, <2>1, <2>2
    <2>3. CASE source' = [source EXCEPT !.held = TRUE]
      BY <1>0, <1>f, <2>1, <2>3, SourceChanges
    <2> QED
      BY <2>1, <2>2, <2>3
  <1> QED
    BY <1>3, <1>4, <1>5, <1>6, <1>7, <1>8, <1>9, <1>10, <1>11, <1>12, <1>13, <1>14, <1>15, <1>16, <1>17
    DEF ViewNext, Follows, Async, Clicks, Outside

ErrorsGood == errors' \subseteq Jobs /\ fallbacks' \subseteq Jobs /\ cancels' \subseteq Jobs

LEMMA ViewErrors ==
  ASSUME ViewInv, ViewNext PROVE ErrorsGood
  <1>0. /\ errors \subseteq Jobs /\ fallbacks \subseteq Jobs /\ cancels \subseteq Jobs /\ store.job \in Jobs \cup {None}
        /\ source.link # "shut" => source.job \in Jobs
    BY DEF ViewInv, SourceTyped, StoreTyped, Stores
  <1>1. ASSUME errors' \subseteq errors, fallbacks' \subseteq fallbacks, cancels' \subseteq cancels
        PROVE  ErrorsGood
    BY <1>0, <1>1 DEF ErrorsGood
  <1>2. CASE Follows /\ ~(\E j \in Jobs : CancelAnswered(j))
    BY <1>1, <1>2 DEF Follows, Streams, ReplayCompletes, StreamStatus, Relinks, JobMissing, Refuses, Drops,
                      HealthAnswers, CancelFallback
  <1>3. CASE Async
    BY <1>1, <1>3 DEF Async, RestoreAnswers, Reconnects, ChecksBanner, RefreshApplies, RefreshReads, LoadAnswers,
                      LoadClears, LoadShows, hookVars2
  <1>4. CASE Cancel
    <2>1. errors' = errors /\ fallbacks' = fallbacks /\ cancels' = cancels \cup {store.job} /\ store.job \in Jobs
      BY <1>0, <1>4 DEF Cancel
    <2> QED
      BY <1>0, <2>1 DEF ErrorsGood
  <1>5. CASE Reload \/ RefreshStarts \/ Completes \/ StreamData \/ LinkDrops \/ RefusesOnce
    BY <1>1, <1>5 DEF Reload, RefreshStarts, Completes, StreamData, LinkDrops, RefusesOnce, Refuses, Drops, hookVars2
  <1>6. CASE GivesUp
    <2>1. source.job \in Jobs
      BY <1>0, <1>6 DEF GivesUp
    <2>2. errors' \subseteq errors \cup {source.job} /\ fallbacks' = fallbacks /\ cancels' = cancels
      BY <1>6 DEF GivesUp, Drops
    <2> QED
      BY <1>0, <2>1, <2>2 DEF ErrorsGood
  <1>7. ASSUME NEW j, Escalates(j) \/ Select(j) \/ AbandonedFlush(j) \/ JobExpires(j) \/ JobEnds(j)
        PROVE  ErrorsGood
    BY <1>1, <1>7 DEF Escalates, Select, AbandonedFlush, JobExpires, JobEnds, hookVars2
  <1>8. ASSUME NEW j, NEW full, LoadStarts(j, full) PROVE ErrorsGood
    BY <1>1, <1>8 DEF LoadStarts, hookVars2
  <1>9. ASSUME NEW t, LoadBreaks(t) PROVE ErrorsGood
    BY <1>1, <1>9 DEF LoadBreaks
  <1>10. ASSUME NEW j \in Jobs, CancelAnswered(j) PROVE ErrorsGood
    <2>1. errors' = errors /\ cancels' \subseteq cancels /\ (fallbacks' = fallbacks \/ fallbacks' = {j})
      BY <1>10 DEF CancelAnswered
    <2> QED
      BY <1>0, <2>1 DEF ErrorsGood
  <1> QED
    BY <1>2, <1>3, <1>4, <1>5, <1>6, <1>7, <1>8, <1>9, <1>10 DEF ViewNext, Clicks, Outside

-----------------------------------------------------------------------------
(* The view: what is under way.                                            *)

LEMMA RestoreKept ==
  ASSUME HomesKept, NEW t, RestoreOwned(t) PROVE RestoreOwned(t)'
  <1>1. t.chat # None /\ t.job \in Jobs /\ t.todo \subseteq Jobs
    BY NoneIsNone DEF RestoreOwned, Restores
  <1> QED
    BY <1>1 DEF RestoreOwned, HomesKept

LEMMA LoadKept ==
  ASSUME HomesKept, NEW t, LoadOwned(t) PROVE LoadOwned(t)'
  <1>1. t.chat # None /\ t.job \in Jobs
    BY NoneIsNone DEF LoadOwned, Loads
  <1> QED
    BY <1>1 DEF LoadOwned, HomesKept

LEMMA RestorerGood ==
  ASSUME Started', chat' \in Chats, NEW rs, \A t \in rs : RestoreOwned(t)', Restorer(rs)
  PROVE  \A t \in restores' : RestoreOwned(t)'
  <1>1. made' \in Seq(Jobs)
    BY DEF Started
  <1>2. \A t \in Restoring(chat') : RestoreOwned(t)'
    BY <1>1, RestoringOwned
  <1> QED
    BY <1>2 DEF Restorer

LEMMA ReplyTyped ==
  ASSUME Started, NEW j \in Jobs, home[j] # None, NEW r \in Reply(j) PROVE r \in Answers
  BY DEF Started, Reply, Answers

LEMMA StartingChecked ==
  ASSUME chat \in Chats, NEW t \in Checking(chat, Starting(chat)) PROVE RestoreOwned(t)'
  <1>1. Starting(chat) \in SUBSET Jobs /\ \A j \in Starting(chat) : home'[j] = chat
    BY DEF Starting
  <1> QED
    BY <1>1, CheckingOwned DEF RestoreOwned

LEMMA ViewRestores ==
  ASSUME ViewInv, ViewNext, Started', HomesKept, chat' \in Chats
  PROVE  \A t \in restores' : RestoreOwned(t)'
  <1>0. chat \in Chats /\ Started /\ \A t \in restores : RestoreOwned(t) /\ RestoreOwned(t)'
    BY RestoreKept DEF ViewInv, StoreTyped, TasksOwned
  <1>1. ASSUME restores' = restores PROVE \A t \in restores' : RestoreOwned(t)'
    BY <1>0, <1>1
  <1>2. ASSUME Restorer(restores) PROVE \A t \in restores' : RestoreOwned(t)'
    BY <1>0, <1>2, RestorerGood
  <1>3. ASSUME Follows PROVE \A t \in restores' : RestoreOwned(t)'
    BY <1>1, <1>2, <1>3 DEF Follows, Streams, ReplayCompletes, StreamStatus, Relinks, JobMissing, Refuses, Drops,
                            HealthAnswers, CancelAnswered, CancelFallback, Effects, taskVars
  <1>4. ASSUME NEW t \in restores, RestoreAnswers(t) PROVE \A u \in restores' : RestoreOwned(u)'
    <2>1. t \in Restores /\ RestoreOwned(t) /\ t.job \in Jobs /\ home[t.job] # None
      BY <1>0, NoneIsNone DEF RestoreOwned, Restores
    <2>2. PICK r \in Reply(t.job) : restores' = (restores \ {t}) \cup {[t EXCEPT !.got = r]}
      BY <1>4 DEF RestoreAnswers
    <2>3. r \in Answers
      BY <1>0, <2>1, ReplyTyped
    <2>4. RestoreOwned([t EXCEPT !.got = r])
      BY <2>1, <2>3 DEF RestoreOwned, Restores
    <2> QED
      BY <1>0, <2>2, <2>4, RestoreKept
  <1>5. ASSUME NEW t \in restores, Reconnects(t) PROVE \A u \in restores' : RestoreOwned(u)'
    <2>1. Restorer(Then(t))
      BY <1>5 DEF Reconnects, Effects
    <2>2. \A u \in Then(t) : RestoreOwned(u)'
      BY <1>0, StartingChecked DEF Then
    <2> QED
      BY <2>1, <2>2, RestorerGood
  <1>6. ASSUME NEW t \in restores, ChecksBanner(t) PROVE \A u \in restores' : RestoreOwned(u)'
    <2>1. restores' = (restores \ {t}) \cup (IF chat = t.chat THEN Checking(chat, t.todo) ELSE {})
      BY <1>6 DEF ChecksBanner
    <2>2. ASSUME chat = t.chat, NEW u \in Checking(chat, t.todo) PROVE RestoreOwned(u)'
      <3>1. t.todo \in SUBSET Jobs /\ \A j \in t.todo : home'[j] = chat
        BY <1>0, <2>2 DEF RestoreOwned, Restores
      <3> QED
        BY <1>0, <2>2, <3>1, CheckingOwned DEF RestoreOwned
    <2> QED
      BY <1>0, <2>1, <2>2
  <1>7. ASSUME NEW t, LoadAnswers(t) \/ LoadClears(t) \/ LoadShows(t) \/ LoadBreaks(t)
        PROVE  \A u \in restores' : RestoreOwned(u)'
    BY <1>1, <1>2, <1>7 DEF LoadAnswers, LoadClears, LoadShows, LoadBreaks, Effects
  <1>8. CASE RefreshApplies
    BY <1>2, <1>8 DEF RefreshApplies, Effects
  <1>9. ASSUME NEW j, RefreshReads(j) \/ Escalates(j) \/ Select(j) \/ AbandonedFlush(j) \/ JobExpires(j) \/ JobEnds(j)
        PROVE  \A t \in restores' : RestoreOwned(t)'
    BY <1>1, <1>2, <1>9 DEF RefreshReads, Escalates, Select, AbandonedFlush, JobExpires, JobEnds, Effects, taskVars
  <1>10. ASSUME NEW j, NEW full, LoadStarts(j, full) PROVE \A t \in restores' : RestoreOwned(t)'
    BY <1>1, <1>10 DEF LoadStarts
  <1>11. ASSUME Cancel \/ RefreshStarts \/ Completes \/ StreamData \/ LinkDrops \/ RefusesOnce \/ GivesUp
         PROVE  \A t \in restores' : RestoreOwned(t)'
    BY <1>1, <1>11 DEF Cancel, RefreshStarts, Completes, StreamData, LinkDrops, RefusesOnce, Refuses, GivesUp, Drops, taskVars
  <1>12. CASE Reload
    <2>1. restores' = Restoring(chat) /\ made' \in Seq(Jobs)
      BY <1>12 DEF Reload, Started
    <2> QED
      BY <1>0, <2>1, RestoringOwned
  <1> QED
    BY <1>3, <1>4, <1>5, <1>6, <1>7, <1>8, <1>9, <1>10, <1>11, <1>12 DEF ViewNext, Async, Clicks, Outside

LEMMA ViewLoads ==
  ASSUME ViewInv, ViewNext, HomesKept PROVE \A t \in loads' : LoadOwned(t)'
  <1>0. chat \in Chats /\ Started /\ \A t \in loads : LoadOwned(t) /\ LoadOwned(t)'
    BY LoadKept DEF ViewInv, StoreTyped, TasksOwned
  <1>1. ASSUME loads' \subseteq loads PROVE \A t \in loads' : LoadOwned(t)'
    BY <1>0, <1>1
  <1>2. ASSUME Follows PROVE \A t \in loads' : LoadOwned(t)'
    BY <1>1, <1>2 DEF Follows, Streams, ReplayCompletes, StreamStatus, Relinks, JobMissing, Refuses, Drops,
                      HealthAnswers, CancelAnswered, CancelFallback, taskVars
  <1>3. ASSUME NEW t \in loads, LoadAnswers(t) PROVE \A u \in loads' : LoadOwned(u)'
    <2>1. t \in Loads /\ LoadOwned(t) /\ t.job \in Jobs /\ home[t.job] # None
      BY <1>0, NoneIsNone DEF LoadOwned, Loads
    <2>2. PICK r \in Reply(t.job) : loads' = (loads \ {t}) \cup {[t EXCEPT !.got = r]}
      BY <1>3 DEF LoadAnswers
    <2>3. r \in Answers
      BY <1>0, <2>1, ReplyTyped
    <2>4. LoadOwned([t EXCEPT !.got = r])
      BY <2>1, <2>3 DEF LoadOwned, Loads
    <2> QED
      BY <1>0, <2>2, <2>4, LoadKept
  <1>4. ASSUME NEW t \in loads, LoadClears(t) PROVE \A u \in loads' : LoadOwned(u)'
    <2>1. LoadOwned([t EXCEPT !.step = "data"])
      BY <1>0 DEF LoadOwned, Loads
    <2>2. loads' \subseteq loads \cup {[t EXCEPT !.step = "data"]}
      BY <1>4 DEF LoadClears
    <2> QED
      BY <1>0, <2>1, <2>2, LoadKept
  <1>5. ASSUME NEW t, LoadShows(t) \/ LoadBreaks(t) PROVE \A u \in loads' : LoadOwned(u)'
    BY <1>1, <1>5 DEF LoadShows, LoadBreaks
  <1>6. ASSUME NEW t, RestoreAnswers(t) \/ Reconnects(t) \/ ChecksBanner(t) PROVE \A u \in loads' : LoadOwned(u)'
    BY <1>1, <1>6 DEF RestoreAnswers, Reconnects, ChecksBanner
  <1>7. ASSUME NEW j, RefreshReads(j) \/ Escalates(j) \/ Select(j) \/ AbandonedFlush(j) \/ JobExpires(j) \/ JobEnds(j)
        PROVE  \A t \in loads' : LoadOwned(t)'
    BY <1>1, <1>7 DEF RefreshReads, Escalates, Select, AbandonedFlush, JobExpires, JobEnds, taskVars
  <1>8. ASSUME NEW j \in Jobs, NEW full \in BOOLEAN, LoadStarts(j, full) PROVE \A t \in loads' : LoadOwned(t)'
    <2> DEFINE l == [job |-> j, chat |-> chat, full |-> full, step |-> "status", got |-> "asked"]
    <2>1. LoadOwned(l)
      BY <1>0, <1>8 DEF LoadStarts, LoadOwned, Loads, Answers
    <2>2. loads' = loads \cup {l}
      BY <1>8 DEF LoadStarts
    <2> HIDE DEF l
    <2>3. PICK k : k = l
      OBVIOUS
    <2>4. LoadOwned(k)'
      BY <2>1, <2>3, LoadKept
    <2> QED
      BY <1>0, <2>2, <2>3, <2>4
  <1>9. ASSUME Cancel \/ RefreshStarts \/ Completes \/ StreamData \/ LinkDrops \/ RefusesOnce \/ GivesUp \/ Reload \/ RefreshApplies
        PROVE  \A t \in loads' : LoadOwned(t)'
    BY <1>1, <1>9 DEF Cancel, RefreshStarts, Completes, StreamData, LinkDrops, RefusesOnce, Refuses, GivesUp, Drops, Reload,
                      RefreshApplies, taskVars
  <1> QED
    BY <1>2, <1>3, <1>4, <1>5, <1>6, <1>7, <1>8, <1>9 DEF ViewNext, Async, Clicks, Outside

LEMMA NoRefreshTyped == NoRefresh \in Refreshes /\ NoRefresh.todo = {} /\ NoRefresh.got \in [Jobs -> Answers]
  BY DEF NoRefresh, Refreshes, Answers

LEMMA ViewRefreshes ==
  ASSUME ViewInv, ViewNext, HomesKept
  PROVE  refresh' \in Refreshes /\ \A j \in refresh'.todo : home'[j] # None
  <1> DEFINE Good == refresh' \in Refreshes /\ \A j \in refresh'.todo : home'[j] # None
  <1>0. /\ chat \in Chats /\ Started /\ refresh \in Refreshes
        /\ \A j \in refresh.todo : j \in Jobs /\ home[j] # None /\ home'[j] = home[j]
    BY DEF ViewInv, StoreTyped, TasksOwned, Refreshes, HomesKept
  <1>1. ASSUME refresh' = refresh PROVE Good
    BY <1>0, <1>1
  <1>2. ASSUME refresh' = NoRefresh PROVE Good
    BY <1>2, NoRefreshTyped
  <1>3. CASE RefreshStarts
    <2> DEFINE js == {Latest(c) : c \in Chats} \ {None}
    <2>1. refresh' = [NoRefresh EXCEPT !.on = TRUE, !.todo = js]
      BY <1>3 DEF RefreshStarts
    <2>2. \A c \in Chats : Latest(c) = None \/ (Latest(c) \in Jobs /\ home[Latest(c)] = c)
      BY <1>0, LatestIsOf
    <2>3. \A j \in js : j \in Jobs /\ home[j] # None
      BY <2>2, NoneIsNone
    <2> HIDE DEF js
    <2>4. refresh' \in Refreshes /\ refresh'.todo = js
      BY <2>1, <2>3, NoRefreshTyped DEF Refreshes, NoRefresh
    <2> QED
      BY <2>3, <2>4 DEF HomesKept
  <1>4. ASSUME NEW j \in Jobs, RefreshReads(j) PROVE Good
    <2>1. PICK r \in Reply(j) : refresh' = [refresh EXCEPT !.todo = @ \ {j}, !.got[j] = r]
      BY <1>4 DEF RefreshReads
    <2>2. r \in Answers
      BY <1>0, <1>4, ReplyTyped DEF RefreshReads
    <2>3. refresh' = [refresh EXCEPT !.todo = refresh.todo \ {j}, !.got = [refresh.got EXCEPT ![j] = r]]
      BY <1>0, <2>1 DEF Refreshes
    <2>4. refresh' \in Refreshes /\ refresh'.todo = refresh.todo \ {j}
      BY <1>0, <2>2, <2>3 DEF Refreshes
    <2> QED
      BY <1>0, <2>4
  <1>5. CASE Reload \/ RefreshApplies
    BY <1>2, <1>5 DEF Reload, RefreshApplies
  <1>6. CASE Follows
    BY <1>1, <1>6 DEF Follows, Streams, ReplayCompletes, StreamStatus, Relinks, JobMissing, Refuses, Drops,
                      HealthAnswers, CancelAnswered, CancelFallback, taskVars
  <1>7. ASSUME NEW t, \/ RestoreAnswers(t) \/ Reconnects(t) \/ ChecksBanner(t)
                      \/ LoadAnswers(t) \/ LoadClears(t) \/ LoadShows(t) \/ LoadBreaks(t)
        PROVE  Good
    BY <1>1, <1>7 DEF RestoreAnswers, Reconnects, ChecksBanner, LoadAnswers, LoadClears, LoadShows, LoadBreaks
  <1>8. ASSUME NEW j, Escalates(j) \/ Select(j) \/ AbandonedFlush(j) \/ JobExpires(j) \/ JobEnds(j) PROVE Good
    BY <1>1, <1>8 DEF Escalates, Select, AbandonedFlush, JobExpires, JobEnds, taskVars
  <1>9. ASSUME NEW j, NEW full, LoadStarts(j, full) PROVE Good
    BY <1>1, <1>9 DEF LoadStarts
  <1>10. CASE Cancel \/ Completes \/ StreamData \/ LinkDrops \/ RefusesOnce \/ GivesUp
    BY <1>1, <1>10 DEF Cancel, Completes, StreamData, LinkDrops, RefusesOnce, Refuses, GivesUp, Drops, taskVars
  <1> QED
    BY <1>3, <1>4, <1>5, <1>6, <1>7, <1>8, <1>9, <1>10 DEF ViewNext, Async, Clicks, Outside

-----------------------------------------------------------------------------
(* The view: flags and the bound of events.                                *)

LEMMA ViewActs ==
  ASSUME ViewInv, ViewNext PROVE acts' \in 0..MaxActs
  <1>0. acts \in 0..MaxActs /\ MaxActs \in Nat
    BY NoneIsNone DEF ViewInv, ViewFlagsTyped
  <1>1. ASSUME acts' = acts \/ Act PROVE acts' \in 0..MaxActs
    BY <1>0, <1>1 DEF Act
  <1>2. CASE Follows
    BY <1>1, <1>2 DEF Follows, Streams, ReplayCompletes, StreamStatus, Relinks, JobMissing,
                      HealthAnswers, CancelAnswered, CancelFallback
  <1>3. ASSUME NEW t, \/ RestoreAnswers(t) \/ Reconnects(t) \/ ChecksBanner(t)
                      \/ LoadAnswers(t) \/ LoadClears(t) \/ LoadShows(t) \/ LoadBreaks(t)
        PROVE  acts' \in 0..MaxActs
    BY <1>1, <1>3 DEF RestoreAnswers, Reconnects, ChecksBanner, LoadAnswers, LoadClears, LoadShows, LoadBreaks, Counted
  <1>4. ASSUME NEW j, RefreshReads(j) \/ Escalates(j) \/ Select(j) \/ AbandonedFlush(j) \/ JobExpires(j) \/ JobEnds(j)
        PROVE  acts' \in 0..MaxActs
    BY <1>1, <1>4 DEF RefreshReads, Escalates, Select, AbandonedFlush, JobExpires, JobEnds, Counted
  <1>5. ASSUME NEW j, NEW full, LoadStarts(j, full) PROVE acts' \in 0..MaxActs
    BY <1>1, <1>5 DEF LoadStarts
  <1>6. CASE \/ Cancel \/ RefreshStarts \/ Completes \/ StreamData \/ LinkDrops \/ RefusesOnce \/ GivesUp \/ Reload
             \/ RefreshApplies
    BY <1>1, <1>6 DEF Cancel, RefreshStarts, Completes, StreamData, LinkDrops, RefusesOnce, GivesUp, Reload, RefreshApplies
  <1> QED
    BY <1>2, <1>3, <1>4, <1>5, <1>6 DEF ViewNext, Async, Clicks, Outside

LEMMA ViewFlags ==
  ASSUME ViewInv, ViewNext PROVE busy' \in BOOLEAN /\ refused' \in BOOLEAN /\ orphaned' \in BOOLEAN
  <1>0. busy \in BOOLEAN /\ refused \in BOOLEAN /\ orphaned \in BOOLEAN
    BY DEF ViewInv, ViewFlagsTyped
  <1>1. ASSUME busy' \in {TRUE, FALSE, busy}, refused' \in {TRUE, refused},
               orphaned' = orphaned \/ (\E rs : Effects(rs))
        PROVE  busy' \in BOOLEAN /\ refused' \in BOOLEAN /\ orphaned' \in BOOLEAN
    BY <1>0, <1>1 DEF Effects
  <1>2. CASE Streams \/ ReplayCompletes \/ Relinks \/ JobMissing
    BY <1>1, <1>2 DEF Streams, ReplayCompletes, Relinks, JobMissing, Refuses, Drops, storeVars
  <1>3. CASE StreamStatus
    <2>1. busy' \in {FALSE, busy} /\ refused' = refused /\ orphaned' = orphaned
      BY <1>3 DEF StreamStatus, EndsLive
    <2> QED
      BY <1>1, <2>1
  <1>4. ASSUME NEW j, HealthAnswers(j) PROVE busy' \in BOOLEAN /\ refused' \in BOOLEAN /\ orphaned' \in BOOLEAN
    BY <1>1, <1>4 DEF HealthAnswers, EndsLive
  <1>5. ASSUME NEW j, CancelFallback(j) PROVE busy' \in BOOLEAN /\ refused' \in BOOLEAN /\ orphaned' \in BOOLEAN
    <2>1. busy' \in {FALSE, busy} /\ refused' = refused /\ Effects(restores)
      BY <1>5 DEF CancelFallback, EndsLive
    <2> QED
      BY <1>1, <2>1
  <1>6. ASSUME NEW t, RestoreAnswers(t) \/ Reconnects(t) \/ ChecksBanner(t) \/ LoadAnswers(t) \/ LoadShows(t)
        PROVE  busy' \in BOOLEAN /\ refused' \in BOOLEAN /\ orphaned' \in BOOLEAN
    BY <1>1, <1>6 DEF RestoreAnswers, Reconnects, ChecksBanner, LoadAnswers, LoadShows, storeVars
  <1>7. ASSUME NEW t, LoadClears(t) \/ LoadBreaks(t)
        PROVE  busy' \in BOOLEAN /\ refused' \in BOOLEAN /\ orphaned' \in BOOLEAN
    <2>1. busy' \in {FALSE, busy} /\ refused' = refused /\ Effects(restores)
      BY <1>7 DEF LoadClears, LoadFails, LoadBreaks
    <2> QED
      BY <1>1, <2>1
  <1>8. ASSUME NEW j, CancelAnswered(j) \/ RefreshReads(j) \/ AbandonedFlush(j) \/ JobExpires(j) \/ JobEnds(j)
        PROVE  busy' \in BOOLEAN /\ refused' \in BOOLEAN /\ orphaned' \in BOOLEAN
    BY <1>1, <1>8 DEF CancelAnswered, RefreshReads, AbandonedFlush, JobExpires, JobEnds, storeVars
  <1>9. ASSUME NEW j, Escalates(j) \/ Select(j)
        PROVE  busy' \in BOOLEAN /\ refused' \in BOOLEAN /\ orphaned' \in BOOLEAN
    BY <1>1, <1>9 DEF Escalates, Select
  <1>10. ASSUME NEW j, NEW full, LoadStarts(j, full)
         PROVE  busy' \in BOOLEAN /\ refused' \in BOOLEAN /\ orphaned' \in BOOLEAN
    BY <1>1, <1>10 DEF LoadStarts, storeVars
  <1>11. CASE Cancel \/ RefreshStarts \/ Completes \/ StreamData \/ LinkDrops \/ RefusesOnce \/ GivesUp
    BY <1>1, <1>11 DEF Cancel, RefreshStarts, Completes, StreamData, LinkDrops, RefusesOnce, Refuses, GivesUp, Drops, storeVars
  <1>12. CASE Reload \/ RefreshApplies
    BY <1>1, <1>12 DEF Reload, RefreshApplies
  <1> QED
    BY <1>2, <1>3, <1>4, <1>5, <1>6, <1>7, <1>8, <1>9, <1>10, <1>11, <1>12
    DEF ViewNext, Follows, Async, Clicks, Outside

-----------------------------------------------------------------------------
(* The view.                                                               *)

LEMMA ViewStarts == ViewInit => ViewInv
  <1> SUFFICES ASSUME ViewInit PROVE ViewInv
    OBVIOUS
  <1>1. store \in Stores /\ ~store.live /\ store.owner = None /\ store.active = None
    BY IdleTyped DEF ViewInit
  <1>2. SourceTyped
    BY NoSourceTyped DEF ViewInit, SourceTyped
  <1>3. Started
    BY EmptySeq DEF ViewInit, Started, Statuses
  <1>4. TasksOwned
    BY NoRefreshTyped DEF ViewInit, TasksOwned
  <1>5. StoreTyped /\ StoreOwned /\ ViewStaysInChat
    BY <1>1 DEF ViewInit, StoreTyped, StoreOwned, ViewStaysInChat
  <1>6. ViewFlagsTyped
    <2>1. acts \in 0..MaxActs
      BY NoneIsNone DEF ViewInit
    <2> QED
      BY <2>1 DEF ViewInit, ViewFlagsTyped
  <1> QED
    BY <1>2, <1>3, <1>4, <1>5, <1>6 DEF ViewInv

LEMMA ViewPreserves == ViewInv /\ ViewNext => ViewInv'
  <1> SUFFICES ASSUME ViewInv, ViewNext PROVE ViewInv'
    OBVIOUS
  <1>1. Started' /\ HomesKept
    BY ViewStarted
  <1>2. StoreTyped' /\ StoreOwned' /\ ViewStaysInChat'
    BY <1>1, ViewStores DEF StoreGood
  <1>3. SourceTyped'
    <2>1. store' \in Stores
      BY <1>2 DEF StoreTyped
    <2>2. SourceGood
      BY <2>1, ViewSource
    <2> QED
      BY <2>2, ViewErrors DEF ErrorsGood, SourceGood, SourceTyped
  <1>4. TasksOwned'
    <2>1. chat' \in Chats
      BY <1>2 DEF StoreTyped
    <2>2. \A t \in restores' : RestoreOwned(t)'
      BY <1>1, <2>1, ViewRestores
    <2>3. \A t \in loads' : LoadOwned(t)'
      BY <1>1, ViewLoads
    <2> QED
      BY <1>1, <2>2, <2>3, ViewRefreshes DEF TasksOwned
  <1>5. ViewFlagsTyped'
    BY ViewActs, ViewFlags DEF ViewFlagsTyped
  <1> QED
    BY <1>1, <1>2, <1>3, <1>4, <1>5 DEF ViewInv

LEMMA ViewStutters == ViewInv /\ UNCHANGED viewVars => ViewInv'
  BY DEF ViewInv, viewVars, storeVars, hookVars2, taskVars, ViewFlagsTyped, StoreTyped, SourceTyped, Started, StoreOwned,
         TasksOwned, RestoreOwned, LoadOwned, ViewStaysInChat

LEMMA ViewInvTypes == ViewInv => ViewTypeOK
  BY DEF ViewInv, ViewTypeOK, ViewFlagsTyped, StoreTyped, Stores, Statuses, SourceTyped, Sources, Started

-----------------------------------------------------------------------------
(* The two parts of the tab.                                               *)

LEMMA WebStarts == WebInit => ChatInv /\ ViewInv
  BY ChatStarts, ViewStarts DEF WebInit

LEMMA WebPreserves == ChatInv /\ ViewInv /\ [WebNext]_vars => ChatInv' /\ ViewInv'
  <1> SUFFICES ASSUME ChatInv, ViewInv, [WebNext]_vars PROVE ChatInv' /\ ViewInv'
    OBVIOUS
  <1>1. CASE ChatNext /\ UNCHANGED viewVars
    BY <1>1, ChatPreserves, ViewStutters
  <1>2. CASE ViewNext /\ UNCHANGED chatVars
    BY <1>2, ViewPreserves, ChatStutters
  <1>3. CASE UNCHANGED <<chatVars, viewVars>>
    BY <1>3, ViewStutters, ChatStutters
  <1> QED
    BY <1>1, <1>2, <1>3 DEF WebNext, ChatRuns, ViewRuns, vars

LEMMA WebInvariant == WebSpec => [](ChatInv /\ ViewInv)
  BY WebStarts, WebPreserves, PTL DEF WebSpec

\* The variables of the chat and of the view have their types.
THEOREM WebTypes == WebSpec => []WebTypeOK
  <1>1. ChatInv /\ ViewInv => WebTypeOK
    BY ChatInvTypes, ViewInvTypes DEF WebTypeOK
  <1> QED
    BY <1>1, WebInvariant, PTL

\* Whatever is retried, rotated, restored or loaded while the user moves
\* between conversations, a message is sent and run in the conversation it was
\* written in, a prompt asks in its own, and the research that is shown is of
\* the conversation that is open: the buffers of use-websocket-chat.ts and the
\* owner checks of use-deep-research.ts and use-load-job-data.ts.
THEOREM WebIsolated == WebSpec => []ConversationsIsolated
  <1>1. ChatInv /\ ViewInv => ConversationsIsolated
    BY DEF ChatInv, ViewInv, ConversationsIsolated
  <1> QED
    BY <1>1, WebInvariant, PTL

\* A message is run at most twice however many timers elapse, links are lost
\* and tokens expire: the retry counter of its payload in use-websocket-chat.ts.
THEOREM WebRunsTwice == WebSpec => []RunsAtMostTwice
  <1>1. ChatInv => RunsAtMostTwice
    BY ChatInvRuns
  <1> QED
    BY <1>1, WebInvariant, PTL

\* The chat alone keeps these promises whichever conversation is open first
\* and written in first (use-websocket-chat.ts, websocket_reconnect.py).
THEOREM ChatAlone ==
  ChatInit /\ [][ChatNext]_chatVars => [](ChatTypeOK /\ StaysInConversation /\ RunsAtMostTwice)
  <1>1. ChatInv => ChatTypeOK /\ StaysInConversation /\ RunsAtMostTwice
    BY ChatInvTypes, ChatInvRuns DEF ChatInv
  <1> QED
    BY <1>1, ChatInvariant, PTL

\* And so does the view of research alone, whichever job is started first
\* (use-deep-research.ts, store.ts).
THEOREM ViewAlone == ViewInit /\ [][ViewNext]_viewVars => [](ViewTypeOK /\ ViewStaysInChat)
  <1>1. ViewInv /\ [ViewNext]_viewVars => ViewInv'
    BY ViewPreserves, ViewStutters
  <1>2. ViewInv => ViewTypeOK /\ ViewStaysInChat
    BY ViewInvTypes DEF ViewInv
  <1> QED
    BY <1>1, <1>2, ViewStarts, PTL

=============================================================================
