------------------------------- MODULE MCWeb -------------------------------
(* The web UI: one tab that chats over WebSockets, or one that follows deep *)
(* research.  The two hooks meet at the store, whose flags each of them     *)
(* models as its own; a behaviour is about one of them.                     *)
EXTENDS WebSocketChat, ResearchView

CONSTANTS
  c1,       \* the conversation the tab is opened with
  j1,       \* the job that is started first
  Views     \* the parts that are checked

VARIABLE view

vars == <<view, chatVars, viewVars>>

WebInit ==
  /\ view \in Views
  /\ conv = c1 /\ ChatInit
  /\ chat = c1 /\ ViewInit

ChatRuns == view = "chat" /\ UNCHANGED <<view, viewVars>>
ViewRuns == view = "research" /\ UNCHANGED <<view, chatVars>>

\* What is symmetric is done once: job j1 starts first, c1 is written in first.
\* A bound: of the jobs only j1 ends in failure by itself.
WebNext ==
  \/ ChatRuns /\ ChatNext /\ conv' = IF wrote' = <<>> THEN c1 ELSE conv'
  \/ ViewRuns /\ ViewNext /\ Head(Append(made', j1)) = j1
     /\ \A j \in Jobs : server'[j] = "failure" => j = j1

\* What ChatFairness and ViewFairness assume of each part.
WebFairness ==
  /\ WF_vars(ChatRuns /\ Browser) /\ WF_vars(ChatRuns /\ Server)
  /\ WF_vars(ViewRuns /\ Follows) /\ WF_vars(ViewRuns /\ Async)
  /\ WF_vars(ViewRuns /\ \E j \in Jobs : JobEnds(j))

WebSpec == WebInit /\ [][WebNext]_vars /\ WebFairness

----------------------------------------------------------------------------

\* The variables of both parts have their types.
WebTypeOK == ChatTypeOK /\ ViewTypeOK

\* Conversations do not mix: neither their messages and prompts nor the
\* research that is shown in them.
ConversationsIsolated == StaysInConversation /\ ViewStaysInChat

\* Neither the spinner of a request nor the input closed for research stays
\* for ever.  (A behaviour is about one of the two.)
InterfaceWaits == SpinnerWaits \/ InputClosed
InterfaceReleased == InterfaceWaits ~> ~InterfaceWaits
=============================================================================
