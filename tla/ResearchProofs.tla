--------------------------- MODULE ResearchProofs ---------------------------
(***************************************************************************)
(* What a conversation promises in any number of turns, a deep run for any *)
(* number of delegates and reports, and its source-tool calls for any      *)
(* batches and limits: proofs about ChatResearcher, with the clarifier and *)
(* the shallow researcher in it, DeepResearcher, SourceCalls, and about    *)
(* their composition in MCResearch.                                        *)
(***************************************************************************)
EXTENDS MCResearch, FiniteSetTheorems, WellFoundedInduction, TLAPS

-----------------------------------------------------------------------------
(* The clarifier.  For each node the invariant says what the last message  *)
(* is when it runs: that keeps the next one from being put after a wrong   *)
(* one.                                                                    *)

Histories == Seq({"user", "text"})

\* The pairs of messages that a dialogue adds are in order.
Fine(messages, from) ==
  \A i \in from + 1 .. Len(messages) - 1 :
    /\ ~ (messages[i] \in Assistant /\ messages[i + 1] \in Assistant)
    /\ messages[i] = "calls" => messages[i + 1] = "tool"

May(message, next) ==
  ~ (message \in Assistant /\ next \in Assistant) /\ (message = "calls" => next = "tool")

LEMMA FineAppend ==
  ASSUME NEW m \in Seq(Kinds), NEW g \in Nat, NEW next \in Kinds,
         Fine(m, g), Len(m) > g => May(Last(m), next)
  PROVE  Fine(Append(m, next), g) /\ Append(m, next) \in Seq(Kinds)
         /\ Last(Append(m, next)) = next /\ Len(Append(m, next)) = Len(m) + 1
<1> DEFINE a == Append(m, next)
<1>1. a \in Seq(Kinds) /\ Len(a) = Len(m) + 1 /\ a[Len(m) + 1] = next
  OBVIOUS
<1>2. \A i \in 1..Len(m) : a[i] = m[i]
  OBVIOUS
<1>3. ASSUME NEW i \in g + 1 .. Len(a) - 1 PROVE May(a[i], a[i + 1])
  <2>1. CASE i < Len(m)
    BY <2>1, <1>1, <1>2 DEF Fine, May
  <2>2. CASE i = Len(m)
    BY <2>2, <1>1, <1>2 DEF Last, May
  <2> QED BY <2>1, <2>2, <1>1
<1>4. Fine(a, g)
  BY <1>3 DEF Fine, May
<1>5. Last(a) = next
  BY <1>1 DEF Last
<1> QED BY <1>1, <1>4, <1>5

-----------------------------------------------------------------------------
Added == Len(dMessages) > dGiven

Ordered ==
  /\ dMessages \in Seq(Kinds) /\ dGiven \in Nat /\ dGiven <= Len(dMessages)
  /\ dIteration \in Nat
  /\ Fine(dMessages, dGiven)
  /\ dAt = "tools" => Added /\ Last(dMessages) = "calls"
  /\ dAt \in {"ask", "user"} => Added /\ Last(dMessages) \in Questions
  /\ dAt = "agent" /\ Added =>
       Last(dMessages) \in {"user", "tool"} \/ (Last(dMessages) = "complete" /\ Exhausted)
  /\ dAt = "agent" /\ ~Added /\ dMessages # <<>> => Last(dMessages) \in {"user", "text"}
  /\ dAt = "done" => Last(dMessages) = "complete"

LEMMA KindsOf ==
  /\ Questions \subseteq Assistant /\ Assistant \subseteq Kinds
  /\ {"calls", "complete", "text"} \subseteq Assistant
  /\ {"user", "tool"} \subseteq Kinds /\ "user" \notin Assistant /\ "tool" \notin Assistant
  /\ "calls" \notin Questions /\ "complete" \notin Questions
BY DEF Kinds, Assistant, Answers, Questions

LEMMA OrderedInit == DialogueInit => Ordered
BY DEF DialogueInit, Ordered, Fine, Added

\* Where the graph goes after a message of the agent.
LEMMA RouteOf ==
  ASSUME NEW m, Last(m) \in Answers
  PROVE  /\ Route(m) \in {"tools", "done", "ask"}
         /\ Route(m) = "tools" => Last(m) = "calls"
         /\ Route(m) = "done" => Last(m) = "complete"
         /\ Route(m) = "ask" => Last(m) \in Questions
BY DEF Route, Answers, Questions

\* Any answer may follow what the agent finds, unless the questions are used up.
LEMMA OrderedAnswer == Ordered /\ ModelAnswers => Ordered'
<1> SUFFICES ASSUME Ordered, ModelAnswers PROVE Ordered'
  OBVIOUS
<1>1. PICK answer \in Answers : dMessages' = Append(dMessages, answer)
  BY DEF ModelAnswers
<1>2. answer \in Kinds
  BY DEF Kinds, Assistant
<1>3. Added => May(Last(dMessages), answer)
  BY KindsOf DEF ModelAnswers, Ordered, May
<1>4. /\ Fine(dMessages', dGiven) /\ dMessages' \in Seq(Kinds)
      /\ Last(dMessages') = answer /\ Len(dMessages') = Len(dMessages) + 1
  BY <1>1, <1>2, <1>3, FineAppend DEF Ordered, Added
<1>5. UNCHANGED <<dGiven, dIteration>> /\ dAt' = Route(dMessages')
  BY DEF ModelAnswers
<1>6. Added'
  BY <1>4, <1>5 DEF Ordered, Added
<1>7. /\ dAt' \in {"tools", "done", "ask"}
      /\ dAt' = "tools" => Last(dMessages') = "calls"
      /\ dAt' = "done" => Last(dMessages') = "complete"
      /\ dAt' = "ask" => Last(dMessages') \in Questions
  BY <1>4, <1>5, RouteOf
<1> QED BY <1>4, <1>5, <1>6, <1>7 DEF Ordered

LEMMA OrderedCompletes == Ordered /\ AgentCompletes => Ordered' /\ dAt' = "done"
<1> SUFFICES ASSUME Ordered, AgentCompletes PROVE Ordered' /\ dAt' = "done"
  OBVIOUS
<1> USE DEF Ordered
<1>1. /\ dAt = "agent" /\ dMessages' = dMessages \o Completion(dMessages)
      /\ dAt' = Route(dMessages') /\ UNCHANGED <<dGiven, dIteration>>
  BY DEF AgentCompletes
<1>2. /\ dMessages' \in Seq(Kinds) /\ Len(dMessages') >= Len(dMessages)
      /\ Fine(dMessages', dGiven) /\ Last(dMessages') = "complete"
  <2>1. CASE dMessages = <<>>
    <3>1. Completion(dMessages) = <<"complete">>
      BY <2>1 DEF Completion
    <3>2. dMessages' = Append(dMessages, "complete")
      BY <1>1, <2>1, <3>1
    <3>3. ~Added
      BY <2>1 DEF Added
    <3> QED BY <3>2, <3>3, KindsOf, FineAppend DEF Added
  <2>2. CASE dMessages # <<>> /\ Last(dMessages) = "complete"
    <3>1. Completion(dMessages) = <<>>
      BY <2>2 DEF Completion
    <3> QED BY <1>1, <2>2, <3>1
  <2>3. CASE dMessages # <<>> /\ Last(dMessages) = "text"
    <3>1. Completion(dMessages) = <<"user", "complete">>
      BY <2>3, KindsOf DEF Completion
    <3> DEFINE first == Append(dMessages, "user")
    <3>2. dMessages' = Append(first, "complete")
      BY <1>1, <3>1
    <3>3. ~Added
      BY <1>1, <2>3
    <3>4. Fine(first, dGiven) /\ first \in Seq(Kinds) /\ Last(first) = "user"
          /\ Len(first) = Len(dMessages) + 1
      BY <3>3, KindsOf, FineAppend DEF Added
    <3>5. May(Last(first), "complete")
      BY <3>4, KindsOf DEF May
    <3> HIDE DEF first
    <3> QED BY <3>2, <3>4, <3>5, KindsOf, FineAppend
  <2>4. CASE dMessages # <<>> /\ Last(dMessages) \in {"user", "tool"}
    <3>1. Completion(dMessages) = <<"complete">>
      BY <2>4, KindsOf DEF Completion
    <3>2. dMessages' = Append(dMessages, "complete")
      BY <1>1, <3>1
    <3>3. May(Last(dMessages), "complete")
      BY <2>4, KindsOf DEF May
    <3> QED BY <3>2, <3>3, KindsOf, FineAppend
  <2> QED BY <1>1, <2>1, <2>2, <2>3, <2>4
<1>3. dAt' = "done"
  BY <1>1, <1>2 DEF Route
<1> QED BY <1>1, <1>2, <1>3

LEMMA OrderedSearch == Ordered /\ RunSearch => Ordered'
<1> SUFFICES ASSUME Ordered, RunSearch PROVE Ordered'
  OBVIOUS
<1>1. May(Last(dMessages), "tool")
  BY KindsOf DEF Ordered, RunSearch, May
<1>2. /\ Fine(dMessages', dGiven) /\ dMessages' \in Seq(Kinds)
      /\ Last(dMessages') = "tool" /\ Len(dMessages') = Len(dMessages) + 1
  BY <1>1, KindsOf, FineAppend DEF Ordered, RunSearch
<1> QED BY <1>2 DEF Ordered, RunSearch, Added

LEMMA OrderedReply == Ordered /\ UserReplies => Ordered'
<1> SUFFICES ASSUME Ordered, UserReplies PROVE Ordered'
  OBVIOUS
<1>1. May(Last(dMessages), "user")
  BY KindsOf DEF Ordered, UserReplies, May
<1>2. /\ Fine(dMessages', dGiven) /\ dMessages' \in Seq(Kinds)
      /\ Last(dMessages') = "user" /\ Len(dMessages') = Len(dMessages) + 1
  BY <1>1, KindsOf, FineAppend DEF Ordered, UserReplies
<1> QED BY <1>2 DEF Ordered, UserReplies, Added

\* The skip marks the dialogue as exhausted, so that the agent adds nothing.
LEMMA OrderedSkip == Ordered /\ UserSkips => Ordered'
<1> SUFFICES ASSUME Ordered, UserSkips PROVE Ordered'
  OBVIOUS
<1> DEFINE first == Append(dMessages, "user")
<1>1. May(Last(dMessages), "user")
  BY KindsOf DEF Ordered, UserSkips, May
<1>2. /\ Fine(first, dGiven) /\ first \in Seq(Kinds)
      /\ Last(first) = "user" /\ Len(first) = Len(dMessages) + 1
  BY <1>1, KindsOf, FineAppend DEF Ordered
<1>3. dMessages' = Append(first, "complete")
  BY DEF UserSkips, Ordered
<1>4. May(Last(first), "complete")
  BY <1>2, KindsOf DEF May
<1> HIDE DEF first
<1>5. /\ Fine(dMessages', dGiven) /\ dMessages' \in Seq(Kinds)
      /\ Last(dMessages') = "complete" /\ Len(dMessages') = Len(first) + 1
  BY <1>2, <1>3, <1>4, KindsOf, FineAppend DEF Ordered
<1>6. dAt' = "agent" /\ UNCHANGED dGiven /\ dIteration' = MaxQuestions
  BY DEF UserSkips
<1>7. Exhausted' /\ dIteration' \in Nat
  BY <1>6, ClarifierAssumption DEF Exhausted
<1> QED BY <1>2, <1>5, <1>6, <1>7 DEF Ordered, Added

LEMMA OrderedStart ==
  ASSUME NEW start \in Histories, StartDialogue(start) PROVE Ordered'
<1>1. start \in Seq(Kinds)
  BY KindsOf DEF Histories
<1>2. Fine(start, Len(start))
  BY DEF Fine, Histories
<1>3. start # <<>> => Last(start) \in {"user", "text"}
  BY DEF Histories, Last
<1> QED BY <1>1, <1>2, <1>3 DEF StartDialogue, Ordered, Added

LEMMA OrderedNext ==
  ASSUME Ordered, DialogueNext PROVE Ordered'
  <1>1. Ordered /\ (AskUser \/ DialogueRaises) => Ordered'
    BY DEF Ordered, AskUser, DialogueRaises, Added
  <1> QED
    BY <1>1, OrderedAnswer, OrderedCompletes, OrderedSearch, OrderedReply, OrderedSkip DEF DialogueNext

LEMMA OrderedEnd == ASSUME EndDialogue PROVE Ordered'
  BY DEF EndDialogue, Ordered, Fine, Added

\* How many questions there were: one more than replies while the user is asked.
Counted ==
  /\ dAt \in {"off", "agent", "tools", "ask", "user", "done", "raised"}
  /\ dIteration \in 0..MaxQuestions /\ dSteps \in 0..DialogueLimit /\ dAsked \in Nat
  /\ dAt \in {"ask", "user"} => dIteration < MaxQuestions
  /\ dAsked <= dIteration + 1
  /\ dAt \notin {"user", "raised"} => dAsked <= dIteration
  /\ dAt = "raised" => dAsked <= MaxQuestions

LEMMA CountedNext ==
  ASSUME Ordered, Counted, DialogueNext PROVE Counted'
  <1> USE ClarifierAssumption DEF Counted, Exhausted, Step
  <1>1. CASE AgentCompletes
    <2>1. dAt' = "done"
      BY <1>1, OrderedCompletes
    <2> QED
      BY <1>1, <2>1 DEF AgentCompletes
  <1>2. CASE ModelAnswers
    <2>1. dAt' \in {"tools", "done", "ask"}
      BY <1>2 DEF ModelAnswers, Route
    <2> QED
      BY <1>2, <2>1 DEF ModelAnswers
  <1>3. CASE RunSearch
    BY <1>3 DEF RunSearch
  <1>4. CASE AskUser
    BY <1>4 DEF AskUser
  <1>5. CASE UserReplies
    BY <1>5 DEF UserReplies
  <1>6. CASE UserSkips
    BY <1>6 DEF UserSkips
  <1>7. CASE DialogueRaises
    BY <1>7 DEF DialogueRaises
  <1> QED
    BY <1>1, <1>2, <1>3, <1>4, <1>5, <1>6, <1>7 DEF DialogueNext

LEMMA CountedStart ==
  ASSUME NEW start, StartDialogue(start) PROVE Counted'
  BY ClarifierAssumption DEF StartDialogue, Counted

LEMMA CountedEnd == ASSUME EndDialogue PROVE Counted'
  BY ClarifierAssumption DEF EndDialogue, Counted

-----------------------------------------------------------------------------
(* The shallow researcher.                                                 *)

\* Past the tool calls there was at least one, and what is delivered when
\* citations are enforced has one.
Searched ==
  /\ sAt \in {"tools", "verify", "repair", "answer", "wanting", "empty"} => sIterations > 0
  /\ Enforce /\ sAt \in {"answer", "wanting"} => sCites # {}

\* What is delivered cites the registry.
LEMMA DeliversRegistered ==
  ASSUME ShallowTypeOK, NEW cites \in SUBSET registry, Delivers(cites)
  PROVE  /\ sCites' \in SUBSET registry
         /\ sAt' \in {"error", "answer", "wanting"}
         /\ Enforce /\ sAt' # "error" => sCites' # {}
  BY DEF ShallowTypeOK, Delivers, Sanitized

LEMMA SearchedNext ==
  ASSUME ShallowTypeOK, Searched, NEW t \in Turns, ShallowNext(t)
  PROVE  ShallowTypeOK' /\ Searched'
  <1> USE ShallowAssumption DEF Searched, ShallowEnds
  <1>1. CASE CallsTools
    BY <1>1 DEF CallsTools, ShallowTypeOK
  <1>2. CASE Synthesizes
    BY <1>2 DEF Synthesizes, ShallowTypeOK
  <1>3. CASE RunTools(t)
    <2>1. SourcesOf(t) \subseteq Sources
      BY DEF SourcesOf, Sources, Turns
    <2> QED
      BY <1>3, <2>1 DEF RunTools, ShallowTypeOK
  <1>4. CASE AnswerUnsourced
    BY <1>4 DEF AnswerUnsourced, ShallowTypeOK
  <1>5. CASE AnswerEmpty
    BY <1>5 DEF AnswerEmpty, ShallowTypeOK
  <1>6. CASE VerifyAnswer
    <2>1. PICK written \in Writes :
            LET cites == Verified(written)
            IN \/ cites # {} /\ Delivers(cites)
               \/ cites = {} /\ Cardinality(registry) = 1 /\ Delivers(registry)
               \/ cites = {} /\ Cardinality(registry) # 1
                  /\ IF Enforce THEN sAt' = "repair" /\ UNCHANGED sCites ELSE Delivers({})
      BY <1>6 DEF VerifyAnswer
    <2>2. Verified(written) \in SUBSET registry
      BY DEF Verified
    <2>3. CASE \E cites \in SUBSET registry : Delivers(cites)
      BY <1>6, <2>3, DeliversRegistered DEF VerifyAnswer, ShallowTypeOK
    <2>4. CASE sAt' = "repair" /\ UNCHANGED sCites
      BY <1>6, <2>4 DEF VerifyAnswer, ShallowTypeOK
    <2> QED
      BY <2>1, <2>2, <2>3, <2>4
  <1>7. CASE RepairAnswer
    <2>1. \E cites \in SUBSET registry : Delivers(cites)
      BY <1>7 DEF RepairAnswer, Verified
    <2> QED
      BY <1>7, <2>1, DeliversRegistered DEF RepairAnswer, ShallowTypeOK
  <1>8. CASE ShallowRaises
    BY <1>8 DEF ShallowRaises, ShallowTypeOK
  <1> QED
    BY <1>1, <1>2, <1>3, <1>4, <1>5, <1>6, <1>7, <1>8 DEF ShallowNext

-----------------------------------------------------------------------------
(* The conversation.                                                       *)

\* Only the search's node has a request of the shallow researcher.
Searching ==
  /\ Searched
  /\ at # "searching" => sAt = "off" /\ sCites = {}

\* The user's last message is the turn's.
Asked ==
  /\ at # "idle" => turn \in Turns
  /\ at # "idle" => \E i \in DOMAIN history :
       /\ history[i].role = "user" /\ history[i].of = turn
       /\ \A k \in DOMAIN history : history[k].role = "user" => k <= i

\* In a turn nothing has failed, research was given nothing and no dialogue
\* was held until the node that does so returns.
InTurn ==
  /\ at # "replied" => ~failed
  /\ at \notin {"idle", "replied"} => given = NoInput
  /\ at \notin {"idle", "replied", "deep"} => ~held
  /\ at = "deep" => original = turn /\ (held => clarification = turn)

ChatInv ==
  /\ ChatTypeOK /\ ShallowTypeOK /\ Ordered /\ Counted
  /\ Searching /\ Asked /\ InTurn /\ TurnsAnswered

\* What a node adds to the history.
LEMMA SaysOf ==
  ASSUME ChatTypeOK, turn \in Turns, NEW kind \in {"query", "answer", "empty", "escalation", "report", "error"},
         Says(kind)
  PROVE  /\ history' \in Seq(Messages)
         /\ Last(history').role = "assistant" /\ Last(history').of = turn /\ Last(history').kind = kind
         /\ Asked /\ at # "idle" => \E i \in DOMAIN history' :
              /\ history'[i].role = "user" /\ history'[i].of = turn
              /\ \A k \in DOMAIN history' : history'[k].role = "user" => k <= i
  <1> DEFINE m == [role |-> "assistant", of |-> turn, kind |-> kind]
  <1>1. m \in Messages /\ m.role = "assistant" /\ m.of = turn /\ m.kind = kind
    BY DEF Messages
  <1>2. history \in Seq(Messages) /\ history' = Append(history, m)
    BY DEF ChatTypeOK, Says
  <1> HIDE DEF m
  <1>3. /\ history' \in Seq(Messages) /\ Len(history') = Len(history) + 1 /\ Len(history) \in Nat
        /\ history'[Len(history')] = m
        /\ \A i \in DOMAIN history : i \in DOMAIN history' /\ history'[i] = history[i]
        /\ \A i \in DOMAIN history' : i \in DOMAIN history \/ i = Len(history')
    BY <1>1, <1>2
  <1>4. Last(history') = m
    BY <1>3 DEF Last
  <1>5. ASSUME Asked, at # "idle"
        PROVE  \E i \in DOMAIN history' :
                 /\ history'[i].role = "user" /\ history'[i].of = turn
                 /\ \A k \in DOMAIN history' : history'[k].role = "user" => k <= i
    <2>1. PICK i \in DOMAIN history :
            /\ history[i].role = "user" /\ history[i].of = turn
            /\ \A k \in DOMAIN history : history[k].role = "user" => k <= i
      BY <1>5 DEF Asked
    <2>2. i \in DOMAIN history' /\ history'[i].role = "user" /\ history'[i].of = turn
      BY <1>3, <2>1
    <2>3. ASSUME NEW k \in DOMAIN history', history'[k].role = "user" PROVE k <= i
      <3>1. k \in DOMAIN history
        BY <1>1, <1>3, <2>3
      <3> QED
        BY <1>3, <2>1, <2>3, <3>1
    <2> QED
      BY <2>2, <2>3
  <1> QED
    BY <1>1, <1>3, <1>4, <1>5

\* What the user asked last is the turn's question.
LEMMA LatestIsTurn ==
  ASSUME ChatTypeOK, Asked, at # "idle" PROVE LatestQuery = turn
  <1> DEFINE asked == {i \in DOMAIN history : history[i].role = "user"}
  <1>1. PICK i \in DOMAIN history :
          /\ history[i].role = "user" /\ history[i].of = turn
          /\ \A k \in DOMAIN history : history[k].role = "user" => k <= i
    BY DEF Asked
  <1>2. i \in asked /\ \A k \in asked : k <= i
    BY <1>1
  <1>3. asked \subseteq Nat
    BY DEF ChatTypeOK
  <1> HIDE DEF asked
  <1>4. \A c \in asked : (\A k \in asked : k <= c) => c = i
    BY <1>2, <1>3
  <1>5. (CHOOSE c \in asked : \A k \in asked : k <= c) = i
    BY <1>2, <1>4
  <1> QED
    BY <1>1, <1>5 DEF LatestQuery, asked

Answering ==
  \/ AnswersMeta \/ ToolsInvalid \/ SearchDone \/ SearchFailed \/ Hybrid
  \/ SubmitDeepJob \/ DeepResearch \/ AskReport \/ EditReport

\* A node that answers says something, and that it failed exactly if it did.
LEMMA Replies ==
  ASSUME ChatInv, Answering
  PROVE  /\ turn \in Turns /\ UNCHANGED turn
         /\ \E kind \in {"answer", "empty", "escalation", "report", "error"} :
              Says(kind) /\ (failed' <=> kind = "error")
  <1>0. at # "idle" => turn \in Turns
    BY DEF ChatInv, Asked
  <1>00. at # "replied" => failed = FALSE
    BY DEF ChatInv, InTurn, ChatTypeOK
  <1> USE <1>0, <1>00 DEF unchangedInTurn, Ends, Fails
  <1>1. CASE AnswersMeta
    BY <1>1 DEF AnswersMeta
  <1>2. CASE ToolsInvalid
    BY <1>2 DEF ToolsInvalid
  <1>3. CASE SearchDone
    BY <1>3 DEF SearchDone
  <1>4. CASE SearchFailed
    BY <1>4 DEF SearchFailed
  <1>5. CASE Hybrid
    <2>1. CASE failed' = TRUE /\ Says("error")
      BY <1>5, <2>1 DEF Hybrid
    <2>2. CASE failed' = failed /\ (Says("escalation") \/ Says("answer"))
      BY <1>5, <2>2 DEF Hybrid
    <2> QED
      BY <1>5, <2>1, <2>2 DEF Hybrid
  <1>6. CASE SubmitDeepJob
    BY <1>6 DEF SubmitDeepJob
  <1>7. CASE DeepResearch
    BY <1>7 DEF DeepResearch
  <1>8. CASE AskReport
    BY <1>8 DEF AskReport
  <1>9. CASE EditReport
    BY <1>9 DEF EditReport
  <1> QED
    BY <1>1, <1>2, <1>3, <1>4, <1>5, <1>6, <1>7, <1>8, <1>9 DEF Answering

\* The history stays well formed, its last query the turn's, and what is
\* answered is the turn's.
LEMMA HistoryStep ==
  ASSUME ChatInv, [Next]_vars
  PROVE  history' \in Seq(Messages) /\ Asked' /\ TurnAnswered'
  <1>1. CASE Answering
    <2>1. PICK kind \in {"answer", "empty", "escalation", "report", "error"} :
            Says(kind) /\ (failed' <=> kind = "error")
      BY <1>1, Replies
    <2>2. turn \in Turns /\ turn' = turn
      BY <1>1, Replies
    <2>3. kind \in {"query", "answer", "empty", "escalation", "report", "error"}
      OBVIOUS
    <2>4. /\ history' \in Seq(Messages)
          /\ Last(history').role = "assistant" /\ Last(history').of = turn /\ Last(history').kind = kind
          /\ \E i \in DOMAIN history' :
               /\ history'[i].role = "user" /\ history'[i].of = turn
               /\ \A k \in DOMAIN history' : history'[k].role = "user" => k <= i
      <3>1. ChatTypeOK /\ Asked
        BY DEF ChatInv
      <3>2. at # "idle"
        BY <1>1 DEF Answering, AnswersMeta, ToolsInvalid, SearchDone, SearchFailed, Hybrid,
                    SubmitDeepJob, DeepResearch, AskReport, EditReport
      <3> QED
        BY <2>1, <2>2, <2>3, <3>1, <3>2, SaysOf
    <2> QED
      BY <2>1, <2>2, <2>4 DEF Asked, TurnAnswered
  <1>2. CASE BeginTurn
    <2> DEFINE m == [role |-> "user", of |-> turn + 1, kind |-> "query"]
    <2>1. turn \in 0..MaxTurns /\ history \in Seq(Messages)
      BY DEF ChatInv, ChatTypeOK
    <2>2. turn + 1 \in Turns /\ turn' = turn + 1 /\ at' = "intent" /\ history' = Append(history, m)
      BY <1>2, <2>1, ShallowAssumption DEF BeginTurn, Turns
    <2>3. m \in Messages /\ m.role = "user" /\ m.of = turn + 1
      BY <2>2 DEF Messages
    <2> HIDE DEF m
    <2>4. /\ history' \in Seq(Messages) /\ Len(history') \in DOMAIN history' /\ history'[Len(history')] = m
          /\ \A k \in DOMAIN history' : k <= Len(history')
      BY <2>1, <2>2, <2>3
    <2> QED
      BY <2>2, <2>3, <2>4 DEF Asked, TurnAnswered
  <1>3. CASE UNCHANGED <<turn, history, failed>> /\ (at' = at \/ (at # "idle" /\ at' # "replied") \/ at' = "idle")
    BY <1>3 DEF ChatInv, ChatTypeOK, Asked, TurnAnswered, TurnsAnswered
  <1>4. ASSUME Classify \/ Clarify \/ Converse \/ DialogueDone \/ Search \/ SearchStep \/ TurnRaises
               \/ SessionForgotten \/ UNCHANGED vars
        PROVE  UNCHANGED <<turn, history, failed>> /\ (at' = at \/ (at # "idle" /\ at' # "replied") \/ at' = "idle")
    <2>1. CASE Classify
      <3>1. PICK target \in Targets \ {"meta"} : at' = IF target = "deep" THEN "clarify" ELSE target
        BY <2>1 DEF Classify
      <3> QED
        BY <2>1, <3>1 DEF Classify, Targets, unchangedInTurn
    <2>2. CASE Clarify
      BY <2>2 DEF Clarify, unchangedInTurn
    <2>3. CASE Converse
      BY <2>3 DEF Converse, chatVars
    <2>4. CASE DialogueDone
      BY <2>4 DEF DialogueDone, unchangedInTurn
    <2>5. CASE Search
      BY <2>5 DEF Search, unchangedInTurn
    <2>6. CASE SearchStep
      BY <2>6 DEF SearchStep, chatVars
    <2>7. CASE TurnRaises
      BY <2>7 DEF TurnRaises, unchangedInTurn
    <2>8. CASE SessionForgotten
      BY <2>8 DEF SessionForgotten, chatVars
    <2>9. CASE UNCHANGED vars
      BY <2>9 DEF vars, chatVars
    <2> QED
      BY <1>4, <2>1, <2>2, <2>3, <2>4, <2>5, <2>6, <2>7, <2>8, <2>9
  <1> QED
    BY <1>1, <1>2, <1>3, <1>4 DEF Next, Answering

\* The variables of the conversation keep their types.
LEMMA ChatTypeStep ==
  ASSUME ChatInv, [Next]_vars PROVE ChatTypeOK'
  <1>0. history' \in Seq(Messages)
    BY HistoryStep
  <1>00. at # "idle" => turn \in Turns /\ LatestQuery = turn
    BY LatestIsTurn DEF ChatInv, Asked
  <1>000. ChatTypeOK
    BY DEF ChatInv
  <1>0000. NoInput \in [query : 0..turn, clarification : 0..turn, parent : 0..turn]
    BY <1>000 DEF NoInput, ChatTypeOK
  <1>00000. ParentReport \in 0..turn
    BY <1>000 DEF ParentReport, ChatTypeOK
  <1> USE <1>0, <1>0000, <1>00, <1>000, ShallowAssumption DEF ChatTypeOK, Turns, Targets, NoRoute, unchangedInTurn, chatVars, Ends, Fails
  <1>1. CASE BeginTurn
    <2>1. given' \in [query : 0..turn', clarification : 0..turn', parent : 0..turn']
      BY <1>1 DEF BeginTurn, NoInput
    <2>2. /\ config' \in [jobs : BOOLEAN, clarifier : BOOLEAN, escalation : BOOLEAN]
          /\ route' \in [target : Targets, parent : BOOLEAN]
      BY <1>1 DEF BeginTurn, Resets
    <2>3. turn' \in 0..MaxTurns /\ turn <= turn'
      BY <1>1 DEF BeginTurn, Resets
    <2>4. {clarification', original', report', active'} \subseteq 0..turn' /\ reports' \subseteq 1..turn'
      <3>1. reports' \subseteq 1..turn'
        BY <1>1, <2>3 DEF BeginTurn, Resets
      <3>2. clarification' \in 0..turn' /\ original' \in 0..turn' /\ report' \in 0..turn'
        BY <1>1, <2>3, SMTT(30) DEF BeginTurn, Resets
      <3>3. active' \in 0..turn'
        BY <1>1, <2>3, SMTT(30) DEF BeginTurn, Resets
      <3> QED
        BY <3>1, <3>2, <3>3
    <2>5. skip' \in BOOLEAN /\ failed' \in BOOLEAN /\ held' \in BOOLEAN
      BY <1>1 DEF BeginTurn, Resets
    <2>6. at' \in {"replied", "intent"}
      BY <1>1 DEF BeginTurn, Resets
    <2> QED
      BY <2>1, <2>2, <2>3, <2>4, <2>5, <2>6
  <1>2. CASE AnswersMeta
    BY <1>2 DEF AnswersMeta, NoRoute
  <1>3. CASE Classify
    BY <1>3 DEF Classify, HasReport
  <1>4. CASE ToolsInvalid
    BY <1>4 DEF ToolsInvalid
  <1>5. CASE Clarify
    BY <1>5 DEF Clarify
  <1>6. CASE Converse
    BY <1>6 DEF Converse
  <1>7. CASE DialogueDone
    BY <1>7 DEF DialogueDone
  <1>8. CASE Search
    BY <1>8 DEF Search
  <1>9. CASE SearchStep
    BY <1>9 DEF SearchStep
  <1>10. CASE SearchDone
    BY <1>10 DEF SearchDone
  <1>11. CASE SearchFailed
    BY <1>11 DEF SearchFailed
  <1>12. CASE Hybrid
    <2>1. given' \in [query : 0..turn', clarification : 0..turn', parent : 0..turn']
      BY <1>12 DEF Hybrid, HybridInput
    <2>2. /\ config' \in [jobs : BOOLEAN, clarifier : BOOLEAN, escalation : BOOLEAN]
          /\ route' \in [target : Targets, parent : BOOLEAN]
      BY <1>12 DEF Hybrid
    <2>3. turn' \in 0..MaxTurns /\ turn <= turn'
      BY <1>12 DEF Hybrid
    <2>4. {clarification', original', report', active'} \subseteq 0..turn' /\ reports' \subseteq 1..turn'
      <3>1. reports' \subseteq 1..turn'
        BY <1>12, <2>3 DEF Hybrid
      <3>2. clarification' \in 0..turn' /\ original' \in 0..turn' /\ report' \in 0..turn'
        BY <1>12, <2>3 DEF Hybrid
      <3>3. active' \in 0..turn'
        BY <1>12, <2>3 DEF Hybrid
      <3> QED
        BY <3>1, <3>2, <3>3
    <2>5. skip' \in BOOLEAN /\ failed' \in BOOLEAN /\ held' \in BOOLEAN
      BY <1>12 DEF Hybrid
    <2>6. at' \in {"replied", "intent"}
      BY <1>12 DEF Hybrid
    <2> QED
      BY <2>1, <2>2, <2>3, <2>4, <2>5, <2>6
  <1>13. CASE SubmitDeepJob
    <2>1. given' \in [query : 0..turn', clarification : 0..turn', parent : 0..turn']
      BY <1>13, <1>00000 DEF SubmitDeepJob, DeepJobInput
    <2>2. /\ config' \in [jobs : BOOLEAN, clarifier : BOOLEAN, escalation : BOOLEAN]
          /\ route' \in [target : Targets, parent : BOOLEAN]
      BY <1>13 DEF SubmitDeepJob
    <2>3. turn' \in 0..MaxTurns /\ turn <= turn'
      BY <1>13 DEF SubmitDeepJob
    <2>4. {clarification', original', report', active'} \subseteq 0..turn' /\ reports' \subseteq 1..turn'
      <3>1. reports' \subseteq 1..turn'
        <4>1. turn' = turn /\ turn \in 1..turn /\ reports \subseteq 1..turn
          BY <1>13 DEF SubmitDeepJob
        <4>2. reports' \subseteq reports \union {turn}
          BY <1>13 DEF SubmitDeepJob
        <4> QED
          BY <4>1, <4>2
      <3>2. clarification' \in 0..turn' /\ original' \in 0..turn' /\ report' \in 0..turn'
        BY <1>13, <2>3 DEF SubmitDeepJob
      <3>3. active' \in 0..turn'
        BY <1>13, <2>3 DEF SubmitDeepJob
      <3> QED
        BY <3>1, <3>2, <3>3
    <2>5. skip' \in BOOLEAN /\ failed' \in BOOLEAN /\ held' \in BOOLEAN
      BY <1>13 DEF SubmitDeepJob
    <2>6. at' \in {"replied", "intent"}
      BY <1>13 DEF SubmitDeepJob
    <2> QED
      BY <2>1, <2>2, <2>3, <2>4, <2>5, <2>6
  <1>14. CASE DeepResearch
    <2>1. given' \in [query : 0..turn', clarification : 0..turn', parent : 0..turn']
      BY <1>14, <1>00000 DEF DeepResearch
    <2>2. /\ config' \in [jobs : BOOLEAN, clarifier : BOOLEAN, escalation : BOOLEAN]
          /\ route' \in [target : Targets, parent : BOOLEAN]
      BY <1>14 DEF DeepResearch
    <2>3. turn' \in 0..MaxTurns /\ turn <= turn'
      BY <1>14 DEF DeepResearch
    <2>4. {clarification', original', report', active'} \subseteq 0..turn' /\ reports' \subseteq 1..turn'
      <3>1. reports' \subseteq 1..turn'
        BY <1>14, <2>3 DEF DeepResearch
      <3>2. clarification' \in 0..turn' /\ original' \in 0..turn' /\ report' \in 0..turn'
        BY <1>14, <2>3 DEF DeepResearch
      <3>3. active' \in 0..turn'
        BY <1>14, <2>3 DEF DeepResearch
      <3> QED
        BY <3>1, <3>2, <3>3
    <2>5. skip' \in BOOLEAN /\ failed' \in BOOLEAN /\ held' \in BOOLEAN
      BY <1>14 DEF DeepResearch
    <2>6. at' \in {"replied", "intent"}
      BY <1>14 DEF DeepResearch
    <2> QED
      BY <2>1, <2>2, <2>3, <2>4, <2>5, <2>6
  <1>15. CASE AskReport
    BY <1>15, ZenonT(40) DEF AskReport
  <1>16. CASE EditReport
    <2>1. given' \in [query : 0..turn', clarification : 0..turn', parent : 0..turn']
      BY <1>16 DEF EditReport
    <2>2. /\ config' \in [jobs : BOOLEAN, clarifier : BOOLEAN, escalation : BOOLEAN]
          /\ route' \in [target : Targets, parent : BOOLEAN]
      BY <1>16 DEF EditReport
    <2>3. turn' \in 0..MaxTurns /\ turn <= turn'
      BY <1>16 DEF EditReport
    <2>4. {clarification', original', report', active'} \subseteq 0..turn' /\ reports' \subseteq 1..turn'
      <3>1. reports' \subseteq 1..turn'
        <4>1. turn' = turn /\ turn \in 1..turn /\ reports \subseteq 1..turn
          BY <1>16 DEF EditReport
        <4>2. reports' \subseteq reports \union {turn}
          BY <1>16 DEF EditReport
        <4> QED
          BY <4>1, <4>2
      <3>2. clarification' \in 0..turn' /\ original' \in 0..turn' /\ report' \in 0..turn'
        BY <1>16, <2>3 DEF EditReport
      <3>3. active' \in 0..turn'
        BY <1>16, <2>3 DEF EditReport
      <3> QED
        BY <3>1, <3>2, <3>3
    <2>5. skip' \in BOOLEAN /\ failed' \in BOOLEAN /\ held' \in BOOLEAN
      BY <1>16 DEF EditReport
    <2>6. at' \in {"replied", "intent"}
      BY <1>16 DEF EditReport
    <2> QED
      BY <2>1, <2>2, <2>3, <2>4, <2>5, <2>6
  <1>17. CASE TurnRaises
    BY <1>17 DEF TurnRaises
  <1>18. CASE SessionForgotten
    BY <1>18 DEF SessionForgotten
  <1>19. CASE UNCHANGED vars
    BY <1>19 DEF vars
  <1> QED
    BY <1>1, <1>2, <1>3, <1>4, <1>5, <1>6, <1>7, <1>8, <1>9, <1>10, <1>11, <1>12, <1>13, <1>14, <1>15, <1>16, <1>17, <1>18, <1>19 DEF Next

\* What a turn's research is given is of this turn.
LEMMA InTurnStep ==
  ASSUME ChatInv, [Next]_vars PROVE InTurn' /\ ResearchesThisTurn'
  <1>0. at # "idle" => turn \in Turns /\ LatestQuery = turn
    BY LatestIsTurn DEF ChatInv, Asked
  <1>00. InTurn /\ ResearchesThisTurn /\ ChatTypeOK
    BY DEF ChatInv, TurnsAnswered
  <1> USE <1>0, <1>00 DEF InTurn, ResearchesThisTurn, Turns, Targets, NoInput, unchangedInTurn, chatVars, Ends, Fails
  <1>1. CASE BeginTurn
    BY <1>1 DEF BeginTurn, Resets
  <1>2. CASE AnswersMeta
    BY <1>2 DEF AnswersMeta, NoRoute
  <1>3. CASE Classify
    BY <1>3 DEF Classify
  <1>4. CASE ToolsInvalid
    BY <1>4 DEF ToolsInvalid
  <1>5. CASE Clarify
    BY <1>5 DEF Clarify
  <1>6. CASE Converse
    BY <1>6 DEF Converse
  <1>7. CASE DialogueDone
    BY <1>7 DEF DialogueDone
  <1>8. CASE Search
    BY <1>8 DEF Search
  <1>9. CASE SearchStep
    BY <1>9 DEF SearchStep
  <1>10. CASE SearchDone
    BY <1>10 DEF SearchDone
  <1>11. CASE SearchFailed
    BY <1>11 DEF SearchFailed
  <1>12. CASE Hybrid
    BY <1>12 DEF Hybrid, HybridInput
  <1>13. CASE SubmitDeepJob
    BY <1>13 DEF SubmitDeepJob, DeepJobInput, ParentReport
  <1>14. CASE DeepResearch
    BY <1>14 DEF DeepResearch, ParentReport
  <1>15. CASE AskReport
    BY <1>15 DEF AskReport
  <1>16. CASE EditReport
    BY <1>16 DEF EditReport
  <1>17. CASE TurnRaises
    BY <1>17 DEF TurnRaises
  <1>18. CASE SessionForgotten
    BY <1>18 DEF SessionForgotten
  <1>19. CASE UNCHANGED vars
    BY <1>19 DEF vars
  <1> QED
    BY <1>1, <1>2, <1>3, <1>4, <1>5, <1>6, <1>7, <1>8, <1>9, <1>10, <1>11, <1>12, <1>13, <1>14, <1>15, <1>16, <1>17, <1>18, <1>19 DEF Next

\* Requests of the shallow researcher are made by its node only.
LEMMA SearchingStep ==
  ASSUME ChatInv, [Next]_vars PROVE ShallowTypeOK' /\ Searching'
  <1>0. ShallowTypeOK /\ Searching
    BY DEF ChatInv
  <1> USE <1>0 DEF Searching, Searched, ShallowTypeOK, shallowVars, chatVars
  <1>1. CASE BeginTurn
    BY <1>1 DEF BeginTurn
  <1>2. CASE AnswersMeta
    BY <1>2 DEF AnswersMeta
  <1>3. CASE Classify
    BY <1>3 DEF Classify
  <1>4. CASE ToolsInvalid
    BY <1>4 DEF ToolsInvalid
  <1>5. CASE Clarify
    BY <1>5 DEF Clarify
  <1>6. CASE Converse
    BY <1>6 DEF Converse
  <1>7. CASE DialogueDone
    BY <1>7 DEF DialogueDone
  <1>8. CASE Search
    BY <1>8, ShallowAssumption DEF Search, StartShallow, ShallowTypeOK, ShallowEnds, Searched, Searching
  <1>9. CASE SearchStep
    <2>1. turn \in Turns
      BY <1>9 DEF SearchStep, ChatInv, Asked
    <2> QED
      BY <1>9, <2>1, SearchedNext DEF SearchStep, Searching, chatVars
  <1>10. CASE SearchDone
    BY <1>10, ShallowAssumption DEF SearchDone, EndShallow, ShallowTypeOK, Searched, Searching
  <1>11. CASE SearchFailed
    BY <1>11, ShallowAssumption DEF SearchFailed, EndShallow, ShallowTypeOK, Searched, Searching
  <1>12. CASE Hybrid
    BY <1>12 DEF Hybrid
  <1>13. CASE SubmitDeepJob
    BY <1>13 DEF SubmitDeepJob
  <1>14. CASE DeepResearch
    <2>1. turn \in Turns
      BY <1>14 DEF DeepResearch, ChatInv, Asked
    <2>2. SourcesOf(turn) \subseteq Sources
      BY <2>1 DEF SourcesOf, Sources, Turns
    <2>3. registry' \subseteq Sources /\ at' = "replied" /\ UNCHANGED <<sAt, sIterations, sCites>> /\ sAt = "off" /\ sCites = {}
      BY <1>14, <2>2 DEF DeepResearch, Ends, Fails, Searching, ShallowTypeOK
    <2> QED
      BY <2>3 DEF ShallowTypeOK, Searching, Searched
  <1>15. CASE AskReport
    BY <1>15 DEF AskReport
  <1>16. CASE EditReport
    BY <1>16 DEF EditReport
  <1>17. CASE TurnRaises
    BY <1>17, ShallowAssumption DEF TurnRaises, EndShallow, ShallowTypeOK, Searched, Searching
  <1>18. CASE SessionForgotten
    BY <1>18 DEF SessionForgotten, ShallowTypeOK, Searched, Searching, chatVars
  <1>19. CASE UNCHANGED vars
    BY <1>19 DEF vars
  <1> QED
    BY <1>1, <1>2, <1>3, <1>4, <1>5, <1>6, <1>7, <1>8, <1>9, <1>10, <1>11, <1>12, <1>13, <1>14, <1>15, <1>16, <1>17, <1>18, <1>19 DEF Next

\* What the trimming leaves is a part of the messages, possibly none.
LEMMA TrimmedMessages ==
  ASSUME NEW messages \in Seq(Messages) PROVE Trimmed(messages) \in Seq(Messages)
  <1> DEFINE S == Starts(messages)
             less == OpToRel(<, Nat)
  <1>1. CASE S = {}
    BY <1>1 DEF Trimmed
  <1>2. CASE S # {}
    <2>1. S \subseteq 1..Len(messages) /\ S \subseteq Nat /\ Len(messages) \in Nat
      BY DEF Starts
    <2> HIDE DEF S
    <2>2. PICK least \in S : \A j \in S : ~ (<<j, least>> \in less)
      BY <1>2, <2>1, NatLessThanWellFounded, WFMin
    <2>3. \A j \in S : j < least => <<j, least>> \in less
      BY <2>1, <2>2 DEF OpToRel
    <2>4. \A j \in S : least <= j
      <3>1. \A j \in S : ~ (j < least)
        BY <2>2, <2>3
      <3>2. least \in Nat /\ \A j \in S : j \in Nat
        BY <2>1
      <3> QED
        BY <3>1, <3>2
    <2> DEFINE start == CHOOSE i \in S : \A j \in S : i <= j
    <2>5. start \in S
      BY <2>4
    <2>6. Trimmed(messages) = SubSeq(messages, start, Len(messages))
      BY <1>2 DEF Trimmed, S
    <2> HIDE DEF start
    <2>7. start \in 1..Len(messages)
      BY <2>1, <2>5
    <2> QED
      BY <2>1, <2>6, <2>7
  <1> QED
    BY <1>1, <1>2

LEMMA ProjectedHistory == ASSUME ChatTypeOK PROVE Projected(history) \in Histories
  <1> DEFINE shown == Trimmed(history)
  <1>1. shown \in Seq(Messages)
    BY TrimmedMessages DEF ChatTypeOK
  <1>2. Projected(history) = [i \in DOMAIN shown |-> Kind(shown[i])]
    BY DEF Projected
  <1>3. \A i \in DOMAIN shown : Kind(shown[i]) \in {"user", "text"}
    BY DEF Kind
  <1> HIDE DEF shown
  <1> QED
    BY <1>1, <1>2, <1>3 DEF Histories

\* A dialogue begins with the chat's history, and ends with its node.
LEMMA DialogueStep ==
  ASSUME ChatInv, [Next]_vars PROVE Ordered' /\ Counted'
  <1>0. Ordered /\ Counted
    BY DEF ChatInv
  <1>00. ASSUME UNCHANGED dialogueVars PROVE Ordered' /\ Counted'
    BY <1>0, <1>00 DEF Ordered, Counted, Added, Exhausted, dialogueVars
  <1>1. CASE BeginTurn
    BY <1>00, <1>1 DEF BeginTurn
  <1>2. CASE AnswersMeta
    BY <1>00, <1>2 DEF AnswersMeta
  <1>3. CASE Classify
    BY <1>00, <1>3 DEF Classify
  <1>4. CASE ToolsInvalid
    BY <1>00, <1>4 DEF ToolsInvalid
  <1>5. CASE Clarify
    <2>1. CASE UNCHANGED dialogueVars
      BY <2>1, <1>0 DEF Ordered, Counted, Added, Exhausted, dialogueVars
    <2>2. CASE StartDialogue(Projected(history))
      <3>1. Projected(history) \in Histories
        BY ProjectedHistory DEF ChatInv
      <3> QED
        BY <2>2, <3>1, OrderedStart, CountedStart
    <2> QED
      BY <1>5, <2>1, <2>2 DEF Clarify
  <1>6. CASE Converse
    BY <1>6, <1>0, OrderedNext, CountedNext DEF Converse
  <1>7. CASE DialogueDone
    BY <1>7, OrderedEnd, CountedEnd DEF DialogueDone
  <1>8. CASE Search
    BY <1>00, <1>8 DEF Search
  <1>9. CASE SearchStep
    BY <1>00, <1>9 DEF SearchStep
  <1>10. CASE SearchDone
    BY <1>00, <1>10 DEF SearchDone
  <1>11. CASE SearchFailed
    BY <1>00, <1>11 DEF SearchFailed
  <1>12. CASE Hybrid
    BY <1>00, <1>12 DEF Hybrid
  <1>13. CASE SubmitDeepJob
    BY <1>00, <1>13 DEF SubmitDeepJob
  <1>14. CASE DeepResearch
    BY <1>00, <1>14 DEF DeepResearch
  <1>15. CASE AskReport
    BY <1>00, <1>15 DEF AskReport
  <1>16. CASE EditReport
    BY <1>00, <1>16 DEF EditReport
  <1>17. CASE TurnRaises
    BY <1>17, OrderedEnd, CountedEnd DEF TurnRaises
  <1>18. CASE SessionForgotten
    BY <1>00, <1>18 DEF SessionForgotten
  <1>19. CASE UNCHANGED vars
    BY <1>00, <1>19 DEF vars
  <1> QED
    BY <1>1, <1>2, <1>3, <1>4, <1>5, <1>6, <1>7, <1>8, <1>9, <1>10, <1>11, <1>12, <1>13, <1>14, <1>15, <1>16, <1>17, <1>18, <1>19 DEF Next

-----------------------------------------------------------------------------
(* The theorems about conversations.                                       *)

LEMMA ChatFirst == Init => ChatInv
<1> SUFFICES ASSUME Init PROVE ChatInv
  OBVIOUS
<1>1. history \in Seq(Messages)
  <2>1. <<>> \in Seq(Messages)
    OBVIOUS
  <2> QED
    BY <2>1 DEF Init, ChatInit
<1>2. ChatTypeOK
  <2>1. config \in [jobs : BOOLEAN, clarifier : BOOLEAN, escalation : BOOLEAN]
    BY DEF Init, ChatInit
  <2>2. route \in [target : Targets, parent : BOOLEAN]
    BY DEF Init, ChatInit, NoRoute, Targets
  <2>3. given \in [query : 0..turn, clarification : 0..turn, parent : 0..turn]
    BY DEF Init, ChatInit, NoInput
  <2>4. turn \in 0..MaxTurns /\ {clarification, original, report, active} \subseteq 0..turn
    BY ShallowAssumption DEF Init, ChatInit
  <2>5. /\ reports \subseteq 1..turn
        /\ skip \in BOOLEAN /\ failed \in BOOLEAN /\ held \in BOOLEAN /\ at = "idle"
    BY ShallowAssumption DEF Init, ChatInit
  <2> QED
    BY <1>1, <2>1, <2>2, <2>3, <2>4, <2>5 DEF ChatTypeOK
<1>3. ShallowTypeOK /\ Searching
  BY ShallowAssumption DEF Init, ShallowInit, ChatInit, ShallowTypeOK, Searching, Searched
<1>4. Ordered /\ Counted
  BY OrderedInit, ClarifierAssumption DEF Init, DialogueInit, Counted
<1>5. Asked /\ InTurn /\ TurnsAnswered
  BY DEF Init, ChatInit, Asked, InTurn, TurnsAnswered, TurnAnswered, ResearchesThisTurn
<1> QED
  BY <1>2, <1>3, <1>4, <1>5 DEF ChatInv

LEMMA ChatStep == ChatInv /\ [Next]_vars => ChatInv'
BY HistoryStep, ChatTypeStep, InTurnStep, SearchingStep, DialogueStep DEF ChatInv, TurnsAnswered

LEMMA ChatTyped == ChatInv => TypeOK
BY ClarifierAssumption DEF ChatInv, TypeOK, DialogueTypeOK, Ordered, Counted

LEMMA ChatSafe == ChatInv => DialogueValid /\ EvidenceFirst /\ TurnsAnswered
BY DEF ChatInv, Ordered, Fine, DialogueValid, Searching, Searched, EvidenceFirst

\* The invariant of a conversation.
THEOREM ChatInvariant == Spec => []ChatInv
BY ChatFirst, ChatStep, PTL DEF Spec

\* The variables have their types.
THEOREM ChatTypes == Spec => []TypeOK
BY ChatTyped, ChatInvariant, PTL

\* The history a dialogue builds has no two adjacent assistant messages and no
\* unresolved tool call, and ends with the completion when it is done, in
\* every turn of a conversation.
THEOREM DialogueAlwaysValid == Spec => []DialogueValid
BY ChatSafe, ChatInvariant, PTL

\* The shallow researcher answers after a tool call of the same request, and
\* with a citation when citations are enforced, however often its registry is
\* forgotten.
THEOREM EvidenceAlwaysFirst == Spec => []EvidenceFirst
BY ChatSafe, ChatInvariant, PTL

\* What the user gets in a turn is of this turn, and so is what research was
\* given, whatever the checkpoint has kept of earlier ones.
THEOREM TurnsAlwaysAnswered == Spec => []TurnsAnswered
BY ChatSafe, ChatInvariant, PTL

-----------------------------------------------------------------------------
(* A deep research run.  What the middleware enforces is one agreement:    *)
(* from the moment the graph has ended, the orchestrator's report is the   *)
(* one whose digest was recorded last, and nothing writes to either after  *)
(* the middleware that compared them.                                      *)

After == {"extract", "check", "repair", "delivered"}

\* The digest is of a report of this run, and is that of the orchestrator's
\* report once the graph has ended.
Agreed ==
  /\ rDigest \in Nat /\ rDigest # 1
  /\ rAt \in After => rFile = rDigest /\ rDigest # 0
  /\ rAt \in {"check", "repair", "delivered"} => rSources
  /\ rAt = "delivered" => rOut = rFile

LEMMA AgreedInit == DeepInit => Agreed
BY DEF DeepInit, Agreed, After

LEMMA AgreedNext == Agreed /\ [DeepNext]_deepVars => Agreed'
<1> SUFFICES ASSUME Agreed, [DeepNext]_deepVars PROVE Agreed'
  OBVIOUS
<1> USE DEF Agreed, After
<1>1. CASE ModelDelegates
  BY <1>1 DEF ModelDelegates
<1>2. ASSUME NEW d \in Delegates, DelegateRaises(d) PROVE Agreed'
  BY <1>2 DEF DelegateRaises
<1>3. ASSUME NEW d \in Delegates, RouterReturns(d) \/ WriterReserves(d) \/ UploadFails(d)
                                  \/ WriterStops(d)
      PROVE Agreed'
  BY <1>3 DEF RouterReturns, WriterReserves, UploadFails, WriterStops, Becomes, Runs
<1>4. ASSUME NEW d \in Delegates, ResearcherReturns(d) PROVE Agreed'
  BY <1>4 DEF ResearcherReturns, Runs
<1>5. ASSUME NEW d \in Delegates, WriterCommits(d) PROVE Agreed'
  <2>1. rDigest' = NewReport /\ rAt' = "tools"
    BY <1>5 DEF WriterCommits
  <2>2. NewReport \in Nat /\ NewReport # 1
    BY DEF NewReport
  <2> QED BY <2>1, <2>2
<1>6. ASSUME NEW d \in Delegates, WriterClaims(d) PROVE Agreed'
  <2>1. rAt = "tools" /\ UNCHANGED <<rAt, rFile, rDigest, rSources, rOut>>
    BY <1>6 DEF WriterClaims, Runs
  <2> QED BY <2>1
<1>7. CASE DelegatesReturn
  BY <1>7 DEF DelegatesReturn
<1>8. CASE ModelStops
  BY <1>8 DEF ModelStops, Committed
<1>9. CASE GraphRaises \/ ExecutionTimesOut
  BY <1>9 DEF GraphRaises, ExecutionTimesOut
<1>10. CASE Extract
  BY <1>10 DEF Extract
<1>11. CASE CheckCitations \/ RepairReport
  BY <1>11 DEF CheckCitations, RepairReport, Deliver
<1>12. CASE UNCHANGED deepVars
  BY <1>12 DEF deepVars
<1> QED BY <1>1, <1>2, <1>3, <1>4, <1>5, <1>6, <1>7, <1>8, <1>9, <1>10, <1>11, <1>12 DEF DeepNext

LEMMA AgreedDelivers == Agreed => DeliversCommitted
BY DEF Agreed, After, DeliversCommitted

\* A delivered report is the last one committed in its run, and the registry
\* holds a source: RequiredWriterDelegationMiddleware and the checks of run().
THEOREM DeliversCommittedAlways == DeepSpec => []DeliversCommitted
BY AgreedInit, AgreedNext, AgreedDelivers, PTL DEF DeepSpec

-----------------------------------------------------------------------------
(* Source-tool calls.  What is counted are sets of items: those that wait, *)
(* and those at the provider.                                              *)

Counts == {n \in [Tools -> Nat] : \A t \in Tools : n[t] <= MaxBatch}
Mine(t, k) == {i \in Tools \X (1..MaxBatch) : i[1] = t /\ i[2] <= k}

LEMMA MineCount ==
  ASSUME NEW t \in Tools, NEW k \in Nat, k <= MaxBatch
  PROVE  IsFiniteSet(Mine(t, k)) /\ Cardinality(Mine(t, k)) = k
<1>1. IsFiniteSet(1..k) /\ Cardinality(1..k) = k
  BY FS_Interval, SMTT(30)
<1> DEFINE item == [i \in 1..k |-> <<t, i>>]
<1>2. item \in [1..k -> Mine(t, k)]
  BY SourceCallsAssumption DEF Mine
<1>3. \A x, y \in 1..k : item[x] = item[y] => x = y
  OBVIOUS
<1>4. \A m \in Mine(t, k) : \E i \in 1..k : item[i] = m
  BY DEF Mine
<1>5. item \in Bijection(1..k, Mine(t, k))
  BY <1>2, <1>3, <1>4 DEF Bijection, Injection, IsInjective, Surjection
<1>6. ExistsBijection(1..k, Mine(t, k))
  BY <1>5 DEF ExistsBijection
<1> QED
  BY <1>1, <1>6, FS_Bijection

\* The count of one use changes the size of the set by as much.
LEMMA ItemsChange ==
  ASSUME NEW t \in Tools, NEW m \in Counts, NEW n \in Counts,
         \A u \in Tools \ {t} : n[u] = m[u], IsFiniteSet(Items(m))
  PROVE  /\ IsFiniteSet(Items(n))
         /\ Cardinality(Items(m)) \in Nat /\ Cardinality(Items(n)) \in Nat
         /\ Cardinality(Items(n)) + m[t] = Cardinality(Items(m)) + n[t]
<1> DEFINE rest == {i \in Items(m) : i[1] # t}
<1>1. /\ m[t] \in Nat /\ m[t] <= MaxBatch /\ n[t] \in Nat /\ n[t] <= MaxBatch
  BY DEF Counts
<1>2. Items(m) = rest \cup Mine(t, m[t])
  BY DEF Items, Mine
<1>3. Items(n) = rest \cup Mine(t, n[t])
  BY DEF Items, Mine
<1>4. rest \cap Mine(t, m[t]) = {} /\ rest \cap Mine(t, n[t]) = {}
  BY DEF Mine
<1>5. IsFiniteSet(rest)
  BY FS_Subset
<1> HIDE DEF rest
<1>6. Cardinality(rest) \in Nat
  BY <1>5, FS_CardinalityType
<1>7. /\ IsFiniteSet(Mine(t, m[t])) /\ Cardinality(Mine(t, m[t])) = m[t]
      /\ IsFiniteSet(Mine(t, n[t])) /\ Cardinality(Mine(t, n[t])) = n[t]
  BY <1>1, MineCount
<1>8. Cardinality({}) = 0
  BY FS_EmptySet
<1>9. /\ IsFiniteSet(rest \cup Mine(t, m[t]))
      /\ Cardinality(rest \cup Mine(t, m[t])) = Cardinality(rest) + m[t]
                                                 - Cardinality(rest \cap Mine(t, m[t]))
  BY <1>5, <1>7, FS_Union
<1>10. /\ IsFiniteSet(rest \cup Mine(t, n[t]))
       /\ Cardinality(rest \cup Mine(t, n[t])) = Cardinality(rest) + n[t]
                                                  - Cardinality(rest \cap Mine(t, n[t]))
  BY <1>5, <1>7, FS_Union
<1>11. /\ IsFiniteSet(Items(n))
       /\ Cardinality(Items(m)) = Cardinality(rest) + m[t] - 0
       /\ Cardinality(Items(n)) = Cardinality(rest) + n[t] - 0
  <2> HIDE DEF Items, Mine
  <2>1. /\ Cardinality(rest \cap Mine(t, m[t])) = 0
        /\ Cardinality(rest \cap Mine(t, n[t])) = 0
    BY <1>4, <1>8, Zenon
  <2>2. Cardinality(Items(m)) = Cardinality(rest \cup Mine(t, m[t]))
        /\ Cardinality(Items(n)) = Cardinality(rest \cup Mine(t, n[t]))
        /\ IsFiniteSet(Items(n))
    BY <1>2, <1>3, <1>10, Zenon
  <2> QED
    BY <2>1, <2>2, <1>9, <1>10
<1> QED
  BY <1>1, <1>6, <1>11

ToolTyped ==
  tool \in [Tools -> [kind : {"batch", "throttled"}, size : 1..MaxBatch, tries : 0..Retries,
                      at : {"start", "running", "returned", "raised"}]]

\* An attempt has as many items at most as its size; an attempt that is not
\* under way has none left that it counts as its own.
Tool(t) ==
  /\ waiting[t] + calling[t] <= tool[t].size
  /\ tool[t].kind = "throttled" => tool[t].size = 1
  /\ tool[t].at # "running" => waiting[t] = 0 /\ calling[t] = 0

CallsTyped ==
  /\ used \in Nat /\ failures \in Nat /\ open \in BOOLEAN /\ started \in Nat
  /\ ToolTyped
  /\ waiting \in [Tools -> Nat] /\ calling \in [Tools -> Nat]
  /\ left \in [waiting : Nat, calling : Nat]

\* The budget was charged for every call made and every item that waits for
\* one, and the calls under way never exceed the slots.
CallsInv ==
  /\ CallsTyped
  /\ \A t \in Tools : Tool(t)
  /\ used <= CallBudget
  /\ failures <= MaxFailed /\ (~open => failures < MaxFailed)
  /\ IsFiniteSet(Items(waiting)) /\ IsFiniteSet(Items(calling))
  /\ started + left.waiting + Cardinality(Items(waiting)) <= used
  /\ InFlight <= Slots

LEMMA CallsCount ==
  ASSUME CallsInv
  PROVE  /\ waiting \in Counts /\ calling \in Counts
         /\ Cardinality(Items(waiting)) \in Nat /\ Cardinality(Items(calling)) \in Nat
         /\ \A t \in Tools : /\ tool[t].size \in Nat /\ tool[t].size >= 1 /\ tool[t].size <= MaxBatch
                             /\ waiting[t] \in Nat /\ calling[t] \in Nat
<1>1. ASSUME NEW t \in Tools
      PROVE  /\ tool[t].size \in Nat /\ tool[t].size >= 1 /\ tool[t].size <= MaxBatch
             /\ waiting[t] \in Nat /\ calling[t] \in Nat
             /\ waiting[t] <= MaxBatch /\ calling[t] <= MaxBatch
  <2>1. tool[t].size \in 1..MaxBatch /\ waiting[t] \in Nat /\ calling[t] \in Nat
    BY DEF CallsInv, CallsTyped, ToolTyped
  <2>2. waiting[t] + calling[t] <= tool[t].size
    BY DEF CallsInv, Tool
  <2> QED
    BY <2>1, <2>2, SourceCallsAssumption
<1>2. waiting \in Counts /\ calling \in Counts
  BY <1>1 DEF CallsInv, CallsTyped, Counts
<1> QED
  BY <1>1, <1>2, FS_CardinalityType DEF CallsInv

LEMMA CallsFirst == CallsInit => CallsInv
<1> SUFFICES ASSUME CallsInit PROVE CallsInv
  OBVIOUS
<1> USE SourceCallsAssumption
<1>1. ToolTyped
  BY DEF CallsInit, ToolTyped
<1>2. CallsTyped
  BY <1>1 DEF CallsInit, CallsTyped
<1>3. \A t \in Tools : Tool(t)
  BY <1>1 DEF CallsInit, ToolTyped, Tool
<1>4. Items(waiting) = {} /\ Items(calling) = {}
  BY DEF CallsInit, Items
<1>5. IsFiniteSet(Items(waiting)) /\ Cardinality(Items(waiting)) = 0
      /\ IsFiniteSet(Items(calling)) /\ Cardinality(Items(calling)) = 0
  BY <1>4, FS_EmptySet
<1> QED
  BY <1>2, <1>3, <1>5 DEF CallsInit, CallsInv, InFlight

\* A use goes to another place, its kind and its size stay.
Moved(t) ==
  /\ ToolTyped'
  /\ tool'[t].kind = tool[t].kind /\ tool'[t].size = tool[t].size
  /\ \A u \in Tools \ {t} : tool'[u] = tool[u]

LEMMA RaiseMoves ==
  ASSUME ToolTyped, NEW t \in Tools, Raise(t)
  PROVE  Moved(t)
<1>1. CASE tool[t].tries < Retries
  <2>1. tool[t].tries + 1 \in 0..Retries
    BY <1>1, SourceCallsAssumption DEF ToolTyped
  <2>2. tool' = [tool EXCEPT ![t].at = "start", ![t].tries = @ + 1]
    BY <1>1 DEF Raise
  <2> QED
    BY <2>1, <2>2 DEF ToolTyped, Moved
<1>2. CASE ~ (tool[t].tries < Retries)
  BY <1>2 DEF Raise, ToolTyped, Moved
<1> QED
  BY <1>1, <1>2

LEMMA PutMoves ==
  ASSUME ToolTyped, NEW t \in Tools, NEW to \in {"running", "returned"},
         tool' = [tool EXCEPT ![t].at = to]
  PROVE  Moved(t) /\ tool'[t].at = to
BY DEF ToolTyped, Moved

LEMMA StayMoves ==
  ASSUME ToolTyped, NEW t \in Tools, UNCHANGED tool
  PROVE  Moved(t) /\ tool'[t].at = tool[t].at
BY DEF ToolTyped, Moved

\* Of the other uses nothing changes.
LEMMA OthersKept ==
  ASSUME NEW t \in Tools, \A u \in Tools : Tool(u), Moved(t), Tool(t)',
         \A u \in Tools \ {t} : waiting'[u] = waiting[u] /\ calling'[u] = calling[u]
  PROVE  \A u \in Tools : Tool(u)'
BY DEF Moved, Tool

\* What every step of use t has to show.
LEMMA StepOfUse ==
  ASSUME CallsInv, NEW t \in Tools, NEW w \in Nat, NEW c \in Nat,
         waiting' = [waiting EXCEPT ![t] = w], calling' = [calling EXCEPT ![t] = c],
         Moved(t), w + c <= tool[t].size, tool'[t].at # "running" => w = 0 /\ c = 0,
         left' \in [waiting : Nat, calling : Nat],
         used' \in Nat, used' <= CallBudget, started' \in Nat,
         failures' \in Nat, open' \in BOOLEAN,
         failures' <= MaxFailed, ~open' => failures' < MaxFailed,
         started' + left'.waiting + w + used
           <= used' + started + left.waiting + waiting[t],
         \/ left'.calling + c <= left.calling + calling[t]
         \/ left'.calling + c <= left.calling + calling[t] + 1 /\ InFlight < Slots
  PROVE  CallsInv'
<1> USE SourceCallsAssumption
<1>1. /\ waiting \in Counts /\ calling \in Counts
      /\ Cardinality(Items(waiting)) \in Nat /\ Cardinality(Items(calling)) \in Nat
      /\ waiting[t] \in Nat /\ calling[t] \in Nat
      /\ w <= MaxBatch /\ c <= MaxBatch
  BY CallsCount
<1>2. IsFiniteSet(Items(waiting)) /\ IsFiniteSet(Items(calling))
  BY DEF CallsInv
<1>3. /\ waiting' \in [Tools -> Nat] /\ waiting'[t] = w
      /\ \A u \in Tools \ {t} : waiting'[u] = waiting[u]
      /\ IsFiniteSet(Items(waiting')) /\ Cardinality(Items(waiting')) \in Nat
      /\ Cardinality(Items(waiting')) + waiting[t] = Cardinality(Items(waiting)) + w
  <2>1. /\ waiting' \in [Tools -> Nat] /\ waiting'[t] = w
        /\ \A u \in Tools \ {t} : waiting'[u] = waiting[u]
    BY <1>1 DEF Counts
  <2>2. waiting' \in Counts
    BY <1>1, <2>1 DEF Counts
  <2>3. /\ IsFiniteSet(Items(waiting')) /\ Cardinality(Items(waiting')) \in Nat
        /\ Cardinality(Items(waiting')) + waiting[t] = Cardinality(Items(waiting)) + waiting'[t]
    BY <1>1, <1>2, <2>1, <2>2, ItemsChange
  <2> QED
    BY <2>1, <2>3
<1>4. /\ calling' \in [Tools -> Nat] /\ calling'[t] = c
      /\ \A u \in Tools \ {t} : calling'[u] = calling[u]
      /\ IsFiniteSet(Items(calling')) /\ Cardinality(Items(calling')) \in Nat
      /\ Cardinality(Items(calling')) + calling[t] = Cardinality(Items(calling)) + c
  <2>1. /\ calling' \in [Tools -> Nat] /\ calling'[t] = c
        /\ \A u \in Tools \ {t} : calling'[u] = calling[u]
    BY <1>1 DEF Counts
  <2>2. calling' \in Counts
    BY <1>1, <2>1 DEF Counts
  <2>3. /\ IsFiniteSet(Items(calling')) /\ Cardinality(Items(calling')) \in Nat
        /\ Cardinality(Items(calling')) + calling[t] = Cardinality(Items(calling)) + calling'[t]
    BY <1>1, <1>2, <2>1, <2>2, ItemsChange
  <2> QED
    BY <2>1, <2>3
<1>5. Tool(t)'
  BY <1>3, <1>4 DEF CallsInv, Tool, Moved
<1>6. \A u \in Tools : Tool(u)'
  BY <1>3, <1>4, <1>5, OthersKept DEF CallsInv
<1>7. CallsTyped'
  BY <1>3, <1>4 DEF CallsTyped, Moved
<1>8. left.waiting \in Nat /\ left.calling \in Nat /\ left'.waiting \in Nat /\ left'.calling \in Nat
      /\ used \in Nat /\ started \in Nat
  BY DEF CallsInv, CallsTyped
<1>9. started' + left'.waiting + Cardinality(Items(waiting')) <= used'
  BY <1>1, <1>3, <1>8 DEF CallsInv
<1>10. InFlight' <= Slots
  BY <1>1, <1>4, <1>8 DEF CallsInv, InFlight
<1> QED
  BY <1>3, <1>4, <1>6, <1>7, <1>9, <1>10 DEF CallsInv

\* A step of the items that no attempt counts any more.
LEMMA StepOfLeft ==
  ASSUME CallsInv, UNCHANGED <<used, tool, waiting, calling>>,
         left' \in [waiting : Nat, calling : Nat], started' \in Nat,
         failures' \in Nat, open' \in BOOLEAN,
         failures' <= MaxFailed, ~open' => failures' < MaxFailed,
         started' + left'.waiting <= started + left.waiting,
         \/ left'.calling <= left.calling
         \/ left'.calling <= left.calling + 1 /\ InFlight < Slots
  PROVE  CallsInv'
<1> USE SourceCallsAssumption
<1>1. /\ Cardinality(Items(waiting)) \in Nat /\ Cardinality(Items(calling)) \in Nat
  BY CallsCount
<1>2. left.waiting \in Nat /\ left.calling \in Nat /\ left'.waiting \in Nat /\ left'.calling \in Nat
      /\ used \in Nat /\ started \in Nat
  BY DEF CallsInv, CallsTyped
<1>3. CallsTyped' /\ (\A u \in Tools : Tool(u)')
  BY DEF CallsInv, CallsTyped, ToolTyped, Tool
<1>4. started' + left'.waiting + Cardinality(Items(waiting')) <= used'
  BY <1>1, <1>2 DEF CallsInv
<1>5. InFlight' <= Slots
  BY <1>1, <1>2 DEF CallsInv, InFlight
<1> QED
  BY <1>3, <1>4, <1>5 DEF CallsInv

LEMMA Recorded ==
  ASSUME CallsInv, NEW failing \in BOOLEAN, Record(failing)
  PROVE  /\ failures' \in Nat /\ open' \in BOOLEAN
         /\ failures' <= MaxFailed /\ (~open' => failures' < MaxFailed)
BY SourceCallsAssumption DEF CallsInv, CallsTyped, Record

LEMMA BeginStep ==
  ASSUME CallsInv, NEW t \in Tools, Begin(t) PROVE CallsInv'
<1>1. waiting[t] = 0 /\ calling[t] = 0 /\ tool[t].size \in Nat
  BY CallsCount DEF Begin, CallsInv, Tool
<1>2. Moved(t) /\ tool'[t].at = "running"
  BY PutMoves DEF Begin, CallsInv, CallsTyped
<1>3. calling' = [calling EXCEPT ![t] = 0]
  BY <1>1 DEF Begin, CallsInv, CallsTyped
<1>4. /\ used' = used + tool[t].size /\ used + tool[t].size <= CallBudget
      /\ waiting' = [waiting EXCEPT ![t] = tool[t].size]
      /\ UNCHANGED <<failures, open, left, started>>
  BY DEF Begin, Consume
<1>5. /\ used \in Nat /\ started \in Nat /\ left \in [waiting : Nat, calling : Nat]
      /\ failures \in Nat /\ open \in BOOLEAN /\ failures <= MaxFailed
      /\ (~open => failures < MaxFailed)
  BY DEF CallsInv, CallsTyped
<1>6. left.waiting \in Nat /\ left.calling \in Nat
  BY <1>5
<1>7. used' \in Nat /\ used' <= CallBudget /\ tool[t].size + 0 <= tool[t].size
  BY <1>1, <1>4, <1>5
<1>8. started' + left'.waiting + tool[t].size + used
        <= used' + started + left.waiting + waiting[t]
  BY <1>1, <1>4, <1>5, <1>6
<1>9. left'.calling + 0 <= left.calling + calling[t]
  BY <1>1, <1>4, <1>6
<1> QED
  BY <1>1, <1>2, <1>3, <1>4, <1>5, <1>7, <1>8, <1>9, StepOfUse

LEMMA RefusedStep ==
  ASSUME CallsInv, NEW t \in Tools, Refused(t) PROVE CallsInv'
<1>1. waiting[t] = 0 /\ calling[t] = 0 /\ tool[t].size \in Nat
  BY CallsCount DEF Refused, CallsInv, Tool
<1>2. Moved(t)
  BY RaiseMoves DEF Refused, CallsInv, CallsTyped
<1>3. waiting' = [waiting EXCEPT ![t] = 0] /\ calling' = [calling EXCEPT ![t] = 0]
  BY <1>1 DEF Refused, CallsInv, CallsTyped
<1>4. UNCHANGED <<used, failures, open, left, started>>
  BY DEF Refused
<1>5. /\ used \in Nat /\ started \in Nat /\ left \in [waiting : Nat, calling : Nat]
      /\ failures \in Nat /\ open \in BOOLEAN /\ failures <= MaxFailed
      /\ (~open => failures < MaxFailed) /\ used <= CallBudget
  BY DEF CallsInv, CallsTyped
<1>6. left.waiting \in Nat /\ left.calling \in Nat
  BY <1>5
<1>7. /\ 0 + 0 <= tool[t].size
      /\ started' + left'.waiting + 0 + used <= used' + started + left.waiting + waiting[t]
      /\ left'.calling + 0 <= left.calling + calling[t]
  BY <1>1, <1>4, <1>5, <1>6
<1> QED
  BY <1>2, <1>3, <1>4, <1>5, <1>7, StepOfUse

\* The typed numbers of a state that the steps compute with.
LEMMA CallsNumbers ==
  ASSUME CallsInv
  PROVE  /\ used \in Nat /\ started \in Nat /\ failures \in Nat /\ open \in BOOLEAN
         /\ left.waiting \in Nat /\ left.calling \in Nat
         /\ left \in [waiting : Nat, calling : Nat]
         /\ used <= CallBudget /\ failures <= MaxFailed /\ (~open => failures < MaxFailed)
BY DEF CallsInv, CallsTyped

LEMMA GetsSlotStep ==
  ASSUME CallsInv, NEW t \in Tools, GetsSlot(t) PROVE CallsInv'
<1> DEFINE w == waiting[t] - 1
<1>1. /\ waiting[t] \in Nat /\ calling[t] \in Nat /\ waiting[t] > 0
      /\ tool[t].size \in Nat /\ w \in Nat
      /\ waiting[t] + calling[t] <= tool[t].size
      /\ (tool[t].kind = "throttled" => tool[t].size = 1)
      /\ tool[t].at = "running"
  <2>1. waiting[t] \in Nat /\ calling[t] \in Nat /\ waiting[t] > 0 /\ tool[t].size \in Nat
    BY CallsCount DEF GetsSlot
  <2> QED
    BY <2>1 DEF CallsInv, Tool
<1>2. waiting' = [waiting EXCEPT ![t] = w] /\ InFlight < Slots
      /\ UNCHANGED <<used, failures, open, left>>
  BY DEF GetsSlot
<1>3. ToolTyped
  BY DEF CallsInv, CallsTyped
<1>4. CASE open /\ tool[t].kind = "batch"
  <2>1. UNCHANGED <<tool, calling, started>>
    BY <1>4 DEF GetsSlot
  <2>2. Moved(t) /\ tool'[t].at = "running"
    BY <1>1, <1>3, <2>1, StayMoves
  <2>3. calling' = [calling EXCEPT ![t] = calling[t]]
    BY <2>1 DEF CallsInv, CallsTyped
  <2>4. /\ w + calling[t] <= tool[t].size
        /\ started' + left'.waiting + w + used <= used' + started + left.waiting + waiting[t]
        /\ left'.calling + calling[t] <= left.calling + calling[t]
    BY <1>1, <1>2, <2>1, CallsNumbers
  <2> HIDE DEF w
  <2> QED
    BY <1>1, <1>2, <2>1, <2>2, <2>3, <2>4, CallsNumbers, StepOfUse
<1>5. CASE open /\ tool[t].kind # "batch"
  <2>1. UNCHANGED <<calling, started>> /\ Raise(t)
    BY <1>5 DEF GetsSlot
  <2>2. Moved(t)
    BY <1>3, <2>1, RaiseMoves
  <2>3. calling' = [calling EXCEPT ![t] = calling[t]]
    BY <2>1 DEF CallsInv, CallsTyped
  <2>4. w = 0 /\ calling[t] = 0
    <3>1. tool[t].size = 1
      BY <1>1, <1>3, <1>5 DEF ToolTyped
    <3> QED
      BY <1>1, <3>1
  <2>5. /\ w + calling[t] <= tool[t].size
        /\ started' + left'.waiting + w + used <= used' + started + left.waiting + waiting[t]
        /\ left'.calling + calling[t] <= left.calling + calling[t]
    BY <1>1, <1>2, <2>1, CallsNumbers
  <2> HIDE DEF w
  <2> QED
    BY <1>1, <1>2, <2>1, <2>2, <2>3, <2>4, <2>5, CallsNumbers, StepOfUse
<1>6. CASE ~open
  <2> DEFINE c == calling[t] + 1
  <2>1. calling' = [calling EXCEPT ![t] = c] /\ started' = started + 1 /\ UNCHANGED tool
    BY <1>6 DEF GetsSlot
  <2>2. Moved(t) /\ tool'[t].at = "running"
    BY <1>1, <1>3, <2>1, StayMoves
  <2>3. /\ c \in Nat /\ started' \in Nat
        /\ w + c <= tool[t].size
        /\ started' + left'.waiting + w + used <= used' + started + left.waiting + waiting[t]
        /\ left'.calling + c <= left.calling + calling[t] + 1
    BY <1>1, <1>2, <2>1, CallsNumbers
  <2> HIDE DEF w, c
  <2> QED
    BY <1>1, <1>2, <2>1, <2>2, <2>3, CallsNumbers, StepOfUse
<1> QED
  BY <1>4, <1>5, <1>6

LEMMA SlotTimesOutStep ==
  ASSUME CallsInv, NEW t \in Tools, SlotTimesOut(t) PROVE CallsInv'
<1>1. waiting[t] \in Nat /\ calling[t] \in Nat /\ waiting[t] > 0 /\ tool[t].size \in Nat
  BY CallsCount DEF SlotTimesOut
<1>2. Moved(t)
  BY RaiseMoves DEF SlotTimesOut, CallsInv, CallsTyped
<1>3. /\ waiting' = [waiting EXCEPT ![t] = 0] /\ calling' = [calling EXCEPT ![t] = 0]
      /\ UNCHANGED <<used, failures, open, started>>
      /\ left' = [waiting |-> left.waiting + waiting[t] - 1, calling |-> left.calling + calling[t]]
  BY DEF SlotTimesOut
<1>4. /\ left' \in [waiting : Nat, calling : Nat]
      /\ left'.waiting = left.waiting + waiting[t] - 1
      /\ left'.calling = left.calling + calling[t]
  BY <1>1, <1>3, CallsNumbers
<1>5. /\ 0 + 0 <= tool[t].size
      /\ started' + left'.waiting + 0 + used <= used' + started + left.waiting + waiting[t]
      /\ left'.calling + 0 <= left.calling + calling[t]
  BY <1>1, <1>3, <1>4, CallsNumbers
<1> QED
  BY <1>2, <1>3, <1>4, <1>5, CallsNumbers, StepOfUse

LEMMA ResultStep ==
  ASSUME CallsInv, NEW t \in Tools, Result(t) PROVE CallsInv'
<1> DEFINE c == calling[t] - 1
<1>1. /\ waiting[t] \in Nat /\ calling[t] \in Nat /\ calling[t] > 0 /\ c \in Nat
      /\ tool[t].size \in Nat
  BY CallsCount DEF Result
<1>2. /\ waiting[t] + calling[t] <= tool[t].size /\ tool[t].at = "running"
      /\ (tool[t].kind = "throttled" => tool[t].size = 1)
  BY <1>1 DEF CallsInv, Tool
<1>3. /\ calling' = [calling EXCEPT ![t] = c] /\ UNCHANGED <<used, waiting, left, started>>
  BY DEF Result
<1>4. waiting' = [waiting EXCEPT ![t] = waiting[t]]
  BY <1>3 DEF CallsInv, CallsTyped
<1>5. /\ failures' \in Nat /\ open' \in BOOLEAN
      /\ failures' <= MaxFailed /\ (~open' => failures' < MaxFailed)
  BY Recorded DEF Result
<1>6. /\ waiting[t] + c <= tool[t].size
      /\ started' + left'.waiting + waiting[t] + used <= used' + started + left.waiting + waiting[t]
      /\ left'.calling + c <= left.calling + calling[t]
  BY <1>1, <1>2, <1>3, CallsNumbers
<1>7. Moved(t) /\ (tool'[t].at # "running" => waiting[t] = 0 /\ c = 0)
  <2>1. ToolTyped
    BY DEF CallsInv, CallsTyped
  <2>2. CASE UNCHANGED tool
    BY <1>2, <2>1, <2>2, StayMoves
  <2>3. CASE tool[t].kind = "throttled" /\ Raise(t)
    <3>1. waiting[t] = 0 /\ c = 0
      BY <1>1, <1>2, <2>3
    <3> QED
      BY <2>1, <2>3, <3>1, RaiseMoves
  <2> QED
    BY <2>2, <2>3 DEF Result
<1> HIDE DEF c
<1> QED
  BY <1>1, <1>3, <1>4, <1>5, <1>6, <1>7, CallsNumbers, StepOfUse

LEMMA ReturnStep ==
  ASSUME CallsInv, NEW t \in Tools, Return(t) PROVE CallsInv'
<1>1. waiting[t] = 0 /\ calling[t] = 0 /\ tool[t].size \in Nat
  BY CallsCount DEF Return
<1>2. Moved(t)
  BY PutMoves DEF Return, CallsInv, CallsTyped
<1>3. waiting' = [waiting EXCEPT ![t] = 0] /\ calling' = [calling EXCEPT ![t] = 0]
  BY <1>1 DEF Return, CallsInv, CallsTyped
<1>4. UNCHANGED <<used, failures, open, left, started>>
  BY DEF Return
<1>5. /\ 0 + 0 <= tool[t].size
      /\ started' + left'.waiting + 0 + used <= used' + started + left.waiting + waiting[t]
      /\ left'.calling + 0 <= left.calling + calling[t]
  BY <1>1, <1>4, CallsNumbers
<1> QED
  BY <1>2, <1>3, <1>4, <1>5, CallsNumbers, StepOfUse

LEMMA LeftStep ==
  ASSUME CallsInv, LeftGetsSlot \/ LeftTimesOut \/ LeftResult PROVE CallsInv'
<1>1. CASE LeftGetsSlot
  <2>1. CASE open
    <3>1. left' = [left EXCEPT !.waiting = @ - 1] /\ UNCHANGED started
          /\ UNCHANGED <<used, failures, open, tool, waiting, calling>> /\ left.waiting > 0
      BY <1>1, <2>1 DEF LeftGetsSlot
    <3>2. left' \in [waiting : Nat, calling : Nat]
          /\ left'.waiting = left.waiting - 1 /\ left'.calling = left.calling
      BY <3>1, CallsNumbers
    <3>3. started' + left'.waiting <= started + left.waiting /\ left'.calling <= left.calling
      BY <3>1, <3>2, CallsNumbers
    <3> QED
      BY <3>1, <3>2, <3>3, CallsNumbers, StepOfLeft
  <2>2. CASE ~open
    <3>1. /\ left' = [waiting |-> left.waiting - 1, calling |-> left.calling + 1]
          /\ started' = started + 1 /\ left.waiting > 0 /\ InFlight < Slots
          /\ UNCHANGED <<used, failures, open, tool, waiting, calling>>
      BY <1>1, <2>2 DEF LeftGetsSlot
    <3>2. left' \in [waiting : Nat, calling : Nat]
          /\ left'.waiting = left.waiting - 1 /\ left'.calling = left.calling + 1
      BY <3>1, CallsNumbers
    <3>3. started' + left'.waiting <= started + left.waiting /\ left'.calling <= left.calling + 1
          /\ started' \in Nat
      BY <3>1, <3>2, CallsNumbers
    <3> QED
      BY <3>1, <3>2, <3>3, CallsNumbers, StepOfLeft
  <2> QED
    BY <2>1, <2>2
<1>2. CASE LeftTimesOut
  <2>1. left' = [left EXCEPT !.waiting = @ - 1] /\ left.waiting > 0
        /\ UNCHANGED <<used, failures, open, tool, waiting, calling, started>>
    BY <1>2 DEF LeftTimesOut
  <2>2. left' \in [waiting : Nat, calling : Nat]
        /\ left'.waiting = left.waiting - 1 /\ left'.calling = left.calling
    BY <2>1, CallsNumbers
  <2>3. started' + left'.waiting <= started + left.waiting /\ left'.calling <= left.calling
    BY <2>1, <2>2, CallsNumbers
  <2> QED
    BY <2>1, <2>2, <2>3, CallsNumbers, StepOfLeft
<1>3. CASE LeftResult
  <2>1. left' = [left EXCEPT !.calling = @ - 1] /\ left.calling > 0
        /\ UNCHANGED <<used, tool, waiting, calling, started>>
    BY <1>3 DEF LeftResult
  <2>2. left' \in [waiting : Nat, calling : Nat]
        /\ left'.waiting = left.waiting /\ left'.calling = left.calling - 1
    BY <2>1, CallsNumbers
  <2>3. started' + left'.waiting <= started + left.waiting /\ left'.calling <= left.calling
    BY <2>1, <2>2, CallsNumbers
  <2>4. /\ failures' \in Nat /\ open' \in BOOLEAN
        /\ failures' <= MaxFailed /\ (~open' => failures' < MaxFailed)
    BY <1>3, Recorded DEF LeftResult
  <2> QED
    BY <2>1, <2>2, <2>3, <2>4, CallsNumbers, StepOfLeft
<1> QED
  BY <1>1, <1>2, <1>3

\* A step of another agent.
LEMMA CallsStays == CallsInv /\ UNCHANGED callVars => CallsInv'
BY DEF callVars, CallsInv, CallsTyped, ToolTyped, Tool, InFlight

LEMMA CallsStep == CallsInv /\ CallsNext => CallsInv'
BY BeginStep, RefusedStep, GetsSlotStep, SlotTimesOutStep, ResultStep, ReturnStep, LeftStep
   DEF CallsNext

LEMMA CallsTypes == CallsInv => CallsTypeOK
<1> SUFFICES ASSUME CallsInv PROVE CallsTypeOK
  OBVIOUS
<1> USE SourceCallsAssumption
<1>1. Cardinality(Items(waiting)) \in Nat /\ Cardinality(Items(calling)) \in Nat
  BY CallsCount
<1>2. /\ used \in 0..CallBudget /\ failures \in 0..MaxFailed /\ open \in BOOLEAN
  BY CallsNumbers
<1>3. ToolTyped
  BY DEF CallsInv, CallsTyped
<1>4. waiting \in [Tools -> 0..MaxBatch] /\ calling \in [Tools -> 0..MaxBatch]
  BY CallsCount DEF Counts
<1>5. started + left.waiting + Cardinality(Items(waiting)) <= used
      /\ left.calling + Cardinality(Items(calling)) <= Slots
  BY DEF CallsInv, InFlight
<1>6. left.waiting \in 0..CallBudget /\ left.calling \in 0..Slots /\ started \in 0..CallBudget
  BY <1>1, <1>5, CallsNumbers
<1>7. left \in [waiting : 0..CallBudget, calling : 0..Slots]
  BY <1>6, CallsNumbers
<1> QED
  BY <1>2, <1>3, <1>4, <1>6, <1>7 DEF CallsTypeOK, ToolTyped

\* A step that calls a provider pays with an item that has waited for it.
LEMMA CallsPaid ==
  ASSUME CallsInv, CallsNext, started' > started
  PROVE  ~open /\ started' <= used /\ used <= CallBudget /\ InFlight < Slots
<1>1. CallsInv'
  BY CallsStep
<1>2. (\E t \in Tools : GetsSlot(t)) \/ LeftGetsSlot
  <2>1. CASE started' = started
    BY <2>1, CallsNumbers
  <2>2. CASE started' # started
    BY <2>2 DEF CallsNext, Begin, Refused, SlotTimesOut, Result, Return, LeftTimesOut, LeftResult
  <2> QED
    BY <2>1, <2>2
<1>3. ~open /\ InFlight < Slots /\ used' = used
  <2>1. started' # started
    BY CallsNumbers
  <2> QED
    BY <1>2, <2>1 DEF GetsSlot, LeftGetsSlot
<1>4. started' + left'.waiting + Cardinality(Items(waiting')) <= used'
  BY <1>1 DEF CallsInv
<1>5. /\ Cardinality(Items(waiting'))  \in Nat
      /\ started' \in Nat /\ left'.waiting \in Nat /\ used' \in Nat
  BY <1>1, FS_CardinalityType DEF CallsInv, CallsTyped
<1> QED
  BY <1>3, <1>4, <1>5, CallsNumbers

-----------------------------------------------------------------------------
(* The types of a deep research run. *)

Task == [role : Roles, file : 0..MaxReports, nudged : BOOLEAN, tries : 0..TaskRetries,
         at : {"off", "run", "uploading", "done", "refused"}]
Tasks == [Delegates -> Task]

LEMMA DeepFirst == DeepInit => DeepTypeOK
<1> SUFFICES ASSUME DeepInit PROVE DeepTypeOK
  OBVIOUS
<1>1. rTask \in Tasks
  BY DeepAssumption DEF DeepInit, Idle, Roles, Task, Tasks
<1>2. {rFile, rDigest, rOut} \subseteq 0..MaxReports
  BY DeepAssumption DEF DeepInit
<1> QED
  BY <1>1, <1>2 DEF DeepInit, DeepTypeOK, Task, Tasks, InGraph

LEMMA BecomesTyped ==
  ASSUME rTask \in Tasks, NEW d \in Delegates, NEW to \in {"run", "uploading", "done"}, Becomes(d, to)
  PROVE  rTask' \in Tasks
BY DEF Task, Tasks, Becomes

LEMMA RaisesTyped ==
  ASSUME DeepTypeOK, NEW d \in Delegates, Raises(d)
  PROVE  rTask' \in Tasks
<1>1. rTask \in Tasks /\ rFile \in 0..MaxReports
  BY DEF DeepTypeOK, Task, Tasks
<1>2. CASE rTask[d].tries < TaskRetries
  <2>1. rTask[d].tries + 1 \in 0..TaskRetries
    BY <1>1, <1>2, DeepAssumption DEF Task, Tasks
  <2>2. rTask' = [rTask EXCEPT ![d].at = "run", ![d].file = rFile, ![d].nudged = FALSE,
                               ![d].tries = @ + 1]
    BY <1>2 DEF Raises
  <2> QED
    BY <1>1, <2>1, <2>2 DEF Task, Tasks
<1>3. CASE ~ (rTask[d].tries < TaskRetries)
  <2>1. rTask' = [rTask EXCEPT ![d].at = "refused"]
    BY <1>3 DEF Raises
  <2> QED
    BY <1>1, <2>1 DEF Task, Tasks
<1> QED
  BY <1>2, <1>3

LEMMA DeepStep == DeepTypeOK /\ [DeepNext]_deepVars => DeepTypeOK'
<1> SUFFICES ASSUME DeepTypeOK, [DeepNext]_deepVars PROVE DeepTypeOK'
  OBVIOUS
<1> DEFINE Ats == InGraph \union {"extract", "check", "repair", "delivered"} \union Failures
<1>0. /\ rAt \in Ats /\ rRouting \in {"off", "missing", "done"}
      /\ rFile \in 0..MaxReports /\ rDigest \in 0..MaxReports /\ rOut \in 0..MaxReports
      /\ rNudged \in BOOLEAN /\ rSources \in BOOLEAN /\ rTask \in Tasks
  BY DEF DeepTypeOK, Task, Tasks
<1> SUFFICES /\ rAt' \in Ats /\ rRouting' \in {"off", "missing", "done"}
             /\ rFile' \in 0..MaxReports /\ rDigest' \in 0..MaxReports /\ rOut' \in 0..MaxReports
             /\ rNudged' \in BOOLEAN /\ rSources' \in BOOLEAN /\ rTask' \in Tasks
  BY DEF DeepTypeOK, Task, Tasks
<1>idle. [d \in Delegates |-> Idle] \in Tasks
  BY DeepAssumption DEF Idle, Roles, Task, Tasks
<1>1. CASE ModelDelegates
  <2>1. PICK calls \in (SUBSET Delegates) \ {{}} : \E role \in [calls -> Roles] :
          rTask' = [d \in Delegates |->
            IF d \notin calls THEN Idle
            ELSE [role |-> role[d], file |-> rFile, nudged |-> FALSE, tries |-> 0,
                  at |-> IF rRouting = "missing" /\ role[d] # "router" THEN "refused" ELSE "run"]]
    BY <1>1 DEF ModelDelegates
  <2>2. rTask' \in Tasks
    BY <1>0, <2>1, DeepAssumption DEF Idle, Roles, Task, Tasks
  <2> QED
    BY <1>0, <1>1, <2>2 DEF ModelDelegates, InGraph
<1>2. ASSUME NEW d \in Delegates, DelegateRaises(d)
      PROVE  rTask' \in Tasks /\ UNCHANGED <<rAt, rRouting, rFile, rDigest, rNudged, rSources, rOut>>
  BY <1>2, RaisesTyped DEF DelegateRaises
<1>3. ASSUME NEW d \in Delegates, RouterReturns(d) \/ WriterReserves(d) \/ UploadFails(d)
                                  \/ WriterStops(d)
      PROVE  rTask' \in Tasks /\ UNCHANGED <<rAt, rRouting, rFile, rDigest, rNudged, rSources, rOut>>
  BY <1>0, <1>3, BecomesTyped DEF RouterReturns, WriterReserves, UploadFails, WriterStops
<1>4. ASSUME NEW d \in Delegates, ResearcherReturns(d)
      PROVE  rTask' \in Tasks /\ rSources' \in BOOLEAN
             /\ UNCHANGED <<rAt, rRouting, rFile, rDigest, rNudged, rOut>>
  BY <1>0, <1>4, BecomesTyped DEF ResearcherReturns
<1>5. ASSUME NEW d \in Delegates, WriterCommits(d)
      PROVE  rTask' \in Tasks /\ rDigest' \in 0..MaxReports
             /\ UNCHANGED <<rAt, rRouting, rFile, rNudged, rSources, rOut>>
  <2>1. NewReport \in 0..MaxReports
    BY <1>0, <1>5, DeepAssumption DEF WriterCommits, NewReport
  <2>2. rTask' = [rTask EXCEPT ![d] = [@ EXCEPT !.at = "run", !.file = NewReport]]
    BY <1>5 DEF WriterCommits
  <2>3. rTask' \in Tasks
    BY <1>0, <2>1, <2>2 DEF Task, Tasks
  <2> QED
    BY <1>5, <2>1, <2>3 DEF WriterCommits
<1>6. ASSUME NEW d \in Delegates, WriterClaims(d)
      PROVE  rTask' \in Tasks /\ UNCHANGED <<rAt, rRouting, rFile, rDigest, rNudged, rSources, rOut>>
  <2>1. UNCHANGED <<rAt, rRouting, rFile, rDigest, rNudged, rSources, rOut>>
    BY <1>6 DEF WriterClaims
  <2>2. CASE Becomes(d, "done")
    BY <1>0, <2>1, <2>2, BecomesTyped
  <2>3. CASE rTask' = [rTask EXCEPT ![d].nudged = TRUE]
    BY <1>0, <2>1, <2>3 DEF Task, Tasks
  <2>4. CASE Raises(d)
    BY <2>1, <2>4, RaisesTyped
  <2> QED
    BY <1>6, <2>2, <2>3, <2>4 DEF WriterClaims
<1>7. CASE DelegatesReturn
  <2>1. Merge(rTask) \subseteq 0..MaxReports
    BY <1>0 DEF Merge, Task, Tasks
  <2> QED
    BY <1>0, <1>7, <1>idle, <2>1 DEF DelegatesReturn, InGraph
<1>8. CASE ModelStops
  BY <1>0, <1>8 DEF ModelStops, Failures
<1>9. CASE GraphRaises \/ ExecutionTimesOut
  BY <1>0, <1>9 DEF GraphRaises, ExecutionTimesOut, Failures
<1>10. CASE Extract
  BY <1>0, <1>10 DEF Extract, Failures
<1>11. CASE CheckCitations \/ RepairReport
  BY <1>0, <1>11 DEF CheckCitations, RepairReport, Deliver, Failures
<1>12. CASE UNCHANGED deepVars
  BY <1>0, <1>12 DEF deepVars
<1> HIDE DEF Ats
<1>14. ASSUME NEW d \in Delegates,
              \/ DelegateRaises(d) \/ RouterReturns(d) \/ ResearcherReturns(d)
              \/ WriterReserves(d) \/ WriterCommits(d) \/ UploadFails(d)
              \/ WriterClaims(d) \/ WriterStops(d)
       PROVE  /\ rAt' \in Ats /\ rRouting' \in {"off", "missing", "done"}
              /\ rFile' \in 0..MaxReports /\ rDigest' \in 0..MaxReports /\ rOut' \in 0..MaxReports
              /\ rNudged' \in BOOLEAN /\ rSources' \in BOOLEAN /\ rTask' \in Tasks
  BY <1>0, <1>2, <1>3, <1>4, <1>5, <1>6, <1>14
<1> QED
  BY <1>1, <1>7, <1>8, <1>9, <1>10, <1>11, <1>12, <1>14 DEF DeepNext

\* In a deep run the variables have their types.
THEOREM DeepTypes == DeepSpec => []DeepTypeOK
BY DeepFirst, DeepStep, PTL DEF DeepSpec

-----------------------------------------------------------------------------
(* The agents side by side: what one of them does leaves the invariants of *)
(* the others alone.                                                       *)

MCInv == ChatInv /\ DeepTypeOK /\ Agreed /\ CallsInv

\* The invariants of a conversation, of a deep run and of its source-tool
\* calls hold together, in the specification the run explores.
THEOREM ResearchInvariant == MCSpec => []MCInv
<1>1. MCInit => MCInv
  BY ChatFirst, DeepFirst, AgreedInit, CallsFirst DEF MCInit, MCInv
<1>2. MCInv /\ [MCNext]_MCVars => MCInv'
  <2> SUFFICES ASSUME MCInv, [MCNext]_MCVars PROVE MCInv'
    OBVIOUS
  <2>1. [Next]_vars /\ [DeepNext]_deepVars /\ (CallsNext \/ UNCHANGED callVars)
    BY DEF MCNext, MCVars
  <2>2. ChatInv'
    BY <2>1, ChatStep DEF MCInv
  <2>3. DeepTypeOK' /\ Agreed'
    BY <2>1, DeepStep, AgreedNext DEF MCInv
  <2>4. CallsInv'
    BY <2>1, CallsStep, CallsStays DEF MCInv
  <2> QED
    BY <2>2, <2>3, <2>4 DEF MCInv
<1> QED
  BY <1>1, <1>2, PTL DEF MCSpec

\* The variables of all agents have their types: the calls made stay within
\* the budget, and what failed attempts left at the providers within the slots.
THEOREM ResearchTypes == MCSpec => []MCTypeOK
<1>1. MCInv => MCTypeOK
  BY ChatTyped, CallsTypes DEF MCInv, MCTypeOK
<1> QED
  BY <1>1, ResearchInvariant, PTL

\* Whatever part runs, the dialogue is valid, the evidence comes first, the
\* turn is answered and a deep run delivers what it committed last.
THEOREM ResearchSafe ==
  MCSpec => [](DialogueValid /\ EvidenceFirst /\ TurnsAnswered /\ DeliversCommitted)
<1>1. MCInv => DialogueValid /\ EvidenceFirst /\ TurnsAnswered /\ DeliversCommitted
  BY ChatSafe, AgreedDelivers DEF MCInv
<1> QED
  BY <1>1, ResearchInvariant, PTL

\* consume charges a batch before any of its items calls a provider, and no
\* call is made without that charge, with the circuit open or above the limit,
\* whatever attempts fail, are repeated and leave items behind.
THEOREM CallsAlwaysBounded == MCSpec => CallsBounded
<1>1. ASSUME MCInv, [MCNext]_MCVars
      PROVE  [started' > started =>
                ~open /\ started' <= used /\ used <= CallBudget /\ InFlight < Slots]_callVars
  <2>1. CASE CallsNext
    BY <1>1, <2>1, CallsPaid DEF MCInv
  <2>2. CASE UNCHANGED callVars
    BY <2>2
  <2> QED
    BY <1>1, <2>1, <2>2 DEF MCNext, MCVars
<1> QED
  BY <1>1, ResearchInvariant, PTL DEF MCSpec, CallsBounded
=============================================================================
