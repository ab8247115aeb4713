--------------------------- MODULE ChatResearcher ---------------------------
(***************************************************************************)
(* A conversation with the chat researcher (chat_researcher/agent.py and   *)
(* register.py): one turn after the other runs a graph whose state is      *)
(* kept by a checkpointer, so what a turn does not reset is there in the   *)
(* next.  The clarifier and the shallow researcher are modules of their    *)
(* own; a deep or hybrid research is what it was given and how it ended.   *)
(*                                                                         *)
(* Queries, clarifications and reports are the turn they come from; 0 is   *)
(* none.  Nodes write when they return: a node that raises ends the turn   *)
(* without an answer and leaves the state its predecessors wrote.          *)
(***************************************************************************)
EXTENDS Clarifier, ShallowResearcher

CONSTANT MaxHistory  \* max_history: messages a node is shown

ASSUME ChatAssumption == MaxHistory \in Nat

VARIABLES
  config,        \* what the workflow was configured with, never changed
  turn,          \* number of the turn
  at,            \* the node to run, or between turns
  history,       \* messages
  route,         \* user_intent and depth_decision
  clarification, \* clarifier_result
  original,      \* original_query
  report,        \* last_report_markdown
  active,        \* active_report_job_id
  skip,          \* skip_clarifier
  failed,        \* workflow_outcome is a failure
  given,         \* history: what the turn's research was given
  held,          \* history: the turn held a dialogue with the user
  reports        \* history: turns whose jobs may have made a report

chatVars == <<config, turn, at, history, route, clarification, original, report, active,
              skip, failed, given, held, reports>>
vars == <<chatVars, dialogueVars, shallowVars>>

-----------------------------------------------------------------------------
Turns == 1..MaxTurns
Targets == {"meta", "ask", "edit", "hybrid", "deep", "shallow"}
NoRoute == [target |-> "meta", parent |-> FALSE]
NoInput == [query |-> 0, clarification |-> 0, parent |-> 0]
Messages == [role : {"user", "assistant"}, of : Turns,
             kind : {"query", "answer", "empty", "escalation", "report", "error"}]

ChatTypeOK ==
  /\ config \in [jobs : BOOLEAN, clarifier : BOOLEAN, escalation : BOOLEAN]
  /\ turn \in 0..MaxTurns
  /\ at \in {"idle", "replied", "intent", "hybrid", "clarify", "dialogue", "shallow",
             "searching", "deep", "ask", "edit"}
  /\ history \in Seq(Messages)
  /\ route \in [target : Targets, parent : BOOLEAN]
  /\ {clarification, original, report, active} \subseteq 0..turn
  /\ skip \in BOOLEAN /\ failed \in BOOLEAN /\ held \in BOOLEAN
  /\ given \in [query : 0..turn, clarification : 0..turn, parent : 0..turn]
  /\ reports \subseteq 1..turn

ChatInit ==
  /\ config \in [jobs : BOOLEAN, clarifier : BOOLEAN, escalation : BOOLEAN]
  /\ turn = 0
  /\ at = "idle"
  /\ history = <<>>
  /\ route = NoRoute
  /\ clarification = 0 /\ original = 0 /\ report = 0 /\ active = 0
  /\ skip = FALSE /\ failed = FALSE /\ held = FALSE
  /\ given = NoInput
  /\ reports = {}

Init == ChatInit /\ DialogueInit /\ ShallowInit

unchangedInTurn == <<config, turn, active, skip, reports>>

-----------------------------------------------------------------------------
Says(kind) == history' = Append(history, [role |-> "assistant", of |-> turn, kind |-> kind])
Ends(kind) == Says(kind) /\ at' = "replied"

\* A node that degrades an exception to a message.
Fails == Ends("error") /\ failed' = TRUE

\* Mutant: the outcome of the last turn stays.
ResetsMessagesOnly == UNCHANGED failed

\* What run() puts over the checkpointed state; clarifier_result,
\* original_query, user_intent and depth_decision are not reset.
Resets == failed' = FALSE

\* The report of a follow-up is the client's choice or the conversation's
\* latest; without a job store there is none.
BeginTurn ==
  /\ at \in {"idle", "replied"} /\ turn < MaxTurns
  /\ turn' = turn + 1
  /\ history' = Append(history, [role |-> "user", of |-> turn + 1, kind |-> "query"])
  /\ skip' \in IF config.clarifier THEN BOOLEAN ELSE {TRUE}
  /\ active' \in IF config.jobs THEN {0} \union reports ELSE {0}
  /\ Resets
  /\ given' = NoInput /\ held' = FALSE
  /\ at' = "intent"
  /\ UNCHANGED <<config, route, clarification, original, report, reports,
                 dialogueVars, shallowVars>>

HasReport == active # 0 \/ report # 0

\* intent_classifier: an answer of its own or a route.
AnswersMeta ==
  /\ at = "intent"
  /\ route' = NoRoute
  /\ \/ Ends("answer") /\ UNCHANGED failed
     \/ Fails
  /\ UNCHANGED <<unchangedInTurn, clarification, original, report, given, held,
                 dialogueVars, shallowVars>>

\* _route_to_fields: a report route without a report is new research, a delta
\* is deep research that may use the parent report.
Classify ==
  /\ at = "intent"
  /\ \E target \in Targets \ {"meta"}, delta \in BOOLEAN :
       /\ target \in {"ask", "edit"} => HasReport
       /\ delta => target = "deep"
       /\ route' = [target |-> target, parent |-> delta /\ HasReport]
  /\ at' = IF route'.target = "deep" THEN "clarify" ELSE route'.target
  /\ UNCHANGED <<unchangedInTurn, history, clarification, original, report, failed, given, held,
                 dialogueVars, shallowVars>>

-----------------------------------------------------------------------------
\* get_latest_user_query
LatestQuery == LET asked == {i \in DOMAIN history : history[i].role = "user"}
               IN history[CHOOSE i \in asked : \A j \in asked : j <= i].of

\* validate_deep_research_tools finds no usable tool.
ToolsInvalid ==
  /\ at = "clarify"
  /\ original' = LatestQuery
  /\ Fails
  /\ UNCHANGED <<unchangedInTurn, route, clarification, report, given, held,
                 dialogueVars, shallowVars>>

\* trim_message_history: the last messages, from the first of the user's on.
\* After an escalation there may be none.
Starts(messages) ==
  {i \in DOMAIN messages : messages[i].role = "user" /\ i > Len(messages) - MaxHistory}

Trimmed(messages) ==
  IF Starts(messages) = {} THEN <<>>
  ELSE LET first == CHOOSE i \in Starts(messages) : \A j \in Starts(messages) : i <= j
       IN SubSeq(messages, first, Len(messages))

Kind(message) == IF message.role = "user" THEN "user" ELSE "text"

\* What the clarifier is given of the conversation.
Projected(messages) == [i \in DOMAIN Trimmed(messages) |-> Kind(Trimmed(messages)[i])]

Clarify ==
  /\ at = "clarify"
  /\ IF skip \/ route.parent
     THEN /\ original' = LatestQuery
          /\ at' = "deep"
          /\ UNCHANGED dialogueVars
     ELSE /\ at' = "dialogue"
          /\ StartDialogue(Projected(history))
          /\ UNCHANGED original
  /\ UNCHANGED <<unchangedInTurn, history, route, clarification, report, failed, given, held,
                 shallowVars>>

Converse ==
  /\ at = "dialogue"
  /\ DialogueNext
  /\ UNCHANGED <<chatVars, shallowVars>>

\* Mutant: the log is kept when there is one from before.
DialogueDoneKeeping ==
  /\ at = "dialogue" /\ dAt = "done"
  /\ clarification' = IF clarification = 0 THEN turn ELSE clarification
  /\ original' = LatestQuery
  /\ held' = TRUE
  /\ at' = "deep"
  /\ EndDialogue
  /\ UNCHANGED <<unchangedInTurn, history, route, report, failed, given, shallowVars>>

DialogueDone ==
  /\ at = "dialogue" /\ dAt = "done"
  /\ clarification' = turn
  /\ original' = LatestQuery
  /\ held' = TRUE
  /\ at' = "deep"
  /\ EndDialogue
  /\ UNCHANGED <<unchangedInTurn, history, route, report, failed, given, shallowVars>>

-----------------------------------------------------------------------------
Search ==
  /\ at = "shallow"
  /\ at' = "searching"
  /\ StartShallow
  /\ UNCHANGED <<unchangedInTurn, history, route, clarification, original, report, failed, given,
                 held, dialogueVars>>

SearchStep ==
  /\ at = "searching"
  /\ ShallowNext(turn)
  /\ UNCHANGED <<chatVars, dialogueVars>>

\* should_escalate: on the words of the answer.  An empty one is returned, and
\* so is a notice.  (The node also escalates when the researcher returns no
\* messages at all; it returns those it was given and one more.)
SearchDone ==
  /\ at = "searching" /\ sAt \in {"answer", "wanting", "empty", "notice"}
  /\ Says(IF sAt = "empty" THEN "empty" ELSE "answer")
  /\ at' = IF sAt = "wanting" /\ config.escalation THEN "clarify" ELSE "replied"
  /\ EndShallow
  /\ UNCHANGED <<unchangedInTurn, route, clarification, original, report, failed, given, held,
                 dialogueVars>>

\* Any exception: a message, and no escalation.
SearchFailed ==
  /\ at = "searching" /\ sAt \in {"nosources", "error"}
  /\ Fails
  /\ EndShallow
  /\ UNCHANGED <<unchangedInTurn, route, clarification, original, report, given, held,
                 dialogueVars>>

-----------------------------------------------------------------------------
\* Mutant: the query is the one kept from the last clarification.
HybridInputKept == [query |-> original, clarification |-> clarification, parent |-> 0]

\* _resolve_submission_query and, for a job, the clarification kept in the state.
HybridInput == [query |-> LatestQuery,
                clarification |-> IF config.jobs THEN clarification ELSE 0, parent |-> 0]

Hybrid ==
  /\ at = "hybrid"
  /\ \/ /\ given' = HybridInput
        /\ Ends(IF config.jobs THEN "escalation" ELSE "answer")
        /\ UNCHANGED failed
     \/ Fails /\ UNCHANGED given
  /\ UNCHANGED <<unchangedInTurn, route, clarification, original, report, held,
                 dialogueVars, shallowVars>>

ParentReport == IF route.parent THEN IF active # 0 THEN active ELSE report ELSE 0

\* _submit_deep_job attaches the report of a job only.
DeepJobInput == [query |-> original, clarification |-> clarification,
                 parent |-> IF active # 0 THEN ParentReport ELSE 0]

SubmitDeepJob ==
  /\ at = "deep" /\ config.jobs
  /\ \/ /\ given' = DeepJobInput
        /\ reports' = reports \union {turn}
        /\ Ends("escalation")
        /\ UNCHANGED failed
     \/ Fails /\ UNCHANGED <<given, reports>>
  /\ UNCHANGED <<config, turn, active, skip, route, clarification, original, report, held,
                 dialogueVars, shallowVars>>

\* In the request itself, with the parent's files when they can be read.
DeepResearch ==
  /\ at = "deep" /\ ~config.jobs
  /\ \E parent \in {0, ParentReport}, found \in SUBSET SourcesOf(turn) :
       /\ given' = [query |-> original, clarification |-> clarification, parent |-> parent]
       /\ registry' = registry \union found
  /\ \/ Ends("report") /\ report' = turn /\ UNCHANGED failed
     \/ Fails /\ UNCHANGED report
  /\ UNCHANGED <<unchangedInTurn, route, clarification, original, held,
                 dialogueVars, sAt, sIterations, sCites>>

-----------------------------------------------------------------------------
AskReport ==
  /\ at = "ask"
  /\ \/ Ends("answer") /\ UNCHANGED failed
     \/ Fails
  /\ UNCHANGED <<unchangedInTurn, route, clarification, original, report, given, held,
                 dialogueVars, shallowVars>>

EditReport ==
  /\ at = "edit"
  /\ \/ /\ config.jobs /\ Ends("escalation")
        /\ reports' = reports \union {turn} /\ UNCHANGED <<report, failed>>
     \/ /\ ~config.jobs /\ Ends("report")
        /\ report' = turn /\ UNCHANGED <<reports, failed>>
     \/ Fails /\ UNCHANGED <<report, reports>>
  /\ UNCHANGED <<config, turn, active, skip, route, clarification, original, given, held,
                 dialogueVars, shallowVars>>

\* A node raises, or the client's request is cancelled.
TurnRaises ==
  /\ at \in {"intent", "hybrid", "clarify", "dialogue", "shallow", "searching", "deep"}
  /\ at' = "idle"
  /\ EndDialogue /\ EndShallow
  /\ UNCHANGED <<unchangedInTurn, history, route, clarification, original, report, failed, given,
                 held>>

\* The session registries are an LRU of the process.
SessionForgotten ==
  /\ at \in {"idle", "replied"} /\ registry # {}
  /\ registry' = {}
  /\ UNCHANGED <<chatVars, dialogueVars, sAt, sIterations, sCites>>

Next ==
  \/ BeginTurn \/ AnswersMeta \/ Classify
  \/ ToolsInvalid \/ Clarify \/ Converse \/ DialogueDone
  \/ Search \/ SearchStep \/ SearchDone \/ SearchFailed
  \/ Hybrid \/ SubmitDeepJob \/ DeepResearch \/ AskReport \/ EditReport
  \/ TurnRaises \/ SessionForgotten

Spec == Init /\ [][Next]_vars

-----------------------------------------------------------------------------
(* Properties.                                                             *)

TypeOK == ChatTypeOK /\ DialogueTypeOK /\ ShallowTypeOK

\* What the user gets for a turn is an assistant's message of this turn, and
\* it is reported as failed exactly when it is an error message.
TurnAnswered ==
  at = "replied" =>
    /\ Last(history).role = "assistant" /\ Last(history).of = turn
    /\ failed <=> Last(history).kind = "error"

\* Research answers this turn's question, with this turn's clarification
\* when the turn held a dialogue, whatever the checkpointed state still has
\* of earlier turns.
ResearchesThisTurn ==
  given # NoInput => given.query = turn /\ (held => given.clarification = turn)

\* Every turn is answered, by research that was done for it.
TurnsAnswered == TurnAnswered /\ ResearchesThisTurn
=============================================================================
