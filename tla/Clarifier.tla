------------------------------ MODULE Clarifier ------------------------------
(***************************************************************************)
(* The clarification dialogue (clarifier/agent.py): a graph of three       *)
(* nodes, agent, tools and ask_for_clarification, over a message list that *)
(* is replayed to the model on every call.                                 *)
(*                                                                         *)
(* A message is its kind: what the user wrote, what a tool returned, or an *)
(* answer of the model, which calls tools, puts a question, says that      *)
(* nothing is left to ask, or is none of these ("odd": it does not parse   *)
(* or lacks the question, and the code asks a question of its own).  The   *)
(* nudge to search first replaces the model's answer by a second one,      *)
(* again of any kind, and is part of ModelAnswers.                         *)
(***************************************************************************)
EXTENDS Naturals, Sequences, SequencesExt

CONSTANTS
  MaxQuestions,   \* max_turns of the dialogue's state
  DialogueLimit,  \* recursion_limit of the graph, in nodes executed
  SearchTools     \* does the clarifier have tools

ASSUME ClarifierAssumption ==
  MaxQuestions \in Nat /\ DialogueLimit \in Nat /\ SearchTools \in BOOLEAN

VARIABLES
  dAt,        \* the node to run, or how the dialogue ended
  dMessages,  \* state.messages, as kinds
  dGiven,     \* how many of them the dialogue began with
  dIteration, \* state.iteration
  dSteps,     \* nodes executed
  dAsked      \* questions put to the user

dialogueVars == <<dAt, dMessages, dGiven, dIteration, dSteps, dAsked>>

-----------------------------------------------------------------------------
Questions == {"question", "odd"}
Answers == Questions \union {"calls", "complete"}
Assistant == Answers \union {"text"}
Kinds == Assistant \union {"user", "tool"}

DialogueTypeOK ==
  /\ dAt \in {"off", "agent", "tools", "ask", "user", "done", "raised"}
  /\ dMessages \in Seq(Kinds)
  /\ dGiven \in 0..Len(dMessages)
  /\ dIteration \in 0..MaxQuestions
  /\ dSteps \in 0..DialogueLimit
  /\ dAsked \in 0..MaxQuestions

DialogueInit ==
  /\ dAt = "off"
  /\ dMessages = <<>> /\ dGiven = 0
  /\ dIteration = 0 /\ dSteps = 0 /\ dAsked = 0

-----------------------------------------------------------------------------
\* From the chat's history, which ends with the user's request or, after an
\* escalation, with the answer that was found wanting.
StartDialogue(history) ==
  /\ dMessages' = history /\ dGiven' = Len(history)
  /\ dAt' = "agent"
  /\ dIteration' = 0 /\ dSteps' = 0 /\ dAsked' = 0

EndDialogue ==
  /\ dAt' = "off"
  /\ dMessages' = <<>> /\ dGiven' = 0
  /\ dIteration' = 0 /\ dSteps' = 0 /\ dAsked' = 0

\* A node is executed, unless the graph has run too many.
Step == dSteps < DialogueLimit /\ dSteps' = dSteps + 1

Exhausted == dIteration >= MaxQuestions

\* decide_route, which looks at the last message.
Route(messages) ==
  CASE Last(messages) = "calls" -> "tools"
    [] Last(messages) = "complete" -> "done"
    [] OTHER -> "ask"

\* Mutant: the completion is added without looking at the last message.
CompletionAlways(messages) == <<"complete">>

\* What the agent adds when no questions are left.
Completion(messages) ==
  IF messages # <<>> /\ Last(messages) \in {"calls", "complete"} THEN <<>>
  ELSE IF messages # <<>> /\ Last(messages) \in Assistant THEN <<"user", "complete">>
  ELSE <<"complete">>

AgentCompletes ==
  /\ dAt = "agent" /\ Exhausted /\ Step
  /\ dMessages' = dMessages \o Completion(dMessages)
  /\ dAt' = Route(dMessages')
  /\ UNCHANGED <<dGiven, dIteration, dAsked>>

ModelAnswers ==
  /\ dAt = "agent" /\ ~Exhausted /\ Step
  /\ \E answer \in IF SearchTools THEN Answers ELSE Answers \ {"calls"} :
       dMessages' = Append(dMessages, answer)
  /\ dAt' = Route(dMessages')
  /\ UNCHANGED <<dGiven, dIteration, dAsked>>

RunSearch ==
  /\ dAt = "tools" /\ Step
  /\ dMessages' = Append(dMessages, "tool")
  /\ dAt' = "agent"
  /\ UNCHANGED <<dGiven, dIteration, dAsked>>

\* ask_clarification up to the prompt.  Its cut-off at max_turns and its
\* return without a question are behind the agent, which ends such a dialogue.
AskUser ==
  /\ dAt = "ask" /\ Step
  /\ dAt' = "user"
  /\ dAsked' = dAsked + 1
  /\ UNCHANGED <<dMessages, dGiven, dIteration>>

UserReplies ==
  /\ dAt = "user"
  /\ dMessages' = Append(dMessages, "user")
  /\ dIteration' = dIteration + 1
  /\ dAt' = "agent"
  /\ UNCHANGED <<dGiven, dSteps, dAsked>>

\* "skip", "no", an empty reply, ...
UserSkips ==
  /\ dAt = "user"
  /\ dMessages' = dMessages \o <<"user", "complete">>
  /\ dIteration' = MaxQuestions
  /\ dAt' = "agent"
  /\ UNCHANGED <<dGiven, dSteps, dAsked>>

\* The model, a tool or the prompt raises, or GraphRecursionError.
DialogueRaises ==
  /\ dAt \in {"agent", "tools", "ask", "user"}
  /\ dAt' = "raised"
  /\ UNCHANGED <<dMessages, dGiven, dIteration, dSteps, dAsked>>

DialogueNext ==
  \/ AgentCompletes \/ ModelAnswers \/ RunSearch
  \/ AskUser \/ UserReplies \/ UserSkips \/ DialogueRaises

-----------------------------------------------------------------------------
(* Properties.                                                             *)

\* "Never create an invalid history (two adjacent assistant messages, or a
\* pending tool call left unresolved)": the agent's comment on what it adds
\* to the messages.  A dialogue that begins with an assistant's message, as
\* after an escalation, has its first answer next to that one.
DialogueValid ==
  /\ \A i \in dGiven + 1 .. Len(dMessages) - 1 :
       /\ ~ (dMessages[i] \in Assistant /\ dMessages[i + 1] \in Assistant)
       /\ dMessages[i] = "calls" => dMessages[i + 1] = "tool"
  /\ dAt = "done" => Last(dMessages) = "complete"
=============================================================================
