-------------------------- MODULE ShallowResearcher --------------------------
(***************************************************************************)
(* One request of the shallow researcher (shallow_researcher/agent.py): a  *)
(* loop of model calls and tool calls with a budget, and the verification  *)
(* of the answer's citations against the conversation's source registry,   *)
(* which outlives the request.                                             *)
(*                                                                         *)
(* A source is the turn that found it and a number; an answer is the set   *)
(* of sources it cites, which may be none that any tool returned.          *)
(***************************************************************************)
EXTENDS Naturals, FiniteSets

CONSTANTS
  ToolBudget,   \* max_tool_iterations
  MaxParallel,  \* bound: tool calls in one answer of the model
  MaxTurns,     \* bound: turns of the conversation
  PerTurn,      \* bound: sources that are new in a turn
  Enforce       \* enforce_citations

ASSUME ShallowAssumption ==
  /\ ToolBudget \in Nat \ {0} /\ MaxParallel \in Nat \ {0}
  /\ MaxTurns \in Nat /\ PerTurn \in Nat /\ Enforce \in BOOLEAN

VARIABLES
  registry,    \* the session's source registry
  sAt,         \* the node to run, or how the request ended
  sIterations, \* tool_iterations: tool calls so far
  sCites       \* sources the answer cites, at the end

shallowVars == <<registry, sAt, sIterations, sCites>>

Sources == (1..MaxTurns) \X (1..PerTurn)
SourcesOf(turn) == {turn} \X (1..PerTurn)
Invented == <<0, 0>>

\* How a request ends: with an answer, which may be empty or say that more
\* research is needed, with a notice that a selected source has to be
\* connected again, without sources, or with another exception.
ShallowEnds == {"answer", "wanting", "empty", "notice", "nosources", "error"}

ShallowTypeOK ==
  /\ registry \subseteq Sources
  /\ sAt \in {"off", "agent", "tools", "verify", "repair"} \union ShallowEnds
  /\ sIterations \in 0..(ToolBudget + MaxParallel - 1)
  /\ sCites \subseteq registry

ShallowInit ==
  /\ registry = {}
  /\ sAt = "off"
  /\ sIterations = 0
  /\ sCites = {}

-----------------------------------------------------------------------------
\* A user's own source that was selected and cannot be opened ends the request
\* before the model is called: the notice is an ordinary message.
StartShallow ==
  /\ sAt' \in {"agent", "notice"}
  /\ sIterations' = 0 /\ sCites' = {}
  /\ UNCHANGED registry

EndShallow ==
  /\ sAt' = "off"
  /\ sIterations' = 0 /\ sCites' = {}
  /\ UNCHANGED registry

\* Mutant: an answer is taken before any evidence was collected.
CallsToolsOrAnswers ==
  /\ sAt = "agent" /\ sIterations < ToolBudget
  /\ \/ \E n \in 1..MaxParallel : sIterations' = sIterations + n /\ sAt' = "tools"
     \/ sAt' = "verify" /\ UNCHANGED sIterations
  /\ UNCHANGED <<registry, sCites>>

\* The model calls tools, in parallel and possibly beyond the budget, or
\* answers.  An answer before any tool call is not taken: the model is told
\* once to call exactly one tool, and the request fails if it does not.
CallsTools ==
  /\ sAt = "agent" /\ sIterations < ToolBudget
  /\ \/ \E n \in 1..MaxParallel : sIterations' = sIterations + n /\ sAt' = "tools"
     \/ sIterations > 0 /\ sAt' = "verify" /\ UNCHANGED sIterations
     \/ sIterations = 0 /\ sAt' = "error" /\ UNCHANGED sIterations
  /\ UNCHANGED <<registry, sCites>>

\* The budget is used up: the model is called without tools.
Synthesizes ==
  /\ sAt = "agent" /\ sIterations >= ToolBudget
  /\ sAt' = "verify"
  /\ UNCHANGED <<registry, sIterations, sCites>>

\* The results of the calls: any number of sources, none when they fail.
RunTools(turn) ==
  /\ sAt = "tools"
  /\ \E found \in SUBSET SourcesOf(turn) : registry' = registry \union found
  /\ sAt' = "agent"
  /\ UNCHANGED <<sIterations, sCites>>

\* Without any source in the registry.
AnswerUnsourced ==
  /\ sAt = "verify" /\ registry = {}
  /\ sAt' \in IF Enforce THEN {"nosources"} ELSE {"nosources", "answer", "wanting"}
  /\ UNCHANGED <<registry, sIterations, sCites>>

\* The model returned no text: verification is skipped.
AnswerEmpty ==
  /\ sAt = "verify" /\ registry # {}
  /\ sAt' = "empty"
  /\ UNCHANGED <<registry, sIterations, sCites>>

\* What the model may cite.
Writes == SUBSET (registry \union {Invented})

\* verify_citations keeps the citations that resolve to a registered source.
Verified(cites) == cites \intersect registry

\* sanitize_report removes references it cannot tell to be intact.
Sanitized(cites) == SUBSET cites

\* The answer is sanitized, and refused if no citation is left.
Delivers(cites) ==
  \E left \in Sanitized(cites) :
    IF left = {} /\ Enforce
    THEN sAt' = "error" /\ UNCHANGED sCites
    ELSE sAt' \in {"answer", "wanting"} /\ sCites' = left

\* An answer without a citation that counts gets that of the only source, or
\* is repaired once.
VerifyAnswer ==
  /\ sAt = "verify" /\ registry # {}
  /\ \E cites \in {Verified(written) : written \in Writes} :
       \/ cites # {} /\ Delivers(cites)
       \/ cites = {} /\ Cardinality(registry) = 1 /\ Delivers(registry)
       \/ cites = {} /\ Cardinality(registry) # 1
          /\ IF Enforce THEN sAt' = "repair" /\ UNCHANGED sCites ELSE Delivers({})
  /\ UNCHANGED <<registry, sIterations>>

\* Mutant: what the repair returned is not verified.
RepairUnverified ==
  /\ sAt = "repair"
  /\ \E written \in Writes : Delivers(written)
  /\ UNCHANGED <<registry, sIterations>>

RepairAnswer ==
  /\ sAt = "repair"
  /\ \E written \in Writes : Delivers(Verified(written))
  /\ UNCHANGED <<registry, sIterations>>

\* The model, a tool node or the repair raises, or GraphRecursionError.
ShallowRaises ==
  /\ sAt \in {"agent", "tools", "repair"}
  /\ sAt' = "error"
  /\ UNCHANGED <<registry, sIterations, sCites>>

ShallowNext(turn) ==
  \/ CallsTools \/ Synthesizes \/ RunTools(turn) \/ AnswerUnsourced \/ AnswerEmpty
  \/ VerifyAnswer \/ RepairAnswer \/ ShallowRaises

-----------------------------------------------------------------------------
(* Properties.                                                             *)

\* No answer without evidence: it follows at least one tool call of its own
\* request, and when citations are enforced it cites a registered source.  The
\* notice about a source that is not connected is no answer.
EvidenceFirst ==
  sAt \in {"answer", "wanting", "empty"} =>
    sIterations > 0 /\ (Enforce /\ sAt # "empty" => sCites # {})
=============================================================================
