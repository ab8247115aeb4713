----------------------------- MODULE MCResearch -----------------------------
(***************************************************************************)
(* The agents side by side: a behaviour is one of a conversation, of a     *)
(* deep research run, or of the source-tool calls of one.                  *)
(***************************************************************************)
EXTENDS ChatResearcher, DeepResearcher, SourceCalls

VARIABLE part

MCVars == <<part, vars, deepVars, callVars>>

\* The parts that do not run have one initial state.
MCInit ==
  /\ part \in {"chat", "deep", "calls"}
  /\ Init /\ DeepInit /\ CallsInit
  /\ part # "chat" => config = [jobs |-> TRUE, clarifier |-> TRUE, escalation |-> TRUE]
  /\ part # "deep" => rRouting = "off" /\ rFile = 0 /\ rSources = TRUE
  /\ part # "calls" => \A t \in Tools : tool[t].kind = "batch" /\ tool[t].size = 1

MCNext ==
  \/ part = "chat" /\ Next /\ UNCHANGED <<part, deepVars, callVars>>
  \/ part = "deep" /\ DeepNext /\ UNCHANGED <<part, vars, callVars>>
  \/ part = "calls" /\ CallsNext /\ UNCHANGED <<part, vars, deepVars>>

MCSpec == MCInit /\ [][MCNext]_MCVars

MCTypeOK == TypeOK /\ DeepTypeOK /\ CallsTypeOK
=============================================================================
