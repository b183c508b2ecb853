---------------------------- MODULE MCAgentLoop ----------------------------
(***************************************************************************)
(* One record, which is not there yet, and answers of up to two calls:     *)
(* each tool that edits a record, a validation, a tool that edits nothing  *)
(* and a call that is refused.                                             *)
(***************************************************************************)
EXTENDS AgentLoop

CONSTANTS h1, m1, m2

MCSaved == {[h \in {} |-> m1]}

On(tool) == [tool |-> tool, hyp |-> h1, status |-> "promoted", method |-> m2]

MCCalls == {On(tool) : tool \in Tools}

MCAnswers ==
  {<<>>, <<On("validate")>>, <<On("hypothesis_init")>>,
   <<On("hypothesis_propose"), On("hypothesis_score")>>,
   <<On("denied"), On("hypothesis_set_status")>>,
   <<On("hypothesis_score"), On("other")>>}
=============================================================================
