-------------------------- MODULE HypothesisStatus --------------------------
(***************************************************************************)
(* The lifecycle of a hypothesis record: HypothesisStatus and              *)
(* HypothesisStatusUtil of hypothesis/hypothesis_status.hpp.               *)
(***************************************************************************)

(***************************************************************************)
(* The five values of enum class HypothesisStatus.                         *)
(***************************************************************************)
Status == {"draft", "proposed", "scored", "rejected", "promoted"}

(***************************************************************************)
(* HypothesisStatusUtil::can_transition, row by row.                       *)
(***************************************************************************)
CanTransition(from, to) ==
  \/ from = to
  \/ from = "draft"    /\ to = "proposed"
  \/ from = "proposed" /\ to \in {"scored", "rejected", "promoted"}
  \/ from = "scored"   /\ to \in {"rejected", "promoted"}

(***************************************************************************)
(* The statuses one tool may leave a record in: hypothesis_score takes a   *)
(* draft through "proposed" to "scored" in a single command, so a tool can *)
(* apply two transitions between the load and the store.                   *)
(***************************************************************************)
Reach(from, to) ==
  \E mid \in Status : CanTransition(from, mid) /\ CanTransition(mid, to)
=============================================================================
