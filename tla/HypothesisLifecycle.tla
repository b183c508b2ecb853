------------------------ MODULE HypothesisLifecycle ------------------------
(***************************************************************************)
(* What a Parcae workspace promises about each hypothesis: a record is     *)
(* born as a draft or as a proposal, and from then on its recorded status  *)
(* only follows the v0 transition table of HypothesisStatusUtil.  This is  *)
(* the abstract specification; HypothesisStore and SearchCycle, which      *)
(* write the records file by file, are checked against it.                 *)
(***************************************************************************)

EXTENDS HypothesisStatus

VARIABLE life    \* life[h]: the status last recorded for hypothesis h

Init == \A h \in DOMAIN life : life[h] \in Status

Create(h, s) ==
  /\ h \notin DOMAIN life
  /\ s \in {"draft", "proposed"}
  /\ life' = [x \in DOMAIN life \cup {h} |-> IF x = h THEN s ELSE life[x]]

Advance(h, s) ==
  /\ h \in DOMAIN life
  /\ Reach(life[h], s)
  /\ life' = [life EXCEPT ![h] = s]

(***************************************************************************)
(* The identifiers are whatever the writers come up with, so the next      *)
(* state quantifies over those of the two states of the step.              *)
(***************************************************************************)
Next == \E h \in DOMAIN life' : \E s \in Status : Create(h, s) \/ Advance(h, s)

Spec == Init /\ [][Next]_life
=============================================================================
