--------------------------- MODULE BatchContract ---------------------------
(***************************************************************************)
(* What BatchRunner::run promises: the outcome of a batch is a function of *)
(* its candidates alone.  It is the best K of them in the total order of   *)
(* BatchOrdering, or the error of the first candidate that has no score;   *)
(* how the scores were evaluated, and who watched, does not matter.        *)
(***************************************************************************)
EXTENDS Integers, FiniteSets

CONSTANTS
  N,        \* number of candidates
  K,        \* how many to keep
  Values,   \* the scores a candidate may get
  Failed,   \* ... or the error of a scorer that refuses it
  Ids       \* candidate ids, numbered in lexicographic order

Index == 0 .. N - 1

Input == [value : [Index -> Values \cup {Failed}], id : [Index -> Ids],
          order : {"asc", "desc"}]

(***************************************************************************)
(* BatchOrdering::better: score, then candidate_id, then source_index.     *)
(***************************************************************************)
Better(in, i, j) ==
  IF in.value[i] # in.value[j]
    THEN IF in.order = "desc" THEN in.value[i] > in.value[j] ELSE in.value[i] < in.value[j]
  ELSE IF in.id[i] # in.id[j]
    THEN in.id[i] < in.id[j]
  ELSE i < j

(***************************************************************************)
(* The sorted hits, cut to K: the hit of rank r has exactly r before it.   *)
(***************************************************************************)
Ahead(in, i) == Cardinality({j \in Index : Better(in, j, i)})

Top(in) ==
  [r \in {q \in Index : q < K} |-> CHOOSE i \in Index : Ahead(in, i) = r]

Failing(in) == {i \in Index : in.value[i] = Failed}

Pending == [kind |-> "pending"]
Error(i) == [kind |-> "error", candidate |-> i]
Hits(top) == [kind |-> "hits", top |-> top]

Expected(in) ==
  IF Failing(in) # {}
    THEN Error(CHOOSE i \in Failing(in) : \A j \in Failing(in) : i <= j)
    ELSE Hits(Top(in))

VARIABLES input, outcome

Init == input \in Input /\ outcome = Pending

Return ==
  /\ outcome = Pending
  /\ outcome' = Expected(input)
  /\ UNCHANGED input

Spec == Init /\ [][Return]_<<input, outcome>> /\ WF_<<input, outcome>>(Return)
=============================================================================
