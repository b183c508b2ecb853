---------------------------- MODULE BatchRunner ----------------------------
(***************************************************************************)
(* BatchRunner::run.  Serially one thread scores every candidate; in       *)
(* parallel, workers score disjoint chunks into per-index slots, and each  *)
(* worker reports its progress to a shared sink as it goes.  Either way    *)
(* the slots are then reduced by one thread.                               *)
(***************************************************************************)
EXTENDS Integers, FiniteSets

CONSTANTS N, K, Values, Failed, Ids,
  Hardware   \* std::thread::hardware_concurrency(), 0 when unknown

VARIABLES
  input,     \* candidates and score order: never assigned
  execution, \* BatchExecution: never assigned
  pc,        \* the calling thread: "start", "serial", "join", "done"
  ok, scores,  \* the slots, by index
  at,        \* at[w]: the index worker w is on
  phase,     \* phase[w]: where it is in its loop body
  best,      \* BestTracker: the best score so far and its label
  scored,    \* the atomic counter
  snap,      \* snap[w]: the snapshot w is putting together
  shown,     \* the last snapshot the sink received
  outcome,   \* what run() returned
  countedAs  \* history: countedAs[i] is the count candidate i was given

vars == <<input, execution, pc, ok, scores, at, phase, best, scored, snap,
          shown, outcome, countedAs>>

Contract == INSTANCE BatchContract

ASSUME RunnerAssumption ==
  /\ N \in Nat /\ K \in Nat \ {0} /\ Hardware \in Nat
  /\ Values \subseteq Int /\ 0 \in Values /\ Failed \notin Values /\ Ids \subseteq Int

Index == Contract!Index
Least(a, b) == IF a <= b THEN a ELSE b
Most(a, b) == IF a >= b THEN a ELSE b

\* Faulty variant: the remainder of the division belongs to nobody.
ChunkFloor == N \div Least(Most(1, Hardware), N)

(***************************************************************************)
(* Worker count, chunk size, and the half-open range of worker w; a worker *)
(* whose range starts beyond the last candidate is not launched.           *)
(***************************************************************************)
Workers == Least(Most(1, Hardware), N)
Chunk == (N + Workers - 1) \div Workers
Begin(w) == w * Chunk
End(w) == Least(Begin(w) + Chunk, N)
Launched == {w \in 0 .. Workers - 1 : Begin(w) < N}

\* Faulty variant: every score is taken to be "more is better".
BeatsIfMore(a, b) == a > b

(***************************************************************************)
(* BestTracker: consider() under its mutex, nothing until the first score. *)
(***************************************************************************)
NoBest == [seen |-> FALSE, score |-> 0, label |-> 0]

Beats(a, b) == IF input.order = "asc" THEN a < b ELSE a > b

Considered(tracker, i) ==
  IF ~tracker.seen \/ Beats(input.value[i], tracker.score)
    THEN [seen |-> TRUE, score |-> input.value[i], label |-> input.id[i]]
    ELSE tracker

NoSnap == [done |-> 0, best |-> NoBest]

-----------------------------------------------------------------------------
Init ==
  /\ input \in Contract!Input
  /\ execution \in {"serial", "parallel"}
  /\ pc = "start"
  /\ ok = [i \in Index |-> FALSE] /\ scores = [i \in Index |-> 0]
  /\ at = [w \in Launched |-> Begin(w)] /\ phase = [w \in Launched |-> "idle"]
  /\ best = NoBest /\ scored = 0
  /\ snap = [w \in Launched |-> NoSnap] /\ shown = NoSnap
  /\ outcome = Contract!Pending
  /\ countedAs = [i \in Index |-> 0]

(***************************************************************************)
(* compute_scores: fewer than two candidates are always scored serially.   *)
(* on_stage shows the base snapshot before the first candidate.            *)
(***************************************************************************)
ParallelPath == execution = "parallel" /\ N >= 2

Start ==
  /\ pc = "start"
  /\ IF ParallelPath
       THEN pc' = "join" /\ phase' = [w \in Launched |-> "score"]
       ELSE pc' = "serial" /\ UNCHANGED phase
  /\ UNCHANGED <<input, execution, ok, scores, at, best, scored, snap, shown,
                 outcome, countedAs>>

(***************************************************************************)
(* compute_scores_serial: one candidate scored, considered and shown; the  *)
(* first error is returned at once.                                        *)
(***************************************************************************)
ScoreSerially ==
  /\ pc = "serial" /\ scored < N
  /\ LET i == scored IN
       \/ /\ input.value[i] = Failed
          /\ pc' = "done"
          /\ outcome' = Contract!Error(i)
          /\ UNCHANGED <<ok, scores, best, scored, shown, countedAs>>
       \/ /\ input.value[i] # Failed
          /\ ok' = [ok EXCEPT ![i] = TRUE]
          /\ scores' = [scores EXCEPT ![i] = input.value[i]]
          /\ best' = Considered(best, i)
          /\ scored' = scored + 1
          /\ countedAs' = [countedAs EXCEPT ![i] = scored + 1]
          /\ shown' = [done |-> scored + 1, best |-> best']
          /\ UNCHANGED <<pc, outcome>>
  /\ UNCHANGED <<input, execution, at, phase, snap>>

Running(w) == phase[w] # "idle" /\ at[w] < End(w)

\* Faulty variant: the value is used without a look at its Status.
ScoreUnchecked(w) ==
  /\ phase[w] = "score" /\ Running(w)
  /\ scores' = [scores EXCEPT ![at[w]] = input.value[at[w]]]
  /\ ok' = [ok EXCEPT ![at[w]] = TRUE]
  /\ phase' = [phase EXCEPT ![w] = "consider"]
  /\ UNCHANGED <<input, execution, pc, at, best, scored, snap, shown, outcome, countedAs>>

\* Faulty variant: a worker shows its own score for the shared best.
ApplyOwn(w) ==
  /\ phase[w] = "apply"
  /\ snap' = [snap EXCEPT ![w].best = Considered(NoBest, at[w])]
  /\ phase' = [phase EXCEPT ![w] = "show"]
  /\ UNCHANGED <<input, execution, pc, ok, scores, at, best, scored, shown,
                 outcome, countedAs>>

(***************************************************************************)
(* The loop body of a worker: score into its own slot (an error leaves the *)
(* slot not ok and goes on), consider, count, read the best, show.         *)
(***************************************************************************)
Score(w) ==
  /\ phase[w] = "score" /\ Running(w)
  /\ LET i == at[w] IN
       \/ /\ input.value[i] = Failed
          /\ ok' = [ok EXCEPT ![i] = FALSE]
          /\ at' = [at EXCEPT ![w] = i + 1]
          /\ UNCHANGED <<scores, phase>>
       \/ /\ input.value[i] # Failed
          /\ scores' = [scores EXCEPT ![i] = input.value[i]]
          /\ ok' = [ok EXCEPT ![i] = TRUE]
          /\ phase' = [phase EXCEPT ![w] = "consider"]
          /\ UNCHANGED at
  /\ UNCHANGED <<input, execution, pc, best, scored, snap, shown, outcome, countedAs>>

Consider(w) ==
  /\ phase[w] = "consider"
  /\ best' = Considered(best, at[w])
  /\ phase' = [phase EXCEPT ![w] = "count"]
  /\ UNCHANGED <<input, execution, pc, ok, scores, at, scored, snap, shown,
                 outcome, countedAs>>

Count(w) ==
  /\ phase[w] = "count"
  /\ scored' = scored + 1
  /\ countedAs' = [countedAs EXCEPT ![at[w]] = scored + 1]
  /\ snap' = [snap EXCEPT ![w].done = scored + 1]
  /\ phase' = [phase EXCEPT ![w] = "apply"]
  /\ UNCHANGED <<input, execution, pc, ok, scores, at, best, shown, outcome>>

ApplyBest(w) ==
  /\ phase[w] = "apply"
  /\ snap' = [snap EXCEPT ![w].best = best]
  /\ phase' = [phase EXCEPT ![w] = "show"]
  /\ UNCHANGED <<input, execution, pc, ok, scores, at, best, scored, shown,
                 outcome, countedAs>>

Show(w) ==
  /\ phase[w] = "show"
  /\ shown' = snap[w]
  /\ snap' = [snap EXCEPT ![w] = NoSnap]
  /\ at' = [at EXCEPT ![w] = @ + 1]
  /\ phase' = [phase EXCEPT ![w] = "score"]
  /\ UNCHANGED <<input, execution, pc, ok, scores, best, scored, outcome, countedAs>>

Worker(w) == Score(w) \/ Consider(w) \/ Count(w) \/ ApplyBest(w) \/ Show(w)

(***************************************************************************)
(* All futures are ready, or the serial loop is over: the lowest slot that *)
(* is not ok gives the error, else the hits are sorted and cut.            *)
(***************************************************************************)
Joined == \A w \in Launched : phase[w] = "score" /\ at[w] >= End(w)

Reduced ==
  LET bad == {i \in Index : ~ok[i]} IN
  IF bad # {}
    THEN Contract!Error(CHOOSE i \in bad : \A j \in bad : i <= j)
    ELSE Contract!Hits(Contract!Top([input EXCEPT !.value = scores]))

Reduce ==
  /\ \/ pc = "join" /\ Joined
     \/ pc = "serial" /\ scored = N
  /\ pc' = "done"
  /\ outcome' = Reduced
  /\ UNCHANGED <<input, execution, ok, scores, at, phase, best, scored, snap,
                 shown, countedAs>>

Next ==
  \/ Start
  \/ ScoreSerially
  \/ \E w \in Launched : Worker(w)
  \/ Reduce

(***************************************************************************)
(* Every thread that can go on does so.                                    *)
(***************************************************************************)
Spec ==
  /\ Init /\ [][Next]_vars
  /\ WF_vars(Start \/ ScoreSerially \/ Reduce)
  /\ \A w \in Launched : WF_vars(Worker(w))

-----------------------------------------------------------------------------
(***************************************************************************)
(* Types of the shared state of a batch.                                   *)
(***************************************************************************)
Tracker == [seen : BOOLEAN, score : Values, label : Ids \cup {0}]
Snapshot == [done : Nat, best : Tracker]

TypeOK ==
  /\ input \in Contract!Input
  /\ execution \in {"serial", "parallel"}
  /\ pc \in {"start", "serial", "join", "done"}
  /\ ok \in [Index -> BOOLEAN] /\ scores \in [Index -> Values]
  /\ at \in [Launched -> 0 .. N]
  /\ phase \in [Launched -> {"idle", "score", "consider", "count", "apply", "show"}]
  /\ best \in Tracker /\ scored \in Nat
  /\ snap \in [Launched -> Snapshot] /\ shown \in Snapshot
  /\ countedAs \in [Index -> Nat]

(***************************************************************************)
(* A slot a worker has passed is final and right: ok exactly when the      *)
(* scorer gave a value, and then with that value.  A worker that reports a *)
(* candidate has scored it and is still inside its own range, and while    *)
(* one thread works the others have not begun.                             *)
(***************************************************************************)
Final(i) ==
  /\ ok[i] <=> input.value[i] # Failed
  /\ ok[i] => scores[i] = input.value[i]

Reporting == {"consider", "count", "apply", "show"}

SlotsFinal ==
  /\ \A w \in Launched :
       /\ Begin(w) <= at[w] /\ at[w] <= End(w)
       /\ \A i \in Index : Begin(w) <= i /\ i < at[w] => Final(i)
       /\ phase[w] \in Reporting => at[w] < End(w) /\ ok[at[w]] /\ Final(at[w])
       /\ pc \in {"start", "serial"} => phase[w] = "idle"
  /\ pc = "serial" => \A i \in Index : i < scored => ok[i] /\ Final(i)
  /\ pc = "start" => scored = 0

(***************************************************************************)
(* run() keeps the contract: serial or parallel, with any number of        *)
(* workers and whatever the interleaving, it returns, and what it returns  *)
(* depends on the candidates alone (batch_ordering.hpp, "MUST").           *)
(***************************************************************************)
ContractSpec == Contract!Spec

(***************************************************************************)
(* A progress panel never undersells: the best score in a snapshot that    *)
(* says "done of N" is at least as good as each candidate counted in done. *)
(* Workers count after considering, and read the best after counting.      *)
(***************************************************************************)
Covers(s) ==
  \A i \in Index : countedAs[i] \in 1 .. s.done =>
    s.best.seen /\ ~Beats(input.value[i], s.best.score)

SnapshotsCoverDone ==
  /\ Covers(shown)
  /\ \A w \in Launched : phase[w] = "show" => Covers(snap[w])

(***************************************************************************)
(* When the batch returns hits, every candidate was counted exactly once,  *)
(* and the score the panel calls best is that of the first hit.            *)
(***************************************************************************)
PanelAgreesWithHits ==
  outcome.kind = "hits" =>
    /\ scored = N
    /\ N > 0 => best.seen /\ best.score = input.value[outcome.top[0]]
=============================================================================
