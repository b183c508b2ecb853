------------------------- MODULE SearchCycle_proof -------------------------
(***************************************************************************)
(* Proofs about SearchCycle, for any grid, job and number of operators.    *)
(***************************************************************************)
EXTENDS SearchCycle, HypothesisStore_proof, FiniteSetTheorems

-----------------------------------------------------------------------------
(***************************************************************************)
(* RankCandidates.  Ranking is by a strict total order, so every candidate *)
(* has a rank of its own, below their number, and the ranking cut to k is  *)
(* made of candidates; without the cut it has each of them.                *)
(***************************************************************************)
LEMMA BetterIsTotal ==
  ASSUME NEW C, IsFiniteSet(C), \A c \in C : Score[c.method] \in Nat
  PROVE  /\ \A c \in C : ~Better(C, c, c)
         /\ \A c, d \in C : c # d => Better(C, c, d) \/ Better(C, d, c)
         /\ \A c, d, e \in C : Better(C, c, d) /\ Better(C, d, e) => Better(C, c, e)
<1>1. PICK g \in Bijection(1 .. Cardinality(C), C) : TRUE
  BY FS_CardinalityType DEF ExistsBijection
<1> DEFINE f == [c \in C |-> CHOOSE n \in 1 .. Cardinality(C) : g[n] = c]
<1>2. f \in [C -> 1 .. Cardinality(C)] /\ IsInjective(f)
  BY <1>1 DEF Bijection, Surjection, Injection, IsInjective
<1>3. IdOrder(C) \in [C -> 1 .. Cardinality(C)] /\ IsInjective(IdOrder(C))
  BY <1>2 DEF IdOrder
<1>4. Cardinality(C) \in Nat
  BY FS_CardinalityType
<1>5. \A c \in C : IdOrder(C)[c] \in Nat
  BY <1>3, <1>4
<1>6. \A c, d \in C : c # d => IdOrder(C)[c] # IdOrder(C)[d]
  BY <1>3 DEF IsInjective
<1> QED BY <1>5, <1>6 DEF Better

LEMMA RanksAreDistinct ==
  ASSUME NEW C, IsFiniteSet(C), \A c \in C : Score[c.method] \in Nat
  PROVE  [c \in C |-> Ahead(C, c)] \in Bijection(C, 0 .. Cardinality(C) - 1)
<1> DEFINE before(c) == {d \in C : Better(C, d, c)}
           f == [c \in C |-> Ahead(C, c)]
           n == Cardinality(C)
<1>1. n \in Nat
  BY FS_CardinalityType
<1>2. ASSUME NEW c \in C PROVE Ahead(C, c) \in 0 .. n - 1
  <2>1. before(c) \subseteq C /\ c \notin before(c)
    BY BetterIsTotal
  <2>2. IsFiniteSet(before(c)) /\ Cardinality(before(c)) <= n /\ before(c) # C
    BY <2>1, FS_Subset
  <2>3. Cardinality(before(c)) \in Nat /\ Cardinality(before(c)) # n
    BY <2>1, <2>2, FS_Subset, FS_CardinalityType
  <2> QED BY <1>1, <2>2, <2>3 DEF Ahead
<1>3. ASSUME NEW c \in C, NEW d \in C, Better(C, c, d) PROVE Ahead(C, c) < Ahead(C, d)
  <2>1. before(c) \subseteq before(d) /\ c \in before(d) /\ c \notin before(c)
    BY <1>3, BetterIsTotal
  <2>2. before(d) \subseteq C
    OBVIOUS
  <2>3. IsFiniteSet(before(d))
    BY <2>2, FS_Subset
  <2>4. before(c) \in SUBSET before(d) /\ before(c) # before(d)
    BY <2>1
  <2>5. /\ IsFiniteSet(before(c)) /\ Cardinality(before(c)) <= Cardinality(before(d))
        /\ Cardinality(before(c)) # Cardinality(before(d))
    BY <2>3, <2>4, FS_Subset
  <2> QED BY <2>3, <2>5, FS_CardinalityType DEF Ahead
<1>4. \A c, d \in C : Ahead(C, c) = Ahead(C, d) => c = d
  BY <1>2, <1>3, BetterIsTotal
<1>5. f \in Injection(C, 0 .. n - 1)
  BY <1>2, <1>4 DEF Injection, IsInjective
<1>6. IsFiniteSet(0 .. n - 1) /\ Cardinality(0 .. n - 1) = n
  BY <1>1, FS_Interval
<1>7. f \in Surjection(C, 0 .. n - 1)
  BY <1>5, <1>6, FS_Injection
<1> QED BY <1>5, <1>7 DEF Bijection

LEMMA RankedRows ==
  ASSUME NEW C, IsFiniteSet(C), \A c \in C : Score[c.method] \in Nat
  PROVE  /\ Kept(C) \in Nat /\ Kept(C) <= K
         /\ Ranked(C) \in [1 .. Kept(C) -> C]
         /\ Len(Ranked(C)) = Kept(C)
         /\ Kept(C) < K => \A c \in C : \E r \in 1 .. Kept(C) : Ranked(C)[r] = c
<1> DEFINE f == [c \in C |-> Ahead(C, c)]
           n == Cardinality(C)
<1>1. n \in Nat /\ K \in Nat
  BY FS_CardinalityType, CycleAssumption
<1>2. Kept(C) \in Nat /\ Kept(C) <= K /\ Kept(C) <= n /\ (Kept(C) < K => Kept(C) = n)
  BY <1>1 DEF Kept
<1>3. f \in Bijection(C, 0 .. n - 1)
  BY RanksAreDistinct
<1>4. \A r \in 1 .. Kept(C) : \E c \in C : Ahead(C, c) = r - 1
  <2> SUFFICES ASSUME NEW r \in 1 .. Kept(C) PROVE \E c \in C : Ahead(C, c) = r - 1
    OBVIOUS
  <2>1. r - 1 \in 0 .. n - 1
    BY <1>1, <1>2
  <2>2. PICK c \in C : f[c] = r - 1
    BY <1>3, <2>1 DEF Bijection, Surjection
  <2> QED BY <2>2
<1>5. \A r \in 1 .. Kept(C) : Ranked(C)[r] \in C /\ Ahead(C, Ranked(C)[r]) = r - 1
  BY <1>4 DEF Ranked
<1>6. Ranked(C) \in [1 .. Kept(C) -> C]
  BY <1>5 DEF Ranked
<1>7. ASSUME Kept(C) = n, NEW c \in C PROVE \E r \in 1 .. Kept(C) : Ranked(C)[r] = c
  <2>1. f[c] \in 0 .. n - 1 /\ f[c] = Ahead(C, c)
    BY <1>3 DEF Bijection, Surjection
  <2> DEFINE r == f[c] + 1
  <2>2. r \in 1 .. Kept(C) /\ r - 1 = Ahead(C, c)
    BY <1>1, <1>7, <2>1
  <2>3. Ranked(C)[r] \in C /\ f[Ranked(C)[r]] = f[c]
    BY <1>5, <2>1, <2>2
  <2>4. Ranked(C)[r] = c
    BY <1>3, <2>3 DEF Bijection, Injection, IsInjective
  <2> QED BY <2>2, <2>4
<1> QED BY <1>2, <1>6, <1>7

-----------------------------------------------------------------------------
(***************************************************************************)
(* merge_seeds after filter_exclusions: finitely many candidates, each of  *)
(* a known method; none of the expanded ones has excluded params, and the  *)
(* params of every seed are there.                                         *)
(***************************************************************************)
LEMMA MergedCandidates ==
  ASSUME NEW p, IsPrior(p)
  PROVE  /\ IsFiniteSet(Merged(p))
         /\ \A c \in Merged(p) : c.method \in Methods /\ Score[c.method] \in Nat
         /\ \A c \in Merged(p) : c.cid[1] # "prior-seed" => ~Excluded(p, c.method)
         /\ \A s \in p.seeds : \E c \in Merged(p) : Hash[c.method] = Hash[s.method]
<1> DEFINE unmatched == {s \in p.seeds : \A c \in Filtered(p) : Hash[c.method] # Hash[s.method]}
           first(x) == CHOOSE s \in unmatched : Hash[s.method] = x
           fresh == {first(Hash[s.method]) : s \in unmatched}
           asRow(s) == [cid |-> <<"prior-seed", s.hyp>>, method |-> s.method]
<1>1. Merged(p) = Filtered(p) \cup {asRow(s) : s \in fresh}
  BY DEF Merged
<1>2. \A s \in unmatched :
        first(Hash[s.method]) \in p.seeds /\ Hash[first(Hash[s.method]).method] = Hash[s.method]
  OBVIOUS
<1>3. fresh \subseteq p.seeds
  BY <1>2
<1>4. \A c \in Filtered(p) : /\ c.method \in Grid /\ c.cid[1] = "grid"
                             /\ ~Excluded(p, c.method)
  BY DEF Filtered
<1>5. IsFiniteSet(Filtered(p))
  <2> DEFINE S == {g \in Grid : ~Excluded(p, g)}
             f == [g \in S |-> [cid |-> <<"grid", g>>, method |-> g]]
  <2>1. IsFiniteSet(S)
    BY FS_Subset, CycleAssumption
  <2>2. f \in Surjection(S, Filtered(p))
    BY DEF Surjection, Filtered
  <2> QED BY <2>1, <2>2, FS_Surjection
<1>6. IsFiniteSet({asRow(s) : s \in fresh})
  <2> DEFINE f == [s \in fresh |-> asRow(s)]
  <2>1. IsFiniteSet(fresh)
    BY <1>3, FS_Subset DEF IsPrior
  <2>2. f \in Surjection(fresh, {asRow(s) : s \in fresh})
    BY DEF Surjection
  <2> QED BY <2>1, <2>2, FS_Surjection
<1>7. IsFiniteSet(Merged(p))
  BY <1>1, <1>5, <1>6, FS_Union
<1>8. \A c \in Merged(p) : c.method \in Methods
  BY <1>1, <1>3, <1>4, CycleAssumption DEF IsPrior
<1>9. ASSUME NEW s \in p.seeds PROVE \E c \in Merged(p) : Hash[c.method] = Hash[s.method]
  <2>1. CASE s \in unmatched
    <3>1. first(Hash[s.method]) \in fresh
      BY <2>1
    <3>2. asRow(first(Hash[s.method])) \in Merged(p)
      BY <1>1, <3>1
    <3> QED BY <1>2, <2>1, <3>2
  <2>2. CASE s \notin unmatched
    BY <1>1, <2>2
  <2> QED BY <2>1, <2>2
<1> QED BY <1>1, <1>4, <1>7, <1>8, <1>9, CycleAssumption

LEMMA ExportedRows ==
  ASSUME NEW p, IsPrior(p)
  PROVE  /\ Len(Ranked(Merged(p))) \in 0 .. K
         /\ Ranked(Merged(p)) \in [1 .. Len(Ranked(Merged(p))) -> Merged(p)]
         /\ \A i \in 1 .. Len(Ranked(Merged(p))) : Ranked(Merged(p))[i].method \in Methods
         /\ Len(Ranked(Merged(p))) # K =>
              \A c \in Merged(p) : \E i \in DOMAIN Ranked(Merged(p)) : Ranked(Merged(p))[i] = c
<1> DEFINE C == Merged(p)
<1>1. IsFiniteSet(C) /\ \A c \in C : c.method \in Methods /\ Score[c.method] \in Nat
  BY MergedCandidates
<1> HIDE DEF C
<1>2. /\ Kept(C) \in Nat /\ Kept(C) <= K
      /\ Ranked(C) \in [1 .. Kept(C) -> C]
      /\ Len(Ranked(C)) = Kept(C)
      /\ Kept(C) < K => \A c \in C : \E r \in 1 .. Kept(C) : Ranked(C)[r] = c
  BY <1>1, RankedRows
<1> QED BY <1>1, <1>2, CycleAssumption DEF C

-----------------------------------------------------------------------------
(***************************************************************************)
(* The bridge makes a record of a row, and a step of anybody is a step of  *)
(* the store.                                                              *)
(***************************************************************************)
LEMMA IngestHolds ==
  ASSUME TypeOK, IngestRow
  PROVE  /\ rows[next].method \in Methods
         /\ IngestedRecord(HypothesisId(bid, rows[next].cid), rows[next].method) \in Record
<1> DEFINE h == HypothesisId(bid, rows[next].cid)
           m == rows[next].method
<1>1. m \in Methods
  BY DEF IngestRow, TypeOK, CycleTypeOK
<1> HIDE DEF h, m
<1>2. [MakeDraft(m) EXCEPT !.status = "proposed"] \in Record
  BY <1>1, RecordTypes DEF Status
<1>3. Loads(h) => content[h] \in Record
  BY DEF Loads, Exists, TypeOK, StoreTypeOK
<1>4. Loads(h) => [content[h] EXCEPT !.method = m] \in Record
  BY <1>1, <1>3 DEF Record
<1>5. IngestedRecord(h, m) \in Record
  BY <1>2, <1>4 DEF IngestedRecord
<1> QED BY <1>1, <1>5 DEF h, m

LEMMA CycleIsStoreStep == ASSUME TypeOK, [Next]_vars PROVE StoreStep
<1>1. CASE Scheduler
  <2>1. CASE IngestRow
    BY <2>1, IngestHolds, CycleAssumption DEF IngestRow, StoreStep
  <2>2. CASE SchedulerStore
    BY <2>2, CycleAssumption DEF SchedulerStore, StoreStep, Stores
  <2>3. CASE BeginIteration \/ LoadForPrior \/ Export \/ StoreBatch \/ EndCycle
             \/ CheckPromoted \/ NextIteration
    BY <2>3 DEF BeginIteration, LoadForPrior, Export, StoreBatch, EndCycle, CheckPromoted,
                NextIteration, StoreStep
  <2> QED BY <1>1, <2>1, <2>2, <2>3 DEF Scheduler
<1>2. ASSUME NEW p \in Procs \ {Sched}, Operator(p) PROVE StoreStep
  BY <1>2, CommandFollows DEF Operator, Crash, TypeOK, StoreStep, Stores, Dies
<1>3. CASE StartRun
  BY <1>3 DEF StartRun, StoreStep
<1>4. CASE SchedulerCrash
  BY <1>4, CycleAssumption DEF SchedulerCrash, StoreStep, Dies
<1>5. CASE UNCHANGED vars
  BY <1>5 DEF vars, StoreStep
<1> QED BY <1>1, <1>2, <1>3, <1>4, <1>5 DEF Next

(***************************************************************************)
(* Leaving run_loop is well typed wherever it happens, and so is what the  *)
(* scheduler sets at each of its stages.                                   *)
(***************************************************************************)
LEMMA EmptyIsPrior == IsPrior(EmptyPrior)
BY FS_EmptySet DEF IsPrior, EmptyPrior

LEMMA StopTypes ==
  ASSUME TypeOK, NEW reason \in StopReasons, NEW res, DOMAIN res = DOMAIN NewResult,
         Stop(reason, res), options' \in RunOptions, iter' \in 0 .. options'.limit - 1
  PROVE  CycleTypeOK'
BY EmptyIsPrior, CycleAssumption DEF Stop, CycleTypeOK, Stages, NewResult

LEMMA CycleTypes ==
  ASSUME TypeOK, [Next]_vars
  PROVE  CycleTypeOK'
<1> USE DEF TypeOK
<1>0. /\ DOMAIN file \subseteq DOMAIN file'
      /\ \A o \in RunOptions : o.limit \in Nat \ {0}
      /\ K \in Nat
  BY CycleIsStoreStep, StoreStepTypes, CycleAssumption
<1>1. CASE StartRun
  <2>1. options' \in RunOptions /\ iter' \in 0 .. options'.limit - 1
    BY <1>0, <1>1 DEF StartRun
  <2>2. CASE Stop("wall_budget", NewResult)
    BY <2>1, <2>2, StopTypes DEF StopReasons
  <2>3. CASE pc' = "loop" /\ result' = NewResult /\ UNCHANGED <<toLoad, prior, rows, next>>
    BY <1>0, <1>1, <2>1, <2>3 DEF StartRun, CycleTypeOK, Stages, StopReasons, NewResult
  <2> QED BY <1>1, <2>2, <2>3 DEF StartRun
<1>2. CASE BeginIteration
  <2>1. CASE Stop("wall_budget", result)
    BY <1>2, <2>1, StopTypes DEF BeginIteration, CycleTypeOK, StopReasons
  <2>2. CASE pc' = "prior"
    <3>1. IsPrior(prior') /\ toLoad' \subseteq DOMAIN file
      BY <1>2, <2>2, EmptyIsPrior, CycleAssumption DEF BeginIteration, Stop, CycleTypeOK
    <3> QED BY <1>0, <1>2, <2>2, <3>1 DEF BeginIteration, Stop, CycleTypeOK, Stages
  <2> QED BY <1>2, <2>1, <2>2 DEF BeginIteration
<1>3. CASE LoadForPrior
  <2>1. CASE Stop("error", result)
    BY <1>3, <2>1, StopTypes DEF LoadForPrior, CycleTypeOK, StopReasons
  <2>2. ASSUME NEW h \in toLoad, Loads(h), prior' = WithRecord(prior, h, content[h])
        PROVE  IsPrior(prior')
    <3>1. content[h] \in Record
      BY <2>2 DEF StoreTypeOK, Loads, Exists
    <3>2. IsPrior(prior)
      BY DEF CycleTypeOK
    <3>3. IsFiniteSet(prior.seeds \cup {[hyp |-> h, method |-> content[h].method]})
      BY <3>2, FS_AddElement DEF IsPrior
    <3>4. content[h].method \in Methods
      BY <3>1 DEF Record
    <3> DEFINE seeded == [prior EXCEPT !.seeds = @ \cup {[hyp |-> h, method |-> content[h].method]}]
               excluding == [prior EXCEPT !.exclusions =
                               @ \cup {[hyp |-> h, hash |-> Hash[content[h].method]]}]
    <3>5. IsPrior(seeded) /\ IsPrior(excluding)
      <4>1. PICK S, E : prior = [seeds |-> S, exclusions |-> E]
        BY <3>2 DEF IsPrior
      <4>2. seeded = [seeds |-> S \cup {[hyp |-> h, method |-> content[h].method]},
                      exclusions |-> E]
        BY <4>1
      <4>3. excluding = [seeds |-> S,
                         exclusions |-> E \cup {[hyp |-> h, hash |-> Hash[content[h].method]]}]
        BY <4>1
      <4> QED BY <3>2, <3>3, <3>4, <4>1, <4>2, <4>3 DEF IsPrior
    <3> QED BY <2>2, <3>2, <3>5 DEF WithRecord
  <2>3. CASE UNCHANGED <<pc, rows, next, result>> /\ toLoad' \subseteq toLoad /\ IsPrior(prior')
    BY <1>0, <1>3, <2>3 DEF LoadForPrior, CycleTypeOK
  <2> QED BY <1>3, <2>1, <2>2, <2>3 DEF LoadForPrior
<1>4. CASE Export
  <2>1. CASE Stop("no_new_candidates", [result EXCEPT !.iterations = iter + 1])
    BY <1>4, <2>1, StopTypes DEF Export, CycleTypeOK, StopReasons
  <2>2. CASE Stop("error", result)
    BY <1>4, <2>2, StopTypes DEF Export, CycleTypeOK, StopReasons
  <2>3. CASE /\ pc' = "candidates" /\ rows' = Ranked(Merged(prior))
             /\ UNCHANGED <<toLoad, prior, next, result>>
    <3>1. /\ Len(rows') \in 0 .. K
          /\ \A i \in 1 .. Len(rows') : rows'[i].method \in Methods
      BY <2>3, ExportedRows DEF CycleTypeOK
    <3>2. next' = 1
      BY <1>4, <2>3 DEF Export, CycleTypeOK
    <3> QED BY <1>0, <1>4, <2>3, <3>1 DEF Export, CycleTypeOK, Stages
  <2> QED BY <1>4, <2>1, <2>2, <2>3 DEF Export
<1>5. CASE StoreBatch
  BY <1>0, <1>5 DEF StoreBatch, CycleTypeOK, Stages
<1>6. CASE IngestRow
  BY <1>0, <1>6 DEF IngestRow, CycleTypeOK
<1>7. CASE EndCycle
  <2>1. DOMAIN result' = DOMAIN result /\ result'.stop = result.stop
    BY <1>7 DEF EndCycle, CycleTypeOK, NewResult
  <2> QED BY <1>0, <1>7, <2>1 DEF EndCycle, CycleTypeOK, Stages
<1>8. CASE CheckPromoted
  <2>1. CASE Stop("error", result) \/ Stop("success_promoted", result)
    BY <1>8, <2>1, StopTypes DEF CheckPromoted, CycleTypeOK, StopReasons
  <2>2. CASE /\ pc' \in {pc, "next"} /\ toLoad' \subseteq toLoad
             /\ UNCHANGED <<prior, rows, next, result>>
    BY <1>0, <1>8, <2>2 DEF CheckPromoted, CycleTypeOK, Stages
  <2> QED BY <1>8, <2>1, <2>2 DEF CheckPromoted
<1>9. CASE NextIteration
  <2>1. ASSUME NEW reason \in {"success_validate", "wall_budget", "completed_iterations"},
               Stop(reason, result), UNCHANGED iter
        PROVE  CycleTypeOK'
    BY <1>9, <2>1, StopTypes DEF NextIteration, CycleTypeOK, StopReasons
  <2>2. CASE /\ iter + 1 < options.limit /\ iter' = iter + 1 /\ pc' = "loop"
             /\ toLoad' = {} /\ prior' = EmptyPrior /\ rows' = << >> /\ next' = 1
             /\ UNCHANGED result
    BY <1>0, <1>9, <2>2, EmptyIsPrior DEF NextIteration, CycleTypeOK, Stages
  <2> QED BY <1>9, <2>1, <2>2 DEF NextIteration
<1>10. CASE SchedulerCrash
  BY <1>10, StopTypes DEF SchedulerCrash, CycleTypeOK, StopReasons
<1>11. CASE UNCHANGED <<pc, options, iter, toLoad, prior, rows, next, result>>
  BY <1>0, <1>11 DEF CycleTypeOK
<1> QED
  BY <1>1, <1>2, <1>3, <1>4, <1>5, <1>6, <1>7, <1>8, <1>9, <1>10, <1>11
  DEF Next, Scheduler, SchedulerStore, Operator, cycleVars, vars

(***************************************************************************)
(* Types hold whether or not the tools overlap and processes die, and an   *)
(* artifact never has more than k rows.                                    *)
(***************************************************************************)
THEOREM TypeCorrect == Spec => []TypeOK
<1>1. ASSUME Init PROVE TypeOK
  <2>1. StoreTypeOK
    BY <1>1, StoreAssumption DEF Init, StoreInit, StoreTypeOK, FileState
  <2>2. options \in RunOptions /\ options.limit \in Nat \ {0}
    BY <1>1, CycleAssumption DEF Init, CycleInit
  <2>3. CycleTypeOK
    BY <1>1, <2>2, EmptyIsPrior, CycleAssumption
    DEF Init, CycleInit, CycleTypeOK, Stages, StopReasons, NewResult
  <2> QED BY <2>1, <2>3 DEF TypeOK
<1>2. ASSUME TypeOK, [Next]_vars PROVE TypeOK'
  BY <1>2, CycleIsStoreStep, StoreStepTypes, CycleTypes DEF TypeOK
<1> QED BY <1>1, <1>2, PTL DEF Spec

-----------------------------------------------------------------------------
(***************************************************************************)
(* Whatever overlaps and whoever dies, a hypothesis the bridge made names  *)
(* a batch that is on disk and lists it.  BatchArtifact::store overwrites  *)
(* a batch of the same id in place, but the id stands for the rows.        *)
(***************************************************************************)
LEMMA StoreBatchKeepsTraces ==
  ASSUME TypeOK, ArtifactsFollowIds, StoreBatch, NEW h, Traced(batch, h)
  PROVE  Traced(batch', h)
<1> DEFINE b == h.batch
<1>1. b \in DOMAIN batch' /\ DOMAIN batch \subseteq DOMAIN batch'
  BY DEF StoreBatch, Assign, Traced
<1>2. CASE b # bid
  <2>1. batch'[b] = batch[b]
    BY <1>1, <1>2 DEF StoreBatch, Assign, Traced
  <2> QED BY <1>1, <2>1 DEF Traced
<1>3. CASE b = bid
  <2>1. batch[b].manifest # "none" /\ b \in DOMAIN batch
    BY DEF Traced
  <2>2. batch[b].rows = Ranked(Merged(prior))
    BY <1>3, <2>1 DEF ArtifactsFollowIds, BatchId, bid
  <2>3. pc = "candidates open" => rows = batch[b].rows
    BY <2>2 DEF ArtifactsFollowIds, Exported
  <2>4. batch'[b].manifest # "none" /\ batch'[b].rows = batch[b].rows
    BY <1>3, <2>1, <2>3 DEF StoreBatch, Assign, ArtifactsFollowIds
  <2> QED BY <1>1, <2>4 DEF Traced
<1> QED BY <1>2, <1>3

LEMMA BatchOnlyByStore ==
  ASSUME [Next]_vars
  PROVE  StoreBatch \/ UNCHANGED batch
BY DEF Next, Scheduler, SchedulerStore, StartRun, BeginIteration, LoadForPrior, Export,
       IngestRow, EndCycle, CheckPromoted, NextIteration, SchedulerCrash, Operator,
       cycleVars, vars

LEMMA TracesLast ==
  ASSUME TypeOK, ArtifactsFollowIds, [Next]_vars, NEW h, Traced(batch, h)
  PROVE  Traced(batch', h)
BY StoreBatchKeepsTraces, BatchOnlyByStore DEF Traced

(***************************************************************************)
(* A process only stores what people named or what is traced.              *)
(***************************************************************************)
LEMMA NewRecordsAreTraced ==
  ASSUME TypeOK, ArtifactsFollowIds, ProvenanceOnDisk, [Next]_vars,
         NEW p \in DOMAIN held'
  PROVE  held'[p].hyp \in CliIds \/ Traced(batch', held'[p].hyp)
<1>1. ASSUME NEW q \in Procs, NEW h, NEW rec \in Record, Hold(q, h, rec),
             h \in CliIds \/ Traced(batch, h)
      PROVE  held'[p].hyp \in CliIds \/ Traced(batch', held'[p].hyp)
  BY <1>1, TracesLast DEF Hold, Assign, ArtifactsFollowIds
<1>2. CASE IngestRow
  <2> DEFINE h == HypothesisId(bid, rows[next].cid)
  <2>1. rows = Ranked(Merged(prior)) /\ pc = "ingest" /\ next \in 1 .. Len(rows)
    BY <1>2 DEF IngestRow, ArtifactsFollowIds, Exported, TypeOK, CycleTypeOK
  <2>2. next \in DOMAIN rows
    BY <2>1, ExportedRows DEF TypeOK, CycleTypeOK
  <2>3. /\ bid \in DOMAIN batch /\ batch[bid].rows = rows
        /\ batch[bid].manifest = "whole"
    BY <2>1 DEF ArtifactsFollowIds
  <2>4. Traced(batch, h)
    BY <2>2, <2>3 DEF Traced, HypothesisId
  <2>5. UNCHANGED batch
    BY <1>2 DEF IngestRow
  <2> QED BY <1>1, <1>2, <2>4, <2>5, IngestHolds, CycleAssumption DEF IngestRow
<1>3. ASSUME NEW q \in Procs, NEW h \in CliIds \cup DOMAIN file, Command(q, h)
      PROVE  held'[p].hyp \in CliIds \/ Traced(batch', held'[p].hyp)
  BY <1>1, <1>3, CommandFollows DEF ProvenanceOnDisk, TypeOK
<1>4. CASE /\ DOMAIN held' \subseteq DOMAIN held
           /\ \A q \in DOMAIN held' : held'[q].hyp = held[q].hyp
  BY <1>4, TracesLast DEF ArtifactsFollowIds
<1>5. ASSUME NEW q \in Procs, Truncate(q) \/ Write(q) \/ Crash(q) \/ held' = Release(q)
      PROVE  /\ DOMAIN held' \subseteq DOMAIN held
             /\ \A r \in DOMAIN held' : held'[r].hyp = held[r].hyp
  BY <1>5 DEF Truncate, Write, Crash, Release, Restrict, TypeOK, StoreTypeOK
<1>6. CASE UNCHANGED held
  BY <1>4, <1>6
<1>7. CASE Scheduler
  BY <1>2, <1>4, <1>5, <1>6, <1>7, CycleAssumption
  DEF Scheduler, SchedulerStore, BeginIteration, LoadForPrior, Export, StoreBatch, EndCycle,
      CheckPromoted, NextIteration, storeVars
<1>8. ASSUME NEW q \in Procs \ {Sched}, Operator(q)
      PROVE  held'[p].hyp \in CliIds \/ Traced(batch', held'[p].hyp)
  <2>1. CASE \E h \in CliIds \cup DOMAIN file : Command(q, h)
    BY <1>3, <1>8, <2>1, TracesLast
  <2> QED BY <1>4, <1>5, <1>8, <2>1 DEF Operator
<1> QED BY <1>4, <1>5, <1>6, <1>7, <1>8, CycleAssumption
        DEF Next, StartRun, SchedulerCrash, storeVars, vars

LEMMA FilesAreHeld ==
  ASSUME TypeOK, [Next]_vars, NEW h \in DOMAIN file' \ DOMAIN file
  PROVE  \E p \in DOMAIN held : h = held[p].hyp
<1>1. ASSUME NEW p \in Procs, Truncate(p) \/ Write(p)
      PROVE  \E q \in DOMAIN held : h = held[q].hyp
  BY <1>1 DEF Truncate, Write, Assign
<1> QED BY <1>1, CycleIsStoreStep DEF StoreStep, Stores, Dies, Hold, storeVars

THEOREM Provenance ==
  ASSUME \A saved \in Saved : DOMAIN saved \subseteq CliIds
  PROVE  Spec => []ProvenanceOnDisk
<1>1. ASSUME Init PROVE ArtifactsFollowIds /\ ProvenanceOnDisk
  BY <1>1 DEF Init, StoreInit, CycleInit, ArtifactsFollowIds, ProvenanceOnDisk, Exported
<1>2. ASSUME TypeOK, ArtifactsFollowIds, ProvenanceOnDisk, [Next]_vars
      PROVE  ArtifactsFollowIds' /\ ProvenanceOnDisk'
  <2> USE <1>2
  <2>1. ProvenanceOnDisk'
    <3> SUFFICES ASSUME NEW h \in DOMAIN file', h \notin CliIds PROVE Traced(batch', h)
      BY DEF ProvenanceOnDisk
    <3>1. CASE h \in DOMAIN file
      BY <3>1, TracesLast DEF ProvenanceOnDisk
    <3>2. CASE h \notin DOMAIN file
      <4>1. PICK p \in DOMAIN held : h = held[p].hyp
        BY <3>2, FilesAreHeld
      <4>2. Traced(batch, h)
        BY <4>1 DEF ArtifactsFollowIds
      <4> QED BY <4>2, TracesLast
    <3> QED BY <3>1, <3>2
  <2> SUFFICES ArtifactsFollowIds'
    BY <2>1
  <2>2. \A p \in DOMAIN held' : held'[p].hyp \in CliIds \/ Traced(batch', held'[p].hyp)
    BY NewRecordsAreTraced
  <2>3. ASSUME UNCHANGED batch
        PROVE  \A b \in DOMAIN batch' :
                 /\ DOMAIN batch'[b] = {"candidates", "manifest", "rows"}
                 /\ batch'[b].manifest # "none" => batch'[b].rows = Ranked(Merged(b.prior))
    BY <2>3 DEF ArtifactsFollowIds
  <2>4. ASSUME ~Exported', UNCHANGED batch PROVE ArtifactsFollowIds'
    BY <2>2, <2>3, <2>4 DEF ArtifactsFollowIds, Exported
  <2>5. ASSUME UNCHANGED <<pc, options, iter, prior, rows, batch>> PROVE ArtifactsFollowIds'
    BY <2>2, <2>3, <2>5 DEF ArtifactsFollowIds, Exported, bid
  <2>6. CASE StoreBatch
    <3>1. UNCHANGED <<options, iter, prior, rows>> /\ Exported /\ Exported'
      BY <2>6 DEF StoreBatch, Exported
    <3>2. rows = Ranked(Merged(prior)) /\ bid' = bid /\ bid.prior = prior
      BY <3>1 DEF ArtifactsFollowIds, BatchId, bid
    <3>3. ASSUME NEW b \in DOMAIN batch', b # bid
          PROVE  b \in DOMAIN batch /\ batch'[b] = batch[b]
      BY <2>6, <3>3 DEF StoreBatch, Assign
    <3>4. /\ bid \in DOMAIN batch'
          /\ DOMAIN batch'[bid] = {"candidates", "manifest", "rows"}
      BY <2>6 DEF StoreBatch, Assign, ArtifactsFollowIds
    <3>5. pc' \in {"manifest", "manifest open", "ingest"} => batch'[bid].rows = rows
      BY <2>6 DEF StoreBatch, Assign, ArtifactsFollowIds
    <3>6. pc' = "ingest" => batch'[bid].manifest = "whole"
      BY <2>6 DEF StoreBatch, Assign, ArtifactsFollowIds
    <3>7. batch'[bid].manifest # "none" => batch'[bid].rows = rows
      <4>1. CASE pc = "candidates"
        <5>1. batch'[bid].manifest # "none" =>
                bid \in DOMAIN batch /\ batch'[bid].rows = batch[bid].rows
                /\ batch[bid].manifest # "none"
          BY <2>6, <4>1 DEF StoreBatch, Assign, ArtifactsFollowIds
        <5> QED BY <3>2, <5>1 DEF ArtifactsFollowIds
      <4>2. CASE pc # "candidates"
        BY <2>6, <3>5, <4>2 DEF StoreBatch
      <4> QED BY <4>1, <4>2
    <3> QED BY <2>2, <3>1, <3>2, <3>3, <3>4, <3>5, <3>6, <3>7 DEF ArtifactsFollowIds
  <2>7. CASE Export
    <3>1. CASE pc' = "candidates" /\ rows' = Ranked(Merged(prior)) /\ UNCHANGED prior
      BY <2>2, <2>3, <2>7, <3>1 DEF Export, ArtifactsFollowIds
    <3> QED BY <2>4, <2>7, <3>1 DEF Export, Stop, Exported
  <2>8. CASE EndCycle
    BY <2>2, <2>3, <2>8 DEF EndCycle, ArtifactsFollowIds, Exported
  <2>9. CASE CheckPromoted
    <3>1. CASE pc' \in {"check", "next"} /\ UNCHANGED <<prior, rows>>
      BY <2>2, <2>3, <2>9, <3>1 DEF CheckPromoted, ArtifactsFollowIds, Exported
    <3> QED BY <2>4, <2>9, <3>1 DEF CheckPromoted, Stop, Exported
  <2>10. CASE StartRun \/ BeginIteration \/ NextIteration \/ SchedulerCrash
    BY <2>4, <2>10 DEF StartRun, BeginIteration, NextIteration, SchedulerCrash, Stop, Exported
  <2>11. CASE LoadForPrior
    BY <2>4, <2>11 DEF LoadForPrior, Stop, Exported
  <2>12. CASE IngestRow \/ SchedulerStore \/ (\E p \in Procs : Operator(p)) \/ UNCHANGED vars
    BY <2>5, <2>12 DEF IngestRow, SchedulerStore, Operator, cycleVars, vars
  <2> QED BY <2>1, <2>6, <2>7, <2>8, <2>9, <2>10, <2>11, <2>12 DEF Next, Scheduler
<1> QED BY <1>1, <1>2, TypeCorrect, PTL DEF Spec

-----------------------------------------------------------------------------
(***************************************************************************)
(* From here on the tools take turns and none of them dies in a store.     *)
(* The scheduler then finds every record it ingests over readable, and     *)
(* what it makes of one follows from it.                                   *)
(***************************************************************************)
LEMMA ReachReflexive == \A s \in Status : Reach(s, s)
BY DEF Reach, CanTransition

LEMMA IngestFollows ==
  ASSUME ~Overlap, ~CanCrash, TypeOK, UnreadableOnlyWhileStored, ScoringSetsStatus, IngestRow
  PROVE  LET h == HypothesisId(bid, rows[next].cid)
             rec == IngestedRecord(h, rows[next].method)
         IN /\ rec \in Record /\ Hold(Sched, h, rec)
            /\ Follows(h, rec) /\ AsScored(rec)
<1> DEFINE h == HypothesisId(bid, rows[next].cid)
           m == rows[next].method
           rec == IngestedRecord(h, m)
<1>1. rec \in Record /\ Hold(Sched, h, rec) /\ m \in Methods
  BY IngestHolds DEF IngestRow
<1> HIDE DEF h, m
<1>2. h \in DOMAIN content => Loads(h) /\ content[h] \in Record
  <2>1. DOMAIN held = {}
    BY <1>1 DEF Hold
  <2> QED BY <2>1 DEF Loads, Exists, TypeOK, StoreTypeOK, FileState, UnreadableOnlyWhileStored
<1>3. Loads(h) => h \in DOMAIN content
  BY DEF Loads, Exists, TypeOK, StoreTypeOK
<1>4. CASE Loads(h) /\ content[h].status \in Advanced
  <2>1. rec.status = content[h].status /\ rec.scored = content[h].scored
    BY <1>2, <1>3, <1>4 DEF IngestedRecord, Record
  <2>2. content[h].status \in Status /\ AsScored(content[h])
    BY <1>2, <1>3, <1>4 DEF Record, ScoringSetsStatus
  <2>3. Follows(h, rec) /\ AsScored(rec)
    BY <1>3, <1>4, <2>1, <2>2, ReachReflexive DEF Follows, AsScored
  <2> QED BY <1>1, <2>3 DEF h, m
<1>5. CASE ~(Loads(h) /\ content[h].status \in Advanced)
  <2>1. rec = [status |-> "proposed", method |-> m, scored |-> {}]
    BY <1>5 DEF IngestedRecord, MakeDraft
  <2>2. h \in DOMAIN content => content[h].status \in {"draft", "proposed"}
                                /\ content[h].scored = {}
    BY <1>2, <1>5 DEF Record, Status, Advanced, ScoringSetsStatus, AsScored
  <2>3. Reach("draft", "proposed") /\ Reach("proposed", "proposed")
    BY DEF Reach, CanTransition, Status
  <2>4. Follows(h, rec)
    BY <2>1, <2>2, <2>3 DEF Follows
  <2>5. AsScored(rec)
    BY <2>1 DEF AsScored
  <2> QED BY <1>1, <2>4, <2>5 DEF h, m
<1> QED BY <1>4, <1>5

(***************************************************************************)
(* The tools set a status whenever they score.                             *)
(***************************************************************************)
LEMMA CommandSetsStatus ==
  ASSUME TypeOK, ScoringSetsStatus, NEW p \in Procs, NEW h, Command(p, h)
  PROVE  \E rec \in Record : Hold(p, h, rec) /\ AsScored(rec)
<1> DEFINE Goal == \E rec \in Record : Hold(p, h, rec) /\ AsScored(rec)
<1>1. Loads(h) => content[h] \in Record /\ AsScored(content[h])
  BY DEF Loads, Exists, TypeOK, StoreTypeOK, ScoringSetsStatus
<1>2. ASSUME NEW m \in Methods PROVE AsScored(MakeDraft(m)) /\ AsScored(Proposed(MakeDraft(m), m))
  BY DEF AsScored, MakeDraft, Proposed
<1>3. ASSUME NEW rec \in Record, AsScored(rec), NEW m \in Methods PROVE AsScored(Proposed(rec, m))
  BY <1>3 DEF AsScored, Proposed, Record
<1>4. ASSUME NEW rec \in Record PROVE AsScored(Scored(rec))
  BY DEF AsScored, Scored, Record
<1>5. ASSUME NEW rec \in Record, AsScored(rec), NEW s \in Status, CanTransition(rec.status, s)
      PROVE  AsScored([rec EXCEPT !.status = s])
  BY <1>5 DEF AsScored, CanTransition, Record
<1>6. ASSUME NEW m \in Methods, CmdInit(p, h, m) PROVE Goal
  BY <1>2, <1>6, RecordTypes DEF CmdInit
<1>7. ASSUME NEW m \in Methods, CmdPropose(p, h, m) PROVE Goal
  BY <1>1, <1>2, <1>3, <1>7, RecordTypes DEF CmdPropose
<1>8. ASSUME CmdScore(p, h) PROVE Goal
  BY <1>1, <1>4, <1>8, RecordTypes DEF CmdScore
<1>9. ASSUME NEW s \in Status, CmdSetStatus(p, h, s) PROVE Goal
  BY <1>1, <1>5, <1>9, RecordTypes DEF CmdSetStatus
<1> QED BY <1>6, <1>7, <1>8, <1>9 DEF Command

LEMMA StepSetsStatus ==
  ASSUME ~Overlap, ~CanCrash, TypeOK, UnreadableOnlyWhileStored, ScoringSetsStatus, [Next]_vars
  PROVE  ScoringSetsStatus'
<1>1. ASSUME NEW p \in Procs, NEW h, NEW rec \in Record, Hold(p, h, rec), AsScored(rec)
      PROVE  ScoringSetsStatus'
  BY <1>1 DEF Hold, Assign, ScoringSetsStatus
<1>2. ASSUME NEW p \in Procs, Truncate(p) PROVE ScoringSetsStatus'
  BY <1>2 DEF Truncate, ScoringSetsStatus, TypeOK, StoreTypeOK
<1>3. ASSUME NEW p \in Procs, Write(p) PROVE ScoringSetsStatus'
  BY <1>3 DEF Write, Release, Restrict, Assign, ScoringSetsStatus
<1>4. ASSUME NEW p \in Procs \ {Sched}, Operator(p) PROVE ScoringSetsStatus'
  BY <1>1, <1>2, <1>3, <1>4, CommandSetsStatus DEF Operator, Crash
<1>5. CASE IngestRow
  BY <1>1, <1>5, IngestFollows, CycleAssumption
<1>6. CASE SchedulerStore
  BY <1>2, <1>3, <1>6, CycleAssumption DEF SchedulerStore
<1>7. CASE UNCHANGED storeVars
  BY <1>7 DEF storeVars, ScoringSetsStatus
<1>8. CASE Scheduler
  BY <1>5, <1>6, <1>7, <1>8 DEF Scheduler, BeginIteration, LoadForPrior, Export, StoreBatch,
                                EndCycle, CheckPromoted, NextIteration
<1> QED BY <1>4, <1>7, <1>8 DEF Next, StartRun, SchedulerCrash, vars

LEMMA CycleFollows ==
  ASSUME ~Overlap, ~CanCrash, TypeOK, UnreadableOnlyWhileStored, ScoringSetsStatus, [Next]_vars
  PROVE  FollowingStep
<1>1. ASSUME NEW p \in Procs \ {Sched}, Operator(p) PROVE FollowingStep
  BY <1>1, CommandFollows DEF Operator, Crash, TypeOK, FollowingStep, Stores
<1>2. CASE IngestRow
  BY <1>2, IngestFollows, CycleAssumption DEF FollowingStep
<1>3. CASE SchedulerStore
  BY <1>3, CycleAssumption DEF SchedulerStore, FollowingStep, Stores
<1>4. CASE Scheduler
  BY <1>2, <1>3, <1>4 DEF Scheduler, BeginIteration, LoadForPrior, Export, StoreBatch, EndCycle,
                          CheckPromoted, NextIteration, FollowingStep
<1> QED BY <1>1, <1>4 DEF Next, StartRun, SchedulerCrash, FollowingStep, vars, storeVars

(***************************************************************************)
(* Taking turns, what the scheduler or a tool is about to store follows    *)
(* from the disk, and a record that does not load is being stored.         *)
(***************************************************************************)
TakingTurns == HeldFollowsDisk /\ UnreadableOnlyWhileStored /\ ScoringSetsStatus

THEOREM TurnsFollow ==
  ASSUME ~Overlap, ~CanCrash, SavedByTools
  PROVE  Spec => []TakingTurns
<1>1. ASSUME Init PROVE TakingTurns
  BY <1>1 DEF Init, StoreInit, TakingTurns, HeldFollowsDisk, UnreadableOnlyWhileStored,
              Loads, Exists, ScoringSetsStatus, SavedByTools
<1>2. ASSUME TypeOK, TakingTurns, [Next]_vars PROVE TakingTurns'
  <2>1. StoreTypeOK /\ StoreStep /\ FollowingStep
    BY <1>2, CycleIsStoreStep, CycleFollows DEF TypeOK, TakingTurns
  <2>2. HeldFollowsDisk'
    BY <1>2, <2>1, StepFollows DEF TakingTurns
  <2>3. UnreadableOnlyWhileStored'
    BY <1>2, <2>1, StepKeepsReadable DEF TakingTurns
  <2>4. ScoringSetsStatus'
    BY <1>2, StepSetsStatus DEF TakingTurns
  <2> QED BY <2>2, <2>3, <2>4 DEF TakingTurns
<1> QED BY <1>1, <1>2, TypeCorrect, PTL DEF Spec

(***************************************************************************)
(* Searching and editing implement HypothesisLifecycle: no ingest takes a  *)
(* decision back or skips the table.                                       *)
(***************************************************************************)
THEOREM ImplementsLifecycle ==
  ASSUME ~Overlap, ~CanCrash, SavedByTools
  PROVE  Spec => LifecycleSpec
<1>1. ASSUME Init PROVE Lifecycle!Init
  BY <1>1, StoreAssumption DEF Init, StoreInit, Lifecycle!Init, Record, Lifecycle!Status, Status
<1>2. ASSUME TypeOK, TakingTurns, [Next]_vars
      PROVE  Lifecycle!Next \/ UNCHANGED [h \in DOMAIN content |-> content[h].status]
  BY <1>2, CycleIsStoreStep, StepKeepsLifecycle DEF TypeOK, TakingTurns
<1> QED BY <1>1, <1>2, TypeCorrect, TurnsFollow, PTL DEF Spec, LifecycleSpec, Lifecycle!Spec

(***************************************************************************)
(* Nor does an ingest lose a score.                                        *)
(***************************************************************************)
THEOREM KeepsScores ==
  ASSUME ~Overlap, ~CanCrash, SavedByTools
  PROVE  Spec => ScoresSurvive
<1>1. ASSUME TypeOK, TakingTurns, [Next]_vars
      PROVE  \A h \in DOMAIN content :
               /\ h \in DOMAIN content'
               /\ content[h].scored \subseteq content'[h].scored
  BY <1>1, CycleIsStoreStep, RecordsFollow DEF TypeOK, TakingTurns
<1> QED BY <1>1, TypeCorrect, TurnsFollow, PTL DEF Spec, ScoresSurvive

(***************************************************************************)
(* A promoted record stays promoted, so a run that stopped for one leaves  *)
(* it there whatever the tools do afterwards.                              *)
(***************************************************************************)
LEMMA DecisionsAreFinal ==
  \A from \in {"rejected", "promoted"}, to \in Status : Reach(from, to) => to = from
BY DEF Reach, CanTransition, Status

THEOREM PromotedStop ==
  ASSUME ~Overlap, ~CanCrash, SavedByTools
  PROVE  Spec => []PromotedStopIsTrue
<1>1. ASSUME Init PROVE PromotedStopIsTrue
  BY <1>1 DEF Init, CycleInit, NewResult, PromotedStopIsTrue
<1>2. ASSUME TypeOK, TakingTurns, PromotedStopIsTrue, [Next]_vars PROVE PromotedStopIsTrue'
  <2> USE <1>2
  <2>1. ASSUME NEW h \in DOMAIN content, content[h].status = "promoted"
        PROVE  \E g \in DOMAIN content' : content'[g].status = "promoted"
    <3>1. h \in DOMAIN content' /\ Reach(content[h].status, content'[h].status)
      BY CycleIsStoreStep, RecordsFollow DEF TypeOK, TakingTurns
    <3>2. content'[h] \in Record
      BY <3>1, CycleIsStoreStep, StoreStepTypes DEF TypeOK, StoreTypeOK
    <3> QED BY <2>1, <3>1, <3>2, DecisionsAreFinal DEF Record
  <2> SUFFICES ASSUME pc' = "idle", result'.stop = "success_promoted"
               PROVE  \E h \in DOMAIN content' : content'[h].status = "promoted"
    BY DEF PromotedStopIsTrue
  <2>2. \A reason, res : Stop(reason, res) /\ DOMAIN res = DOMAIN NewResult =>
                           reason = "success_promoted"
    BY DEF Stop, NewResult
  <2>3. DOMAIN result = DOMAIN NewResult
    BY DEF TypeOK, CycleTypeOK
  <2>4. CASE UNCHANGED <<pc, result>>
    BY <2>1, <2>4 DEF PromotedStopIsTrue
  <2>5. CASE CheckPromoted
    <3>1. \E h \in toLoad : Loads(h) /\ content[h].status = "promoted"
      BY <2>5, <2>2, <2>3 DEF CheckPromoted
    <3> QED BY <2>1, <3>1 DEF Loads, Exists, TypeOK, StoreTypeOK
  <2>6. CASE StartRun \/ SchedulerCrash
    BY <2>6, <2>2 DEF StartRun, SchedulerCrash
  <2>7. CASE BeginIteration \/ LoadForPrior \/ Export \/ NextIteration
    <3>1. ~ \E reason \in {"wall_budget", "error", "success_validate", "completed_iterations"} :
              Stop(reason, result)
      BY <2>2, <2>3
    <3>2. ~ Stop("no_new_candidates", [result EXCEPT !.iterations = iter + 1])
      BY <2>2, <2>3
    <3> QED BY <2>7, <3>1, <3>2 DEF BeginIteration, LoadForPrior, Export, NextIteration
  <2>8. CASE StoreBatch \/ EndCycle
    BY <2>8 DEF StoreBatch, EndCycle
  <2> QED BY <2>4, <2>5, <2>6, <2>7, <2>8
          DEF Next, Scheduler, IngestRow, SchedulerStore, Operator, cycleVars, vars
<1> QED BY <1>1, <1>2, TypeCorrect, TurnsFollow, PTL DEF Spec

-----------------------------------------------------------------------------
(***************************************************************************)
(* The rows of an artifact are the ranked candidates of the prior it was   *)
(* exported from, for as long as the scheduler works on it.                *)
(***************************************************************************)
RowsFromPrior == Exported => rows = Ranked(Merged(prior))

THEOREM RowsAreRanked == Spec => []RowsFromPrior
<1>1. ASSUME Init PROVE RowsFromPrior
  BY <1>1 DEF Init, CycleInit, RowsFromPrior, Exported
<1>2. ASSUME RowsFromPrior, [Next]_vars PROVE RowsFromPrior'
  <2> USE <1>2 DEF RowsFromPrior
  <2>1. ASSUME Exported' => Exported, UNCHANGED <<prior, rows>> PROVE RowsFromPrior'
    BY <2>1
  <2>2. ASSUME pc' \notin {"candidates", "candidates open", "manifest", "manifest open",
                           "ingest", "check", "next"}
        PROVE  RowsFromPrior'
    BY <2>2 DEF Exported
  <2>3. CASE Export
    BY <2>2, <2>3 DEF Export, Stop
  <2>4. CASE StoreBatch \/ EndCycle \/ IngestRow
    BY <2>1, <2>4 DEF StoreBatch, EndCycle, IngestRow, Exported
  <2>5. CASE CheckPromoted
    BY <2>1, <2>2, <2>5 DEF CheckPromoted, Stop, Exported
  <2>6. CASE StartRun \/ BeginIteration \/ LoadForPrior \/ NextIteration \/ SchedulerCrash
    BY <2>2, <2>6 DEF StartRun, BeginIteration, LoadForPrior, NextIteration, SchedulerCrash, Stop
  <2>7. CASE SchedulerStore \/ (\E p \in Procs : Operator(p)) \/ UNCHANGED vars
    BY <2>1, <2>7 DEF SchedulerStore, Operator, Exported, cycleVars, vars
  <2> QED BY <2>3, <2>4, <2>5, <2>6, <2>7 DEF Next, Scheduler
<1> QED BY <1>1, <1>2, PTL DEF Spec

(***************************************************************************)
(* What a decided record brought into the prior stays there while the      *)
(* prior grows; and a step of the store leaves a decided record decided.   *)
(***************************************************************************)
LEMMA CarriedLasts ==
  ASSUME NEW h, Carried(h), decided[h] \subseteq decided'[h],
         prior.seeds \subseteq prior'.seeds, prior.exclusions \subseteq prior'.exclusions
  PROVE  Carried(h)'
<1>1. PICK version \in decided[h] :
        IF version.status = "rejected"
          THEN \E e \in prior.exclusions : e.hyp = h /\ e.hash = Hash[version.method]
          ELSE \E s \in prior.seeds : s.hyp = h /\ s.method = version.method
  BY DEF Carried
<1>2. version \in decided'[h]
  OBVIOUS
<1>3. IF version.status = "rejected"
        THEN \E e \in prior'.exclusions : e.hyp = h /\ e.hash = Hash[version.method]
        ELSE \E s \in prior'.seeds : s.hyp = h /\ s.method = version.method
  BY <1>1
<1> QED BY <1>2, <1>3 DEF Carried

LEMMA StaysDecided ==
  ASSUME TypeOK, TakingTurns, [Next]_vars, NEW h \in DOMAIN content, Decided(h)
  PROVE  h \in DOMAIN content' /\ Decided(h)' /\ content'[h].status = content[h].status
<1>1. h \in DOMAIN content' /\ Reach(content[h].status, content'[h].status)
  BY CycleIsStoreStep, RecordsFollow DEF TypeOK, TakingTurns
<1>2. content'[h].status \in Status
  BY <1>1, CycleIsStoreStep, StoreStepTypes DEF TypeOK, StoreTypeOK, Record
<1> QED BY <1>1, <1>2, DecisionsAreFinal DEF Decided

LEMMA DecisionsTravelOn ==
  ASSUME ~CanCrash, TypeOK, TakingTurns, DecisionsTravel, [Next]_vars
  PROVE  DecisionsTravel'
<1> DEFINE Travels(h) ==
             /\ h \in DOMAIN content /\ Decided(h)
             /\ \A version \in decided[h] : version.status = content[h].status
             /\ pc = "prior" => content[h] \in decided[h]
             /\ options.inline = << >> => Carried(h) \/ (pc = "prior" /\ h \in toLoad)
<1>0. /\ pc \in {"idle", "loop"} => DOMAIN decided = {}
      /\ \A h \in DOMAIN decided : Travels(h)
      /\ Sched \in DOMAIN held => pc = "ingest"
  BY DEF DecisionsTravel
<1>1. ASSUME DOMAIN decided' = {}, Sched \notin DOMAIN held' PROVE DecisionsTravel'
  BY <1>1 DEF DecisionsTravel
<1>2. ASSUME UNCHANGED <<decided, prior, options>>,
             pc # "prior", pc' \notin {"idle", "loop", "prior"},
             Sched \in DOMAIN held' => pc' = "ingest"
      PROVE  DecisionsTravel'
  <2>1. ASSUME NEW h \in DOMAIN decided' PROVE Travels(h)'
    <3>1. Travels(h) /\ h \in DOMAIN content /\ Decided(h)
      BY <1>0, <1>2, <2>1
    <3>2. h \in DOMAIN content' /\ Decided(h)' /\ content'[h].status = content[h].status
      BY <3>1, StaysDecided
    <3>3. options.inline = << >> => Carried(h)'
      BY <1>2, <3>1, CarriedLasts
    <3> QED BY <1>2, <3>1, <3>2, <3>3
  <2> QED BY <1>2, <2>1 DEF DecisionsTravel
<1>3. CASE BeginIteration
  <2>1. CASE decided' = [h \in {g \in DOMAIN content : Decided(g)} |-> {content[h]}]
             /\ pc' = "prior"
    <3>1. ASSUME NEW h \in DOMAIN decided' PROVE Travels(h)'
      <4>1. /\ h \in DOMAIN content /\ Decided(h) /\ decided'[h] = {content[h]}
            /\ UNCHANGED <<content, options>> /\ h \in DOMAIN file
        BY <1>3, <2>1, <3>1 DEF BeginIteration, storeVars, TypeOK, StoreTypeOK
      <4>2. options.inline = << >> => h \in toLoad'
        BY <1>3, <2>1, <4>1 DEF BeginIteration, Stop
      <4> QED BY <2>1, <4>1, <4>2 DEF Decided
    <3>2. Sched \notin DOMAIN held'
      BY <1>0, <1>3 DEF BeginIteration, storeVars
    <3> QED BY <2>1, <3>1, <3>2 DEF DecisionsTravel
  <2> QED BY <1>0, <1>1, <1>3, <2>1 DEF BeginIteration, Stop, storeVars
<1>4. CASE LoadForPrior
  <2>1. /\ pc = "prior" /\ UNCHANGED <<content, options, held>>
        /\ Sched \notin DOMAIN held'
    BY <1>0, <1>4 DEF LoadForPrior, storeVars
  <2>2. ASSUME NEW h \in toLoad, Loads(h), prior' = WithRecord(prior, h, content[h]),
               toLoad' = toLoad \ {h}, UNCHANGED <<pc, decided>>
        PROVE  DecisionsTravel'
    <3>1. /\ prior.seeds \subseteq prior'.seeds /\ prior.exclusions \subseteq prior'.exclusions
          /\ content[h].status = "promoted" =>
               [hyp |-> h, method |-> content[h].method] \in prior'.seeds
          /\ content[h].status = "rejected" =>
               [hyp |-> h, hash |-> Hash[content[h].method]] \in prior'.exclusions
      <4>1. PICK S, E : prior = [seeds |-> S, exclusions |-> E]
        BY DEF TypeOK, CycleTypeOK, IsPrior
      <4> QED BY <2>2, <4>1 DEF WithRecord
    <3>2. ASSUME NEW g \in DOMAIN decided' PROVE Travels(g)'
      <4>1. Travels(g)
        BY <1>0, <2>2, <3>2
      <4>2. CASE g # h
        <5>1. options.inline = << >> => Carried(g)' \/ g \in toLoad'
          BY <2>2, <3>1, <4>1, <4>2, CarriedLasts
        <5> QED BY <2>1, <2>2, <4>1, <5>1 DEF Decided
      <4>3. CASE g = h
        <5>1. content[h] \in decided'[h] /\ content[h].status \in {"rejected", "promoted"}
          BY <2>1, <2>2, <4>1, <4>3 DEF Decided
        <5>2. IF content[h].status = "rejected"
                THEN \E e \in prior'.exclusions : e.hyp = h /\ e.hash = Hash[content[h].method]
                ELSE \E s \in prior'.seeds : s.hyp = h /\ s.method = content[h].method
          BY <3>1, <5>1
        <5>3. Carried(g)'
          BY <4>3, <5>1, <5>2 DEF Carried
        <5> QED BY <2>1, <2>2, <4>1, <5>3 DEF Decided
      <4> QED BY <4>2, <4>3
    <3> QED BY <2>1, <2>2, <3>2 DEF DecisionsTravel
  <2>3. CASE Stop("error", result)
    BY <1>1, <2>1, <2>3 DEF Stop
  <2> QED BY <1>4, <2>2, <2>3 DEF LoadForPrior
<1>5. CASE Export
  <2>1. /\ pc = "prior" /\ toLoad = {} /\ UNCHANGED <<content, options, held>>
        /\ Sched \notin DOMAIN held'
    BY <1>0, <1>5 DEF Export, storeVars
  <2>2. CASE pc' = "candidates" /\ UNCHANGED <<prior, decided>>
    <3>1. ASSUME NEW h \in DOMAIN decided' PROVE Travels(h)'
      <4>1. Travels(h)
        BY <1>0, <2>2, <3>1
      <4>2. options.inline = << >> => Carried(h)'
        BY <2>1, <2>2, <4>1, CarriedLasts
      <4> QED BY <2>1, <2>2, <4>1, <4>2 DEF Decided
    <3> QED BY <2>1, <2>2, <3>1 DEF DecisionsTravel
  <2> QED BY <1>1, <1>5, <2>1, <2>2 DEF Export, Stop
<1>6. ASSUME NEW p \in Procs \ {Sched}, Operator(p) PROVE DecisionsTravel'
  <2>1. /\ UNCHANGED <<pc, options, toLoad, prior>>
        /\ Sched \in DOMAIN held' => Sched \in DOMAIN held
    BY <1>6, CommandFollows DEF Operator, Truncate, Write, Crash, Release, Restrict, TypeOK,
                                Hold, Assign
  <2>2. /\ DOMAIN decided' = DOMAIN decided
        /\ \A h \in DOMAIN decided : decided[h] \subseteq decided'[h]
        /\ \A h \in DOMAIN decided : decided'[h] \subseteq decided[h] \cup {content'[h]}
        /\ \A h \in DOMAIN decided : content'[h] \in decided'[h] \/ content'[h] = content[h]
    BY <1>6, CommandFollows DEF Operator, Hold, TypeOK
  <2>3. ASSUME NEW h \in DOMAIN decided' PROVE Travels(h)'
    <3>1. Travels(h) /\ h \in DOMAIN decided /\ h \in DOMAIN content /\ Decided(h)
      BY <1>0, <2>2, <2>3
    <3>2. h \in DOMAIN content' /\ Decided(h)' /\ content'[h].status = content[h].status
      BY <3>1, StaysDecided
    <3>3. Carried(h) => Carried(h)'
      BY <2>1, <2>2, <3>1, CarriedLasts
    <3>4. \A version \in decided'[h] : version.status = content'[h].status
      BY <2>2, <3>1, <3>2
    <3>5. pc = "prior" => content'[h] \in decided'[h]
      BY <2>2, <3>1
    <3> QED BY <2>1, <3>1, <3>2, <3>3, <3>4, <3>5
  <2> QED BY <1>0, <2>1, <2>2, <2>3 DEF DecisionsTravel
<1>7. CASE StoreBatch \/ EndCycle
  BY <1>0, <1>2, <1>7 DEF StoreBatch, EndCycle, storeVars
<1>8. CASE IngestRow
  BY <1>2, <1>8 DEF IngestRow
<1>9. CASE SchedulerStore
  <2>1. Sched \in DOMAIN held
    BY <1>9 DEF SchedulerStore, Truncate, Write
  <2> QED BY <1>0, <1>2, <1>9, <2>1 DEF SchedulerStore, cycleVars
<1>10. CASE CheckPromoted
  BY <1>0, <1>1, <1>2, <1>10 DEF CheckPromoted, Stop, storeVars
<1>11. CASE NextIteration
  BY <1>0, <1>1, <1>11 DEF NextIteration, Stop, storeVars
<1>12. CASE StartRun
  BY <1>0, <1>1, <1>12 DEF StartRun, Stop, storeVars
<1>13. CASE UNCHANGED vars
  BY <1>13 DEF vars, cycleVars, storeVars, DecisionsTravel, Decided, Carried
<1> QED BY <1>3, <1>4, <1>5, <1>6, <1>7, <1>8, <1>9, <1>10, <1>11, <1>12, <1>13
        DEF Next, Scheduler, SchedulerCrash

(***************************************************************************)
(* The inductive invariant behind the two theorems about decisions.        *)
(***************************************************************************)
THEOREM DecisionsReachPrior ==
  ASSUME ~Overlap, ~CanCrash, SavedByTools
  PROVE  Spec => []DecisionsTravel
<1>1. ASSUME Init PROVE DecisionsTravel
  BY <1>1 DEF Init, StoreInit, CycleInit, DecisionsTravel
<1>2. ASSUME TypeOK, TakingTurns, DecisionsTravel, [Next]_vars PROVE DecisionsTravel'
  BY <1>2, DecisionsTravelOn
<1> QED BY <1>1, <1>2, TypeCorrect, TurnsFollow, PTL DEF Spec

(***************************************************************************)
(* A cycle that gets as far as an artifact has every record people had     *)
(* rejected among its exclusions and every promoted one among its seeds.   *)
(***************************************************************************)
THEOREM DecisionsCovered ==
  ASSUME ~Overlap, ~CanCrash, SavedByTools
  PROVE  Spec => []PriorCoversDecisions
<1>1. ASSUME DecisionsTravel, Exported, options.inline = << >>, NEW h \in DOMAIN decided,
             NEW version \in decided[h]
      PROVE  IF version.status = "rejected"
               THEN \E e \in prior.exclusions : e.hyp = h
               ELSE \E s \in prior.seeds : s.hyp = h
  <2>1. Carried(h) /\ \A v \in decided[h] : v.status = content[h].status
    BY <1>1 DEF DecisionsTravel, Exported
  <2> QED BY <2>1 DEF Carried
<1>2. DecisionsTravel => PriorCoversDecisions
  BY <1>1 DEF PriorCoversDecisions
<1> QED BY <1>2, DecisionsReachPrior, PTL

(***************************************************************************)
(* ... and its artifact goes by them: no expanded row has the params of a  *)
(* rejected record, and those of a promoted one are there unless k cut     *)
(* the batch short.                                                        *)
(***************************************************************************)
THEOREM DecisionsRespected ==
  ASSUME ~Overlap, ~CanCrash, SavedByTools
  PROVE  Spec => []BatchRespectsDecisions
<1>1. ASSUME TypeOK, RowsFromPrior, DecisionsTravel, Exported, options.inline = << >>,
             NEW h \in DOMAIN decided
      PROVE  \E version \in decided[h] :
               LET same == {i \in DOMAIN rows : Hash[rows[i].method] = Hash[version.method]}
               IN IF version.status = "rejected"
                    THEN \A i \in same : rows[i].cid[1] = "prior-seed"
                    ELSE same # {} \/ Len(rows) = K
  <2>1. PICK version \in decided[h] :
          IF version.status = "rejected"
            THEN \E e \in prior.exclusions : e.hyp = h /\ e.hash = Hash[version.method]
            ELSE \E s \in prior.seeds : s.hyp = h /\ s.method = version.method
    BY <1>1 DEF DecisionsTravel, Exported, Carried
  <2> DEFINE same == {i \in DOMAIN rows : Hash[rows[i].method] = Hash[version.method]}
  <2>2. IsPrior(prior) /\ rows = Ranked(Merged(prior))
    BY <1>1 DEF TypeOK, CycleTypeOK, RowsFromPrior
  <2>3. /\ \A i \in DOMAIN rows : rows[i] \in Merged(prior)
        /\ Len(rows) # K => \A c \in Merged(prior) : \E i \in DOMAIN rows : rows[i] = c
    BY <2>2, ExportedRows
  <2>4. CASE version.status = "rejected"
    <3>1. ASSUME NEW i \in same PROVE rows[i].cid[1] = "prior-seed"
      <4>1. Excluded(prior, rows[i].method)
        BY <2>1, <2>4, <3>1 DEF Excluded
      <4> QED BY <2>2, <2>3, <3>1, <4>1, MergedCandidates
    <3> QED BY <2>4, <3>1
  <2>5. CASE version.status # "rejected"
    <3>1. \E c \in Merged(prior) : Hash[c.method] = Hash[version.method]
      BY <2>1, <2>2, <2>5, MergedCandidates
    <3>2. same # {} \/ Len(rows) = K
      BY <2>3, <3>1
    <3> QED BY <2>5, <3>2
  <2> QED BY <2>4, <2>5
<1>2. TypeOK /\ RowsFromPrior /\ DecisionsTravel => BatchRespectsDecisions
  BY <1>1 DEF BatchRespectsDecisions
<1> QED BY <1>2, TypeCorrect, RowsAreRanked, DecisionsReachPrior, PTL

-----------------------------------------------------------------------------
(***************************************************************************)
(* The account of a run.  What it counts stays on disk: files are never    *)
(* removed, and the batch of an iteration is none of the earlier ones.     *)
(***************************************************************************)
LEMMA CountedBatches ==
  ASSUME InAccount
  PROVE  /\ result.batches \in Seq({result.batches[i] : i \in DOMAIN result.batches})
         /\ Len(result.batches) \in Nat
         /\ DOMAIN result.batches = 1 .. Len(result.batches)
<1>1. result.batches \in Seq({result.batches[i] : i \in DOMAIN result.batches})
  BY DEF InAccount
<1>2. \A S : \A s \in Seq(S) : Len(s) \in Nat /\ DOMAIN s = 1 .. Len(s)
  OBVIOUS
<1> QED BY <1>1, <1>2, Zenon

LEMMA RecordedStays ==
  ASSUME TypeOK, [Next]_vars, NEW b, Recorded(b), UNCHANGED batch \/ b # bid
  PROVE  Recorded(b)' /\ batch'[b] = batch[b]
<1>1. \A h : Exists(h) => Exists(h)'
  BY CycleIsStoreStep, StoreStepTypes DEF Exists, TypeOK
<1>2. b \in DOMAIN batch' /\ batch'[b] = batch[b]
  BY BatchOnlyByStore DEF StoreBatch, Assign, Recorded
<1> QED BY <1>1, <1>2 DEF Recorded

LEMMA OtherIds ==
  ASSUME TypeOK, InAccount, pc # "idle", NEW i \in DOMAIN result.batches,
         pc \notin {"check", "next"}
  PROVE  result.batches[i] # bid
<1>1. Counted
  BY DEF InAccount
<1>2. PICK l \in Nat : l = Len(result.batches)
  BY CountedBatches
<1>3. i \in 1 .. l /\ l = iter /\ iter \in Nat /\ options.utc \in Nat
  <2>1. options.limit \in Nat /\ iter \in 0 .. options.limit - 1 /\ options.utc \in Nat
    BY CycleAssumption DEF TypeOK, CycleTypeOK
  <2> QED BY <1>1, <1>2, <2>1, CountedBatches DEF Counted
<1>4. result.batches[i].utc = options.utc + i - 1 /\ bid.utc = options.utc + iter
  BY <1>1 DEF Counted, BatchId, bid
<1> QED BY <1>3, <1>4

LEMMA CountedStays ==
  ASSUME TypeOK, InAccount, [Next]_vars, pc # "idle" \/ Reported,
         NEW made, made = result.batches, ReportMatchesDisk
  PROVE  /\ \A i \in DOMAIN made : Recorded(made[i])'
         /\ Ingested(made)' = Ingested(made)
<1>1. ASSUME NEW i \in DOMAIN made PROVE Recorded(made[i]) /\ (UNCHANGED batch \/ made[i] # bid)
  <2>1. Recorded(made[i])
    BY <1>1 DEF InAccount, Counted, ReportMatchesDisk, ToSet
  <2>2. CASE pc \notin {"idle", "check", "next"}
    BY <1>1, <2>1, <2>2, OtherIds
  <2>3. CASE pc \in {"idle", "check", "next"}
    BY <2>1, <2>3, BatchOnlyByStore DEF StoreBatch
  <2> QED BY <2>2, <2>3
<1>2. \A i \in DOMAIN made : Recorded(made[i])' /\ batch'[made[i]] = batch[made[i]]
  BY <1>1, RecordedStays
<1> QED BY <1>2 DEF Ingested

(***************************************************************************)
(* A run leaves the loop with its account in order.                        *)
(***************************************************************************)
LEMMA StopReports ==
  ASSUME TypeOK, InAccount, ReportMatchesDisk, [Next]_vars, pc # "idle", UNCHANGED <<options, batch>>,
         NEW reason, NEW res, Stop(reason, res), DOMAIN res = DOMAIN NewResult,
         res.batches = result.batches, res.written = result.written,
         \/ reason \in {"error", "crashed"}
         \/ /\ res.iterations = Len(res.batches) + (IF reason = "no_new_candidates" THEN 1 ELSE 0)
            /\ reason = "completed_iterations" => res.iterations = options.limit
  PROVE  InAccount' /\ ReportMatchesDisk'
<1>1. PICK made : made = result.batches
  OBVIOUS
<1>2. /\ pc' = "idle" /\ next' = 1 /\ result'.batches = made /\ result'.stop = reason
      /\ result'.iterations = res.iterations /\ result'.written = result.written
  BY <1>1 DEF Stop, NewResult
<1>3. /\ \A i \in DOMAIN made : Recorded(made[i])'
      /\ Ingested(made)' = Ingested(made)
  BY <1>1, CountedStays
<1>4. made \in Seq({made[i] : i \in DOMAIN made}) /\ result.written = Cardinality(Ingested(made))
  BY <1>1 DEF InAccount, Counted
<1>5. InAccount'
  BY <1>1, <1>2, <1>4 DEF InAccount
<1>6. /\ Cardinality(Ingested(made)') = result'.written
      /\ \A b \in ToSet(made) : Recorded(b)'
  BY <1>2, <1>3, <1>4, Zenon DEF ToSet
<1>7. Ingested(result.batches)' = Ingested(made)'
  BY <1>2 DEF Ingested
<1>8. ReportMatchesDisk'
  BY <1>1, <1>2, <1>6, <1>7 DEF ReportMatchesDisk, Reported
<1> QED BY <1>5, <1>8

LEMMA StillCounted ==
  ASSUME TypeOK, InAccount, ReportMatchesDisk, [Next]_vars, pc # "idle",
         UNCHANGED <<options, result>>,
         (IF pc' \in {"check", "next"} THEN iter' + 1 ELSE iter')
           = (IF pc \in {"check", "next"} THEN iter + 1 ELSE iter)
  PROVE  /\ Counted'
         /\ (result.batches \in Seq({result.batches[i] : i \in DOMAIN result.batches}))'
<1>1. PICK made : made = result.batches
  OBVIOUS
<1>2. /\ \A i \in DOMAIN made : Recorded(made[i])'
      /\ Ingested(made)' = Ingested(made)
  BY <1>1, CountedStays
<1>3. result'.batches = made /\ UNCHANGED <<result, options>>
  BY <1>1
<1>4. Ingested(result.batches)' = Ingested(made)' /\ Ingested(result.batches) = Ingested(made)
  BY <1>1, <1>3 DEF Ingested
<1> QED BY <1>1, <1>2, <1>3, <1>4 DEF InAccount, Counted

LEMMA StillReported ==
  ASSUME TypeOK, InAccount, ReportMatchesDisk, [Next]_vars, UNCHANGED <<pc, options, result>>
  PROVE  ReportMatchesDisk'
<1> SUFFICES ASSUME Reported PROVE ReportMatchesDisk'
  BY DEF ReportMatchesDisk, Reported
<1>1. PICK made : made = result.batches
  OBVIOUS
<1>2. /\ \A i \in DOMAIN made : Recorded(made[i])'
      /\ Ingested(made)' = Ingested(made)
  BY <1>1, CountedStays
<1>3. result'.batches = made /\ UNCHANGED <<result, options>>
  BY <1>1
<1>4. Ingested(result.batches)' = Ingested(made)' /\ Ingested(result.batches) = Ingested(made)
  BY <1>1, <1>3 DEF Ingested
<1>5. \A b \in ToSet(made) : Recorded(b)'
  BY <1>2 DEF ToSet
<1> QED BY <1>1, <1>3, <1>2, <1>4, <1>5 DEF ReportMatchesDisk, Reported

(***************************************************************************)
(* A batch that is added to the account adds as many rows as it has.       *)
(***************************************************************************)
LEMMA OneBatchMore ==
  ASSUME NEW S, NEW made \in Seq(S), NEW b, NEW k \in Nat, DOMAIN batch[b].rows = 1 .. k,
         IsFiniteSet(Ingested(made))
  PROVE  /\ IsFiniteSet(Ingested(Append(made, b)))
         /\ Cardinality(Ingested(Append(made, b))) = Cardinality(Ingested(made)) + k
<1>1. PICK n \in Nat : n = Len(made)
  OBVIOUS
<1> DEFINE more == {n + 1} \X (1 .. k)
           old == Ingested(made)
<1>2. Ingested(Append(made, b)) = old \cup more
  <2>1. /\ DOMAIN made = 1 .. n /\ DOMAIN Append(made, b) = 1 .. (n + 1)
        /\ \A i \in 1 .. n : Append(made, b)[i] = made[i]
        /\ Append(made, b)[n + 1] = b
    BY <1>1
  <2>2. 1 .. (n + 1) = (1 .. n) \cup {n + 1}
    BY <1>1
  <2> DEFINE of(i) == {i} \X DOMAIN batch[made[i]].rows
             all(i) == {i} \X DOMAIN batch[Append(made, b)[i]].rows
  <2>3. old = UNION {of(i) : i \in 1 .. n}
    BY <2>1 DEF Ingested
  <2>4. Ingested(Append(made, b)) = UNION {all(i) : i \in 1 .. (n + 1)}
    BY <2>1, Zenon DEF Ingested
  <2>5. all(n + 1) = more /\ \A i \in 1 .. n : all(i) = of(i)
    BY <2>1
  <2> HIDE DEF old, more, of, all
  <2>6. UNION {all(i) : i \in 1 .. (n + 1)} = (UNION {of(i) : i \in 1 .. n}) \cup more
    BY <2>2, <2>5
  <2> QED BY <2>3, <2>4, <2>6, Zenon
<1>3. old \cap more = {}
  <2>1. ASSUME NEW x \in old, x \in more PROVE FALSE
    <3>1. PICK i \in 1 .. n : x \in {i} \X DOMAIN batch[made[i]].rows
      BY <1>1, <2>1 DEF Ingested
    <3>2. x[1] = i /\ x[1] = n + 1
      BY <2>1, <3>1
    <3> QED BY <3>2
  <2> QED BY <2>1
<1>4. IsFiniteSet(1 .. k) /\ Cardinality(1 .. k) = k
  BY FS_Interval
<1>5. IsFiniteSet({n + 1}) /\ Cardinality({n + 1}) = 1
  BY FS_Singleton
<1>6. IsFiniteSet(more) /\ Cardinality(more) = k
  BY <1>4, <1>5, FS_Product
<1>7. Cardinality(old) \in Nat
  BY FS_CardinalityType
<1> HIDE DEF more, old
<1>8. /\ IsFiniteSet(old \cup more)
      /\ Cardinality(old \cup more) = Cardinality(old) + Cardinality(more) - Cardinality(old \cap more)
  BY <1>6, FS_Union DEF old
<1>9. Cardinality(old \cap more) = 0
  BY <1>3, FS_EmptySet
<1> QED BY <1>2, <1>6, <1>7, <1>8, <1>9 DEF old

LEMMA EndCycleCounts ==
  ASSUME TypeOK, RowsFromPrior, InAccount, EndCycle
  PROVE  InAccount'
<1>1. PICK made : made = result.batches
  OBVIOUS
<1>2. PICK l \in Nat : l = Len(made)
  BY <1>1, CountedBatches
<1>3. /\ made \in Seq({made[i] : i \in DOMAIN made})
      /\ result.stop = "none" /\ l = iter /\ iter \in Nat
      /\ IsFiniteSet(Ingested(made)) /\ result.written = Cardinality(Ingested(made))
      /\ \A i \in DOMAIN made : made[i].utc = options.utc + i - 1 /\ Recorded(made[i])
  BY <1>1, <1>2, CycleAssumption DEF InAccount, Counted, EndCycle, TypeOK, CycleTypeOK
<1>4. PICK b : b = bid
  OBVIOUS
<1>5. /\ UNCHANGED <<options, iter, prior, rows, next, batch, file>> /\ pc' \in {"check", "next"}
      /\ DOMAIN result' = DOMAIN result /\ result'.stop = "none"
      /\ result'.iterations = iter + 1 /\ result'.batches = Append(made, b)
      /\ result'.written = Cardinality(Ingested(made)) + Len(rows)
  BY <1>1, <1>3, <1>4 DEF EndCycle, TypeOK, CycleTypeOK, NewResult, storeVars
<1>6. PICK k \in Nat : k = Len(rows) /\ DOMAIN rows = 1 .. k
  BY ExportedRows DEF RowsFromPrior, Exported, EndCycle, TypeOK, CycleTypeOK
<1>7. Recorded(b) /\ batch[b].rows = rows
  <2>1. /\ b \in DOMAIN batch /\ batch[b].rows = rows /\ batch[b].candidates = "whole"
        /\ batch[b].manifest = "whole"
    BY <1>4 DEF EndCycle, InAccount
  <2>2. \A i \in 1 .. next - 1 : Exists(HypothesisId(b, rows[i].cid))
    BY <1>4 DEF EndCycle, InAccount, Ingesting
  <2>3. \A i \in 1 .. k : i \in 1 .. next - 1
    BY <1>6 DEF EndCycle, TypeOK, CycleTypeOK
  <2> QED BY <1>6, <2>1, <2>2, <2>3 DEF Recorded
<1>8. /\ IsFiniteSet(Ingested(Append(made, b)))
      /\ Cardinality(Ingested(Append(made, b))) = Cardinality(Ingested(made)) + k
  BY <1>3, <1>6, <1>7, OneBatchMore
<1>9. Ingested(result.batches)' = Ingested(Append(made, b))
  BY <1>5 DEF Ingested
<1>10. \A c : Recorded(c) => Recorded(c)'
  BY <1>5 DEF Recorded, Exists
<1>11. /\ Len(Append(made, b)) = iter + 1 /\ DOMAIN Append(made, b) = 1 .. l + 1
       /\ \A i \in 1 .. l : Append(made, b)[i] = made[i]
       /\ Append(made, b)[l + 1] = b /\ DOMAIN made = 1 .. l
       /\ Append(made, b) \in Seq({Append(made, b)[i] : i \in DOMAIN Append(made, b)})
  <2>1. made \in Seq({made[i] : i \in DOMAIN made} \cup {b})
    BY <1>3
  <2> DEFINE T == {made[i] : i \in DOMAIN made} \cup {b}
             more == Append(made, b)
  <2>2. /\ more \in Seq(T) /\ Len(more) = l + 1 /\ DOMAIN more = 1 .. l + 1
        /\ \A i \in 1 .. l : more[i] = made[i]
        /\ more[l + 1] = b /\ DOMAIN made = 1 .. l
    BY <1>2, <2>1
  <2> HIDE DEF T, more
  <2>3. more \in Seq({more[i] : i \in DOMAIN more})
    BY <2>2
  <2>4. l = iter
    BY <1>3
  <2> QED BY <2>2, <2>3, <2>4 DEF more
<1>12. ASSUME NEW i \in 1 .. l + 1
       PROVE  Append(made, b)[i].utc = options.utc + i - 1 /\ Recorded(Append(made, b)[i])
  <2>1. b.utc = options.utc + iter /\ options.utc \in Nat
    BY <1>4, CycleAssumption DEF bid, BatchId, TypeOK, CycleTypeOK
  <2>2. CASE i \in 1 .. l
    BY <1>3, <1>11, <2>2
  <2>3. CASE i = l + 1
    BY <1>3, <1>7, <1>11, <2>1, <2>3
  <2>4. i \in 1 .. l \/ i = l + 1
    OBVIOUS
  <2> QED BY <2>2, <2>3, <2>4
<1>13. (result.batches \in Seq({result.batches[i] : i \in DOMAIN result.batches}))'
  BY <1>5, <1>11
<1>14. Counted'
  BY <1>3, <1>5, <1>6, <1>8, <1>9, <1>10, <1>11, <1>12 DEF Counted
<1> QED BY <1>5, <1>13, <1>14 DEF InAccount

(***************************************************************************)
(* An iteration stores its batch and ingests its rows: a row that has gone *)
(* by is on disk or on its way there.                                      *)
(***************************************************************************)
LEMMA StoreBatchCounts ==
  ASSUME TypeOK, InAccount, ReportMatchesDisk, StoreBatch
  PROVE  InAccount'
<1>1. [Next]_vars
  BY DEF Next, Scheduler
<1>2. /\ UNCHANGED <<options, iter, prior, rows, next, result, held, file>> /\ bid' = bid
      /\ pc \in {"candidates", "candidates open", "manifest", "manifest open"}
      /\ pc' \in {"candidates open", "manifest", "manifest open", "ingest"}
  BY DEF StoreBatch, storeVars, bid
<1>3. /\ Counted'
      /\ (result.batches \in Seq({result.batches[i] : i \in DOMAIN result.batches}))'
  BY <1>1, <1>2, StillCounted
<1>4. /\ \A b \in DOMAIN batch' : DOMAIN batch'[b] = {"candidates", "manifest", "rows"}
      /\ bid \in DOMAIN batch'
  BY DEF StoreBatch, Assign, InAccount
<1>5. CASE pc = "candidates"
  BY <1>2, <1>3, <1>4, <1>5 DEF StoreBatch, InAccount
<1>6. CASE pc = "candidates open"
  <2>1. batch'[bid].rows = rows /\ batch'[bid].candidates = "whole" /\ pc' = "manifest"
    BY <1>6 DEF StoreBatch, Assign, InAccount
  <2> QED BY <1>2, <1>3, <1>4, <2>1, <1>6 DEF InAccount
<1>7. CASE pc = "manifest"
  <2>1. batch'[bid].rows = rows /\ batch'[bid].candidates = "whole" /\ pc' = "manifest open"
    BY <1>7 DEF StoreBatch, Assign, InAccount
  <2> QED BY <1>2, <1>3, <1>4, <2>1, <1>7 DEF InAccount
<1>8. CASE pc = "manifest open"
  <2>1. /\ batch'[bid].rows = rows /\ batch'[bid].candidates = "whole" /\ pc' = "ingest"
        /\ batch'[bid].manifest = "whole"
    BY <1>8 DEF StoreBatch, Assign, InAccount
  <2>2. next' = 1
    BY <1>2, <1>8 DEF InAccount
  <2>3. 1 .. next' - 1 = {}
    BY <2>2
  <2> QED BY <1>2, <1>3, <1>4, <2>1, <2>2, <2>3, <1>8 DEF InAccount
<1> QED BY <1>2, <1>5, <1>6, <1>7, <1>8

LEMMA IngestCounts ==
  ASSUME TypeOK, InAccount, ReportMatchesDisk, IngestRow
  PROVE  InAccount'
<1>1. [Next]_vars
  BY DEF Next, Scheduler
<1>2. /\ UNCHANGED <<pc, options, iter, prior, rows, result, batch, file>> /\ bid' = bid
      /\ pc = "ingest" /\ next' = next + 1 /\ next \in Nat
      /\ Sched \notin DOMAIN held /\ Sched \in DOMAIN held' /\ held'[Sched].hyp = Ingesting(next)
  BY DEF IngestRow, Hold, Assign, bid, Ingesting, TypeOK, CycleTypeOK
<1>3. /\ Counted'
      /\ (result.batches \in Seq({result.batches[i] : i \in DOMAIN result.batches}))'
  BY <1>1, <1>2, StillCounted
<1>4. \A i : Ingesting(i)' = Ingesting(i) /\ (Exists(Ingesting(i)) => Exists(Ingesting(i))')
  BY <1>2 DEF Ingesting, Exists
<1>5. \A i \in 1 .. next - 1 : Exists(Ingesting(i))
  BY <1>2 DEF InAccount
<1>6. \A i \in 1 .. next' - 1 : i \in 1 .. next - 1 \/ i = next
  BY <1>2
<1> QED BY <1>2, <1>3, <1>4, <1>5, <1>6 DEF InAccount

LEMMA HeldRowStored ==
  ASSUME TypeOK, [Next]_vars, pc = "ingest", pc' = "ingest", ~IngestRow, NEW h,
         Exists(h) \/ (Sched \in DOMAIN held /\ held[Sched].hyp = h)
  PROVE  Exists(h)' \/ (Sched \in DOMAIN held' /\ held'[Sched].hyp = h)
<1>1. Exists(h) => Exists(h)'
  BY CycleIsStoreStep, StoreStepTypes DEF Exists, TypeOK
<1> SUFFICES ASSUME Sched \in DOMAIN held, held[Sched].hyp = h
             PROVE  Exists(h)' \/ (Sched \in DOMAIN held' /\ held'[Sched].hyp = h)
  BY <1>1
<1>2. CASE UNCHANGED held
  BY <1>2
<1>3. CASE Write(Sched)
  BY <1>3 DEF Write, Assign, Exists
<1>4. CASE Truncate(Sched)
  BY <1>4 DEF Truncate, TypeOK, StoreTypeOK
<1>5. ASSUME NEW p \in Procs \ {Sched}, Operator(p)
      PROVE  Sched \in DOMAIN held' /\ held'[Sched].hyp = h
  <2>1. ASSUME NEW g, Command(p, g) PROVE Sched \in DOMAIN held' /\ held'[Sched].hyp = h
    <3>1. PICK rec \in Record : Hold(p, g, rec)
      BY <2>1, CommandFollows DEF TypeOK
    <3> QED BY <3>1 DEF Hold, Assign
  <2>2. ASSUME held' = Release(p) PROVE Sched \in DOMAIN held' /\ held'[Sched].hyp = h
    BY <2>2 DEF Release, Restrict
  <2>3. ASSUME Truncate(p) PROVE Sched \in DOMAIN held' /\ held'[Sched].hyp = h
    BY <2>3 DEF Truncate
  <2> QED BY <1>5, <2>1, <2>2, <2>3 DEF Operator, Write, Crash
<1> QED
  BY <1>2, <1>3, <1>4, <1>5
  DEF Next, Scheduler, SchedulerStore, StartRun, BeginIteration, LoadForPrior, Export, StoreBatch,
      EndCycle, CheckPromoted, NextIteration, SchedulerCrash, Stop, storeVars, vars

LEMMA IdleCounts ==
  ASSUME TypeOK, InAccount, StartRun
  PROVE  InAccount' /\ ReportMatchesDisk'
<1>1. /\ << >> \in Seq({<< >>[i] : i \in DOMAIN << >>}) /\ Len(<< >>) = 0 /\ DOMAIN << >> = {}
      /\ ToSet(<< >>) = {}
  BY DEF ToSet
<1>2. Ingested(<< >>)' = {} /\ IsFiniteSet({}) /\ Cardinality({}) = 0
  BY <1>1, FS_EmptySet DEF Ingested
<1>3. /\ result'.batches = << >> /\ result'.iterations = 0 /\ result'.written = 0
      /\ pc' \in {"loop", "idle"} /\ next' = 1 /\ UNCHANGED batch /\ iter' = 0
      /\ pc' = "loop" => result'.stop = "none"
      /\ pc' = "idle" => result'.stop = "wall_budget"
  BY DEF StartRun, Stop, NewResult, InAccount
<1>4. Ingested(result.batches)' = Ingested(<< >>)'
  BY <1>3 DEF Ingested
<1>5. (result.batches \in Seq({result.batches[i] : i \in DOMAIN result.batches}))'
  BY <1>1, <1>3
<1>6. pc' # "idle" => Counted'
  BY <1>1, <1>2, <1>3, <1>4 DEF Counted
<1>7. InAccount'
  BY <1>3, <1>5, <1>6 DEF InAccount
<1>8. ReportMatchesDisk'
  <2> SUFFICES ASSUME pc' = "idle" PROVE ReportMatchesDisk'
    BY DEF ReportMatchesDisk, Reported
  <2>1. result'.stop = "wall_budget" /\ Len(result'.batches) = 0 /\ ToSet(result'.batches) = {}
    BY <1>1, <1>3
  <2>2. Cardinality(Ingested(result.batches)') = 0
    BY <1>2, <1>4
  <2> QED BY <1>3, <2>1, <2>2 DEF ReportMatchesDisk
<1> QED BY <1>7, <1>8

LEMMA MoveCounts ==
  ASSUME TypeOK, InAccount, ReportMatchesDisk, [Next]_vars, pc # "idle",
         UNCHANGED <<options, result, batch>>,
         pc' \notin {"idle", "manifest", "manifest open", "ingest"},
         pc' \notin {"check", "next"} => next' = 1,
         (IF pc' \in {"check", "next"} THEN iter' + 1 ELSE iter')
           = (IF pc \in {"check", "next"} THEN iter + 1 ELSE iter)
  PROVE  InAccount' /\ ReportMatchesDisk'
<1>1. /\ Counted'
      /\ (result.batches \in Seq({result.batches[i] : i \in DOMAIN result.batches}))'
  BY StillCounted
<1> QED BY <1>1 DEF InAccount, ReportMatchesDisk, Reported

LEMMA QuietCounts ==
  ASSUME TypeOK, InAccount, ReportMatchesDisk, [Next]_vars,
         UNCHANGED <<pc, options, iter, prior, rows, next, batch, result>>
  PROVE  InAccount' /\ ReportMatchesDisk'
<1>1. ReportMatchesDisk'
  BY StillReported
<1>2. (result.batches \in Seq({result.batches[i] : i \in DOMAIN result.batches}))'
  BY DEF InAccount
<1>3. pc # "idle" => Counted'
  BY StillCounted
<1>4. \A i : Ingesting(i)' = Ingesting(i) /\ bid' = bid
  BY DEF Ingesting, bid
<1>5. ~IngestRow
  BY DEF IngestRow, TypeOK, CycleTypeOK
<1>6. ASSUME pc = "ingest", NEW i \in 1 .. next - 1
      PROVE  Exists(Ingesting(i))' \/ (Sched \in DOMAIN held' /\ held'[Sched].hyp = Ingesting(i))
  <2>1. PICK h : h = Ingesting(i)
    OBVIOUS
  <2>2. Exists(h) \/ (Sched \in DOMAIN held /\ held[Sched].hyp = h)
    BY <1>6, <2>1 DEF InAccount
  <2>3. Exists(h)' \/ (Sched \in DOMAIN held' /\ held'[Sched].hyp = h)
    BY <1>5, <1>6, <2>2, HeldRowStored
  <2>4. Exists(Ingesting(i))' = Exists(h)'
    BY <1>4, <2>1 DEF Exists
  <2> QED BY <2>1, <2>3, <2>4
<1>7. InAccount'
  BY <1>2, <1>3, <1>4, <1>6 DEF InAccount
<1> QED BY <1>1, <1>7

LEMMA StepCounts ==
  ASSUME TypeOK, RowsFromPrior, InAccount, ReportMatchesDisk, [Next]_vars
  PROVE  InAccount' /\ ReportMatchesDisk'
<1>0. /\ DOMAIN result = DOMAIN NewResult /\ iter \in Nat
      /\ result.batches \in Seq({result.batches[i] : i \in DOMAIN result.batches})
      /\ Len(result.batches) \in Nat
      /\ pc # "idle" => /\ result.iterations = Len(result.batches)
                        /\ Len(result.batches) = IF pc \in {"check", "next"} THEN iter + 1 ELSE iter
  <2>1. options.limit \in Nat /\ iter \in 0 .. options.limit - 1 /\ DOMAIN result = DOMAIN NewResult
    BY CycleAssumption DEF TypeOK, CycleTypeOK
  <2>2. pc # "idle" => Counted
    BY DEF InAccount
  <2> QED BY <2>1, <2>2, CountedBatches DEF Counted
<1>1. ASSUME NEW reason \in {"wall_budget", "error", "success_promoted", "success_validate"},
             Stop(reason, result), pc # "idle", UNCHANGED <<options, batch>>
      PROVE  InAccount' /\ ReportMatchesDisk'
  <2>1. reason # "completed_iterations" /\ reason # "no_new_candidates"
    OBVIOUS
  <2>2. result.iterations = Len(result.batches) /\ Len(result.batches) + 0 = Len(result.batches)
    BY <1>0, <1>1
  <2>3. result.iterations
          = Len(result.batches) + (IF reason = "no_new_candidates" THEN 1 ELSE 0)
    BY <2>1, <2>2
  <2> QED BY <1>0, <1>1, <2>1, <2>3, StopReports
<1>2. CASE StartRun
  BY <1>2, IdleCounts
<1>3. CASE BeginIteration
  <2>1. CASE Stop("wall_budget", result)
    BY <1>1, <1>3, <2>1 DEF BeginIteration
  <2>2. CASE pc' = "prior" /\ UNCHANGED <<next, result>>
    <3>1. next' = 1
      BY <1>3, <2>2 DEF BeginIteration, InAccount
    <3> QED BY <1>3, <2>2, <3>1, MoveCounts DEF BeginIteration
  <2> QED BY <1>3, <2>1, <2>2 DEF BeginIteration
<1>4. CASE LoadForPrior
  <2>1. CASE Stop("error", result)
    BY <1>1, <1>4, <2>1 DEF LoadForPrior
  <2>2. CASE UNCHANGED <<pc, next, result>>
    <3>1. next' = 1
      BY <1>4, <2>2 DEF LoadForPrior, InAccount
    <3> QED BY <1>4, <2>2, <3>1, MoveCounts DEF LoadForPrior
  <2> QED BY <1>4, <2>1, <2>2 DEF LoadForPrior
<1>5. CASE Export
  <2>1. CASE Stop("no_new_candidates", [result EXCEPT !.iterations = iter + 1])
    <3> DEFINE res == [result EXCEPT !.iterations = iter + 1]
    <3>1. /\ DOMAIN res = DOMAIN NewResult /\ res.batches = result.batches
          /\ res.written = result.written /\ res.iterations = Len(res.batches) + 1
      BY <1>0, <1>5 DEF Export, NewResult
    <3> HIDE DEF res
    <3>2. Stop("no_new_candidates", res) /\ pc # "idle" /\ UNCHANGED <<options, batch>>
      BY <1>5, <2>1 DEF Export, res
    <3> QED BY <3>1, <3>2, StopReports
  <2>2. CASE Stop("error", result)
    BY <1>1, <1>5, <2>2 DEF Export
  <2>3. CASE pc' = "candidates" /\ UNCHANGED <<next, result>>
    <3>1. next' = 1
      BY <1>5, <2>3 DEF Export, InAccount
    <3> QED BY <1>5, <2>3, <3>1, MoveCounts DEF Export
  <2> QED BY <1>5, <2>1, <2>2, <2>3 DEF Export
<1>6. CASE StoreBatch
  BY <1>6, StoreBatchCounts DEF StoreBatch, ReportMatchesDisk, Reported
<1>7. CASE IngestRow
  BY <1>7, IngestCounts DEF IngestRow, ReportMatchesDisk, Reported
<1>8. CASE EndCycle
  BY <1>8, EndCycleCounts DEF EndCycle, ReportMatchesDisk, Reported
<1>9. CASE CheckPromoted
  <2>1. CASE Stop("error", result) \/ Stop("success_promoted", result)
    BY <1>1, <1>9, <2>1 DEF CheckPromoted
  <2>2. CASE pc' \in {"check", "next"} /\ UNCHANGED result
    BY <1>9, <2>2, MoveCounts DEF CheckPromoted
  <2> QED BY <1>9, <2>1, <2>2 DEF CheckPromoted
<1>10. CASE NextIteration
  <2>1. CASE Stop("success_validate", result) \/ Stop("wall_budget", result)
    BY <1>1, <1>10, <2>1 DEF NextIteration
  <2>2. CASE iter + 1 = options.limit /\ Stop("completed_iterations", result)
    <3>1. /\ pc # "idle" /\ UNCHANGED <<options, batch>>
          /\ result.iterations = Len(result.batches) /\ result.iterations = options.limit
      BY <1>0, <1>10, <2>2 DEF NextIteration
    <3>2. result.iterations
            = Len(result.batches) + (IF "completed_iterations" = "no_new_candidates" THEN 1 ELSE 0)
      BY <1>0, <3>1
    <3> QED BY <1>0, <2>2, <3>1, <3>2, StopReports
  <2>3. CASE iter' = iter + 1 /\ pc' = "loop" /\ next' = 1 /\ UNCHANGED result
    BY <1>0, <1>10, <2>3, MoveCounts DEF NextIteration
  <2> QED BY <1>10, <2>1, <2>2, <2>3 DEF NextIteration
<1>11. CASE SchedulerCrash
  <2>1. /\ result'.batches = << >> /\ result'.stop = "crashed" /\ pc' = "idle" /\ next' = 1
        /\ UNCHANGED batch
    BY <1>11 DEF SchedulerCrash, Stop, NewResult
  <2>2. << >> \in Seq({<< >>[i] : i \in DOMAIN << >>})
    OBVIOUS
  <2>3. (result.batches \in Seq({result.batches[i] : i \in DOMAIN result.batches}))'
    BY <2>1, <2>2
  <2>4. InAccount'
    BY <2>1, <2>3 DEF InAccount
  <2> QED BY <2>1, <2>4 DEF ReportMatchesDisk, Reported
<1>12. CASE SchedulerStore \/ (\E p \in Procs \ {Sched} : Operator(p)) \/ UNCHANGED vars
  <2>1. UNCHANGED <<pc, options, iter, prior, rows, next, batch, result>>
    BY <1>12 DEF SchedulerStore, Operator, cycleVars, vars
  <2> QED BY <2>1, QuietCounts
<1> QED BY <1>2, <1>3, <1>4, <1>5, <1>6, <1>7, <1>8, <1>9, <1>10, <1>11, <1>12
        DEF Next, Scheduler

(***************************************************************************)
(* What a finished run reports is on disk, whatever overlaps and whoever   *)
(* dies: its batches are whole, every row is a hypothesis, and the number  *)
(* of rows written is that of all its batches together.                    *)
(***************************************************************************)
THEOREM ReportIsTrue == Spec => []ReportMatchesDisk
<1>1. ASSUME Init PROVE InAccount /\ ReportMatchesDisk
  <2>1. << >> \in Seq({<< >>[i] : i \in DOMAIN << >>})
    OBVIOUS
  <2> QED BY <1>1, <2>1 DEF Init, CycleInit, InAccount, ReportMatchesDisk, Reported, NewResult
<1> QED BY <1>1, StepCounts, TypeCorrect, RowsAreRanked, PTL DEF Spec
=============================================================================
