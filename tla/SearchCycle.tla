---------------------------- MODULE SearchCycle ----------------------------
(***************************************************************************)
(* SearchScheduler::run_loop over one workspace.  An iteration scans the   *)
(* hypothesis records into a SearchPrior, exports the ranked candidates of *)
(* the job, writes them as a batch artifact and has HypothesisBridge make  *)
(* one record of each, while people and agents go on editing records with  *)
(* the tools of HypothesisStore.  The scheduler is one more process there. *)
(***************************************************************************)
EXTENDS HypothesisStore, Integers, SequencesExt

CONSTANTS
  Sched,          \* the scheduler, a member of Procs
  CliIds,         \* the hypothesis ids people choose
  Grid,           \* the methods the job's family and param_grid expand to
  Hash,           \* Hash[m]: param_hash_of the params of m
  Score,          \* Score[m]: the score of m on this workspace's cipher
  K,              \* the job's k
  MaxCandidates,  \* the job's max_candidates
  ScoredAsSeeds,  \* BuildOptions::include_scored_as_seeds
  RunOptions,     \* what a run_loop may be asked for
  MaxCycles,      \* bound: iterations asked for, over all runs
  MaxCommands     \* bound: tool commands issued

IsPrior(p) ==
  /\ p = [seeds |-> p.seeds, exclusions |-> p.exclusions]
  /\ IsFiniteSet(p.seeds) /\ \A s \in p.seeds : s.method \in Methods

ASSUME CycleAssumption ==
  /\ Sched \in Procs /\ Grid \subseteq Methods
  /\ Hash \in [Methods -> Methods] /\ Score \in [Methods -> Nat]
  /\ IsFiniteSet(Grid)
  /\ K \in Nat \ {0} /\ MaxCandidates \in Nat
  /\ RunOptions # {}
  /\ \A o \in RunOptions :
       /\ o.limit \in Nat \ {0} /\ o.utc \in Nat
       /\ o.inline # << >> => IsPrior(o.inline[1])

VARIABLES
  pc,        \* where the scheduler is in run_loop / run_once
  options,   \* the LoopOptions of the current run
  iter,      \* the loop counter i
  toLoad,    \* ids listed and not yet loaded
  prior,     \* the SearchPrior built so far
  rows,      \* the rows of the artifact, best first
  next,      \* index of the next row to ingest
  batch,     \* batch[b]: the directory batches/<b>
  result,    \* the CycleResult of the current or last run
  cycles, commands,  \* counters for the bounds
  decided    \* history: the records decided when the iteration began, with
             \* every version of them there has been since

cycleVars == <<pc, options, iter, toLoad, prior, rows, next, batch, result,
               cycles, commands, decided>>
vars == <<storeVars, cycleVars>>

EmptyPrior == [seeds |-> {}, exclusions |-> {}]
NewResult == [iterations |-> 0, batches |-> << >>, written |-> 0, stop |-> "none"]

(***************************************************************************)
(* make_batch_id and hypothesis_id_for: digests, taken to be injective, of *)
(* what differs between the batches of one job, and of batch and candidate.*)
(***************************************************************************)
BatchId(o, i, p) == [utc |-> o.utc + i, prior |-> p]
HypothesisId(b, cid) == [batch |-> b, candidate |-> cid]

bid == BatchId(options, iter, prior)

\* Faulty variant: filter_exclusions is not called.
Unfiltered(p) == {[cid |-> <<"grid", m>>, method |-> m] : m \in Grid}

(***************************************************************************)
(* filter_exclusions, then merge_seeds: the grid without the excluded      *)
(* params, then each seed whose params nobody has brought in yet.  Which   *)
(* of several seeds with the same params comes first is settled by id.     *)
(***************************************************************************)
Excluded(p, m) == \E e \in p.exclusions : e.hash = Hash[m]

Filtered(p) == {[cid |-> <<"grid", m>>, method |-> m] : m \in {g \in Grid : ~Excluded(p, g)}}

Merged(p) ==
  LET unmatched == {s \in p.seeds : \A c \in Filtered(p) : Hash[c.method] # Hash[s.method]}
      first(x) == CHOOSE s \in unmatched : Hash[s.method] = x
      fresh == {first(Hash[s.method]) : s \in unmatched}
  IN Filtered(p) \cup {[cid |-> <<"prior-seed", s.hyp>>, method |-> s.method] : s \in fresh}

(***************************************************************************)
(* BatchOrdering::better: the score, then the candidate id, of which only  *)
(* matters that no two candidates have the same.                           *)
(***************************************************************************)
IdOrder(cands) == CHOOSE f \in [cands -> 1 .. Cardinality(cands)] : IsInjective(f)

Better(cands, a, b) ==
  \/ Score[a.method] > Score[b.method]
  \/ Score[a.method] = Score[b.method] /\ IdOrder(cands)[a] < IdOrder(cands)[b]

Ahead(cands, c) == Cardinality({d \in cands : Better(cands, d, c)})

\* Faulty variant: every candidate is kept.
RankedUncut(cands) ==
  [r \in 1 .. Cardinality(cands) |-> CHOOSE c \in cands : Ahead(cands, c) = r - 1]

(***************************************************************************)
(* RankCandidates keeps the best min(k, n) of them, best first.            *)
(***************************************************************************)
Kept(cands) == IF Cardinality(cands) > K THEN K ELSE Cardinality(cands)

Ranked(cands) ==
  [r \in 1 .. Kept(cands) |-> CHOOSE c \in cands : Ahead(cands, c) = r - 1]

-----------------------------------------------------------------------------
CycleInit ==
  /\ pc = "idle" /\ options = (CHOOSE o \in RunOptions : TRUE) /\ iter = 0
  /\ toLoad = {} /\ prior = EmptyPrior /\ rows = << >> /\ next = 1
  /\ batch = [b \in {} |-> b] /\ result = NewResult
  /\ cycles = 0 /\ commands = 0
  /\ decided = [h \in {} |-> h]

Init == StoreInit /\ CycleInit

(***************************************************************************)
(* Leaving run_loop: a stop reason, or a Status returned as "error".       *)
(***************************************************************************)
Stop(reason, res) ==
  /\ pc' = "idle"
  /\ result' = [res EXCEPT !.stop = reason]
  /\ toLoad' = {} /\ prior' = EmptyPrior /\ rows' = << >> /\ next' = 1
  /\ decided' = [h \in {} |-> h]

StartRun ==
  /\ pc = "idle"
  /\ options' \in RunOptions
  /\ cycles' = cycles + options'.limit
  /\ cycles' <= MaxCycles
  /\ iter' = 0
  /\ \/ /\ pc' = "loop"
        /\ result' = NewResult
        /\ UNCHANGED <<toLoad, prior, rows, next, decided>>
     \/ options'.wall /\ Stop("wall_budget", NewResult)
  /\ UNCHANGED <<batch, commands, storeVars>>

Decided(h) == content[h].status \in {"rejected", "promoted"}

(***************************************************************************)
(* The top of the loop, then resolve_prior: an inline prior wins, or else  *)
(* list_ids names the records to load.                                     *)
(***************************************************************************)
BeginIteration ==
  /\ pc = "loop"
  /\ \/ /\ iter > 0 /\ options.wall
        /\ Stop("wall_budget", result)
     \/ /\ pc' = "prior"
        /\ decided' = [h \in {g \in DOMAIN content : Decided(g)} |-> {content[h]}]
        /\ \/ /\ options.inline = << >>
              /\ toLoad' = DOMAIN file
              /\ prior' = EmptyPrior
           \/ /\ options.inline # << >>
              /\ toLoad' = {}
              /\ prior' = options.inline[1]
        /\ UNCHANGED <<rows, next, result>>
  /\ UNCHANGED <<options, iter, batch, cycles, commands, storeVars>>

\* Faulty variant: include_scored_as_seeds replaces the promoted records.
WithRecordOrScored(p, h, rec) ==
  IF rec.status = (IF ScoredAsSeeds THEN "promoted" ELSE "scored")
    THEN [p EXCEPT !.seeds = @ \cup {[hyp |-> h, method |-> rec.method]}]
  ELSE IF rec.status = "rejected"
    THEN [p EXCEPT !.exclusions = @ \cup {[hyp |-> h, hash |-> Hash[rec.method]]}]
  ELSE p

(***************************************************************************)
(* What one record adds to the prior: a promoted one its method, a         *)
(* rejected one the hash of its params.                                    *)
(***************************************************************************)
WithRecord(p, h, rec) ==
  IF rec.status = "promoted" \/ (ScoredAsSeeds /\ rec.status = "scored")
    THEN [p EXCEPT !.seeds = @ \cup {[hyp |-> h, method |-> rec.method]}]
  ELSE IF rec.status = "rejected"
    THEN [p EXCEPT !.exclusions = @ \cup {[hyp |-> h, hash |-> Hash[rec.method]]}]
  ELSE p

\* Faulty variant: a record that does not load is tried again until it does.
LoadForPriorWaiting ==
  /\ pc = "prior"
  /\ \E h \in toLoad :
       /\ Loads(h)
       /\ prior' = WithRecord(prior, h, content[h])
       /\ toLoad' = toLoad \ {h}
  /\ UNCHANGED <<pc, rows, next, result, decided>>
  /\ UNCHANGED <<options, iter, batch, cycles, commands, storeVars>>

(***************************************************************************)
(* SearchPrior::from_workspace loads one record after the other; one that  *)
(* does not load ends the run.                                             *)
(***************************************************************************)
LoadForPrior ==
  /\ pc = "prior"
  /\ \E h \in toLoad :
       \/ /\ ~Loads(h)
          /\ Stop("error", result)
       \/ /\ Loads(h)
          /\ prior' = WithRecord(prior, h, content[h])
          /\ toLoad' = toLoad \ {h}
          /\ UNCHANGED <<pc, rows, next, result, decided>>
  /\ UNCHANGED <<options, iter, batch, cycles, commands, storeVars>>

\* Faulty variant: the soft stop forgets the iteration that came up empty.
ExportUncounted ==
  /\ pc = "prior" /\ toLoad = {}
  /\ LET cands == Merged(prior) IN
       \/ /\ cands = {}
          /\ Stop("no_new_candidates", [result EXCEPT !.iterations = iter])
       \/ /\ Cardinality(cands) \in 1 .. MaxCandidates
          /\ pc' = "candidates"
          /\ rows' = Ranked(cands)
          /\ UNCHANGED <<toLoad, prior, next, result, decided>>
  /\ UNCHANGED <<options, iter, batch, cycles, commands, storeVars>>

(***************************************************************************)
(* CpuCandidateExport::run; an empty export is a soft stop of the loop.    *)
(***************************************************************************)
Export ==
  /\ pc = "prior" /\ toLoad = {}
  /\ LET cands == Merged(prior) IN
       \/ /\ cands = {}
          /\ Stop("no_new_candidates", [result EXCEPT !.iterations = iter + 1])
       \/ /\ Cardinality(cands) > MaxCandidates
          /\ Stop("error", result)
       \/ /\ Cardinality(cands) \in 1 .. MaxCandidates
          /\ pc' = "candidates"
          /\ rows' = Ranked(cands)
          /\ UNCHANGED <<toLoad, prior, next, result, decided>>
  /\ UNCHANGED <<options, iter, batch, cycles, commands, storeVars>>

\* Faulty variant: store() returns once the candidates are written.
StoreBatchNoManifest ==
  LET dir == IF bid \in DOMAIN batch
               THEN batch[bid]
               ELSE [candidates |-> "none", manifest |-> "none", rows |-> << >>]
      put(from, to, d) == pc = from /\ pc' = to /\ batch' = Assign(batch, bid, d)
  IN /\ \/ put("candidates", "candidates open", [dir EXCEPT !.candidates = "torn"])
        \/ put("candidates open", "ingest",
               [dir EXCEPT !.candidates = "whole", !.rows = rows])
     /\ UNCHANGED <<options, iter, toLoad, prior, rows, next, result, cycles,
                    commands, decided, storeVars>>

(***************************************************************************)
(* BatchArtifact::store: candidates.jsonl and then manifest.json, each     *)
(* truncated when it is opened and whole when it is closed.                *)
(***************************************************************************)
StoreBatch ==
  LET dir == IF bid \in DOMAIN batch
               THEN batch[bid]
               ELSE [candidates |-> "none", manifest |-> "none", rows |-> << >>]
      put(from, to, d) == pc = from /\ pc' = to /\ batch' = Assign(batch, bid, d)
  IN /\ \/ put("candidates", "candidates open", [dir EXCEPT !.candidates = "torn"])
        \/ put("candidates open", "manifest",
               [dir EXCEPT !.candidates = "whole", !.rows = rows])
        \/ put("manifest", "manifest open", [dir EXCEPT !.manifest = "torn"])
        \/ put("manifest open", "ingest", [dir EXCEPT !.manifest = "whole"])
     /\ UNCHANGED <<options, iter, toLoad, prior, rows, next, result, cycles,
                    commands, decided, storeVars>>

(***************************************************************************)
(* HypothesisBridge::ingest_one: a fresh proposal, or, over a record that  *)
(* loads with an advanced status, that record with the row's method.  The  *)
(* store that follows is Truncate and Write of HypothesisStore.            *)
(***************************************************************************)
Advanced == {"scored", "rejected", "promoted"}

\* Faulty variant: the record is always made afresh.
IngestedAfresh(h, m) == [MakeDraft(m) EXCEPT !.status = "proposed"]

IngestedRecord(h, m) ==
  IF Loads(h) /\ content[h].status \in Advanced
    THEN [content[h] EXCEPT !.method = m]
    ELSE [MakeDraft(m) EXCEPT !.status = "proposed"]

IngestRow ==
  /\ pc = "ingest" /\ next <= Len(rows)
  /\ LET h == HypothesisId(bid, rows[next].cid)
     IN Hold(Sched, h, IngestedRecord(h, rows[next].method))
  /\ next' = next + 1
  /\ UNCHANGED <<pc, options, iter, toLoad, prior, rows, batch, result, cycles,
                 commands, decided>>

SchedulerStore ==
  /\ Truncate(Sched) \/ Write(Sched)
  /\ UNCHANGED cycleVars

(***************************************************************************)
(* The cycle is accounted for, all of its rows being ingested.             *)
(***************************************************************************)
EndCycle ==
  /\ pc = "ingest" /\ next > Len(rows) /\ Sched \notin DOMAIN held
  /\ result' = [result EXCEPT !.iterations = iter + 1,
                              !.written = @ + Len(rows),
                              !.batches = Append(@, bid)]
  /\ IF options.promotedStop
       THEN pc' = "check" /\ toLoad' = DOMAIN file
       ELSE pc' = "next" /\ UNCHANGED toLoad
  /\ UNCHANGED <<options, iter, prior, rows, next, batch, cycles, commands,
                 decided, storeVars>>

\* Faulty variant: any decided record counts.
CheckDecided ==
  /\ pc = "check"
  /\ \/ /\ toLoad = {}
        /\ pc' = "next"
        /\ UNCHANGED <<toLoad, prior, rows, next, result, decided>>
     \/ \E h \in toLoad :
          \/ ~Loads(h) /\ Stop("error", result)
          \/ /\ Loads(h) /\ Decided(h)
             /\ Stop("success_promoted", result)
          \/ /\ Loads(h) /\ ~Decided(h)
             /\ toLoad' = toLoad \ {h}
             /\ UNCHANGED <<pc, prior, rows, next, result, decided>>
  /\ UNCHANGED <<options, iter, batch, cycles, commands, storeVars>>

(***************************************************************************)
(* The optional stop on a promoted record lists and loads the records      *)
(* again, and stops at the first promoted one it meets.                    *)
(***************************************************************************)
CheckPromoted ==
  /\ pc = "check"
  /\ \/ /\ toLoad = {}
        /\ pc' = "next"
        /\ UNCHANGED <<toLoad, prior, rows, next, result, decided>>
     \/ \E h \in toLoad :
          \/ ~Loads(h) /\ Stop("error", result)
          \/ /\ Loads(h) /\ content[h].status = "promoted"
             /\ Stop("success_promoted", result)
          \/ /\ Loads(h) /\ content[h].status # "promoted"
             /\ toLoad' = toLoad \ {h}
             /\ UNCHANGED <<pc, prior, rows, next, result, decided>>
  /\ UNCHANGED <<options, iter, batch, cycles, commands, storeVars>>

(***************************************************************************)
(* The bottom of the loop: validate, wall budget, max_iterations.          *)
(***************************************************************************)
NextIteration ==
  /\ pc = "next"
  /\ \/ /\ options.validate
        /\ Stop("success_validate", result) /\ UNCHANGED iter
     \/ /\ options.wall
        /\ Stop("wall_budget", result) /\ UNCHANGED iter
     \/ /\ iter + 1 = options.limit
        /\ Stop("completed_iterations", result) /\ UNCHANGED iter
     \/ /\ iter + 1 < options.limit
        /\ iter' = iter + 1
        /\ pc' = "loop"
        /\ toLoad' = {} /\ prior' = EmptyPrior /\ rows' = << >> /\ next' = 1
        /\ decided' = [h \in {} |-> h]
        /\ UNCHANGED result
  /\ UNCHANGED <<options, batch, cycles, commands, storeVars>>

(***************************************************************************)
(* The scheduler is killed; what a run had in memory is gone.              *)
(***************************************************************************)
SchedulerCrash ==
  /\ CanCrash /\ pc # "idle"
  /\ Stop("crashed", NewResult)
  /\ held' = Release(Sched)
  /\ UNCHANGED <<options, iter, batch, cycles, commands, file, content>>

Scheduler ==
  \/ BeginIteration \/ LoadForPrior \/ Export \/ StoreBatch \/ IngestRow
  \/ SchedulerStore \/ EndCycle \/ CheckPromoted \/ NextIteration

(***************************************************************************)
(* The people and agents around the scheduler.                             *)
(***************************************************************************)
Operator(p) ==
  \/ /\ commands < MaxCommands
     /\ \E h \in CliIds \cup DOMAIN file : Command(p, h)
     /\ commands' = commands + 1
     /\ UNCHANGED <<pc, options, iter, toLoad, prior, rows, next, batch, result,
                    cycles, decided>>
  \/ /\ Truncate(p) \/ Write(p) \/ Crash(p)
     /\ decided' = [h \in DOMAIN decided |-> decided[h] \cup {content'[h]}]
     /\ UNCHANGED <<pc, options, iter, toLoad, prior, rows, next, batch, result,
                    cycles, commands>>

Next ==
  \/ StartRun
  \/ Scheduler
  \/ SchedulerCrash
  \/ \E p \in Procs \ {Sched} : Operator(p)

Spec == Init /\ [][Next]_vars
FairSpec == Spec /\ WF_vars(Scheduler)

-----------------------------------------------------------------------------
(***************************************************************************)
(* Types: the scheduler is at a point of run_once or run_loop, what it     *)
(* holds is made of records, rows and priors, and it never runs ahead of   *)
(* its artifact.                                                           *)
(***************************************************************************)
Stages == {"idle", "loop", "prior", "candidates", "candidates open", "manifest",
           "manifest open", "ingest", "check", "next"}

StopReasons == {"none", "completed_iterations", "wall_budget", "no_new_candidates",
                "success_promoted", "success_validate", "error", "crashed"}

CycleTypeOK ==
  /\ pc \in Stages /\ options \in RunOptions /\ iter \in 0 .. options.limit - 1
  /\ toLoad \subseteq DOMAIN file
  /\ IsPrior(prior)
  /\ \A i \in 1 .. Len(rows) : rows[i].method \in Methods
  /\ Len(rows) \in 0 .. K /\ next \in 1 .. Len(rows) + 1
  /\ pc \in {"idle", "loop", "prior"} => next = 1
  /\ result.stop \in StopReasons /\ DOMAIN result = DOMAIN NewResult

TypeOK == StoreTypeOK /\ CycleTypeOK

(***************************************************************************)
(* Every decision people had taken when an iteration began reaches its     *)
(* prior: a cycle that gets as far as an artifact has each rejected record *)
(* among the exclusions and each promoted one among the seeds, whatever is *)
(* torn on disk and whatever the tools do while the records are scanned.   *)
(***************************************************************************)
Exported == pc \in {"candidates", "candidates open", "manifest", "manifest open",
                    "ingest", "check", "next"}

PriorCoversDecisions ==
  Exported /\ options.inline = << >> =>
    \A h \in DOMAIN decided : \A version \in decided[h] :
      IF version.status = "rejected"
        THEN \E e \in prior.exclusions : e.hyp = h
        ELSE \E s \in prior.seeds : s.hyp = h

(***************************************************************************)
(* ... and from there its artifact.  Going by some version of the record   *)
(* there was meanwhile, no expanded row has the params of a rejected one,  *)
(* and those of a promoted one are in the batch unless k cut it short.     *)
(***************************************************************************)
BatchRespectsDecisions ==
  Exported /\ options.inline = << >> =>
    \A h \in DOMAIN decided : \E version \in decided[h] :
      LET same == {i \in DOMAIN rows : Hash[rows[i].method] = Hash[version.method]}
      IN IF version.status = "rejected"
           THEN \A i \in same : rows[i].cid[1] = "prior-seed"
           ELSE same # {} \/ Len(rows) = K

(***************************************************************************)
(* Why both hold: while the tools take turns a decision is final, so every *)
(* version of a decided record has its status, the record that is scanned  *)
(* is one of them, and what it adds to the prior stays there.              *)
(***************************************************************************)
Carried(h) ==
  \E version \in decided[h] :
    IF version.status = "rejected"
      THEN \E e \in prior.exclusions : e.hyp = h /\ e.hash = Hash[version.method]
      ELSE \E s \in prior.seeds : s.hyp = h /\ s.method = version.method

DecisionsTravel ==
  /\ pc \in {"idle", "loop"} => DOMAIN decided = {}
  /\ \A h \in DOMAIN decided :
       /\ h \in DOMAIN content /\ Decided(h)
       /\ \A version \in decided[h] : version.status = content[h].status
       /\ pc = "prior" => content[h] \in decided[h]
       /\ options.inline = << >> => Carried(h) \/ (pc = "prior" /\ h \in toLoad)
  /\ Sched \in DOMAIN held => pc = "ingest"

(***************************************************************************)
(* A hypothesis the bridge made can be traced: the batch its id names is   *)
(* on disk, was completed at least once, and lists its candidate.          *)
(***************************************************************************)
Traced(dirs, h) ==
  /\ h.batch \in DOMAIN dirs
  /\ dirs[h.batch].manifest # "none"
  /\ \E i \in DOMAIN dirs[h.batch].rows : dirs[h.batch].rows[i].cid = h.candidate

ProvenanceOnDisk == \A h \in DOMAIN file \ CliIds : Traced(batch, h)

(***************************************************************************)
(* Why it holds: an artifact that was ever completed has the rows its own  *)
(* id stands for, so that a re-run which writes it again writes the same,  *)
(* and a record is only made of a row once the manifest is there.          *)
(***************************************************************************)
ArtifactsFollowIds ==
  /\ \A b \in DOMAIN batch :
       /\ DOMAIN batch[b] = {"candidates", "manifest", "rows"}
       /\ batch[b].manifest # "none" => batch[b].rows = Ranked(Merged(b.prior))
  /\ Exported => rows = Ranked(Merged(prior))
  /\ pc \in {"manifest", "manifest open", "ingest"} =>
       bid \in DOMAIN batch /\ batch[bid].rows = rows
  /\ pc = "ingest" => batch[bid].manifest = "whole"
  /\ \A p \in DOMAIN held : held[p].hyp \in CliIds \/ Traced(batch, held[p].hyp)

(***************************************************************************)
(* What a finished run reports is what it left on disk: one whole batch    *)
(* per full iteration, every row of it a hypothesis, and the counts agree; *)
(* only a run stopped by an empty export has one iteration more.           *)
(***************************************************************************)
Ingested(made) == UNION {{i} \X DOMAIN batch[made[i]].rows : i \in DOMAIN made}

Recorded(b) ==
  /\ b \in DOMAIN batch
  /\ batch[b].candidates = "whole" /\ batch[b].manifest = "whole"
  /\ \A i \in DOMAIN batch[b].rows : Exists(HypothesisId(b, batch[b].rows[i].cid))

Reported == pc = "idle" /\ result.stop \notin {"none", "error", "crashed"}

ReportMatchesDisk ==
  Reported =>
    LET made == result.batches IN
      /\ result.iterations = Len(made) + (IF result.stop = "no_new_candidates" THEN 1 ELSE 0)
      /\ result.written = Cardinality(Ingested(made))
      /\ result.stop = "completed_iterations" => result.iterations = options.limit
      /\ \A b \in ToSet(made) : Recorded(b)

(***************************************************************************)
(* Why it holds: the iterations of a run have ids of their own, as their   *)
(* times differ, so what an iteration stores is no batch that was already  *)
(* counted; and a row that was ingested is on disk, or is the one that is  *)
(* being stored.                                                           *)
(***************************************************************************)
Ingesting(i) == HypothesisId(bid, rows[i].cid)

Counted ==
  LET made == result.batches IN
    /\ result.stop = "none"
    /\ result.iterations = Len(made)
    /\ Len(made) = (IF pc \in {"check", "next"} THEN iter + 1 ELSE iter)
    /\ IsFiniteSet(Ingested(made)) /\ result.written = Cardinality(Ingested(made))
    /\ \A i \in DOMAIN made : made[i].utc = options.utc + i - 1 /\ Recorded(made[i])

InAccount ==
  /\ result.batches \in Seq({result.batches[i] : i \in DOMAIN result.batches})
  /\ \A b \in DOMAIN batch : DOMAIN batch[b] = {"candidates", "manifest", "rows"}
  /\ pc # "idle" => Counted
  /\ pc \notin {"ingest", "check", "next"} => next = 1
  /\ pc \in {"manifest", "manifest open", "ingest"} =>
       bid \in DOMAIN batch /\ batch[bid].rows = rows /\ batch[bid].candidates = "whole"
  /\ pc = "ingest" =>
       /\ batch[bid].manifest = "whole"
       /\ \A i \in 1 .. next - 1 :
            Exists(Ingesting(i)) \/ (Sched \in DOMAIN held /\ held[Sched].hyp = Ingesting(i))

(***************************************************************************)
(* A run that stops for a promoted hypothesis leaves one in the workspace. *)
(***************************************************************************)
PromotedStopIsTrue ==
  pc = "idle" /\ result.stop = "success_promoted" =>
    \E h \in DOMAIN content : content[h].status = "promoted"

(***************************************************************************)
(* Why the bridge takes no score: the records it makes afresh over one     *)
(* that loads are a draft's or a proposal's, and those have none, because  *)
(* a tool that scores a record sets its status too.  SavedByTools says     *)
(* that of the records a workspace holds when the first run starts.        *)
(***************************************************************************)
AsScored(rec) == rec.status \in {"draft", "proposed"} => rec.scored = {}

SavedByTools == \A saved \in Saved : \A h \in DOMAIN saved : AsScored(saved[h])

ScoringSetsStatus ==
  /\ \A h \in DOMAIN content : AsScored(content[h])
  /\ \A p \in DOMAIN held : AsScored(held[p].rec)

(***************************************************************************)
(* Every run comes to an end, whatever the operators do to the records     *)
(* while it scans, stores and ingests them.                                *)
(***************************************************************************)
RunsEnd == pc # "idle" ~> pc = "idle"

-----------------------------------------------------------------------------
(***************************************************************************)
(* What docs/spec/search-loop.md says of exclusions: they remove matching  *)
(* candidates before the artifact is written.  merge_seeds comes after     *)
(* filter_exclusions and brings excluded params back.                      *)
(***************************************************************************)
ExclusionsRemoveMatching ==
  Exported => \A i \in DOMAIN rows : ~Excluded(prior, rows[i].method)

(***************************************************************************)
(* What hypothesis_bridge.hpp says where it overwrites a record: an        *)
(* advanced status is preserved.  It is not when the record does not load  *)
(* because the tool that was storing it died.                              *)
(***************************************************************************)
AdvancedStatusPreserved ==
  [][\A h \in DOMAIN content :
       content[h].status \in Advanced => content'[h].status \in Advanced]_vars
=============================================================================
