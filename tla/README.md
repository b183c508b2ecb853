# A TLA+ model of Parcae

Parcae searches for decipherments of runic text: it expands parameter grids of
cipher families, scores the candidate plaintexts on CPU or GPU, files the best
of them as *hypotheses* in a workspace, and lets people and language-model
agents score, reject or promote those hypotheses, which steers the next search
cycle. Ciphers come from a catalog, from recipes that chain them, or from
*theories*, small programs over Z29 that are compiled to bytecode. This
directory holds TLA+ modules for the parts of the program whose correctness
depends on order, interleaving and crashes, and for the calculations that have
two or more implementations which must agree; TLC configurations that check
them on small instances; and TLAPS proofs for every value of the constants.

Paths below are relative to the repository (`src/` of the `map` in
`PROJECT.json`); `H/`, `S/`, `B/`, `T/`, `D/` stand for `hypothesis/`,
`search/`, `batch/`, `transform/` and `dsl/` under `include/parcae/`.

## 1. Inventory

| Component | State | Operations | Interacts with | What is hard, and what makes it correct |
|---|---|---|---|---|
| Hypothesis records, `parcae-hypothesis` (`H/hypothesis_status.hpp`, `H/hypothesis_record.hpp`, `tools/parcae_hypothesis/main.cpp`) | one JSON file per hypothesis: status, method, scores, digests | init, propose, score, set-status; load, truncate-in-place and write | every tool, the scheduler and the agents share the files; no lock | a process dying between truncation and write; a copy that is stale when stored; two writers. Correct: a status moves only along the v0 table, scores are append-only, a file that cannot be loaded has an explanation |
| Search scheduler (`S/search_scheduler.hpp`) | loop counter, `CycleResult`, cached GPU objects | `run_once`, `run_loop` with seven exits | prior, export, artifact, bridge, one after the other | nested failures, soft stops, a second scan for a promoted record; decisions taken while a cycle runs. Correct: it ends, reports what it did, honours decisions |
| Search prior (`S/search_prior.hpp`) | seeds and exclusions | `from_workspace`, `excludes_params` | reads all records, one by one | the scan is not a snapshot; one bad record blocks it |
| CPU candidate export (`S/cpu_candidate_export.hpp`) | candidates, ranked rows | expand, filter exclusions, merge seeds, rank | generators, scores, `BatchRunner` (serially) | order of filter and merge; limits compared before or after |
| GPU candidate export (`S/gpu_candidate_export.hpp`) | device buffers, scores of lanes | launch the lanes of a family, read the scores, make the rows of the best | scheduler, kernels, theory export | a row is made from the number of a lane, long after the lane was scored: another candidate with that number is a wrong hypothesis |
| Batch artifact (`S/batch_artifact.hpp`) | `batches/<id>/candidates.jsonl`, `manifest.json` | store, load | written by the scheduler, read by tools | two files, each truncated and written; crash between them |
| Hypothesis bridge (`S/hypothesis_bridge.hpp`) | none of its own | `ingest` a batch, row by row | makes or overwrites records | content-derived ids meet records of earlier runs |
| Batch runner and ordering (`B/`) | score slots, best tracker, atomic counter | `run`, serial or with `std::async` workers | scores, progress sink | slots without a lock, ceiling division, ties, errors in one chunk, progress out of order. Correct: result independent of execution |
| Console progress (`cli/console_*`) | last snapshot | `on_progress`, `on_stage` | called by workers | snapshots may arrive in any order |
| Theory export on the GPU (`S/theory_export_*.hpp`, `Parcae/Parcae/cuda/theory_device_scratch.hpp`, `cuda_stream_pair.hpp`) | double-buffered parameter slabs, in-flight ticket, compiled-theory cache | stage, launch, collect, flush, grow | two CUDA streams, the scheduler loop | buffers replaced or overwritten while a kernel reads them; failures between launch and collect; stale caches |
| Workspace scaffold, manifest, paths, campaign log (`H/workspace_*.hpp`, `H/research_campaign_log.hpp`) | `workspace.json`, directories, an append-only log | ensure, load, store, append | tools | idempotence over torn files |
| Agent loop, tool bridge, transcript (`agents/parcae_agent/*.py`) | conversation, budgets, transcript lines, envelopes | ask the model, run tool calls, stop criteria | starts the tools as subprocesses with a timeout | a timed-out tool that did its work; budgets checked at the wrong moment; half-written transcripts |
| Z29 core and maths (`core/`, `math/`) | none | arithmetic modulo 29, matrices, key streams | transforms | inverses, boundaries |
| Transforms and interrupts (`T/`, `interrupt/`) | key stream position, feedback, the scratch buffers of a recipe | `apply_into` of each kernel, `compose` | generators, kernels | does the key advance at an interrupt; is what feeds back plain or secret text; directions, interrupts and buffers of nested recipes. Correct: decryption undoes encryption, a recipe is the sequence of its stages |
| Scores, generators (`score/`, `generate/`) | none | expand a grid, score a text, compare two scores | export | what is refused differs by score and by backend; ties; the order of a grid is also the number of a lane. Correct: the same candidates in the same order wherever they are made |
| Theory DSL (`D/`) | expression, hoisted inverses, bytecode and its stack; registry on disk | optimise, normalise, compile, run, match a shape, plan a kernel, register | export pipeline, kernels | several forms of one expression that must all compute what was written; stack discipline; a shape recognised wrongly is scored wrongly |
| Tokenizer, gematria, fixtures, validation (`corpus/`, `gematria/`, `validate/`) | none | parse | all | pure |
| CUDA kernels (`Parcae/Parcae/cuda/`) | device buffers, a scratch of histograms that all launches share | data parallel twins of the CPU code; histograms of a text from which each candidate's counts are read | export | threads in any order over buffers that change places; a position no thread visits, or two; a twin that differs from the host; rows left by an earlier launch or a failed one |
| Parity records, benchmarks | none | measure, compare | all | |
| CLIs, tool policy, `search_run`, blind crack | none between calls | argument parsing, drivers | all | I/O |

`PROJECT.json` lists every component with its files and status, and under
`hazards` what can go wrong in each at the line where it bites.

## 2. Modules

| Module | Role |
|---|---|
| `HypothesisStatus` | the status enum, `can_transition`, and `Reach`, the two transitions one `score` command may apply |
| `HypothesisLifecycle` | abstract: each hypothesis is born a draft or proposal and then only moves along `Reach` |
| `HypothesisStore` | the record files and the load / hold / truncate / write / crash steps of the tools, and what they promise; shared by tools, scheduler and agent |
| `HypothesisTools` | several processes running `parcae-hypothesis`: what the scheduler's operators and the agent's workspace are instances of |
| `HypothesisStore_proof` | what every step on the records keeps: lemmas the next two proofs share |
| `HypothesisTools_proof` | theorems about the tools |
| `SearchCycle` | `run_loop` with prior, export, artifact and bridge, interleaved with the tools; extends `HypothesisStore` |
| `SearchCycle_proof` | theorems about it |
| `BatchContract` | abstract: what `BatchRunner::run` returns, a function of its candidates |
| `BatchRunner` | the serial path and the workers of the parallel one, step by step, with progress |
| `BatchRunner_proof` | theorems about it |
| `TheoryPipeline` | `TheoryExportPipeline::run_chunks` over the device scratch, the compiled-theory cache and the two CUDA streams |
| `TheoryPipeline_proof` | theorems about it |
| `AgentLoop` | one run of the Python agent and its child processes, beside a user; extends `HypothesisStore` and implements `HypothesisTools` |
| `AgentLoop_proof` | theorems about it |
| `Z29` | the arithmetic of rune indices |
| `StreamKernels` | the kernels that work symbol by symbol: their keys, interrupts, feedback |
| `StreamCipher` | one call of a stream kernel to encrypt and one to decrypt, a symbol per step; what a search counts instead of decrypting |
| `BlockKernels` | Hill ciphers and grid transpositions |
| `CatalogStages` | the stages of a recipe and what each makes of a text: direction, interrupts, parameters |
| `Kernels_proof` | theorems about the transforms: the stream ciphers, and any one stage of a recipe |
| `ComposeTransform` | recipes of stages, nested, with their scratch buffers |
| `ComposeTransform_proof` | theorems about it; extends `Kernels_proof` |
| `DslSource` | the tree of a source, the scope of each node, the directives of the author, and the two gates that refuse a source |
| `DslBuildIr` | the lowering of a source to the steps of its theories, the verifier of primitives, the trial of a step |
| `DslMeaning` | what a source says, executed as the language reads it: the reference for what is compiled |
| `Z29Expr` | expressions of the theory language and what the evaluator of the host and that of the device make of them |
| `DslOptimize` | constant folding, hoisting of inverses and putting them back, the normal form |
| `TheoryApply` | a theory from its source to its output: gated, lowered, optimised, compiled, run one operation per step |
| `DslFuse` | a composition of theories: flattened, fused to one expression per direction, measured, emitted fused or as a recipe |
| `TheoryShape` | which family of ciphers a normal form is |
| `HistKernels` | histograms and what each kind of candidate reads out of them |
| `FusedHist` | the choice of a kernel for a theory, the compiled entry, the specialised kernel, the fallback to the interpreter |
| `CountLaunch` | launches of counting kernels on a stream: tiles and packs of a text, the key cache, the shared scratch |
| `DeviceKernels` | the decoding kernels: what a thread computes for a symbol, and which symbols it has |
| `DeviceTwins` | a host call that decodes on the device, its threads running in any order |
| `CandidateGrid` | the grids of all families in the order of the generators, their identifiers, what each candidate makes of a text |
| `CandidateExport` | a search from its request to its rows: on the host, fused on the device, as a theory |
| `ApplyEnvelope` | the composition: an envelope is applied as a transform, a recipe or a theory, on the host or on the device, counted, searched for, or composed |
| `MCSearchCycle`, `MCBatchRunner`, `MCTheoryPipeline`, `MCAgentLoop`, `MCTheoryApply`, `MCApplyEnvelope` | the instances TLC checks; `MCTheoryApply` writes source programs |

### Records on disk (`HypothesisStore`)

`file[h]` is what is at `hypotheses/<h>.json`: `"whole"`, `"empty"` (truncated,
not loadable) or `"mixed"` (two bodies over each other). `content[h]` is the
last complete body, which is what the lifecycle is about, and what an operator
would restore. `held[p]` is the record process `p` has in memory between its
load and the end of its store. A command (`CmdInit`, `CmdPropose`, `CmdScore`,
`CmdSetStatus`) does the load, the checks and the change in one step, since
nothing else happens in memory; the store is two steps, `Truncate` and `Write`,
because `std::ofstream` with `trunc` empties the file when it is opened. A
command that the code refuses changes nothing and is not a step. `Crash` kills
a process between any two of these. `Overlap = FALSE` makes processes take
turns, which is how the documentation has people use a workspace; `Overlap =
TRUE` is what the absence of a lock really allows.

A record is reduced to status, method and the set of methods with an entry in
`scores[]`; title, rationale, source, times and digests are left out.

### Search cycle (`SearchCycle`)

The scheduler is one more process of `HypothesisStore`. `pc` is its place in
`run_loop`/`run_once`; `LoadForPrior` loads one record of the listed ones per
step, so people's stores fall in between; `Export` is `filter_exclusions`,
`merge_seeds`, `max_candidates` and ranking; `StoreBatch` has four steps (each
of two files opened, then whole); `IngestRow` holds the record that
`ingest_one` makes, and `SchedulerStore` is the same truncate and write as a
tool's. Digests (`make_batch_id`, `hypothesis_id_for`, the prior digest) are
injective constructors over what they hash. `Hash[m]` is the hash of a method's
*params* only, as in the code, so two families can collide on it. The history
variable `decided` keeps every version a record decided at the start of an
iteration has had since; it is read by properties only.

### Batch runner (`BatchRunner`)

The `input` (scores or failures, candidate ids, order) is chosen once. The
calling thread is `pc`; worker `w` is `phase[w]` inside its loop body at index
`at[w]`. Each access to shared state is a step: score into the slot, `consider`
under the mutex, `fetch_add`, read the best, show. `countedAs` is a history
variable. `BatchContract!Spec` is the abstraction: pending, then the expected
outcome; `ContractSpec` states the refinement (same `input` and `outcome`).

### Theory pipeline (`TheoryPipeline`)

The host thread (`pc`) goes through `submit` for each chunk of a call: `Bind`
(theory cache, parameters, is the S1 table resident), `Reserve`
(`ensure_capacity`), `Upload` (slots, `commit_param_slab`, the event, the
ticket), `Collect`/`Await` of the ticket in flight, `Launch`; then the flush and
the size check of `run_chunks` (`Return`). A specialized theory whose staging
fails is staged again as S0, as in `fused_theory_scores`. `dedicated` is what
`create_or_legacy` returned. The device is a queue per stream; an operation
behind a wait carries how many operations of the other stream must have
finished, which is what the event recorded. A kernel starts and finishes in two
steps, and its result is unusable if what it read has changed in between.
Buffers hold the chunk whose data is in them, or `Fresh`; a score vector is the
chunk it scores and whose lane errors were patched into it.

Recoverable errors are a theory or parameters that do not compile or bind, and
allocations that fail; any other CUDA error is taken to be one the device keeps
(`DeviceFails`), after which every CUDA call fails. A launch or an event record
that returns an error is assumed to have enqueued nothing. `cudaFree` waits for
the device, so growing and dropping a program need it idle. Keys of programs and
slots are taken to be injective. The other kernel kinds use the slabs as S0
does, without lane errors. Cipher and frequencies are uploaded once.

### Agent loop (`AgentLoop`)

`phase` is the place of `AgentLoop.run`: `TopOfLoop` checks the two budgets a
new request can exceed; `ModelAnswers` or `ModelFails` is the request, which
takes up to `LlmMax`; then the answer ends the run (`Complete`, `RefuseCalls`,
`DropAnswer` after the wall) or its calls run one after the other. `Refuse` is a
call the bridge does not start, `Spawn` starts a child, `Collect` takes what it
printed and `Expire` is the timeout, which kills the child wherever it is;
`SaveEnvelope` and `LogTool` are the two writes that record a call, and
`LoopDies` may come between any two steps (a full disk, an exception nothing
catches). The child is the process `Agent` of `HypothesisStore` and loads,
truncates and writes like any tool; when the loop dies it goes on. `User` is
somebody else's tool. `now` is the monotonic clock of the run; one tool call
takes at most `ToolTimeout`. `Calls` and `Answers` are what the model may say.
`messages`, `transcript`, `envelopes` are what is sent, logged and filed;
`steps` and `results` hold the answers with the outcome of each call.

A call names one of the tools that edit a record (`EditingTools`: init, propose,
score, set-status), `validate`, one of the tools that edit none, or a name off the
allow-list. `hypothesis_ensure` makes directories and is one of those that edit none.
`search_cycle` is on the allow-list too and is not among the calls: its child is the
scheduler of `SearchCycle`, with its scan, its batch and its ingest, and that it may
ingest over a record a killed child has torn is the finding of `cycle_torn` and not a
step of the tools.

`Workspace == INSTANCE HypothesisTools` is the refinement: with the loop's own
variables hidden, an agent run beside a user is two tools in one workspace. What the
tools promise (`HeldFollowsDisk`, `LifecycleSpec`, `ScoresSurvive`) is checked of
that workspace as well.

### Ciphers (`Z29`, `StreamKernels`, `StreamCipher`, `BlockKernels`, `ComposeTransform`)

A stream cipher is `[family, key, lag, skips]`. `KernelStep` of `StreamKernels` is the
body of the loops of the kernels; they differ in the key symbol, in what is
remembered, and in whether positions in `skips` pass through without advancing
the key. `StreamCipher` runs it over a text, then over what came out;
`trace[p]` is a history variable with the key symbol and the feedback in use
when `p` was encrypted, from which the round trip is proved. `InPlace` says
whether input and output are the same memory.

`BlockKernels` are pure: the matrix and its inverse of a Hill cipher, the order
in which each transposition reads a grid. `ComposeTransform` keeps a stack of
`calls`, one for each `apply_into_with_depth` that runs, and the `memory` of
input, output and the two scratch buffers per level; `RunLeaf` runs one stage,
`EnterNested` and `LeaveNested` a recipe in a recipe. `Meaning` is the
specification: the leaves of the recipe, each taking what the one before it made,
with no buffer in it.

### Theories (`DslSource`, `DslBuildIr`, `DslMeaning`, `Z29Expr`, `DslOptimize`, `TheoryApply`)

A source is a tree of nodes with line numbers and the directives found in its
comments. `Placed` is the scope analyser, `SemanticGate` and `DivergenceGate`
are the gates, `BuildIr` goes through the definitions in order: `WithPrimitive`,
`WithTheory`, and under them `Lower` with the names in scope as a function from
names to expressions, as the code keeps them. `DslMeaning` is not a translation:
it executes the same tree the way Python and `docs/spec/dsl.md` read it, with
values for arguments and an environment per function, and is what the compiled
program is compared with.

An expression is a tree of nodes; `Eval` is `z29_expr_eval`, with the two
differences between host and device as a parameter. `CompileSource` is
`compile_file` up to the accepted unit: directives, gates, lowering, verified
primitives, and each step of each theory optimised and tried on one symbol.
`OptimizeTheory` folds constants and hoists inverses; `Compile` puts the hoists
back and emits stack bytecode; `Normalize` is one pass of the normaliser.
`BeginSymbol`, `ExecuteOp` and `EndSymbol` run the program over the stream, an
operation per step, so that the stack is a state TLC looks at and not an
intermediate value.

### Compositions of theories (`DslFuse`)

`LowerCompose` compiles the module (`WithCompose` in `DslBuildIr` is
`maybe_composed`) and flattens the composition, nested ones in the place of a
step: `flat` keeps steps, bindings and directions as `flatten_steps` collects
them, by the name of the step. `FuseInline` puts each step's expression in the
place of the symbol of the next one; `BenchCpu` runs both forms, and which of
them is faster is a nondeterministic choice; `EmitCompose` refuses what has no
text. `FusedText` is what the registry runs, `CatalogRecipe` what the emitted
kernel runs after a fallback; `ComposedText` is the reference, which reads the
composition from its source, step after step on whole texts.


### Searching by counting (`TheoryShape`, `HistKernels`, `FusedHist`)

A search does not decode a text for each candidate: it counts it once (all of
it, by columns, or by differences at a lag) and reads each candidate's counts
out of that by a remap of the bins. `ShapeOf` recognises a normal form,
`CompileEntry` chooses the strategy (S1 tables, S2 shape remaps, S3 inlined, S0
the interpreter) and checks the limits of the device, `Specialized` is the
kernel, `SoftFallback` the interpreter when the kernel refuses. `lanes` are the
counts each candidate would be scored by.

### Launches that count (`CountLaunch`)

`Visits` says which thread of which tile visits which position: packs of four
symbols, then the rest, each with the stride of the grid; a position visited
twice or not at all shows in the counts. Kernels that keep a short key in shared
memory, carry a running shift from one visit to the next or reduce by a
subtraction instead of a division do so here as well. The host side is
`CallLaunch`, which queues the operations of a batch and goes on, and
`PlanPeriods`, `LaunchPeriod`, `LaunchFinalize` for keys whose lengths it has to
read first. The device is `RunOp`, which does the head of `queue`; `scratch`,
`counted` and `results` are device memory and keep what is in them between
batches, so a later batch finds an earlier one's. `LaunchFault` is an operation
that cannot be queued: those before it run, the caller is told.

### Decoding on the device (`DeviceKernels`, `DeviceTwins`)

`UnitsOf` deals out the symbols (one each, strided, or rows of candidates),
`KernelSymbol` and its parts are the bodies. `TwinCall` checks and uploads,
`Launch` starts the kernel of the next stage, `ThreadLoad` computes a unit from
what is in memory then and `ThreadStore` writes it later, `Sync` waits for all,
`CopyBack` gives the result to the caller; `DeviceFault` may come at any call.
`devMem` holds the two buffers that change places between stages and the last
output. `way` of a job is the entry point: one twin, the backend that knows only
some, a recipe, a batch of candidates, the smoke kernel, matrix operations.

### Searching (`CandidateGrid`, `CandidateExport`)

`GridOf` lists the candidates of a family as its generator does; identifiers are
compared as text, so they are kept as the rank of their word and the digits after
it. `Route` is the decision of the scheduler and of the export. On the host
`Expand`, `Exclude`, one `MergeSeed` per seed, `RankPool`. Fused, `FusedLaunch`
scores lanes (`LaneParams` packs keys and shifts as the code does, `BatchScores`
scores by the counting kernel) and `SelectLanes` makes a row from the number of
each of the best lanes (`CaesarAt`, `AffineAt`, ... compute the parameters back
from it). A theory is filtered first, scored, and its seeds are merged into the
rows that were kept. `battery` and `sweep` are the two other callers, the blind
crack and `search_run`. Scores are exact: with the frequencies of `Expected` and
`Scale` a chi-square is an integer.

Two properties divide what a report promises. `RowsAsRanked` takes the candidates
the route tries (`Tried`: on the device those of the lanes) and says that the rows
are the k best of them, each with the text and score its parameters give on the
host. `RowsAsOnHost` is about which candidates those are: a job the host would
answer (`HostAnswers`) has the host's rows. It leaves out, by name, the three kinds of
jobs for which that is not so (`KeysUnseen`, `InterruptsUnseen`, `SeedRepeated`),
and asks for scores and candidates only where a theory is numbered anew
(`Renumbered`). `RankedIdsMatch` is the documented claim, with nothing left out;
`export_parity` refutes it.

### Composition (`ApplyEnvelope`)

`route` is the way of an envelope, and the other parts stay idle. It is also
where the host kernels meet the counting kernels of the same transform
(`CountsAsDecoded` is the conjunction of `CatalogAsDecoded`, for the catalog's
transforms, and the same of theories and launches).

## 3. Runs

| Run | Instance | What it shows |
|---|---|---|
| `cycle_turns` | scheduler and one operator taking turns, runs of one and two iterations, 2 commands, 4 methods of which two share their params | prior and batch respect decisions taken before the iteration; the promoted stop is true; where nobody dies a record loads unless it is being stored; the lifecycle survives re-runs |
| `cycle_overlap` | the same with overlapping stores and crashes, 1 command | types; every bridged hypothesis has its batch on disk; reports match disk; runs end |
| `batch_runner` | 4 candidates, 3 cores (chunks 2,2 and an unlaunched worker), scores {0,1} or failed, ids {0,1}, both orders, K = 2 | the contract is kept and runs return; slots final; snapshots cover what they count; the panel agrees with the hits |
| `pipeline_overlap` | 3 calls of up to three chunks, two theories, four workloads, both kinds of streams, all errors | every success delivers the right scores in order; uploads stay off what a running kernel reads; the table believed resident is; calls return |
| `agent_loop` | one record, two methods, answers of up to two calls (init; propose and score; validate; refused and set-status; score and one that edits nothing), 2 requests, 2 calls, a user, timeouts, deaths | every call answered; transcript faithful; a claim of success true; budgets; the workspace is one of two tools; what is held follows from disk; lifecycle refined; scores append-only; the run ends |
| `cipher_apply` | every family of the catalog, 38 recipes, 86 sources of theories, 28 compositions, 52 jobs for the device, 16 sequences of counting launches, 72 searches (below) | round trips of ciphers and recipes; keys, recipes and compositions mean what they say, fused or not; buffers stay apart; the bytecode writes what the source says, within the stack that was counted; optimised, hoisted and normal form agree; a condition on which lanes part ways was asked for; kernels count what a candidate decodes to, launch after launch; the device decodes as the host does, in every order of its threads; a search reports the best of what it tried, and what the host would report unless it is one of three kinds of jobs (section 5) |
| `cycle_exclusions` | as `cycle_turns` | violation: a seed brings back excluded params |
| `cycle_torn` | as `cycle_turns` with crashes | violation: an advanced status is lost when the torn record is ingested over |
| `pipeline_growing` | one call, second chunk larger than the scratch | violation: the first chunk's scores come from a new buffer |
| `pipeline_shared` | an S1 and an S0 theory on one scratch | violation: a resident table with another theory's lane errors |
| `theory_caesar` | the theory `x + a` | violation: its lanes are counted as if it were `x - a` |
| `export_parity` | the searches over keys and theories of `cipher_apply` | violation: the ranked identifiers of a job with a list of keys are not those of the host |

**Bounds.** `MaxCycles` bounds the iterations asked for over all runs and
`MaxCommands` the commands issued; two of each are the smallest numbers with
which one run can meet what another left, and a decision can fall before,
during and after a scan. Two
methods with equal params, one grid point apart and one outside the grid give
each branch of filter and merge a case; `K = 2` of up to three candidates makes
the cut happen. For `batch_runner`, two scores with two ids cover every kind of
tie and an error at every position; two chunks of two are the least in which a
worker has both a first and a later index while another one runs. The theorems
remove the bounds where they apply. For the pipeline, three chunks in a call
bring the ping-pong back to the first slab while something is in flight; a
second call meets the ticket, the slabs and the table that a failed first one
left, a third what the second made of them. `pipeline_overlap` leaves out the
workloads of the two findings: a chunk longer than one before it in the same
call, and rejected candidates on a scratch that S1 and S0 theories share.

In `agent_loop` the commands of the user are not bounded, each budget is small
enough to be the one that ends some run,
and an answer of two calls is the least in which the first call can exhaust the
wall or meet the success criterion before the second starts.

In `cipher_apply` texts have 0 to 5 symbols, longer than a key (1 to 3) and than
a lag (1 to 4), with every set of interrupts among the first four positions; one
lag is the length of the primer, others are not. Recipes have up to four stages,
so that the scratch buffers change places more than once, three levels and one
too many, interrupts of a stage, of a recipe and of none, and every grid order
on complete, ragged and single-row grids. Theories are those of the repository
and of its tests, one of each shape, and those that compiler, run or kernel
refuse; their cipher text has 34 symbols, so the index passes 29 and some symbols
do not occur; the device limits are small enough for each to be exceeded.

Of the 28 compositions 13 are emitted: every builtin, theories of the module,
primitives, matrices, autokeys, bindings, nested compositions, encrypting steps,
interrupts, and parameters left at their least values; 15 are refused, each for
another reason. Texts have six symbols, the bench stream has all 29, and
`FuseDepth` is that of the code.

The device of `cipher_apply` is a small one: two threads a block, words of two
bits in an interrupt mask of at most five symbols, three candidates a batch, two
tiles (one for S2, S5 and totient), three symbols of a key in shared memory, key
lengths up to four. Each is the least with which a text of at most 23 symbols has
a second block, a second word, a stride, full packs and a rest, a key longer than
its cache and one shorter, and a call beyond the limit. Grids keep their order and
the sizes the code fixes (29 shifts, 812 affine pairs); the defaults for the
longest key (3), the totient starts (2) and the sampled matrices (2) are smaller.
The frequencies are weights 1, 2 and 4, so `Scale = 4` makes scores exact and ties
frequent.

**Fairness.** `RunsEnd` assumes weak fairness of `Scheduler` as a whole: it is
one thread that never waits for another process (no lock, no message), so it
keeps going unless it is killed, and a kill also ends the run. Operators and
crashes have no fairness. `ContractSpec` assumes weak fairness of the calling
thread and of each worker: `std::launch::async` gives each its own thread, and
none blocks except on the tracker's mutex, which is held for a few assignments.
`EveryCallReturns` assumes weak fairness of the host thread and of each stream: a
CUDA stream executes what is enqueued on it unless the device is lost, and then
the host's waits return an error. Nobody has to call `run_chunks`. `RunEnds` of
the agent assumes weak fairness of `LoopStep`: the loop is one thread that waits
for a request or a child, and both waits have a time limit, in whose place the
loop has a step of its own (`ModelFails`, `Expire`). Nothing is assumed of the
child or the user. The cipher modules have no liveness: they are loops over a
finite text.

**Deadlock** is not checked (`CHECK_DEADLOCK FALSE`): a batch that has returned,
a workspace nobody edits, a pipeline nobody calls, an agent run that ended, a text
that is decrypted and a run that used up its bounds really stop.

## 4. Proofs

TLAPS checks these for every value of the constants (`theorems` in
`PROJECT.json`). The constants are assumed to be what their modules say and TLC
evaluates in the runs (`StoreAssumption`, `CycleAssumption`, `RunnerAssumption`,
`PipelineAssumption`, `AgentAssumption`, `StreamAssumption`,
`ComposeAssumption`, `DepthAssumption`). Where a theorem
needs more it says so:

| Hypothesis | Theorems | Why |
|---|---|---|
| `~Overlap`: processes take turns | those of the tools but `TypeCorrect`; `AgentHeldFollows`, `AgentKeepsLifecycle`, `AgentKeepsScores`, `SuccessIsTrue` of the agent; the next two lines | nothing locks a record, and with overlapping writers they are false |
| `~Overlap`, `~CanCrash` | `UnreadableWhileStored` of the tools | a tool that dies while storing leaves a file that does not load |
| `~Overlap`, `~CanCrash`, `SavedByTools` (saved scores come with a status past `proposed`, as `cmd_score` leaves it) | of the search cycle: `TurnsFollow`, `ImplementsLifecycle`, `KeepsScores`, `PromotedStop`, `DecisionsCovered`, `DecisionsRespected` | a tool that dies while storing makes the bridge forget a decision (`cycle_torn`) |
| records saved before the first run have ids that people choose | `Provenance` | a record that was copied in under the id of a row has no batch |
| `Served` | `Delivered` | excludes the two kinds of workload of the findings `pipeline_growing` and `pipeline_shared`, and no other |
| `~InPlace`: output and input are different memory | the ciphers | in place an autokey reads what it wrote |
| `MadeOf(made)`: some set holds the stages of the recipes, of the recipes nested in them, and so on | `RecipesKeepApart`, `RecipesRoundTrip`, `RecipesMean` | recipes are finite trees of stages; nothing else is said of them, nor of their depth |
| `Catalogued(made)`: that, and `Parametrised(stage)` for each stage that is no recipe: the fields its kind takes, with any lag, key of rune indices, square matrix of two or three rows, grid | `RecipesRoundTrip`, `RecipesMean`, `StageUndone` | what `Params` and the JSON schema let through; what a transform refuses after that (a singular matrix, a ragged grid, a lag of zero) is in `StageAccepts`, not assumed |
| `Messages \subseteq Seq(Index29)` | `RecipesRoundTrip`, `RecipesMean` | a text is a sequence of rune indices |

*Tools.* `TypeOK` is inductive by itself. The lifecycle is not: a process stores
what it loaded many steps ago. The strengthening is `HeldFollowsDisk`: at most
one process holds a record, that record follows from the one on disk (status
reachable, no score missing), and while the process writes the file is empty, so
`Write` cannot mix bodies. `HeldFollows` proves it invariant; from it each step
that changes `content` maps to `Create` or `Advance` (`ImplementsLifecycle`),
and keeps scores (`KeepsScores`). Where nobody dies a file is unreadable only
while it is being stored (`UnreadableWhileStored`). What any step on the records
keeps is stated in `HypothesisStore_proof` for a step that holds, stores or
drops some record, so that tools and search cycle only have to show that theirs
are such steps.

*Search cycle.* Types and provenance hold whatever overlaps or dies. For
`Provenance` the strengthening is `ArtifactsFollowIds`: an artifact that was ever
completed has the rows its own id stands for, so that storing it again, which
empties it first, can only put the same rows back. `ReportIsTrue` needs
`InAccount`: the batches counted so far have ids of iterations gone by, so the
one that is being stored is none of them, and of the rows gone by each is a
record on disk or the one the scheduler holds. Taking turns, `TakingTurns`
carries `HeldFollowsDisk` over to a bridge that overwrites records
(`ScoringSetsStatus` is why what it makes afresh loses no score), which gives
the lifecycle, the scores and the promoted stop. A decision reaches the batch in
two parts: `DecisionsTravel` says that each decided record is in the prior or
still to be scanned in its decided state, and `RowsAreRanked` that the batch is
the ranked and cut merge of what the prior leaves of the grid. Ranking is
modelled by how many candidates are better; `BetterIsTotal` and
`RanksAreDistinct` say that this gives each its own rank, so an uncut batch has
them all.

*Batch runner.* The arithmetic comes first: `ChunkSize`, `RangesCover`,
`RangesDisjoint` say that the half-open chunks of launched workers partition the
indices for every N and core count. With `TypeOK` and `SlotsFinal` as inductive
invariant, disjointness gives that no worker touches a slot another has passed;
coverage gives that all slots are final once the futures are joined
(`AllFinal`), and then the reduction is what the contract expects
(`ReducesRight`, `SerialErrorIsFirst`). `ReturnsExpected` is the safety part of
the refinement. `SnapshotsCover` needs more: `Counting`, which says that the
counts handed out are at most `scored` and that what was counted is covered by
the current best, which never gets worse (`BetterIsStrictTotal` and its like).
For `PanelAgrees`, `Tallied` says that `scored` is the number of candidates
counted, each once, and that the panel's best is the score of one of them; the
first hit is better than all others since a finite set of candidates, ordered by
what is ahead of each, has a first one (`FirstIsBest`).

*Theory pipeline.* `TypeCorrect` has the types and `HostInStep`, what the host
alone keeps in order: what is staged fits, the two slabs differ from the first
upload on, a table that counts as resident belongs to a chunk that fits. The rest
of the invariant, `InStep`, relates the host to work that is still to run. An
operation has a number on its stream (`work`), which it keeps while those before
it retire; without that, every step of a stream would rename what the invariant
is about. Then `StreamsInStep` says that at most one kernel is queued, the one of
the ticket in flight, and a download only behind it; `SlabsInStep` that an upload
is for that kernel and ordered before it by the event, or is for what is staged
and into the other slab; `KernelInStep` that what a running kernel read is still
there; `TableInStep` that whoever bakes the table is known to the host. They are
proved together, one lemma for each step of host, streams and failures, and give
`SlabsApart` and `TableThere` on both kinds of streams, with every error.
`Delivered` adds `ScoredInStep`: lane errors and scores on the device, and what a
call has collected, are those of its chunks as long as the call began with
nothing in flight. It is where `Served` is used: a chunk longer than the first
replaces scores not yet read, and with several theories a table may be resident
while lane errors are another theory's.

*Agent.* The invariant is in layers. `TypeOK`, `Paced` (step, clock and counts
against the budgets in each phase) and `OneChild` (a child is there exactly while
a call runs, and only then does the agent hold a record) give `BudgetsHold`.
`Conversation` says how `messages`, `steps` and the answer at hand fit together,
which gives `EveryCallAnswered`; `Narrated` says the same of the transcript and
the envelopes, for `TranscriptFaithful`. `Settled`, `OnDisk` and `Truthful`
connect a result that says a record was changed with the record, for
`SucceededIsTrue`; that is where turns are needed, since another writer may take
the change back. `AgentUsesTools` maps each step to one of `HypothesisTools` or a
stutter, with or without turns. Taking turns, each step is thus one that holds,
stores or drops a record (`StepIsTool`), so the lemmas of `HypothesisStore_proof`
give the agent's workspace the invariant of the tools (`AgentHeldFollows`), and from
it the lifecycle and the scores (`AgentKeepsLifecycle`, `AgentKeepsScores`).

*Ciphers.* `StreamTypeOK` is inductive (no run checks it alone: a theorem says
more). For the round trip, `Traced` says that decryption goes through the key
symbols and feedbacks that encryption used at the same positions, and `Restored`
that what has been decrypted so far is the plain text; `Underway` ties the
position to the key position. The algebra (subtraction undoes addition, each
affine map with a unit is undone, Beaufort undoes itself) is a lemma for each
family about `0..28`. `KeyStream` follows from the same invariant: the feedback
of a position lists the symbols consumed before it, in order (`FeedbackListed`),
for the first position at which it did not would follow one at which it did; the
loop without interrupts has the symbol in the span itself.

*Counting.* `CatalogCounted` also follows from it: a finished round trip has each
symbol of the cipher text as the image of its plain symbol under the key symbol
of its position (`Finished`). The remaps of one histogram are then bijections of
the alphabet (`Images`, `AffineImage`). With a periodic key each column is such a
case, and the columns add up to all positions (`ColumnsAddUp`); the sum is a
function of how many columns it has, and that it is right for all of them is
shown by the first number for which it would not be.

*Recipes.* `RecipesKeepApart` is about the stack of calls. `WellNested`: the last
stage of a call writes where its caller's running stage is to write; before that
the text goes to and fro between the two scratch buffers of the call's own level;
and what a call reads is the input, or scratch of its level or one further out.
`Undisturbed`: the span a running stage writes is not the input of its own call
or of any call around it. How deep the stack is does not matter, since
`EnterNested` and `LeaveNested` change only its top, whose level has scratch
buffers no call around it knows.

*One stage.* `StageUndone` is about every transform a recipe can name, and has three
parts. A stream kernel (`StreamUndone`) is run as one call, with the feedback it
reads found in its own output (encrypting) or in its input (decrypting): a symbol,
once written, stays, so the call in the other direction finds the same feedback at
every position, by the first position at which it would not. A Hill block
(`HillUndone`) is undone because matrix times inverse is the unit matrix modulo 29,
from the cofactor identities over the integers and the inverse of the determinant; a
matrix of size two is one of size three with zeros around. A grid (`GridUndone`) is
undone because each reading order visits every cell once: lines, diagonals, columns
by the rank of their key symbol, and the spiral ring by ring, whose legs are disjoint
and cover the ring.

*Whole recipes.* `RecipesRoundTrip` follows the machine with its buffers. A
`Configuration` is the stack of calls, and the text in the span that the running
stage reads next (`Shown`). `RunLeaf`, `EnterNested` and `LeaveNested` act on
configurations alone (`LeafForth`, `EnterForth`, `LeaveForth`, where `WellNested` and
`Undisturbed` are used: no scratch buffer of a new call is one the text is in). Two
configurations mirror each other (`Mirrors`) if they show the same text and have the
same calls in opposite directions, what is done in one being what is left in the
other. If the encryption went from `a` to `b`, and the decryption is at a mirror of
`b`, then whatever its next step is leads to a mirror of `a` (`StepMirrored`): a stage
is undone by itself, entering a recipe by leaving it. The invariant `RoundInv` says
that the encryption has a `Trail` of configurations from its start, and that the
decryption mirrors one of them, closer to the start with every step; `ComposeFinish`
is a mirror of the start, which shows the message. The length of the trail is not
bounded, nor is how often recipes nest.

*What a recipe means.* `RecipesMean` shows that the machine computes `Meaning`: the
recipe unfolded level by level to its `Leaves`, and the text sent `Through` them.
Unfolding and sending through are recursive functions; what is needed of them is
that both take sequences apart (`LeavesJoined`, `ThroughJoined`), so that a stage in
front does what it does alone (`LeafMeans`), and a recipe in front what its stages
do one level further in (`RecipeMeans`). Each is shown by a set of numbers that a
step up does not leave (`StepsUp`), since the induction rules of the library cannot
be instantiated. The invariant (`Heads`) has one text for each call, which the call
will have made: what the stages still ahead of it (`StagesAhead`) make of the text
that the call inside it will have made. The outermost is the meaning of the whole,
the innermost starts from the text shown; a leaf changes the last text only,
entering a recipe adds one, leaving it drops one, and when the outermost call is
through, nothing is ahead of it and the text shown is the meaning.

*Only model-checked:* liveness (`RunsEnd`, `EveryCallReturns`, `RunEnds`, and the
fairness in `ContractSpec`), which is beyond the prover; and what theories,
compositions, launches, device and searches compute, whose definitions recurse over
trees, digits or stages, so that what they compute for every input is an induction
over data (of
`CountsAsDecoded` the part about the catalog is proved, `CatalogCounted`; theories
and launches are not). `ReportMatchesDisk`
counts rows as a set of pairs, ranking is a number of better candidates, and
columns are added by a recursive function, for the same reason: a fold could not
be reasoned about.

## 5. Findings

1. `S/cpu_candidate_export.hpp:124` filters before the seeds are merged at 128,
   and `merge_seeds` does not look at exclusions, so a promoted record with the
   params of a rejected one puts them back; `docs/spec/search-loop.md:258` says
   exclusions MUST remove matching candidates (`cycle_exclusions`).
2. `S/hypothesis_bridge.hpp:337`: a record that exists and does not load is
   overwritten with a fresh proposal, its decision gone; the comment above says
   an advanced status is preserved (`cycle_torn`).
3. `Parcae/Parcae/cuda/theory_device_scratch.hpp:161`: a chunk that makes the
   scratch grow replaces the score buffer before the scores of the chunk in
   flight are downloaded; `S/theory_export_pipeline.hpp:28` promises scores in
   submission order (`pipeline_growing`). The scheduler passes one chunk per
   call and is not affected.
4. `S/gpu_candidate_export.hpp:1096`: a launch on a resident S1 table takes its
   lane errors from a buffer any S0 launch has rewritten since; the comment at
   `Parcae/Parcae/cuda/theory_device_scratch.hpp:25` says the table is reused
   when program, slots and slab match (`pipeline_shared`). It takes a scratch
   that two theories share, as `LoopOptions::theory_scratch` allows.
5. `D/theory_shape_match.hpp:461` recognises `x + a` as a Caesar shift as well as
   `x - a`, and drops the sign; the Caesar kernel subtracts, so `x + a` is scored
   by the counts of `x - a`. `docs/architecture/dsl-smart-hist.md:112` gives the remap of
   a shape as that of its decode, and lines 299-300 require equal counts
   (`theory_caesar`).

6. `S/search_scheduler.hpp:866` (and 883 for beaufort): the fused path looks at
   `max_key_length` only and searches its default keys, where the host expands the
   list of keys of the job (`S/cpu_candidate_export.hpp:317`,
   `docs/spec/search-loop.md:193`, `docs/architecture/search-handbook.md:370`);
   `docs/spec/search-loop.md:395` requires the same ranked `candidate_id` sequence on
   both (`export_parity`).

Met while reading, and not stated as properties of a run:

- lowering looks names up in one map of the caller's and the callee's names
  (`D/dsl_build_ir.hpp`): inside a helper method `self.a` is the helper's argument
  `a` if it has one, and a helper sees the arguments of the step that called it.
  The sources of `cipher_apply` keep those names apart;
- a condition on the symbol inside a helper method, or inside a primitive through
  an argument that is not the first, passes the divergence gate, which
  `docs/spec/dsl.md` refuses as E033, and the select it becomes is marked as a
  branch although the comment at `D/dsl_build_ir.hpp:711` says that is for steps
  whose author asked. `DivergenceAsked` is about the bodies of the steps;
- `z29_select` is a builtin of the gate and of `docs/spec/dsl.md`, and the lowering
  has no case for it: a source that uses it is refused;
- `docs/spec/dsl.md` has domain violations of `z29_inv` refused at compile or
  verify time; a step is only tried on one symbol with the middle of each range,
  so most of them show when it is run;
- an inverse that depends on `i` is refused in `encrypt_step` and accepted in
  `decrypt_step`, because the trial binds `i` in time for one of them only;

- nothing locks a record (with `Overlap = TRUE` the later store wins);
- `set-status` reaches `scored` without a score
  (`tools/parcae_hypothesis/main.cpp:749`), which
  `docs/spec/hypothesis-workspace.md:267` defines as having one;
- a loop stops with `no_new_candidates` on empty exports only
  (`S/search_scheduler.hpp:467`), where `docs/spec/search-loop.md:483` says
  "Empty or duplicate-only";
- "no theory candidates after prior filters" of the theory path is not among the
  statuses the loop treats as a soft stop; exclusions and seeds compare params
  and ignore the transform; a new proposal for a decided record keeps its scores
  and status; one torn record makes every later cycle over the workspace fail;
  promoted seeds count towards `max_candidates`;
- a call of `run_chunks` after one whose staging failed always fails with a size
  mismatch, because it is handed the scores of the chunk that stayed in flight;
- nested inverses: `D/dsl_optimize.hpp:175` puts hoists back in the order they
  were taken, so in `x * inv(inv(a) + b)` the inner name is left unbound and the
  theory is refused, although the comment at 173 promises a self-contained form
  (`RefusedForReason` and `FormsAgree` let this refusal through and no other);
  an inverse that depends on the index `i` is hoisted like a constant one;
- the autokeys are documented "In-place OK"
  (`T/ciphertext_autokey_transform.hpp:28`, `T/plaintext_autokey_transform.hpp:29`,
  `docs/spec/transforms.md:48`), but the ciphertext autokey reads its feedback
  from the input it has overwritten when it decrypts, and the plaintext autokey
  when it encrypts: with `InPlace = TRUE`, `RoundTrip` fails. No caller in the
  repository applies them in place;
- `docs/spec/agent-tools.md:321` calls budgets hard stops; a run exceeds its wall
  by up to one request or one answer's calls, and a plain answer that arrives
  after the wall still ends the run as completed. `BudgetsHold` states what is true;
- `D/z29_expr_normalize.hpp:20` calls the normaliser idempotent, to a fixed point;
  for `i * x` two rules undo each other until the pass limit, so its normal form
  is that of the last pass (`CompiledAsMeant` covers the value, which is right);
- CUDA and CPU exports of one job differ in more than keys (finding 6) and speed.
  The recipe driver and the
  `atbash_caesar` grid ignore the interrupts of a stage; a theory's seed that
  repeats params scored and not kept comes back as a row; theory ids are numbered in
  the filtered list on CUDA and in the full one on CPU. These are in the model, and
  `RowsAsOnHost` names them. `max_candidates` is not
  compared (`docs/spec/search-loop.md:586`) and a theory with one invalid
  parameter fails on the CPU and has an infinite lane on the GPU: `HostAnswers`
  excludes what the host refuses.
  `prime_start_indices` that is no array is an error on one and a count on the
  other;
- a seed with the params of a candidate of another transform is dropped as known
  (`S/cpu_candidate_export.hpp:407`);
- the recipes the device accepts refuse Hill stages and nested recipes, and
  `params_json.hpp:535` drops a stage's own interrupts; the same file cuts
  `prime_start_index` (182) and the lag of the variable delay (286) to 32 bits;
- the dense ciphertext autokey on the device reads its feedback from a buffer that
  other threads overwrite when input and output are one
  (`ciphertext_autokey_kernel.cu:235`; `docs/architecture/cuda-micro-opts.md:16`
  calls this aliasing well-defined). A job with one buffer breaks `DeviceAsHost`, so
  `DeviceJobs` has it for the other kernels only; no caller in the repository does it;
- S1 evaluates all 29 symbols, so a theory that fails on a symbol absent from the
  text has an infinite score where the interpreter's is finite; `LanesAsDecoded`
  says so.

- in `D/dsl_fuse.hpp` bindings and directions are kept by the name of a step: one
  that occurs in an outer and in a nested composition with two values gets one of
  them in both places, the last one in the fused form (`inline_stage`, 760) and
  the first one in the staged form (`bound_compose_param`, 647), so the two
  differ; bindings and directions given to a nested composition as a whole are
  ignored, and its parameters are found by name among those of the outer one.
  `SaidOnce` sets these apart;
- builtins win over theories of the module with their name; interrupts pass
  through the fused expression and not through the elementwise transforms of the
  catalog, so a composition's text depends on the benchmark where there are any;
  the host header of a fallback has the least values as constants, since the
  compiler passes none (`D/dsl_compile.hpp:427`);
- fusing nests one level deeper (`depth > max_depth`, 714) than
  `ComposeTransform` does, whose limit it says it matches (38).

## 6. Not modelled

Parsing and validation of immutable inputs (jobs, ciphers, parameters, command
lines, `apply_ir`), I/O errors other than a crash, explicit `batch_ids`, the skip
mode of the bridge.

Of the theory language: the parser of Python and its JSON tree, host glue and
loops outside the hot path,
artifacts and registry, and the CUDA text that is emitted and compiled (those
kernels are modelled by what they count).

Of the kernels: warps and the order of atomic additions, which does not change a
sum of integers; the chi-square in floating point, and with it the ties that
rounding makes or breaks; the aliased dense ciphertext autokey above; limits of
batches at their real size. Plaintext and variable-delay autokeys and the grid
transpositions have no kernel on the device.

Of the searches: the `key_latin` of a key, parameters of a wrong JSON type, theory
lanes that fail on some symbols only (they are in `FusedHist`), seeds whose
interrupts a score refuses. Rendering, tokenizer, fixtures, gematria, benchmarks,
parity records and command lines keep no state whose order matters. The language
model of the agent is any sequence of answers; its HTTP client and the JSON
schemas of its tools are wording.

## 7. Plan

1. *(done)* records and tools; search cycle; batch runner; first theorems.
2. *(done)* the theory pipeline: slabs, two streams, ticket, table residency.
3. *(done)* `AgentLoop`: budgets, timeouts, transcript and envelopes, with proofs.
4. *(done)* ciphers: kernels with interrupts, the round trip proved; Hill, grids,
   recipes.
5. *(done)* theories: optimiser, normal form, bytecode; shapes, plans, counting.
6. *(done)* the front end of the theory language, against the source program as
   reference.
7. *(done)* the device: twins thread by thread, counting launches; grids and
   exports of all families on both backends.
8. `BatchArtifact` load over torn stores, `Workspace` scaffold and manifest;
   registry and artifacts of theories.
9. *(done)* proofs: the search cycle (types, provenance, report, lifecycle,
   decisions), the pipeline (slabs, table, delivery), the panel, the key stream,
   the buffers of recipes, counting without decoding, each transform undone by its
   opposite, recipes of them undone by themselves and run as they are meant.
10. Proofs left: the twins of the device, once their recursive operators are
   functions; the counts of a launch's tiles.
