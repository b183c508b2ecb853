---------------------------- MODULE DeviceTwins ----------------------------
(***************************************************************************)
(* A host call that decodes on the device: it checks what it was given,    *)
(* uploads the text, launches one kernel per stage, waits for the threads  *)
(* and copies the result back.  The threads of a kernel run in any order,  *)
(* each reading what it needs and writing it some time later.              *)
(***************************************************************************)
EXTENDS CatalogStages, DeviceKernels

(***************************************************************************)
(* A job is [way, aligned, aliased, candidates, skips, text].  way is the  *)
(* entry point: the "twin" of one transform, the "backend" that only knows *)
(* some of them, a "compose" recipe, a "batch" of candidates, the "smoke"  *)
(* kernel or a "matrix" operation.  A candidate is [stages, dir]; that of  *)
(* a matrix operation is [op, m, v].                                       *)
(***************************************************************************)
CONSTANT DeviceJobs

VARIABLES
  job,          \* index in DeviceJobs
  devStep,      \* "called", "staged", "running", "synced", "returned", "refused", "failed"
  ran,          \* the stages whose kernels ended
  devMem,       \* device buffer |-> contents
  launch,       \* the running kernel: [stage, dir, from, to, kernel]
  threads,      \* thread |-> [units, reg, ring, consumed]
  hostOut       \* the caller's output

deviceVars == <<job, devStep, ran, devMem, launch, threads, hostOut>>

Job == DeviceJobs[job]
Size == Len(Job.text)
View == InterruptView(Job.skips, Size)
FirstCandidate == Job.candidates[1]

NoLaunch == [kernel |-> "none"]

-----------------------------------------------------------------------------
(***************************************************************************)
(* What is refused before anything is uploaded.  compose_from_json checks  *)
(* the parameters of all stages, also of those it has no kernel for.       *)
(***************************************************************************)
OnDevice == Elementwise \cup Periodic \cup {"totient_prime_stream"}
Wired(stage) == stage.kind = "stream" /\ stage.params.family \in OnDevice

ParamsAccepted(stage) ==
  CASE stage.kind = "compose" -> FALSE
    [] stage.kind = "hill"    -> Det(stage.params) # 0
    [] stage.kind = "grid"    -> stage.params.rows >= 1 /\ stage.params.cols >= 1
    [] stage.kind = "stream"  ->
         Accepts([StreamOf(stage, {}, <<>>) EXCEPT !.skips = {}], <<>>)

RecipeParsed(stages) == stages # <<>> /\ \A n \in DOMAIN stages : ParamsAccepted(stages[n])

BackendKnows(stage) == ParamsAccepted(stage) /\ Wired(stage)

(***************************************************************************)
(* Only the kernels with a key stream are given the interrupts; the        *)
(* backend and the recipes check them for every transform.                 *)
(***************************************************************************)
TakesView(stage) == stage.kind = "stream" /\ stage.params.family \notin Elementwise

BatchAccepted(candidates, n) ==
  /\ Len(candidates) \in 1..MaxCandidates
  /\ n <= BitmaskMax
  /\ \A c \in DOMAIN candidates : RecipeParsed(candidates[c].stages)

CallAccepted ==
  LET first == FirstCandidate.stages[1] IN
    CASE Job.way = "matrix"  -> TRUE
      [] Job.way = "twin"    -> TakesView(first) => ViewAccepts(Job.skips, Size)
      [] Job.way = "smoke"   -> Len(first.params.key) = 1
      [] Job.way = "backend" -> BackendKnows(first) /\ ViewAccepts(Job.skips, Size)
      [] Job.way = "compose" -> RecipeParsed(FirstCandidate.stages) /\ ViewAccepts(Job.skips, Size)
      [] Job.way = "batch"   -> /\ BatchAccepted(Job.candidates, Size)
                                /\ TakesView(first) => ViewAccepts(Job.skips, Size)

(***************************************************************************)
(* The uploaded text and buffers nobody has written; a call whose input    *)
(* and output are the same memory has one buffer for both.                 *)
(***************************************************************************)
OutSize ==
  CASE Job.way = "batch"  -> Len(Job.candidates) * Size
    [] Job.way = "matrix" -> Len(Job.candidates)
    [] OTHER              -> Size

FreshOut ==
  IF Job.way = "matrix" THEN [n \in DOMAIN Job.candidates |-> <<>>] ELSE Fresh(OutSize)

InOneBuffer == Job.aliased /\ Job.way \in {"twin", "backend", "smoke"}

Uploaded == ("a" :> Job.text) @@ ("b" :> Fresh(Size)) @@ ("final" :> FreshOut)

-----------------------------------------------------------------------------
(***************************************************************************)
(* The stage that runs next: a recipe is encrypted backwards, every stage  *)
(* in the opposite direction.  Two buffers change places between stages.   *)
(***************************************************************************)
StageCount == IF Job.way = "compose" THEN Len(FirstCandidate.stages) ELSE 1

StageAt(s) ==
  IF FirstCandidate.dir = "decrypt" THEN FirstCandidate.stages[s + 1]
                             ELSE FirstCandidate.stages[StageCount - s]

EffectiveDir(stage) ==
  IF Job.way = "compose" THEN StageDirection(stage, FirstCandidate.dir) ELSE FirstCandidate.dir

ReadFrom(s) == IF s % 2 = 0 THEN "a" ELSE "b"

WriteTo(s) ==
  IF InOneBuffer THEN "a"
  ELSE IF s + 1 = StageCount THEN "final" ELSE ReadFrom(s + 1)

(***************************************************************************)
(* The keys of all stages lie in one arena, in the order of the recipe.    *)
(***************************************************************************)
ArenaOf(stages) ==
  PackedKeys([n \in DOMAIN stages |->
    IF stages[n].kind = "stream" /\ stages[n].params.family \in Periodic \cup Feedback
      THEN stages[n].params.key ELSE <<>>])

Position(stages, stage) == CHOOSE n \in DOMAIN stages : stages[n] = stage

(***************************************************************************)
(* The cipher a kernel is given: the shifts of a totient stage are counted *)
(* out on the host, a key is read from the arena.                          *)
(***************************************************************************)
DeviceKey(stage) ==
  CASE stage.params.family = "totient_prime_stream" ->
         TotientShifts(stage.params.lag, ConsumableCount(View, Size))
    [] stage.params.family \in Periodic /\ Job.way = "compose" ->
         ArenaKey(ArenaOf(FirstCandidate.stages), Position(FirstCandidate.stages, stage))
    [] OTHER -> stage.params.key

DeviceCipher(stage) ==
  [family |-> stage.params.family, key |-> DeviceKey(stage), lag |-> stage.params.lag]

(***************************************************************************)
(* run_stage, or the one kernel of the other entry points.                 *)
(***************************************************************************)
RecipeKernel(stage, dir) ==
  Unless(~Wired(stage), StreamLaunch(DeviceCipher(stage), dir, View, Size, TRUE))

StageKernel(stage, dir) ==
  CASE Job.way \in {"batch", "smoke"} -> "own"
    [] Job.way = "compose"            -> RecipeKernel(stage, dir)
    [] stage.kind = "grid"            -> "refused"                 \* no twin yet
    [] stage.kind = "hill"            -> IF Len(stage.params) = 2
                                         THEN Hill2Launch(stage.params, Size, Job.aligned)
                                         ELSE Hill3Launch(stage.params, Size)
    [] OTHER -> StreamLaunch(DeviceCipher(stage), dir, View, Size, Job.aligned)

(***************************************************************************)
(* What a thread computes for a unit of positions.                         *)
(***************************************************************************)
BatchSymbol(flat) ==
  LET c     == (flat \div Size) + 1
      t     == flat % Size
      dir   == Job.candidates[c].dir
      st    == Job.candidates[c].stages
      p     == st[1].params
      x     == At(devMem["a"], t)
      arena == PackedKeys([d \in DOMAIN Job.candidates |->
                             Job.candidates[d].stages[1].params.key]) IN
    CASE Len(st) = 2               -> AtbashCaesarBatch(dir, x, st[2].params.key[1])
      [] p.family = "caesar"       -> CaesarBatch(dir, x, p.key[1])
      [] p.family = "affine"       -> AffineBatch(dir, x, p.key[1], p.key[2])
      [] p.family = "atbash"       -> AtbashBatch(x)
      [] p.family = "vigenere_key" -> VigenereBatch(dir, x, View, arena, c, t)

\* A matrix without an inverse only raises a flag.
MatrixResult(c) ==
  IF c.op = "mul_vec" THEN DeviceMulVec(c.m, c.v)
  ELSE IF Det(c.m) = 0 THEN <<>> ELSE Inverted(c.m)

KernelSymbol(c, in, t) ==
  IF launch.kernel = "skips" THEN SkipSymbol(c, launch.dir, View, in, t)
                             ELSE DenseSymbol(c, launch.dir, in, t)

KernelSymbols(c, in, unit) == [i \in DOMAIN unit |-> KernelSymbol(c, in, unit[i])]

Computed(unit) ==
  CASE Job.way = "batch"           -> [i \in DOMAIN unit |-> BatchSymbol(unit[i])]
    [] Job.way = "matrix"          -> [i \in DOMAIN unit |-> MatrixResult(At(Job.candidates, unit[i]))]
    [] launch.stage.kind = "hill"  -> HillUnit(launch.stage.params, launch.dir,
                                               devMem[launch.from], unit)
    [] OTHER                       -> KernelSymbols(DeviceCipher(launch.stage),
                                                    devMem[launch.from], unit)

Started(kernel, n) ==
  [tid \in 0..(GridThreads(kernel, n) - 1) |->
     [units |-> UnitsOf(kernel, tid, n), reg |-> <<>>, consumed |-> 0,
      ring  |-> [p \in 0..(Size - 1) |-> Unwritten]]]

-----------------------------------------------------------------------------
DeviceInit ==
  /\ job \in DOMAIN DeviceJobs
  /\ devStep = "called" /\ ran = 0
  /\ devMem = <<>> /\ launch = NoLaunch /\ threads = <<>>
  /\ hostOut = FreshOut

TwinCall ==
  /\ devStep = "called"
  /\ devStep' = IF CallAccepted THEN "staged" ELSE "refused"
  /\ devMem' = IF CallAccepted THEN Uploaded ELSE devMem
  /\ UNCHANGED <<job, ran, launch, threads, hostOut>>

\* An empty text has no kernel to launch.
Launch ==
  /\ devStep = "staged"
  /\ \E stage \in {IF Job.way = "matrix" THEN NoLaunch ELSE StageAt(ran)} :
     \E dir \in {IF Job.way = "matrix" THEN "decrypt" ELSE EffectiveDir(stage)} :
     \E kernel \in {IF Job.way = "matrix" THEN "own" ELSE StageKernel(stage, dir)} :
       /\ devStep' = IF kernel = "refused" THEN "refused" ELSE "running"
       /\ launch' = [stage |-> stage, dir |-> dir, from |-> ReadFrom(ran),
                     to |-> WriteTo(ran), kernel |-> kernel]
       /\ threads' = IF kernel = "refused" \/ OutSize = 0 THEN <<>>
                     ELSE Started(kernel, OutSize)
  /\ UNCHANGED <<job, ran, devMem, hostOut>>

ThreadLoad(tid) ==
  /\ devStep = "running"
  /\ threads[tid].units # <<>> /\ threads[tid].reg = <<>>
  /\ LET unit == Head(threads[tid].units) IN
       threads' = [threads EXCEPT ![tid] =
         IF launch.kernel = "serial"
           THEN AutokeySerial(DeviceCipher(launch.stage), launch.dir, View,
                              devMem[launch.from], unit[1], @)
           ELSE [@ EXCEPT !.reg = Computed(unit)]]
  /\ UNCHANGED <<job, devStep, ran, devMem, launch, hostOut>>

ThreadStore(tid) ==
  /\ devStep = "running" /\ threads[tid].reg # <<>>
  /\ LET me   == threads[tid]
         unit == Head(me.units) IN
       /\ devMem' = [devMem EXCEPT ![launch.to] =
            [p \in DOMAIN @ |-> IF \E i \in DOMAIN unit : unit[i] = p - 1
                                  THEN me.reg[CHOOSE i \in DOMAIN unit : unit[i] = p - 1]
                                  ELSE @[p]]]
       /\ threads' = [threads EXCEPT ![tid].units = Tail(@), ![tid].reg = <<>>]
  /\ UNCHANGED <<job, devStep, ran, launch, hostOut>>

(***************************************************************************)
(* cudaDeviceSynchronize returns when all threads are through.             *)
(***************************************************************************)
Sync ==
  /\ devStep = "running"
  /\ \A tid \in DOMAIN threads : threads[tid].units = <<>>
  /\ ran' = ran + 1 /\ threads' = <<>> /\ launch' = [launch EXCEPT !.kernel = "none"]
  /\ devStep' = IF ran + 1 = StageCount THEN "synced" ELSE "staged"
  /\ UNCHANGED <<job, devMem, hostOut>>

CopyBack ==
  /\ devStep = "synced" /\ devStep' = "returned"
  /\ hostOut' = devMem[launch.to]
  /\ UNCHANGED <<job, ran, devMem, launch, threads>>

(***************************************************************************)
(* An allocation, a copy, a launch or a synchronisation may fail; what the *)
(* kernels have written by then stays on the device.                       *)
(***************************************************************************)
\* The inverses and their flags come back in two copies.
PartialCopies ==
  IF Job.way = "matrix" /\ devStep = "synced" THEN {devMem[launch.to]} ELSE {}

DeviceFault ==
  /\ devStep \in {"called", "staged", "running", "synced"}
  /\ devStep = "called" => CallAccepted
  /\ devStep = "running" => \A tid \in DOMAIN threads : threads[tid].units = <<>>
  /\ devStep' = "failed"
  /\ UNCHANGED <<job, ran, devMem, launch, threads>>
  /\ hostOut' \in {hostOut} \cup PartialCopies

DeviceNext ==
  \/ TwinCall \/ Launch \/ Sync \/ CopyBack \/ DeviceFault
  \/ \E tid \in DOMAIN threads : ThreadLoad(tid) \/ ThreadStore(tid)

-----------------------------------------------------------------------------
(***************************************************************************)
(* What the host computes for the job, and whether it accepts it.          *)
(***************************************************************************)
HostMeaning ==
  CASE Job.way = "matrix" ->
         [n \in DOMAIN Job.candidates |->
            LET c == Job.candidates[n] IN
              IF c.op = "mul_vec" THEN MulVec(c.m, c.v)
              ELSE IF Det(c.m) = 0 THEN <<>> ELSE Inverted(c.m)]
    [] Job.way = "batch" ->
         FlattenSeq([n \in DOMAIN Job.candidates |->
           Meaning(Job.candidates[n].stages, Job.candidates[n].dir, Job.skips, Job.text)])
    [] OTHER -> Meaning(FirstCandidate.stages, FirstCandidate.dir, Job.skips, Job.text)

HostAccepts ==
  Job.way = "matrix" \/
    \A n \in DOMAIN Job.candidates : \A s \in DOMAIN Job.candidates[n].stages :
      LET stage == Job.candidates[n].stages[s] IN
        stage.kind # "compose" /\ StageAccepts(stage, Job.skips, Job.text)

(***************************************************************************)
(* What only the device refuses: transforms without a twin on the way that *)
(* was taken, interrupts beyond the text where the host ignores them, and  *)
(* batches beyond their limits.                                            *)
(***************************************************************************)
HasTwin(stage) ==
  stage.kind # "grid" /\
    (stage.kind = "stream" =>
       \/ stage.params.family \in OnDevice
       \/ stage.params.family = "ciphertext_autokey" /\ stage.params.lag = Len(stage.params.key))

BeyondDevice ==
  \/ ~ViewAccepts(Job.skips, Size)
  \/ Job.way = "batch" /\ (Len(Job.candidates) \notin 1..MaxCandidates \/ Size > BitmaskMax)
  \/ Job.way \in {"backend", "compose"}
       /\ \E s \in DOMAIN FirstCandidate.stages : ~Wired(FirstCandidate.stages[s])
  \/ Job.way = "twin" /\ ~HasTwin(StageAt(0))
  \/ Job.way = "compose" /\ FirstCandidate.stages = <<>>

(***************************************************************************)
(* Whatever the order in which the threads run and however the text is cut *)
(* up among them, the device returns what the host would compute; a call   *)
(* that is refused or fails has not touched the caller's output.           *)
(***************************************************************************)
DeviceAsHost ==
  /\ devStep = "returned" => HostAccepts /\ hostOut = HostMeaning
  /\ devStep = "refused" \/ (devStep = "failed" /\ Job.way # "matrix") =>
       hostOut = FreshOut
  /\ devStep = "refused" => ~HostAccepts \/ BeyondDevice
=============================================================================
