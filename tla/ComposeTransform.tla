-------------------------- MODULE ComposeTransform --------------------------
(***************************************************************************)
(* A recipe of stages.  The stages describe the decryption in array order; *)
(* encrypting runs them backwards with every direction inverted.  A recipe *)
(* may be a stage of a recipe.  What one stage leaves the next one reads,  *)
(* through two scratch buffers per recipe that change places; the last     *)
(* stage writes the output.                                                *)
(***************************************************************************)
EXTENDS CatalogStages

CONSTANTS
  Recipes,      \* a sequence of [stages, skips]: recipes and the outer interrupts
  Messages      \* the texts, sequences of Index29

ASSUME ComposeAssumption == ~InPlace

VARIABLES
  recipe,       \* index in Recipes
  message,      \* the text
  phase,        \* "start", "encrypt", "decrypt", "done" or "refused"
  memory,       \* buffer |-> contents
  calls         \* the running apply_into_with_depth, outermost first

composeVars == <<recipe, message, phase, memory, calls>>

InBuffer == <<0, "input">>
OutBuffer == <<0, "output">>
ScratchA(depth) == <<depth, "a">>
ScratchB(depth) == <<depth, "b">>

Stages == Recipes[recipe].stages

-----------------------------------------------------------------------------
(***************************************************************************)
(* One call: done counts the stages that ran, in and out are current_in    *)
(* and current_out, dest is where the last stage writes.                   *)
(***************************************************************************)
Depth == Len(calls) - 1
Running == calls[Len(calls)]
Multi(call) == Len(call.stages) > 1

IsLast(call) == call.done + 1 = Len(call.stages)

NextStage(call) ==
  IF call.dir = "decrypt" THEN call.stages[call.done + 1]
                          ELSE call.stages[Len(call.stages) - call.done]

Target(call) == IF IsLast(call) THEN call.dest ELSE call.out

\* Faulty variant: the buffers do not change places after the second stage.
AdvancedOnce(call, depth) ==
  [call EXCEPT !.done = @ + 1, !.in = ScratchB(depth), !.out = ScratchA(depth)]

\* Faulty variant: the next stage writes where it reads.
AdvancedInPlace(call, depth) ==
  [call EXCEPT !.done = @ + 1, !.in = Target(call)]

\* advance: what was just written is read next, over the other buffer.
Advanced(call, depth) ==
  IF IsLast(call) THEN [call EXCEPT !.done = @ + 1]
  ELSE [call EXCEPT !.done = @ + 1,
          !.in  = IF call.out = ScratchB(depth) THEN ScratchB(depth) ELSE ScratchA(depth),
          !.out = IF call.out = ScratchB(depth) THEN ScratchA(depth) ELSE ScratchB(depth)]

NewCall(stages, dir, skips, in, dest, depth) ==
  [stages |-> stages, dir |-> dir, skips |-> skips, done |-> 0, in |-> in,
   out |-> IF Len(stages) > 1 THEN ScratchB(depth) ELSE dest, dest |-> dest]

(***************************************************************************)
(* Entering a recipe refuses one nested too deeply or without stages; with *)
(* more than one stage it makes the scratch buffers, a copy of the input   *)
(* and zeros.                                                              *)
(***************************************************************************)
EntryOK(stages, depth) == depth < MaxDepth /\ stages # <<>>

WithBuffer(mem, buffer, text) ==
  [b \in DOMAIN mem \cup {buffer} |-> IF b = buffer THEN text ELSE mem[b]]

WithScratch(mem, stages, in, depth) ==
  IF Len(stages) > 1
    THEN WithBuffer(WithBuffer(mem, ScratchA(depth), mem[in]), ScratchB(depth), Zeros(Len(message)))
    ELSE mem

Refuse ==
  /\ phase' = "refused" /\ calls' = <<>>
  /\ UNCHANGED <<recipe, message, memory>>

\* What the caller brings: the text, and an output as long.
CallerBuffers(text) ==
  [b \in {InBuffer, OutBuffer} |-> IF b = InBuffer THEN text ELSE Zeros(Len(text))]

ComposeInit ==
  /\ recipe \in 1..Len(Recipes) /\ message \in Messages
  /\ phase = "start" /\ calls = <<>>
  /\ memory = CallerBuffers(message)

Outermost(dir, mem) ==
  /\ phase' = dir
  /\ calls' = <<NewCall(Stages, dir, Recipes[recipe].skips, InBuffer, OutBuffer, 0)>>
  /\ memory' = WithScratch(mem, Stages, InBuffer, 0)
  /\ UNCHANGED <<recipe, message>>

ComposeStart ==
  /\ phase = "start"
  /\ IF EntryOK(Stages, 0) THEN Outermost("encrypt", memory) ELSE Refuse

RunLeaf ==
  /\ calls # <<>> /\ Running.done < Len(Running.stages)
  /\ LET call  == Running
         stage == NextStage(call)
         skips == StageSkips(stage, call.skips, Depth)
         text  == memory[call.in] IN
       /\ stage.kind # "compose"
       /\ IF ~StageAccepts(stage, skips, text) THEN Refuse
          ELSE /\ memory' = [memory EXCEPT ![Target(call)] =
                               StageOutput(stage, StageDirection(stage, call.dir), skips, text)]
               /\ calls' = [calls EXCEPT ![Len(calls)] = Advanced(call, Depth)]
               /\ UNCHANGED <<recipe, message, phase>>

EnterNested ==
  /\ calls # <<>> /\ Running.done < Len(Running.stages)
  /\ LET call  == Running
         stage == NextStage(call) IN
       /\ stage.kind = "compose"
       /\ IF ~EntryOK(stage.params, Depth + 1) THEN Refuse
          ELSE /\ calls' = Append(calls, NewCall(stage.params, StageDirection(stage, call.dir),
                                            StageSkips(stage, call.skips, Depth), call.in,
                                            Target(call), Depth + 1))
               /\ memory' = WithScratch(memory, stage.params, call.in, Depth + 1)
               /\ UNCHANGED <<recipe, message, phase>>

LeaveNested ==
  /\ Len(calls) > 1 /\ Running.done = Len(Running.stages)
  /\ calls' = [Front(calls) EXCEPT ![Depth] = Advanced(@, Depth - 1)]
  /\ UNCHANGED <<recipe, message, phase, memory>>

(***************************************************************************)
(* The output of the encryption is the input of a new call, decrypting.    *)
(***************************************************************************)
ComposeTurn ==
  /\ Len(calls) = 1 /\ Running.done = Len(Running.stages) /\ phase = "encrypt"
  /\ Outermost("decrypt", CallerBuffers(memory[OutBuffer]))

ComposeFinish ==
  /\ Len(calls) = 1 /\ Running.done = Len(Running.stages) /\ phase = "decrypt"
  /\ phase' = "done" /\ calls' = <<>>
  /\ UNCHANGED <<recipe, message, memory>>

ComposeNext ==
  ComposeStart \/ RunLeaf \/ EnterNested \/ LeaveNested \/ ComposeTurn \/ ComposeFinish

ComposeSpec == ComposeInit /\ [][ComposeNext]_composeVars

-----------------------------------------------------------------------------
(***************************************************************************)
(* However many stages there are and however they nest, what the buffers   *)
(* hold in the end is what the recipe means.                               *)
(***************************************************************************)
PipelineMeaning ==
  (Len(calls) = 1 /\ Running.done = Len(Running.stages)) =>
    memory[OutBuffer] = Meaning(Stages, phase, Recipes[recipe].skips, memory[InBuffer])

(***************************************************************************)
(* Decrypting with the recipe the text was encrypted with gives the text   *)
(* back, for every transform of the catalog and any nesting of them.       *)
(***************************************************************************)
PipelineRoundTrip == phase = "done" => memory[OutBuffer] = message

(***************************************************************************)
(* No stage ever reads the buffer it writes, no running recipe has its     *)
(* input overwritten by the recipes it runs, and the caller's input is     *)
(* never written at all.                                                   *)
(***************************************************************************)
BuffersApart ==
  /\ \A n \in DOMAIN calls :
       LET call == calls[n] IN
         call.done < Len(call.stages) =>
           /\ call.in # Target(call)
           /\ Target(call) # InBuffer
  /\ \A n \in 1..(Len(calls) - 1) : calls[n].in # Target(Running) \/ Running.done = Len(Running.stages)

-----------------------------------------------------------------------------
(***************************************************************************)
(* What keeps the buffers apart, as an inductive invariant of the running  *)
(* calls: a call reads the input of the recipe around it or one of its own *)
(* two buffers, writes the other one or, last, what the recipe around it   *)
(* writes, and what a call writes is read by none of those around it.      *)
(***************************************************************************)
ScratchTo(depth) == (0..depth) \X {"a", "b"}

Unfinished(call) == call.done < Len(call.stages)

Paired(call, depth) ==
  \/ call.in = ScratchA(depth) /\ call.out = ScratchB(depth)
  \/ call.in = ScratchB(depth) /\ call.out = ScratchA(depth)

AtFirst(call, depth) ==
  /\ call.in \notin {ScratchA(depth), ScratchB(depth)}
  /\ Multi(call) => call.out = ScratchB(depth)

WellNested(running) ==
  \A n \in DOMAIN running :
    /\ running[n].stages # <<>> /\ running[n].done <= Len(running[n].stages)
    /\ n < Len(running) => Unfinished(running[n])
    /\ running[n].in \in {InBuffer} \cup ScratchTo(n - 1)
    /\ n = 1 => running[n].dest = OutBuffer
    /\ n > 1 => running[n].dest = Target(running[n - 1])
    /\ Unfinished(running[n]) =>
         IF running[n].done = 0 THEN AtFirst(running[n], n - 1) ELSE Paired(running[n], n - 1)

Undisturbed(running) ==
  \A n \in DOMAIN running :
    Unfinished(running[n]) =>
      /\ Target(running[n]) \in {OutBuffer} \cup ScratchTo(n - 1)
      /\ \A m \in 1..n : running[m].in # Target(running[n])

CallsInPlace == WellNested(calls) /\ Undisturbed(calls)

(***************************************************************************)
(* Stages that recipes are made of: every recipe is a sequence of them,    *)
(* and so is a recipe that is one of them.  For any recipes, their stages, *)
(* the stages of those and so on are such a set.                           *)
(***************************************************************************)
MadeOf(made) ==
  /\ Recipes \in Seq([stages : Seq(made), skips : SUBSET Nat])
  /\ \A stage \in made :
       /\ stage.direction \in {"default", "encrypt", "decrypt"}
       /\ stage.skips \in SUBSET Nat
       /\ stage.kind = "compose" => stage.params \in Seq(made)
=============================================================================
