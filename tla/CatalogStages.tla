--------------------------- MODULE CatalogStages ---------------------------
(***************************************************************************)
(* The stages of a recipe and what they do to a text: which transform,     *)
(* under which parameters, in which direction and with which interrupts.   *)
(***************************************************************************)
EXTENDS StreamKernels, BlockKernels

CONSTANT MaxDepth      \* max_depth, how deep recipes may nest

ASSUME DepthAssumption == MaxDepth \in Nat \ {0}

(***************************************************************************)
(* A stage is [kind, params, direction, own, skips]: direction may be      *)
(* "default", own says whether it has interrupts of its own.               *)
(***************************************************************************)
Opposite(dir) == IF dir = "decrypt" THEN "encrypt" ELSE "decrypt"

StageDirection(stage, dir) ==
  LET recipeDir == IF stage.direction = "default" THEN "decrypt" ELSE stage.direction IN
    IF dir = "decrypt" THEN recipeDir ELSE Opposite(recipeDir)

\* The outer interrupts reach the stages of the outermost recipe only.
StageSkips(stage, skips, depth) ==
  IF stage.own THEN stage.skips ELSE IF depth = 0 THEN skips ELSE {}

\* params.lag of the totient stream is the index of its first prime.
StreamOf(stage, skips, text) ==
  LET c == [family |-> stage.params.family, key |-> stage.params.key,
            lag |-> stage.params.lag, skips |-> skips] IN
    IF c.family = "totient_prime_stream"
      THEN [c EXCEPT !.key = TotientShifts(c.lag, Cardinality(Taken(c, Len(text))))]
      ELSE c

StageAccepts(stage, skips, text) ==
  CASE stage.kind = "stream" -> Accepts(StreamOf(stage, skips, text), text)
    [] stage.kind = "hill"   -> HillAccepts(stage.params, text)
    [] stage.kind = "grid"   -> GridAccepts(stage.params, text)

\* A call of a kernel takes one step for each symbol.
StreamOutput(c, dir, text) ==
  LET run[n \in 0..Len(text)] ==
        IF n = 0 THEN Called(text, Zeros(Len(text))) ELSE KernelStep(c, dir, run[n - 1]) IN
    run[Len(text)].output

StageOutput(stage, dir, skips, text) ==
  CASE stage.kind = "stream" -> StreamOutput(StreamOf(stage, skips, text), dir, text)
    [] stage.kind = "hill"   -> HillOutput(stage.params, dir, text)
    [] stage.kind = "grid"   -> GridOutput(stage.params, dir, text)

-----------------------------------------------------------------------------
(***************************************************************************)
(* What a recipe means, without buffers: it comes down to its leaves, the  *)
(* transforms in the order they run, and each takes what the one before it *)
(* made.  A recipe is unfolded as often as recipes may nest.               *)
(***************************************************************************)
InOrder(stages, dir, skips, depth) ==
  [n \in DOMAIN stages |->
     LET stage == stages[IF dir = "decrypt" THEN n ELSE Len(stages) + 1 - n] IN
       [stage |-> stage, dir |-> StageDirection(stage, dir),
        skips |-> StageSkips(stage, skips, depth)]]

Unfolded(items, depth) ==
  FlattenSeq([n \in DOMAIN items |->
    IF items[n].stage.kind = "compose"
      THEN InOrder(items[n].stage.params, items[n].dir, items[n].skips, depth)
      ELSE <<items[n]>>])

\* What the stages of a recipe at that depth come down to.
Leaves(items, depth) ==
  LET level[n \in 0..(MaxDepth - 1 - depth)] ==
        IF n = 0 THEN items ELSE Unfolded(level[n - 1], depth + n) IN
    level[MaxDepth - 1 - depth]

Through(leaves, text) ==
  LET made[n \in 0..Len(leaves)] ==
        IF n = 0 THEN text
        ELSE StageOutput(leaves[n].stage, leaves[n].dir, leaves[n].skips, made[n - 1]) IN
    made[Len(leaves)]

Meaning(stages, dir, skips, text) == Through(Leaves(InOrder(stages, dir, skips, 0), 0), text)
=============================================================================
