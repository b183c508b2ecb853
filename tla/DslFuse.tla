------------------------------ MODULE DslFuse ------------------------------
(***************************************************************************)
(* A composition of theories on its way to its artifacts.  Its nested      *)
(* steps are flattened, the steps of the leaves are put into one another   *)
(* to one expression per direction, both ways of running it are measured,  *)
(* and the faster one is written: the fused expression, or a recipe of     *)
(* transforms of the catalog.  What runs from the registry is the fused    *)
(* expression in any case.                                                 *)
(*                                                                         *)
(* A job is [source, name, dirs, values, text, skips]: the composition     *)
(* name of a module, the directions a caller of ComposeIr::make gives to   *)
(* its steps (a source has no way to), the values of its parameters, and   *)
(* a text with the positions of its interrupts.                            *)
(***************************************************************************)
EXTENDS TheoryApply, CandidateGrid

CONSTANTS
  ComposeJobs,     \* a sequence of jobs
  FuseDepth,       \* DslFuse::max_depth, 8
  BenchStream      \* stands for the pseudo-random stream of bench_cpu

VARIABLES
  composition,     \* one of ComposeJobs
  fuseStep,        \* "written", "lowered", "fused", "measured", "emitted" or "refused"
  leaves,          \* name |-> [params, steps, family] of what a step can be
  flat,            \* [ok, steps, bindings, dirs, params] of the flattened composition
  fused,           \* [encrypt, decrypt]: one expression each
  fusion           \* "fused" or "fallback_staged"

fuseVars == <<composition, fuseStep, leaves, flat, fused, fusion>>

NoComposition == [name |-> ""]

-----------------------------------------------------------------------------
(***************************************************************************)
(* DslCatalogBuiltins: what a step can be without a theory in the module.  *)
(***************************************************************************)
Directions == {"encrypt", "decrypt"}

Elementary(params, encrypt, decrypt) ==
  [params |-> params, steps |-> [encrypt |-> encrypt, decrypt |-> decrypt],
   family |-> "elementwise"]

ResidueParam(name, min) == [name |-> name, min |-> min, max |-> 28]
SymbolVar == Var(Cipher_var)
KeyShift == Call("autokey_shift", <<SymbolVar, Var("lag")>>)
KeyDet == DetExpr(<<Var("a"), Var("b"), Var("c"), Var("d")>>)

Builtins ==
  [identity    |-> Elementary(<<>>, SymbolVar, SymbolVar),
   atbash      |-> Elementary(<<>>, Node("atbash", <<SymbolVar>>), Node("atbash", <<SymbolVar>>)),
   caesar      |-> Elementary(<<ResidueParam("shift", 0)>>, Bin("add", SymbolVar, Var("shift")),
                              Bin("sub", SymbolVar, Var("shift"))),
   affine      |-> Elementary(<<ResidueParam("a", 1), ResidueParam("b", 0)>>,
                              Bin("add", Bin("mul", Var("a"), SymbolVar), Var("b")),
                              Bin("mul", Node("inv", <<Var("a")>>), Bin("sub", SymbolVar, Var("b")))),
   matrix_mix  |-> Elementary([n \in 1..4 |-> ResidueParam(<<"a", "b", "c", "d">>[n], 0)],
                              Bin("add", SymbolVar, KeyDet), Bin("sub", SymbolVar, KeyDet)),
   autokey_lag |-> Elementary(<<ResidueParam("lag", 1)>>, Bin("add", SymbolVar, KeyShift),
                              Bin("sub", SymbolVar, KeyShift))]

\* is_staged_catalog_id, of the builtins: the others have no twin in the catalog.
Staged == {"identity", "atbash", "caesar", "affine"}

\* The builtins come first: a theory of the module does not replace one.
LeavesOf(unit) ==
  Builtins @@ [n \in DOMAIN unit.theories |->
                 LET t == unit.theories[n] IN
                   [params |-> t.params, family |-> t.family,
                    steps  |-> [dir \in Directions |-> ApplyFormOf(Optimize(StepOf(t, dir)))]]]

-----------------------------------------------------------------------------
(***************************************************************************)
(* flatten_steps: a nested composition stands for its steps.  Bindings and *)
(* directions are kept by the name of the step; those of the composition   *)
(* itself come after those of the nested ones.                             *)
(***************************************************************************)
ComposesOf(unit) ==
  [n \in DOMAIN unit.composes |->
     unit.composes[n] @@ [dirs |-> IF unit.composes[n].name \in DOMAIN composition.dirs
                                     THEN composition.dirs[unit.composes[n].name] ELSE NoFunction]]

IsNested(composes, name) == \E c \in ToSet(composes) : c.name = name

\* Of two compositions with a name the first one is found.
ComposeNamed(composes, name) ==
  composes[CHOOSE n \in DOMAIN composes :
             composes[n].name = name /\ \A m \in 1..n - 1 : composes[m].name # name]

RecipeDirection(compose, step) ==
  IF step \in DOMAIN compose.dirs THEN compose.dirs[step] ELSE "decrypt"

RECURSIVE FlattenedInto(_, _, _, _)
FlattenedInto(acc, compose, composes, depth) ==
  LET add(f, step) ==
        CASE ~f.ok -> f
          [] f.ok /\ IsNested(composes, step) ->
               LET inner == ComposeNamed(composes, step) IN
                 FlattenedInto([f EXCEPT !.bindings = @ \o inner.bindings], inner, composes,
                               depth + 1)
          [] OTHER -> [f EXCEPT !.steps = Append(@, step),
                                !.dirs = (step :> RecipeDirection(compose, step)) @@ @] IN
    IF depth > FuseDepth THEN [acc EXCEPT !.ok = FALSE]
    ELSE FoldLeft(add, acc, compose.steps)

NothingFlat ==
  [ok |-> TRUE, steps |-> <<>>, bindings |-> <<>>, dirs |-> NoFunction, params |-> <<>>]

FlatOf(compose, composes) ==
  LET f == FlattenedInto(NothingFlat, compose, composes, 0) IN
    [f EXCEPT !.bindings = @ \o compose.bindings, !.params = compose.params]

-----------------------------------------------------------------------------
(***************************************************************************)
(* inline_stage: the step of a leaf with what was made so far in the place *)
(* of the symbol; of two bindings of a parameter the last one counts.      *)
(***************************************************************************)
InlineMapping(leaf, step, before) ==
  LET own == (Cipher_var :> before) @@ AsVars({p.name : p \in ToSet(leaf.params)}) IN
    FoldLeft(LAMBDA m, b : (b.param :> Var(b.ref)) @@ m, own,
             SelectSeq(flat.bindings, LAMBDA b : b.step = step))

InlinedStage(before, step, dir) ==
  Instantiated(leaves[step].steps[dir], InlineMapping(leaves[step], step, before))

Inlinable == \A s \in ToSet(flat.steps) : s \in DOMAIN leaves /\ leaves[s].family = "elementwise"

FusedDecrypt ==
  FoldLeft(LAMBDA e, s : InlinedStage(e, s, flat.dirs[s]), SymbolVar, flat.steps)

FusedEncrypt ==
  FoldLeft(LAMBDA e, s : InlinedStage(e, s, Opposite(flat.dirs[s])), SymbolVar,
           Reverse(flat.steps))

-----------------------------------------------------------------------------
(***************************************************************************)
(* bound_compose_param: of two bindings of a parameter the first counts.   *)
(***************************************************************************)
BoundParam(step, param) ==
  LET bound == {n \in DOMAIN flat.bindings :
                  flat.bindings[n].step = step /\ flat.bindings[n].param = param} IN
    IF bound = {} THEN param ELSE flat.bindings[Min(bound)].ref

\* stage_params_json, make_stage_env: what has no value gets the least of its range.
StageValues(step, values) ==
  LET params == leaves[step].params
      given(p) == IF BoundParam(step, p.name) \in DOMAIN values
                    THEN values[BoundParam(step, p.name)] ELSE p.min IN
    [n \in {p.name : p \in ToSet(params)} |-> given(CHOOSE p \in ToSet(params) : p.name = n)]

LeastValues == [n \in {p.name : p \in ToSet(flat.params)} |->
                  (CHOOSE p \in ToSet(flat.params) : p.name = n).min]

ExprText(e, values, text) ==
  [n \in DOMAIN text |->
     EvalAt(e, [env |-> (Cipher_var :> text[n]) @@ values, stream |-> text, i |-> n - 1,
                device |-> FALSE])]

Undone(text) == \E n \in DOMAIN text : text[n] = Failed

\* apply_staged_decrypt: each leaf on the text that the one before it made.
StagedBench ==
  FoldLeft(LAMBDA text, s : IF Undone(text) THEN text
                            ELSE ExprText(leaves[s].steps[flat.dirs[s]], StageValues(s, NoFunction), text),
           BenchStream, flat.steps)

AllStaged == ToSet(flat.steps) \subseteq Staged

(***************************************************************************)
(* emit_theory_header, of the fused expressions: an autokey reads the text *)
(* that the kernel is given, and nothing else can stand for it.            *)
(***************************************************************************)
Emittable(e) ==
  \A s \in Subterms(e) : IsAutokey(s) => s.args[1] = SymbolVar

-----------------------------------------------------------------------------
(***************************************************************************)
(* The recipe of the catalog that stands for the composition.  The device's*)
(* is given the values; the host's is written when there are none yet.     *)
(***************************************************************************)
RecipeStage(step, values) ==
  LET v == StageValues(step, values)
      stage == Stream(step, CASE step = "caesar" -> <<v["shift"]>>
                              [] step = "affine" -> <<v["a"], v["b"]>>
                              [] OTHER           -> <<>>, 0) IN
    IF flat.dirs[step] = "encrypt" THEN Encrypting(stage) ELSE stage

CatalogRecipe(values) == [n \in DOMAIN flat.steps |-> RecipeStage(flat.steps[n], values)]

-----------------------------------------------------------------------------
NothingFused == [encrypt |-> Broken, decrypt |-> Broken]

FuseAtSource ==
  /\ fuseStep = "written" /\ leaves = NoFunction /\ flat = NothingFlat
  /\ fused = NothingFused /\ fusion = "fused"

FuseInit == (\E n \in DOMAIN ComposeJobs : composition = ComposeJobs[n]) /\ FuseAtSource

RefuseCompose == fuseStep' = "refused" /\ UNCHANGED <<composition, leaves, flat, fused, fusion>>

(***************************************************************************)
(* compile_file up to its compositions.                                    *)
(***************************************************************************)
LowerCompose ==
  /\ fuseStep = "written"
  /\ \E unit \in {IF Gated(composition.source) THEN BuildIr(composition.source)
                                             ELSE [ok |-> FALSE]} :
       IF ~Accepted(unit) THEN RefuseCompose
       ELSE LET composes == ComposesOf(unit)  compose == ComposeNamed(composes, composition.name) IN
              /\ fuseStep' = "lowered" /\ leaves' = LeavesOf(unit)
              /\ flat' = FlatOf(compose, composes)
              /\ UNCHANGED <<composition, fused, fusion>>

FuseInline ==
  /\ fuseStep = "lowered"
  /\ IF flat.ok /\ Inlinable
       THEN /\ fuseStep' = "fused" /\ fused' = [encrypt |-> FusedEncrypt, decrypt |-> FusedDecrypt]
            /\ UNCHANGED <<composition, leaves, flat, fusion>>
       ELSE RefuseCompose

(***************************************************************************)
(* bench_cpu: both ways are run, with the least values, and either may be  *)
(* the faster one.  The position is bound in neither.                      *)
(***************************************************************************)
BenchCpu ==
  /\ fuseStep = "fused"
  /\ IF Undone(ExprText(fused.decrypt, LeastValues, BenchStream)) \/ Undone(StagedBench)
       THEN RefuseCompose
       ELSE /\ fuseStep' = "measured"
            /\ fusion' \in IF AllStaged THEN {"fused", "fallback_staged"} ELSE {"fused"}
            /\ UNCHANGED <<composition, leaves, flat, fused>>

EmitCompose ==
  /\ fuseStep = "measured"
  /\ IF Emittable(fused.encrypt) /\ Emittable(fused.decrypt)
       THEN fuseStep' = "emitted" /\ UNCHANGED <<composition, leaves, flat, fused, fusion>>
       ELSE RefuseCompose

FuseNext == LowerCompose \/ FuseInline \/ BenchCpu \/ EmitCompose

-----------------------------------------------------------------------------
(***************************************************************************)
(* What a composition says, read from its source: its steps one after the  *)
(* other, each on the text that the one before it made, a composition as   *)
(* a step as if it ran on its own.  Backwards the steps are in the opposite*)
(* order and direction.  A parameter of a step has the value it is bound   *)
(* to where the step is written, or else that of its own name; interrupts  *)
(* pass through.                                                           *)
(***************************************************************************)
IsComposed(name) ==
  \E d \in ToSet(composition.source.body) : d.deco = "ComposedTheory" /\ d.meta.name = name

StepsOf(name) == ClassNamed(composition.source, name).meta.steps

EntryOf(dict, key) == dict.args[CHOOSE n \in DOMAIN dict.args : dict.params[n] = key]

BindingDict(name, step) ==
  LET dict == MethodNamed(ClassNamed(composition.source, name), "step_params").body[1].args[1] IN
    IF step \in ToSet(dict.params) THEN EntryOf(dict, step) ELSE Ast("Dict", <<>>)

RefOf(name, step, param) ==
  LET dict == BindingDict(name, step) IN
    IF param \in ToSet(dict.params) THEN EntryOf(dict, param).name ELSE param

BoundValues(name, step, values) ==
  LET params == ToSet(BindingDict(name, step).params) IN
    [p \in params |-> values[RefOf(name, step, p)]] @@ values

DirectionIn(name, step, dir) ==
  LET given == IF name \in DOMAIN composition.dirs THEN composition.dirs[name] ELSE NoFunction
      forward == IF step \in DOMAIN given THEN given[step] ELSE "decrypt" IN
    IF dir = "decrypt" THEN forward ELSE Opposite(forward)

Turned(dir, x, key) == IF dir = "encrypt" THEN Add(x, key) ELSE Sub(x, key)

LeafSymbol(step, dir, values, text, n) ==
  CASE step = "matrix_mix" ->
         Turned(dir, text[n], Det(<< <<values["a"], values["b"]>>, <<values["c"], values["d"]>> >>))
    [] step = "autokey_lag" -> Turned(dir, text[n], AutokeyShift(text, n - 1, values["lag"]))
    [] OTHER -> StepValue(dir \o "_step", text[n],
                          [theory |-> ClassNamed(composition.source, step),
                           module |-> composition.source,
                           params |-> values, stream |-> text, i |-> n - 1])

CatalogText(step, dir, values, text) ==
  StreamOutput([family |-> step, lag |-> 0, skips |-> {},
                key |-> CASE step = "caesar" -> <<values["shift"]>>
                          [] step = "affine" -> <<values["a"], values["b"]>>
                          [] OTHER           -> <<>>], dir, text)

LeafText(step, dir, values, text) ==
  IF Undone(text) THEN text
  ELSE LET whole == IF step \in Staged THEN CatalogText(step, dir, values, text) ELSE text IN
    [n \in DOMAIN text |->
       CASE n - 1 \in composition.skips -> text[n]
         [] n - 1 \notin composition.skips /\ step \in Staged -> whole[n]
         [] OTHER -> LeafSymbol(step, dir, values, text, n)]

\* The leaves that a composition runs, in their order, each with its direction and values.
RECURSIVE StagesRun(_, _, _)
StagesRun(name, dir, values) ==
  LET steps == IF dir = "decrypt" THEN StepsOf(name) ELSE Reverse(StepsOf(name))
      visit(step, d, v) == IF IsComposed(step) THEN StagesRun(step, d, v)
                           ELSE <<[step |-> step, dir |-> d, values |-> v]>> IN
    FlattenSeq([n \in DOMAIN steps |-> visit(steps[n], DirectionIn(name, steps[n], dir),
                                             BoundValues(name, steps[n], values))])

ComposedText(name, dir, values, text) ==
  FoldLeft(LAMBDA t, v : LeafText(v.step, v.dir, v.values, t), text, StagesRun(name, dir, values))

(***************************************************************************)
(* Bindings and directions belong to the name of a step: a composition     *)
(* that has a step in two places with two meanings is not what its source  *)
(* says, nor one that binds or turns a composition it has as a step.       *)
(***************************************************************************)
RECURSIVE Within(_)
Within(name) == {name} \cup UNION {Within(s) : s \in {t \in ToSet(StepsOf(name)) : IsComposed(t)}}

SaidOnce ==
  \A c \in Within(composition.name) : \A s \in ToSet(StepsOf(c)) :
    LET bound == ToSet(BindingDict(c, s).params) IN
      IF IsComposed(s)
        THEN /\ DirectionIn(c, s, "decrypt") = "decrypt"
             /\ \A p \in bound : RefOf(c, s, p) = p
        ELSE \A d \in Within(composition.name) :
               s \in ToSet(StepsOf(d)) =>
                 /\ DirectionIn(d, s, "decrypt") = DirectionIn(c, s, "decrypt")
                 /\ \A p \in bound : RefOf(d, s, p) = RefOf(c, s, p)

FusedText(dir, values) ==
  [n \in DOMAIN composition.text |->
     IF n - 1 \in composition.skips THEN composition.text[n]
     ELSE EvalAt(fused[dir], [env    |-> (Cipher_var :> composition.text[n]) @@ values
                                           @@ ("i" :> (n - 1) % 29),
                              stream |-> composition.text, i |-> n - 1, device |-> FALSE])]

(***************************************************************************)
(* A composition that was emitted does what its source says, both ways and *)
(* for the values it was measured with as for others: the one expression   *)
(* that runs from the registry does it wherever the source has a value, and*)
(* so does the recipe of the catalog that takes its place in the device's  *)
(* kernel when it is faster.  Texts with interrupts are left to the        *)
(* expression: the elementwise transforms of the catalog do not know them. *)
(***************************************************************************)
AsSaid(dir, values, said) ==
  /\ \A n \in DOMAIN said : said[n] \in {Failed, FusedText(dir, values)[n]}
  /\ fusion = "fallback_staged" /\ composition.skips = {} =>
       Meaning(CatalogRecipe(values), dir, {}, composition.text) = said

FusedAsMeant ==
  fuseStep = "emitted" /\ SaidOnce =>
    \A dir \in Directions, values \in {composition.values, LeastValues} :
      AsSaid(dir, values, ComposedText(composition.name, dir, values, composition.text))
=============================================================================
