----------------------------- MODULE FusedHist -----------------------------
(***************************************************************************)
(* A search scores a batch of candidates for a theory, each a lane of the  *)
(* device with parameters of its own: the compiled theory has a plan, the  *)
(* kernel of the plan counts what every lane decodes to, and whatever that *)
(* kernel refuses or fails at is done by the bytecode interpreter instead. *)
(* A theory has a field lanes, the parameters of each candidate, and a     *)
(* field cipher, the text that is searched.                                *)
(***************************************************************************)
EXTENDS TheoryShape, TheoryApply, HistKernels

CONSTANTS
  DeviceCaps,     \* [ops, stack, slots]: kMaxProgramOps, kMaxDeviceStack, kMaxSlots
  InlineCaps      \* the same for S3

VARIABLES
  plan,       \* of the compiled theory
  path,       \* "none", or the strategy that scored the batch
  lanes       \* the counts of each lane, or Infinite

fusedVars == <<plan, path, lanes>>
searchVars == <<theoryVars, fusedVars>>

\* The score of a lane with an error is infinite: counts that no text has.
Infinite == [b \in Index29 |-> Failed]

-----------------------------------------------------------------------------
(***************************************************************************)
(* Which kernel counts the symbols that a theory decodes to: the plan is   *)
(* made once, when the theory is compiled for a search, from the shape of  *)
(* its step, the hoists taken out of it and the limits of the device.  S0  *)
(* is the bytecode interpreter, for everything else.                       *)
(***************************************************************************)
Fits(prog, caps) ==
  /\ Len(prog.ops) <= caps.ops
  /\ prog.max_stack <= caps.stack
  /\ Len(prog.slot_names) <= caps.slots

Compiled(t, e) ==
  [ops |-> Encode(e, SlotNames(t, e)), slot_names |-> SlotNames(t, e), max_stack |-> MaxStack(e)]

(***************************************************************************)
(* A plan is [strategy, shape, op_count].                                  *)
(***************************************************************************)
Plan(strategy, shape) == [strategy |-> strategy, shape |-> shape, op_count |-> 0]
NoPlan == Plan("none", Shape("Unknown", FALSE, <<>>))

(***************************************************************************)
(* select_strategy, by shape; an Unknown shape that gets this far is one   *)
(* that could not be normalized.                                           *)
(***************************************************************************)
Intended(shape, e) ==
  CASE shape.id \in {"Atbash", "Caesar", "AffineDecrypt"} -> "Shape"
    [] shape.id = "Affine"          -> "S1"
    [] shape.id = "LinearKeystream" -> "S2"
    [] shape.id = "FxOnly"          -> "S1"
    [] shape.id = "PolyKeystream"   -> "S5"
    [] shape.id = "KeyedGeneral"    -> "S3"
    [] shape.id = "Autokey"         -> IF shape.coeffs = <<>> THEN "S0" ELSE "S4"
    [] shape.id = "Unknown"         -> IF DependsOn(e, "i") THEN "S3" ELSE "S1"

(***************************************************************************)
(* lower_decrypt: what S3 takes.                                           *)
(***************************************************************************)
Lowered(prog, e) ==
  /\ ~HasAutokey(e) /\ ~HasPreferBranch(e) /\ DependsOn(e, Cipher_var) /\ DependsOn(e, "i")
  /\ Fits(prog, InlineCaps)

(***************************************************************************)
(* emit_decrypt_hist: a step with hoists stays with a shape kernel, which  *)
(* computes its inverses itself, and falls back to S0 otherwise.           *)
(***************************************************************************)
EmittedPlan(t, e, shape, hoists) ==
  LET prog == Compiled(t, e)  intended == Intended(shape, e) IN
    IF \/ ~Fits(prog, DeviceCaps) \/ HasPreferBranch(e) \/ ~DependsOn(e, Cipher_var)
       \/ intended # "Shape" /\ hoists # <<>>
       \/ intended = "S3" /\ ~Lowered(prog, e)
    THEN Plan("S0", shape)
    ELSE [Plan(intended, shape) EXCEPT !.op_count = Len(prog.ops)]

-----------------------------------------------------------------------------
(***************************************************************************)
(* eval_impl: the program run on the device for position i of s.           *)
(***************************************************************************)
DeviceEval(params, s, i) ==
  LET in == Input(program.slot_names, params, s, i, TRUE)
      after(st, inst) == IF st # <<>> /\ Top(st, 0) = Failed THEN st
                         ELSE Executed(inst, st, in) IN
    Top(FoldLeft(after, <<>>, program.ops), 0)

(***************************************************************************)
(* S0 and S3: every position is decoded; one that fails makes the score of *)
(* the lane infinite.                                                      *)
(***************************************************************************)
InterpretedLane(params, s) ==
  LET out == [n \in DOMAIN s |-> DeviceEval(params, s, n - 1)] IN
    IF \E n \in DOMAIN s : out[n] = Failed THEN Infinite ELSE CipherHist(out)

(***************************************************************************)
(* S1: the 29 symbols are decoded once, those that the text does not have  *)
(* included.                                                               *)
(***************************************************************************)
TableLane(params, s) ==
  LET alphabet == [n \in 1..29 |-> n - 1]
      lut == [x \in Index29 |-> DeviceEval(params, alphabet, x)] IN
    IF \E x \in Index29 : lut[x] = Failed THEN Infinite ELSE LutRemap(CipherHist(s), lut)

(***************************************************************************)
(* bind_theory_slots binds neither the symbol nor the index.               *)
(***************************************************************************)
Bound(c, params) ==
  IF IsConst(c) THEN c.value
  ELSE IF c.name \in {Cipher_var, "i"} THEN 0 ELSE params[c.name]

Coeff(name, params) == Bound(plan.shape.coeffs[name], params)

(***************************************************************************)
(* A lane of the paths that remap a histogram.                             *)
(***************************************************************************)
AtbashLane(s) == AtbashRemap(CipherHist(s))
CaesarLane(params, s) == CaesarRemap(CipherHist(s), Coeff("shift", params))
AffineLane(params, s) == AffineRemap(CipherHist(s), Coeff("a", params), Coeff("b", params))

LinearLane(params, s) ==
  ColumnRemap(ColumnHists(s, 29), LinearKeys(Coeff("b0", params), Coeff("b1", params)),
              plan.shape.minus)

PolyLane(params, s) ==
  ColumnRemap(ColumnHists(s, 29),
              PolyKeys(Coeff("b0", params), Coeff("b1", params), Coeff("b2", params)),
              plan.shape.minus)

RingLane(params, s) == RingRemap(s, Coeff("lag", params), plan.shape.minus)

ShapeLane(params, s) ==
  CASE plan.shape.id = "Atbash"        -> AtbashLane(s)
    [] plan.shape.id = "Caesar"        -> CaesarLane(params, s)
    [] plan.shape.id = "AffineDecrypt" -> AffineLane(params, s)

Lane(strategy, params, s) ==
  CASE strategy \in {"S0", "S3"} -> InterpretedLane(params, s)
    [] strategy = "S1"           -> TableLane(params, s)
    [] strategy = "S2"           -> LinearLane(params, s)
    [] strategy = "S4"           -> RingLane(params, s)
    [] strategy = "S5"           -> PolyLane(params, s)
    [] strategy = "Shape"        -> ShapeLane(params, s)

-----------------------------------------------------------------------------
FusedIdle == plan = NoPlan /\ path = "none" /\ lanes = <<>>

SearchInit == TheoryInit /\ FusedIdle

(***************************************************************************)
(* compile_entry: the plan is made with the program, from the apply form.  *)
(***************************************************************************)
CompileEntry ==
  /\ progress = "compiled" /\ at = 0 /\ plan = NoPlan
  /\ plan' = EmittedPlan(Theory, Reapplied(optimized), ShapeOf(normal.expr),
                         Optimize(ApplyForm).hoists)
  /\ UNCHANGED <<theoryVars, path, lanes>>

(***************************************************************************)
(* What a specialized path refuses before it launches: a coefficient that  *)
(* is no slot of the program, a multiplier without an inverse, a table of  *)
(* a step that depends on the index, and, for S3, one that does not or a   *)
(* program other than the planned one.                                     *)
(***************************************************************************)
HasSlot(c) == IsConst(c) \/ c.name \in Range(program.slot_names)
IndexBound == "i" \in Range(program.slot_names)

RefusedByAffine ==
  plan.shape.id = "AffineDecrypt"
    /\ \E n \in DOMAIN Theory.lanes : Coeff("a", Theory.lanes[n]) = 0

RefusedByScalar ==
  plan.strategy = "S3"
    /\ (Len(program.ops) # plan.op_count \/ ~Fits(program, InlineCaps) \/ ~IndexBound)

Refused ==
  \/ plan.strategy \notin {"S1", "S3"} /\ ~\A c \in Range(plan.shape.coeffs) : HasSlot(c)
  \/ RefusedByAffine
  \/ plan.strategy = "S1" /\ IndexBound
  \/ RefusedByScalar

ScoredBy(strategy) ==
  /\ path' = strategy
  /\ lanes' = [n \in DOMAIN Theory.lanes |-> Lane(strategy, Theory.lanes[n], Theory.cipher)]
  /\ UNCHANGED <<theoryVars, plan>>

(***************************************************************************)
(* fused_theory_scores: the specialized path of the plan, or S0 when it    *)
(* refuses or when an allocation, an upload or a launch of it fails.       *)
(***************************************************************************)
Specialized ==
  /\ plan # NoPlan /\ path = "none"
  /\ plan.strategy # "S0" /\ ~Refused
  /\ ScoredBy(plan.strategy)

SoftFallback == plan # NoPlan /\ path = "none" /\ ScoredBy("S0")

FusedNext == CompileEntry \/ Specialized \/ SoftFallback

\* A theory is applied to a stream or searched with, each compiling it anew.
SearchNext == FusedNext \/ (plan = NoPlan /\ TheoryNext /\ UNCHANGED fusedVars)

SearchSpec == SearchInit /\ [][SearchNext]_searchVars

-----------------------------------------------------------------------------
(***************************************************************************)
(* Whichever path scored a batch, each lane counts the symbols that the    *)
(* step, as it was written, decodes the text to under the parameters of    *)
(* the lane; and a score is infinite only where the step fails, on a       *)
(* symbol of the text or, with a table, of the alphabet, or where it has a *)
(* select, of which the program runs both arms.                            *)
(***************************************************************************)
Decoded(params, s) ==
  [n \in DOMAIN s |->
     EvalAt(Theory.step, [env    |-> (Cipher_var :> s[n]) @@ params @@ ("i" :> (n - 1) % 29),
                          stream |-> s, i |-> n - 1, device |-> FALSE])]

LaneAsDecoded(lane, params) ==
  LET out == Decoded(params, Theory.cipher)
      all == Decoded(params, [n \in 1..29 |-> n - 1])
      some_select == \E e \in Subterms(Theory.step) : AsKind(e).op = "select" IN
    IF lane = Infinite
    THEN some_select \/ Failed \in Range(out) \/ (path = "S1" /\ Failed \in Range(all))
    ELSE Failed \in Range(out) \/ lane = CipherHist(out)

LanesAsDecoded ==
  \A n \in DOMAIN lanes : LaneAsDecoded(lanes[n], Theory.lanes[n])
=============================================================================
