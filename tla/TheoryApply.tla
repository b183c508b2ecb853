---------------------------- MODULE TheoryApply ----------------------------
(***************************************************************************)
(* A step of a theory on its way from the source to an output: the source  *)
(* is gated, lowered and optimized, its inverses are put back for the apply*)
(* form, the apply form is compiled to stack bytecode and the bytecode run *)
(* over a stream, one operation at a time.  Beside it the normal form is   *)
(* computed pass by pass.  What is applied is [source, name, direction,    *)
(* params, stream, skips]: a theory of a module, its parameters' values,   *)
(* and the text with the positions of its interrupts.                      *)
(***************************************************************************)
EXTENDS DslBuildIr, DslMeaning

CONSTANTS
  Theories,       \* a sequence of theories, each with a stream to apply it to
  MaxPasses       \* kMaxPasses of the normalizer

VARIABLES
  theory,         \* one of Theories
  built,          \* [step, names, none_by_design] of the theory
  progress,       \* "written", "source", "optimized", "compiled", "running", "applied",
                  \* "refused" (before the run) or "failed" (in it)
  optimized,      \* [expr, hoists]
  normal,         \* [expr, passes, settled]
  program,        \* [ops, slot_names, max_stack]
  at,             \* index of the symbol in the stream, from 0
  pc, stack,      \* of the running program, its top last
  output          \* what has been written

theoryVars == <<theory, built, progress, optimized, normal, program, at, pc, stack, output>>

NotBuilt == [step |-> Broken, names |-> <<>>, none_by_design |-> FALSE]
NoTheory == [name |-> ""]

\* The theory with what was built from its source.
Theory == built @@ theory

NoProgram == [ops |-> <<>>, slot_names |-> <<>>, max_stack |-> 0]

-----------------------------------------------------------------------------
(***************************************************************************)
(* encode: the operands before the operation; an operation is [op, imm],   *)
(* imm the value of a constant or the slot of a variable, from 0.          *)
(***************************************************************************)
SlotOf(slots, n) == CHOOSE s \in DOMAIN slots : slots[s] = n

Instruction(e, slots) ==
  [op  |-> CASE e.op = "var" -> "load" [] e.op = "call" -> e.name [] OTHER -> e.op,
   imm |-> CASE e.op = "var" -> SlotOf(slots, e.name) - 1 [] OTHER -> e.value]

Encodable(e, slots) ==
  \A s \in Subterms(e) :
    /\ s.op = "var" => \E n \in DOMAIN slots : slots[n] = s.name
    /\ IsAutokey(s) => s.args[1] = Var(Cipher_var)

\* The stream of an autokey call is the cipher itself and is not loaded.
Operands(e) == IF IsAutokey(e) THEN <<e.args[2]>> ELSE e.args

RECURSIVE Encode(_, _)
Encode(e, slots) ==
  LET k == AsKind(e)  of == Operands(k) IN
    FlattenSeq([n \in DOMAIN of |-> Encode(of[n], slots)]) \o <<Instruction(k, slots)>>

(***************************************************************************)
(* max_stack: the depth that push_depth and pop_depth count up to; an      *)
(* operand is encoded on top of those before it.                           *)
(***************************************************************************)
RECURSIVE MaxStack(_)
MaxStack(e) ==
  LET of == Operands(AsKind(e))
      depths == {1} \cup {MaxStack(of[n]) + n - 1 : n \in DOMAIN of} IN
    CHOOSE d \in depths : \A c \in depths : c <= d

SlotNames(t, e) ==
  <<Cipher_var>> \o t.names \o (IF DependsOn(e, "i") THEN <<"i">> ELSE <<>>)

Compilable(t, e) ==
  /\ \A n \in DOMAIN t.names : t.names[n] \notin {Cipher_var, "i"}
  /\ Encodable(e, SlotNames(t, e))

ApplyFormOf(form) == Reinstated(form.expr, form.hoists, 0)
ApplyForm == ApplyFormOf(optimized)

\* What a search makes of the apply form: it is optimized and put back again.
Reapplied(form) == ApplyFormOf(Optimize(ApplyFormOf(form)))

-----------------------------------------------------------------------------
(***************************************************************************)
(* The forms of the step, up to the compiled program.                      *)
(***************************************************************************)
TheoryAtSource ==
  /\ progress = "written" /\ built = NotBuilt
  /\ optimized = [expr |-> Broken, hoists |-> <<>>]
  /\ normal = [expr |-> Broken, passes |-> 0, settled |-> FALSE]
  /\ program = NoProgram /\ at = 0 /\ pc = 1 /\ stack = <<>> /\ output = <<>>

TheoryInit == (\E n \in DOMAIN Theories : theory = Theories[n]) /\ TheoryAtSource

(***************************************************************************)
(* compile_file up to the verified unit: the directives, the gates, the    *)
(* lowering and the primitives.                                            *)
(***************************************************************************)
StepOf(t, direction) == IF direction = "encrypt" THEN t.encrypt ELSE t.decrypt

Accepted(unit) ==
  /\ unit.ok /\ unit # NothingBuilt
  /\ \A p \in DOMAIN unit.primitives : Verified(unit.primitives[p])
  /\ \A t \in DOMAIN unit.theories : OptimizedAndTried(unit.theories[t])

Built(t) ==
  [step  |-> StepOf(t, theory.direction),
   names |-> [n \in DOMAIN t.params |-> t.params[n].name],
   none_by_design |-> t.interrupts = "none_by_design"]

CompileSource ==
  /\ progress = "written"
  /\ \E unit \in {IF Gated(theory.source) THEN BuildIr(theory.source) ELSE [ok |-> FALSE]} :
       IF Accepted(unit)
       THEN progress' = "source" /\ built' = Built(unit.theories[theory.name])
       ELSE progress' = "refused" /\ UNCHANGED built
  /\ UNCHANGED <<theory, optimized, normal, program, at, pc, stack, output>>

(***************************************************************************)
(* optimize_theory; the normalizer starts with a fold of what a search has.*)
(***************************************************************************)
OptimizeTheory ==
  /\ progress = "source"
  /\ progress' = "optimized"
  /\ optimized' = Optimize(Theory.step)
  /\ normal' = [normal EXCEPT !.expr = ConstFold(Reapplied(optimized'))]
  /\ UNCHANGED <<theory, built, program, at, pc, stack, output>>

(***************************************************************************)
(* Passes until one changes nothing, MaxPasses at most; a last fold ends.  *)
(***************************************************************************)
Normalize ==
  /\ progress = "optimized" /\ ~normal.settled
  /\ LET next == NormalizePass(normal.expr) IN
       normal' = IF next = normal.expr \/ normal.passes + 1 = MaxPasses
                   THEN [expr |-> ConstFold(next), passes |-> normal.passes + 1, settled |-> TRUE]
                   ELSE [normal EXCEPT !.expr = next, !.passes = @ + 1]
  /\ UNCHANGED <<theory, built, progress, optimized, program, at, pc, stack, output>>

(***************************************************************************)
(* compile_apply_ir, and the interrupts that apply_into_theory refuses.    *)
(***************************************************************************)
Compile ==
  /\ progress = "optimized" /\ normal.settled
  /\ IF /\ Compilable(Theory, ApplyForm)
        /\ Theory.none_by_design => Theory.skips = {}
        /\ \A s \in Theory.skips : s < Len(Theory.stream)
       THEN /\ progress' = "compiled"
            /\ program' = [ops        |-> Encode(ApplyForm, SlotNames(Theory, ApplyForm)),
                           slot_names |-> SlotNames(Theory, ApplyForm),
                           max_stack  |-> MaxStack(ApplyForm)]
       ELSE progress' = "refused" /\ UNCHANGED program
  /\ UNCHANGED <<theory, built, optimized, normal, at, pc, stack, output>>

-----------------------------------------------------------------------------
(***************************************************************************)
(* One operation of a program on a stack, its top last.  The input of a    *)
(* symbol is [slots, stream, i, device].                                   *)
(***************************************************************************)
Input(slot_names, params, s, i, device) ==
  [slots  |-> [n \in DOMAIN slot_names |->
                 CASE slot_names[n] = Cipher_var -> s[i + 1]
                   [] slot_names[n] = "i"        -> i % 29
                   [] OTHER                      -> params[slot_names[n]]],
   stream |-> s, i |-> i, device |-> device]

Top(s, n) == s[Len(s) - n]

Below(s, n) == SubSeq(s, 1, Len(s) - n)

Selected(c, t, f) == IF c # 0 THEN t ELSE f

Executed(inst, s, in) ==
  CASE inst.op = "const"         -> Append(s, inst.imm)
    [] inst.op = "load"          -> Append(s, in.slots[inst.imm + 1])
    [] inst.op = "autokey_shift" -> Append(Below(s, 1), AutokeyShift(in.stream, in.i, Top(s, 0)))
    [] inst.op = "select"        -> Append(Below(s, 3), Selected(Top(s, 2), Top(s, 1), Top(s, 0)))
    [] inst.op \in {"neg", "inv", "atbash", "bit_not", "bool_not"}
                                 -> Append(Below(s, 1), Unary(inst.op, Top(s, 0), in.device))
    [] OTHER -> Append(Below(s, 2), Binary(inst.op, Top(s, 1), Top(s, 0), in.device))

(***************************************************************************)
(* The run: apply_into over the stream, eval_at for each symbol.           *)
(***************************************************************************)
Skip ==
  /\ progress = "compiled" /\ at \in Theory.skips
  /\ output' = Append(output, Theory.stream[at + 1]) /\ at' = at + 1
  /\ UNCHANGED <<theory, built, progress, optimized, normal, program, pc, stack>>

BeginSymbol ==
  /\ progress = "compiled" /\ at < Len(Theory.stream) /\ at \notin Theory.skips
  /\ progress' = "running" /\ pc' = 1 /\ stack' = <<>>
  /\ UNCHANGED <<theory, built, optimized, normal, program, at, output>>

ExecuteOp ==
  /\ progress = "running" /\ pc <= Len(program.ops)
  /\ LET in == Input(program.slot_names, Theory.params, Theory.stream, at, FALSE)
         after == Executed(program.ops[pc], stack, in) IN
       IF after[Len(after)] = Failed
       THEN progress' = "failed" /\ UNCHANGED <<pc, stack>>
       ELSE stack' = after /\ pc' = pc + 1 /\ UNCHANGED progress
  /\ UNCHANGED <<theory, built, optimized, normal, program, at, output>>

EndSymbol ==
  /\ progress = "running" /\ pc > Len(program.ops)
  /\ progress' = "compiled" /\ at' = at + 1 /\ output' = Append(output, Top(stack, 0))
  /\ UNCHANGED <<theory, built, optimized, normal, program, pc, stack>>

Applied ==
  /\ progress = "compiled" /\ at = Len(Theory.stream)
  /\ progress' = "applied"
  /\ UNCHANGED <<theory, built, optimized, normal, program, at, pc, stack, output>>

TheoryNext ==
  \/ CompileSource \/ OptimizeTheory \/ Normalize \/ Compile
  \/ Skip \/ BeginSymbol \/ ExecuteOp \/ EndSymbol \/ Applied

TheorySpec == TheoryInit /\ [][TheoryNext]_theoryVars

-----------------------------------------------------------------------------
(***************************************************************************)
(* What the source says of the symbol at position i of the text, and what  *)
(* an expression is worth for a symbol x there.                            *)
(***************************************************************************)
Where(i) ==
  [theory |-> ClassNamed(theory.source, theory.name), module |-> theory.source,
   params |-> theory.params, stream |-> theory.stream, i |-> i]

Written(i) ==
  StepValue(IF theory.direction = "encrypt" THEN "encrypt_step" ELSE "decrypt_step",
            theory.stream[i + 1], Where(i))

Context(t, x, i, device) ==
  [env    |-> (Cipher_var :> x) @@ t.params @@ ("i" :> i % 29),
   stream |-> t.stream, i |-> i, device |-> device]

(***************************************************************************)
(* What the bytecode of the lowered and optimized step writes is what the  *)
(* source says of the symbol, wherever it says anything; and the bytecode  *)
(* fails only where the source does, or a select keeps the failing arm     *)
(* away from the source but not from the program.  The program never needs *)
(* more stack than was counted when it was compiled, and leaves one value. *)
(* A step that was accepted is refused here for its interrupts or a name   *)
(* it gives a parameter, or because an inverse stands within an inverse:   *)
(* then reinstate_invs leaves a name unbound.                              *)
(***************************************************************************)
HoistsNest(form) ==
  \E n, m \in DOMAIN form.hoists : DependsOn(form.hoists[n], HoistName(m - 1))

RefusedForReason ==
  progress = "refused" /\ normal.settled =>
    \/ HoistsNest(optimized)
    \/ \E n \in DOMAIN Theory.names : Theory.names[n] \in {Cipher_var, "i"}
    \/ \E s \in Theory.skips : Theory.none_by_design \/ s >= Len(Theory.stream)

StackAsCounted ==
  /\ Len(stack) <= program.max_stack
  /\ progress = "running" /\ pc > Len(program.ops) => Len(stack) = 1

BytecodeAsWritten ==
  /\ output # <<>> =>
       LET i == Len(output) - 1  t == Theory IN
         IF i \in t.skips THEN Last(output) = t.stream[i + 1]
         ELSE Written(i) \in {Failed, Last(output)}
  /\ progress = "failed" =>
       Written(at) = Failed \/ \E s \in Subterms(Theory.step) : AsKind(s).op = "select"
  /\ StackAsCounted /\ RefusedForReason

(***************************************************************************)
(* Every form of the step means the same for every symbol: the hoisted one *)
(* with its hoists bound, the apply form, each pass of the normal form,    *)
(* and the device's operations.  Where the step has a value they have it,  *)
(* unless an inverse stands within an inverse, which reinstate_invs leaves *)
(* with an unbound name, so that the theory is refused.                    *)
(***************************************************************************)
Positions == {0, 1, 28}

FormsAgree ==
  LET t == Theory  step == t.step  apply == ApplyForm IN
    progress = "optimized" =>
      \A x \in Index29, i \in Positions :
        LET host   == Context(t, x, i, FALSE)
            source == EvalAt(step, host)
            hoisted == EvalAt(optimized.expr, BindHoists(optimized.hoists, 0, host))
            refused(v) == v = Failed /\ HoistsNest(optimized) IN
          /\ EvalAt(step, Context(t, x, i, TRUE)) = source
          /\ source # Failed =>
               /\ hoisted = source
               /\ \A v \in {EvalAt(apply, host), EvalAt(normal.expr, host)} :
                    v = source \/ refused(v)

(***************************************************************************)
(* A theory whose steps make a condition of something that the lanes of a  *)
(* kernel do not share, the symbol or its position, was refused, unless    *)
(* its author asked for the branch: a directive stands right before the    *)
(* statement the condition is in.  Only of conditions in the step itself:  *)
(* the gate goes by names, and does not see the symbol in a helper method  *)
(* or primitive that it was passed to.                                     *)
(***************************************************************************)
NodesIn(stmt) == {p.node : p \in Placed(stmt, TopLevel)}

StatementsIn(module) ==
  {n \in UNION {NodesIn(s) : s \in ToSet(module.body)} :
     n.kind \in {"ClassDef", "FunctionDef", "Return", "If", "AnnAssign"}}

Asked(module, condition) ==
  \E d \in module.directives, s \in StatementsIn(module) :
    /\ d.flag = "divergent_branch" /\ d.line < s.line
    /\ \A other \in StatementsIn(module) : other.line \notin d.line + 1..s.line - 1
    /\ condition = s \/ (condition.kind = "IfExp" /\ condition \in NodesIn(s))

Diverges(condition) ==
  \E x \in Index29, i \in Positions :
    Value(condition.args[1], [x |-> x, i |-> i % 29], Where(i))
      # Value(condition.args[1], [x |-> 0, i |-> 0], Where(0))

DivergenceAsked ==
  progress = "source" =>
    \A name \in {"encrypt_step", "decrypt_step"} :
      \A s \in ToSet(MethodNamed(Where(0).theory, name).body) :
        \A c \in {n \in NodesIn(s) : n.kind \in {"If", "IfExp"}} :
          Diverges(c) => theory.source.allow /\ Asked(theory.source, c)

=============================================================================
