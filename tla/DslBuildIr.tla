----------------------------- MODULE DslBuildIr -----------------------------
(***************************************************************************)
(* The lowering of a gated source to the steps of its theories.  Calls of  *)
(* primitives and of methods are expanded where they stand, conditions     *)
(* become selects, matrices the sums they stand for.  A name is looked up  *)
(* in locals, a function from names to expressions; what surrounds a body  *)
(* is [primitives, params, methods].                                       *)
(***************************************************************************)
EXTENDS DslSource

CONSTANT VerifyValues      \* the arguments a primitive is verified with

Made(op, args) ==
  IF \E n \in DOMAIN args : IsBroken(args[n]) THEN Broken ELSE Node(op, args)

NoFunction == [n \in {} |-> Broken]
Bind(names, exprs) == [n \in ToSet(names) |-> exprs[CHOOSE k \in DOMAIN names : names[k] = n]]
AsVars(names) == [n \in names |-> Var(n)]

\* Faulty variant: one parameter after the other, in what was put in before as well.
InstantiatedInTurn(e, env) ==
  LET names == SetToSeq(DOMAIN env) IN
    FoldLeft(LAMBDA acc, n : Substituted(acc, n, env[n]), e, names)

\* subst_rec: all the parameters of a primitive at once.
RECURSIVE Instantiated(_, _)
Instantiated(e, env) ==
  IF e.op = "var" THEN (IF e.name \in DOMAIN env THEN env[e.name] ELSE e)
  ELSE [e EXCEPT !.args = [n \in DOMAIN e.args |-> Instantiated(e.args[n], env)]]

-----------------------------------------------------------------------------
(***************************************************************************)
(* MatrixIr: two or three rows, one after the other in m.                  *)
(***************************************************************************)
Side(m) == CASE Len(m) = 4 -> 2 [] Len(m) = 9 -> 3 [] OTHER -> 0

Minor(a, b, c, d) == Made("sub", <<Made("mul", <<a, d>>), Made("mul", <<b, c>>)>>)

DetExpr(m) ==
  CASE Side(m) = 2 -> Minor(m[1], m[2], m[3], m[4])
    [] Side(m) = 3 ->
         Made("add", <<Made("sub", <<Made("mul", <<m[1], Minor(m[5], m[6], m[8], m[9])>>),
                                     Made("mul", <<m[2], Minor(m[4], m[6], m[7], m[9])>>)>>),
                       Made("mul", <<m[3], Minor(m[4], m[5], m[7], m[8])>>)>>)
    [] OTHER -> Broken

\* Component r, from 0, of the matrix times the vector v.
MulVecComponent(m, v, r) ==
  LET k == Side(m)
      term(c) == Made("mul", <<m[r * k + c], v[c]>>) IN
    IF k = 0 \/ Len(v) # k \/ r >= k THEN Broken
    ELSE FoldLeft(LAMBDA acc, c : Made("add", <<acc, term(c)>>), term(1), Tail([c \in 1..k |-> c]))

-----------------------------------------------------------------------------
IntrinsicOp(name) == CHOOSE op \in ToSet(Kinds) \cup {"autokey_shift"} : "z29_" \o op = name

\* z29_select is a builtin of the gate, but lower_call has no case for it.
Lowerable == DOMAIN Arity \ {"z29_select", "z29_matmul", "z29_det"}

IsSelf(node) == node.kind = "Name" /\ node.name = "self"
IsCallOf(node, name) ==
  node.kind = "Call" /\ node.args[1].kind = "Name" /\ node.args[1].name = name

\* prefer_branch: an emitted kernel may branch instead of selecting.
SelectOf(test, args) ==
  [Made("select", args) EXCEPT !.name = IF ThreadVarying(test, Cipher_var) THEN "branch" ELSE ""]

(***************************************************************************)
(* lower_method and the call of one: its arguments hide what has their     *)
(* name around the call, and they hide the parameters of the theory.       *)
(***************************************************************************)
MethodLocals(fn, exprs, locals, around) ==
  Bind(fn.params, exprs) @@ locals @@ AsVars(around.params)

RECURSIVE Lower(_, _, _), LowerAll(_, _, _), LowerBlock(_, _, _)

LowerAll(nodes, locals, around) ==
  IF nodes = <<>> THEN <<>>
  ELSE <<Lower(Head(nodes), locals, around)>> \o LowerAll(Tail(nodes), locals, around)

LowerElements(node, locals, around) ==
  IF node.kind \in {"Tuple", "List"} THEN LowerAll(node.args, locals, around) ELSE <<Broken>>

LowerStmt(stmt, locals, around) ==
  CASE stmt.kind = "Return" /\ stmt.args # <<>> -> Lower(stmt.args[1], locals, around)
    [] stmt.kind = "If" /\ stmt.orelse # <<>> ->
         SelectOf(stmt.args[1], <<Lower(stmt.args[1], locals, around),
                                  LowerBlock(stmt.body, locals, around),
                                  LowerBlock(stmt.orelse, locals, around)>>)
    [] OTHER -> Broken

LowerBlock(stmts, locals, around) ==
  IF Len(stmts) # 1 THEN Broken ELSE LowerStmt(stmts[1], locals, around)

LowerCompare(ops, of) ==
  LET cmp == [n \in DOMAIN ops |-> Made(CmpOps[ops[n]], <<of[n], of[n + 1]>>)] IN
    FoldLeft(LAMBDA acc, e : Made("bool_and", <<acc, e>>), Head(cmp), Tail(cmp))

LowerBoolOp(ops, of) ==
  FoldLeft(LAMBDA acc, e : Made(BoolOps[ops[1]], <<acc, e>>), Head(of), Tail(of))

LowerAttribute(node, locals, around) ==
  CASE ~IsSelf(node.args[1])                  -> Broken
    [] node.name \in DOMAIN locals            -> locals[node.name]
    [] node.name \in around.params            -> Var(node.name)
    [] OTHER                                  -> Broken

LowerNamedCall(name, args, around) ==
  CASE \E n \in DOMAIN args : IsBroken(args[n]) -> Broken
    [] name = "z29_autokey_shift" -> Call("autokey_shift", args)
    [] name \in Lowerable \ {"z29_autokey_shift"} -> Made(IntrinsicOp(name), args)
    [] name \in DOMAIN around.primitives ->
         LET p == around.primitives[name] IN
           IF Len(args) # Len(p.params) THEN Broken
           ELSE Instantiated(p.body, Bind(p.params, args))
    [] OTHER -> Broken

LowerMethodCall(name, args, locals, around) ==
  IF name \notin DOMAIN around.methods \/ \E n \in DOMAIN args : IsBroken(args[n]) THEN Broken
  ELSE LET fn == around.methods[name] IN
         IF Len(args) # Len(fn.params) THEN Broken
         ELSE LowerBlock(fn.body, MethodLocals(fn, args, locals, around), around)

LowerCall(node, locals, around) ==
  LET callee == node.args[1]  rest == Tail(node.args) IN
    CASE IsCallOf(node, "z29_det")    -> DetExpr(LowerElements(rest[1], locals, around))
      [] IsCallOf(node, "z29_matmul") -> Broken
      [] callee.kind = "Name"         ->
           LowerNamedCall(callee.name, LowerAll(rest, locals, around), around)
      [] callee.kind = "Attribute" /\ IsSelf(callee.args[1]) ->
           LowerMethodCall(callee.name, LowerAll(rest, locals, around), locals, around)
      [] OTHER -> Broken

LowerSubscript(node, locals, around) ==
  LET of == node.args[1]  index == node.args[2] IN
    IF IsCallOf(of, "z29_matmul") /\ index.kind = "Constant" /\ index.value >= 0
    THEN MulVecComponent(LowerElements(of.args[2], locals, around),
                         LowerElements(of.args[3], locals, around), index.value)
    ELSE Broken

Lower(node, locals, around) ==
  CASE node.kind = "Constant"  ->
         IF node.name = "" /\ node.value \in Index29 THEN Const(node.value) ELSE Broken
    [] node.kind = "Name"      ->
         IF node.name \in DOMAIN locals THEN locals[node.name] ELSE Broken
    [] node.kind = "Attribute" -> LowerAttribute(node, locals, around)
    [] node.kind = "IfExp"     -> SelectOf(node.args[1], LowerAll(node.args, locals, around))
    [] node.kind = "BinOp"     ->
         Made(BinOps[node.ops[1]], LowerAll(node.args, locals, around))
    [] node.kind = "UnaryOp"   ->
         IF node.ops = <<"UAdd">> THEN Lower(node.args[1], locals, around)
         ELSE Made(UnaryOps[node.ops[1]], LowerAll(node.args, locals, around))
    [] node.kind = "Compare"   -> LowerCompare(node.ops, LowerAll(node.args, locals, around))
    [] node.kind = "BoolOp"    -> LowerBoolOp(node.ops, LowerAll(node.args, locals, around))
    [] node.kind = "Call"      -> LowerCall(node, locals, around)
    [] node.kind = "Subscript" -> LowerSubscript(node, locals, around)
    [] OTHER                   -> Broken

-----------------------------------------------------------------------------
(***************************************************************************)
(* The definitions of a module, in order, added to what is built so far:   *)
(* [ok, primitives, theories, composes], the theories and primitives by    *)
(* their name, the compositions as a sequence.  A primitive is [params,    *)
(* body], params those of its signature, a theory [params, encrypt,        *)
(* decrypt, interrupts, family], a composition [name, params, steps,       *)
(* bindings].                                                              *)
(***************************************************************************)
NothingBuilt ==
  [ok |-> TRUE, primitives |-> NoFunction, theories |-> NoFunction, composes |-> <<>>]
Rejected(unit) == [unit EXCEPT !.ok = FALSE]

PrimitiveBody(unit, fn) ==
  LowerBlock(fn.body, AsVars(ToSet(fn.params)),
             [primitives |-> unit.primitives, params |-> {}, methods |-> NoFunction])

WithBody(unit, fn, body) ==
  IF IsBroken(body) \/ fn.meta.name \in DOMAIN unit.primitives THEN Rejected(unit)
  ELSE [unit EXCEPT !.primitives =
          (fn.meta.name :> [params |-> fn.meta.signature, body |-> body]) @@ @]

WithPrimitive(unit, fn) == WithBody(unit, fn, PrimitiveBody(unit, fn))

Members(cls, kind) == SelectSeq(cls.body, LAMBDA m : m.kind = kind)

\* A parameter is annotated with Param(min=..., max=...).
ParamsOf(cls) ==
  [n \in DOMAIN Members(cls, "AnnAssign") |->
     LET m == Members(cls, "AnnAssign")[n] IN
       [name |-> m.name, min |-> m.args[1].value, max |-> m.args[2].value]]

ParamsAllowed(params) ==
  /\ \A n \in DOMAIN params : params[n].min \in Index29 /\ params[n].max \in params[n].min..28
  /\ \A n, m \in DOMAIN params : params[n].name = params[m].name => n = m

\* Of two methods with a name the later one is kept.
MethodsOf(cls) ==
  LET fns == Members(cls, "FunctionDef") IN
    [name \in {fns[n].name : n \in DOMAIN fns} \ {"structural_claim", "interrupt_policy"} |->
       fns[CHOOSE n \in DOMAIN fns :
             fns[n].name = name /\ \A m \in n + 1..Len(fns) : fns[m].name # name]]

Has(cls, name) == \E m \in ToSet(Members(cls, "FunctionDef")) : m.name = name

InterruptsOf(cls) ==
  IF Has(cls, "interrupt_policy") THEN "policy_method" ELSE cls.meta.interrupts

StepMethods == {"encrypt_step", "decrypt_step"}

TheoryAllowed(cls) ==
  /\ cls.meta.tier = "A" \/ Has(cls, "structural_claim")
  /\ InterruptsOf(cls) = "elementwise_default" => cls.meta.family = "elementwise"
  /\ ParamsAllowed(ParamsOf(cls))
  /\ StepMethods \subseteq DOMAIN MethodsOf(cls)

LoweredSteps(methods, around) ==
  [n \in StepMethods |->
     LET fn == methods[n] IN
       LowerBlock(fn.body, MethodLocals(fn, [k \in DOMAIN fn.params |-> Var(fn.params[k])],
                                        NoFunction, around), around)]

StepsOfTheory(unit, cls) ==
  LoweredSteps(MethodsOf(cls), [primitives |-> unit.primitives,
                                params     |-> {p.name : p \in ToSet(ParamsOf(cls))},
                                methods    |-> MethodsOf(cls)])

WithSteps(unit, cls, steps) ==
  IF \E n \in StepMethods : IsBroken(steps[n]) THEN Rejected(unit)
  ELSE [unit EXCEPT !.theories =
          (cls.meta.name :> [params     |-> ParamsOf(cls),
                             encrypt    |-> steps["encrypt_step"],
                             decrypt    |-> steps["decrypt_step"],
                             interrupts |-> InterruptsOf(cls),
                             family     |-> cls.meta.family]) @@ @]

WithTheory(unit, cls) ==
  IF TheoryAllowed(cls) THEN WithSteps(unit, cls, StepsOfTheory(unit, cls)) ELSE Rejected(unit)

(***************************************************************************)
(* step_params() returns a dict of dicts, a step to its parameters and a   *)
(* parameter of the step to one of the composition; a binding is           *)
(* [step, param, ref].  The keys of a Dict are in params, its values in    *)
(* args.                                                                   *)
(***************************************************************************)
BindingsOfStep(step, dict) ==
  [n \in DOMAIN dict.params |-> [step |-> step, param |-> dict.params[n], ref |-> dict.args[n].name]]

StepDictAllowed(dict, declared) ==
  /\ dict.kind = "Dict"
  /\ \A v \in ToSet(dict.args) :
       v.kind = "Attribute" /\ IsSelf(v.args[1]) /\ v.name \in declared

StepParamsAllowed(fn, steps, declared) ==
  /\ Len(fn.body) = 1 /\ fn.body[1].kind = "Return" /\ fn.body[1].args # <<>>
  /\ LET dict == fn.body[1].args[1] IN
       /\ dict.kind = "Dict"
       /\ \A n \in DOMAIN dict.args :
            /\ StepDictAllowed(dict.args[n], declared)
            /\ dict.args[n].params # <<>> => dict.params[n] \in ToSet(steps)

StepParams(dict) ==
  FlattenSeq([n \in DOMAIN dict.args |-> BindingsOfStep(dict.params[n], dict.args[n])])

ComposeAllowed(cls) ==
  /\ cls.meta.tier = "A" \/ Has(cls, "structural_claim")
  /\ cls.meta.steps # <<>>
  /\ ParamsAllowed(ParamsOf(cls))
  /\ DOMAIN MethodsOf(cls) = {"step_params"}
  /\ ~Has(cls, "interrupt_policy")
  /\ StepParamsAllowed(MethodsOf(cls)["step_params"], cls.meta.steps,
                       {ParamsOf(cls)[n].name : n \in DOMAIN ParamsOf(cls)})

WithCompose(unit, cls) ==
  IF ~ComposeAllowed(cls) THEN Rejected(unit)
  ELSE [unit EXCEPT !.composes =
          Append(@, [name |-> cls.meta.name, params |-> ParamsOf(cls), steps |-> cls.meta.steps,
                     bindings |-> StepParams(MethodsOf(cls)["step_params"].body[1].args[1])])]

Defined(unit, node) ==
  CASE ~unit.ok -> unit
    [] unit.ok /\ node.kind = "FunctionDef" /\ node.deco = "define_primitive" ->
         WithPrimitive(unit, node)
    [] unit.ok /\ node.kind = "ClassDef" /\ node.deco = "Theory" -> WithTheory(unit, node)
    [] unit.ok /\ node.kind = "ClassDef" /\ node.deco = "ComposedTheory" -> WithCompose(unit, node)
    [] OTHER -> unit

BuildIr(module) == FoldLeft(Defined, NothingBuilt, module.body)

-----------------------------------------------------------------------------
(***************************************************************************)
(* DslVerifier: a primitive has a value for all its arguments, the same on *)
(* the device; an autokey call in it has no stream to read.                *)
(***************************************************************************)
RECURSIVE WithoutStream(_)
WithoutStream(e) ==
  IF IsAutokey(e) THEN Node("inv", <<Const(0)>>)
  ELSE [e EXCEPT !.args = [n \in DOMAIN e.args |-> WithoutStream(e.args[n])]]

Verified(primitive) ==
  \A values \in [1..Len(primitive.params) -> VerifyValues] :
    LET value(device) ==
          Eval(WithoutStream(primitive.body),
               [env |-> Bind(primitive.params, values), stream |-> <<>>, i |-> 0,
                device |-> device]) IN
      value(FALSE) # Failed /\ value(TRUE) = value(FALSE)

(***************************************************************************)
(* The compiler tries an optimized step on one symbol, with the middle of  *)
(* every parameter's range.                                                *)
(***************************************************************************)
Middle(p) ==
  LET mid == (p.min + p.max) \div 2 IN IF mid = 0 /\ p.max > 0 THEN 1 ELSE mid

Middles(params) ==
  [n \in {params[k].name : k \in DOMAIN params} |->
     Middle(params[CHOOSE k \in DOMAIN params : params[k].name = n])]

SmokedIn(form, ctx) ==
  /\ \A n \in DOMAIN form.hoists : HoistName(n - 1) \in DOMAIN ctx.env
  /\ EvalAt(form.expr, [ctx EXCEPT !.env = (Cipher_var :> 7) @@ @ @@ ("i" :> 0)]) # Failed

Smoked(form, env) ==
  /\ ~IsBroken(form.expr)
  /\ SmokedIn(form, BindHoists(form.hoists, 0,
                               [env |-> env, stream |-> <<7>>, i |-> 0, device |-> FALSE]))

(***************************************************************************)
(* The hoists of encrypt_step are bound before the position is: one that   *)
(* depends on it is refused there, and tried at position 0 in decrypt_step.*)
(***************************************************************************)
TriedSteps(t) ==
  { <<t.encrypt, Middles(t.params)>>, <<t.decrypt, Middles(t.params) @@ ("i" :> 0)>> }

OptimizedAndTried(t) == \A try \in TriedSteps(t) : Smoked(Optimize(try[1]), try[2])
=============================================================================
