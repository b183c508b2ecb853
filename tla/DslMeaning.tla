----------------------------- MODULE DslMeaning -----------------------------
(***************************************************************************)
(* What the source of a theory says, executed statement by statement as    *)
(* the language reads it: a function sees its own arguments and nothing of *)
(* its caller's, self.p is the parameter p of the theory, an argument is a *)
(* value and not an expression, and one arm of a condition is executed.    *)
(* where is [theory, module, params, stream, i]: the class a step belongs  *)
(* to, the module it is in, the values of its parameters, and the symbol.  *)
(***************************************************************************)
EXTENDS DslSource, BlockKernels

ClassNamed(module, name) ==
  CHOOSE d \in ToSet(module.body) : d.kind = "ClassDef" /\ d.meta.name = name

\* The last definition of a name is the one that stands.
MethodNamed(cls, name) ==
  LET n == CHOOSE n \in DOMAIN cls.body :
             /\ cls.body[n].kind = "FunctionDef" /\ cls.body[n].name = name
             /\ \A m \in n + 1..Len(cls.body) : cls.body[m].name # name IN
    cls.body[n]

IsPrimitive(module, name) ==
  \E d \in ToSet(module.body) : d.deco = "define_primitive" /\ d.meta.name = name

PrimitiveNamed(module, name) ==
  CHOOSE d \in ToSet(module.body) : d.deco = "define_primitive" /\ d.meta.name = name

Given(names, values) == [n \in ToSet(names) |-> values[CHOOSE k \in DOMAIN names : names[k] = n]]

Rows(values) ==
  LET k == IF Len(values) = 4 THEN 2 ELSE 3 IN
    [r \in 1..k |-> SubSeq(values, (r - 1) * k + 1, r * k)]

Fails(values) == \E n \in DOMAIN values : values[n] = Failed

OperationOf(name) == CHOOSE op \in ToSet(Kinds) : "z29_" \o op = name

Operated(op, values) ==
  IF Len(values) = 2 THEN Binary(op, values[1], values[2], FALSE)
  ELSE Unary(op, values[1], FALSE)

RECURSIVE Value(_, _, _), Returned(_, _, _)
Values(nodes, env, where) == [n \in DOMAIN nodes |-> Value(nodes[n], env, where)]

ArmTaken(test, env, where, yes, no) == IF Value(test, env, where) # 0 THEN yes ELSE no

Returned(stmts, env, where) ==
  LET s == stmts[1] IN
    CASE s.kind = "Return" -> Value(s.args[1], env, where)
      [] s.kind = "If" ->
           IF Value(s.args[1], env, where) = Failed THEN Failed
           ELSE Returned(ArmTaken(s.args[1], env, where, s.body, s.orelse), env, where)

(***************************************************************************)
(* a < b < c is a < b and b < c, and all of an "and" or an "or" is read.   *)
(***************************************************************************)
Compared(node, values) ==
  LET holds(n) == Operated(CmpOps[node.ops[n]], <<values[n], values[n + 1]>>) = 1 IN
    IF Fails(values) THEN Failed ELSE Bool(\A n \in DOMAIN node.ops : holds(n))

Joined(node, values) ==
  IF Fails(values) THEN Failed
  ELSE Bool(IF node.ops = <<"And">> THEN \A n \in DOMAIN values : values[n] # 0
            ELSE \E n \in DOMAIN values : values[n] # 0)

CallValue(callee, values, where) ==
  CASE Fails(values) -> Failed
    [] callee.kind = "Attribute" ->
         LET fn == MethodNamed(where.theory, callee.name) IN
           Returned(fn.body, Given(fn.params, values), where)
    [] callee.name = "z29_autokey_shift" -> AutokeyShift(where.stream, where.i, values[2])
    [] callee.kind = "Name" /\ IsPrimitive(where.module, callee.name) ->
         LET fn == PrimitiveNamed(where.module, callee.name) IN
           Returned(fn.body, Given(fn.meta.signature, values), where)
    [] OTHER -> Operated(OperationOf(callee.name), values)

MatrixValue(node, env, where) ==
  IF node.kind = "Call"
  THEN LET m == Values(node.args[2].args, env, where) IN
         IF Fails(m) THEN Failed ELSE Det(Rows(m))
  ELSE LET m == Values(node.args[1].args[2].args, env, where)
           v == Values(node.args[1].args[3].args, env, where) IN
         IF Fails(m) \/ Fails(v) THEN Failed ELSE MulVec(Rows(m), v)[node.args[2].value + 1]

Value(node, env, where) ==
  CASE node.kind = "Constant"  -> node.value
    [] node.kind = "Name"      -> env[node.name]
    [] node.kind = "Attribute" -> where.params[node.name]
    [] node.kind = "IfExp"     ->
         IF Value(node.args[1], env, where) = Failed THEN Failed
         ELSE Value(ArmTaken(node.args[1], env, where, node.args[2], node.args[3]), env, where)
    [] node.kind = "BinOp"     -> Operated(BinOps[node.ops[1]], Values(node.args, env, where))
    [] node.kind = "UnaryOp"   ->
         IF node.ops = <<"UAdd">> THEN Value(node.args[1], env, where)
         ELSE Operated(UnaryOps[node.ops[1]], Values(node.args, env, where))
    [] node.kind = "Compare"   -> Compared(node, Values(node.args, env, where))
    [] node.kind = "BoolOp"    -> Joined(node, Values(node.args, env, where))
    [] node.kind = "Subscript" -> MatrixValue(node, env, where)
    [] node.kind = "Call"      ->
         IF node.args[1].kind = "Name" /\ node.args[1].name = "z29_det"
         THEN MatrixValue(node, env, where)
         ELSE CallValue(node.args[1], Values(Tail(node.args), env, where), where)

\* A step of a theory for the symbol x, called x, at the position i.
StepValue(name, x, where) ==
  LET fn == MethodNamed(where.theory, name) IN
    Returned(fn.body, [n \in ToSet(fn.params) |-> IF n = "x" THEN x ELSE where.i % 29], where)
=============================================================================
