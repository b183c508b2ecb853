------------------------------ MODULE Z29Expr ------------------------------
(***************************************************************************)
(* Expressions of the theory language over Z29, and what they evaluate to. *)
(* A node is [op, args, value, name]: value is that of a constant, name    *)
(* that of a variable or of a called primitive.                            *)
(***************************************************************************)
EXTENDS Z29, Bitwise, SequencesExt

Failed == -1            \* what an evaluation that is refused returns

(***************************************************************************)
(* The kinds in the order of the enumeration, with the calls they replace. *)
(***************************************************************************)
Kinds == << "const", "var", "add", "sub", "mul", "div", "floordiv", "mod", "pow", "neg",
            "inv", "atbash", "bit_and", "bit_or", "bit_xor", "bit_not", "lshift", "rshift",
            "eq", "ne", "lt", "le", "gt", "ge", "bool_and", "bool_or", "bool_not",
            "select", "call" >>

KindCode(op) == CHOOSE n \in DOMAIN Kinds : Kinds[n] = op

Node(op, args) == [op |-> op, args |-> args, value |-> 0, name |-> ""]
Const(v) == [Node("const", <<>>) EXCEPT !.value = v]
Var(n) == [Node("var", <<>>) EXCEPT !.name = n]
Call(n, args) == [Node("call", args) EXCEPT !.name = n]
Bin(op, l, r) == Node(op, <<l, r>>)
IsConst(e) == e.op = "const"
IsZero(e) == IsConst(e) /\ e.value = 0

\* z29_autokey_shift is the one primitive that is not a kind as well.
IsAutokey(e) == e.op = "call" /\ e.name = "autokey_shift"
AsKind(e) == IF e.op = "call" /\ ~IsAutokey(e) THEN Node(e.name, e.args) ELSE e

RECURSIVE Subterms(_)
Subterms(e) == {e} \cup UNION {Subterms(e.args[n]) : n \in DOMAIN e.args}

DependsOn(e, n) == \E s \in Subterms(e) : s.op = "var" /\ s.name = n

RECURSIVE Substituted(_, _, _)
Substituted(e, n, by) ==
  IF e.op = "var" THEN (IF e.name = n THEN by ELSE e)
  ELSE [e EXCEPT !.args = [m \in DOMAIN e.args |-> Substituted(e.args[m], n, by)]]

-----------------------------------------------------------------------------
(***************************************************************************)
(* The operations on residues; comparisons and Booleans give 0 or 1.       *)
(***************************************************************************)
Bool(b) == IF b THEN 1 ELSE 0

RECURSIVE Pow(_, _)
Pow(b, e) ==
  IF e = 0 THEN 1 ELSE ((IF e % 2 = 1 THEN b ELSE 1) * Pow((b * b) % 29, e \div 2)) % 29

LShift(x, y) == (x * (2^y % 29)) % 29
RShift(x, y) == IF y >= 8 THEN 0 ELSE x \div 2^y

BinaryHost(op, l, r) ==
  CASE op = "add"      -> Add(l, r)
    [] op = "sub"      -> Sub(l, r)
    [] op = "mul"      -> Mul(l, r)
    [] op = "div"      -> IF r = 0 THEN Failed ELSE Mul(l, Inv(r))
    [] op = "floordiv" -> IF r = 0 THEN Failed ELSE l \div r
    [] op = "mod"      -> IF r = 0 THEN Failed ELSE l % r
    [] op = "pow"      -> Pow(l, r)
    [] op = "bit_and"  -> (l & r) % 29
    [] op = "bit_or"   -> (l | r) % 29
    [] op = "bit_xor"  -> (l ^^ r) % 29
    [] op = "lshift"   -> LShift(l, r)
    [] op = "rshift"   -> RShift(l, r)
    [] op = "eq"       -> Bool(l = r)
    [] op = "ne"       -> Bool(l # r)
    [] op = "lt"       -> Bool(l < r)
    [] op = "le"       -> Bool(l <= r)
    [] op = "gt"       -> Bool(l > r)
    [] op = "ge"       -> Bool(l >= r)
    [] op = "bool_and" -> Bool(l # 0 /\ r # 0)
    [] op = "bool_or"  -> Bool(l # 0 \/ r # 0)

UnaryHost(op, a) ==
  CASE op = "neg"                    -> Neg(a)
    [] op = "inv"                    -> IF a = 0 THEN Failed ELSE Inv(a)
    [] op \in {"atbash", "bit_not"}  -> Atbash(a)
    [] op = "bool_not"               -> Bool(a = 0)

(***************************************************************************)
(* The device operations reduce sums and differences by a comparison.      *)
(***************************************************************************)
Reduced(s) == IF s >= 29 THEN s - 29 ELSE s

DeviceOps == {"add", "sub", "atbash", "bit_not"}

BinaryDevice(op, l, r) == Reduced(IF op = "add" THEN l + r ELSE l + 29 - r)
UnaryDevice(a) == Reduced(28 + 29 - a)

Binary(op, l, r, device) ==
  IF l = Failed \/ r = Failed THEN Failed
  ELSE IF device /\ op \in DeviceOps THEN BinaryDevice(op, l, r) ELSE BinaryHost(op, l, r)

Unary(op, a, device) ==
  IF a = Failed THEN Failed
  ELSE IF device /\ op \in DeviceOps THEN UnaryDevice(a) ELSE UnaryHost(op, a)

(***************************************************************************)
(* AutokeyRing::shift: the symbol lag places before position i, from 0.    *)
(***************************************************************************)
AutokeyShift(stream, i, lag) ==
  IF lag = 0 \/ i < lag \/ i >= Len(stream) THEN 0 ELSE stream[i - lag + 1]

(***************************************************************************)
(* A context is [env, stream, i, device].  A select evaluates only the arm *)
(* it takes.                                                               *)
(***************************************************************************)
RECURSIVE Eval(_, _)
Eval(e, ctx) ==
  CASE e.op = "const"  -> e.value
    [] e.op = "var"    -> IF e.name \in DOMAIN ctx.env THEN ctx.env[e.name] ELSE Failed
    [] IsAutokey(e)    -> LET lag == Eval(e.args[2], ctx) IN
                            IF lag = Failed THEN Failed
                            ELSE AutokeyShift(ctx.stream, ctx.i, lag)
    [] e.op = "call" /\ ~IsAutokey(e) -> Eval(AsKind(e), ctx)
    [] e.op = "select" -> LET c == Eval(e.args[1], ctx) IN
                            IF c = Failed THEN Failed
                            ELSE IF c # 0 THEN Eval(e.args[2], ctx) ELSE Eval(e.args[3], ctx)
    [] e.op \notin {"const", "var", "call", "select"} ->
         IF Len(e.args) = 2 THEN Binary(e.op, Eval(e.args[1], ctx), Eval(e.args[2], ctx),
                                        ctx.device)
         ELSE Unary(e.op, Eval(e.args[1], ctx), ctx.device)

(***************************************************************************)
(* The applicator replaces the autokey calls by constants before it        *)
(* evaluates: a lag that fails fails the symbol, in either arm of a select.*)
(***************************************************************************)
EvalAt(e, ctx) ==
  IF \E s \in Subterms(e) : IsAutokey(s) /\ Eval(s.args[2], ctx) = Failed
  THEN Failed ELSE Eval(e, ctx)
=============================================================================
