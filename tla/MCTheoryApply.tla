--------------------------- MODULE MCTheoryApply ---------------------------
(***************************************************************************)
(* Theories for TheoryApply and FusedHist: the shapes of the shipped       *)
(* theories and of the compiler's tests, and those that the compiler, the  *)
(* run or a kernel refuses.                                                *)
(***************************************************************************)
EXTENDS FusedHist, DslSource

(***************************************************************************)
(* Sources of theories, written as programs are: a statement begins on a   *)
(* line of its own, a comment #parcae.ignore is the statement Ignore, and  *)
(* Module numbers the lines and takes the comments out.                    *)
(***************************************************************************)
Nm(n) == [Ast("Name", <<>>) EXCEPT !.name = n]
Num(v) == [Ast("Constant", <<>>) EXCEPT !.value = v]
Self(n) == [Ast("Attribute", <<Nm("self")>>) EXCEPT !.name = n]
Op(op, l, r) == [Ast("BinOp", <<l, r>>) EXCEPT !.ops = <<op>>]
Un(op, e) == [Ast("UnaryOp", <<e>>) EXCEPT !.ops = <<op>>]
Joins(op, of) == [Ast("BoolOp", of) EXCEPT !.ops = <<op>>]
Chain(ops, of) == [Ast("Compare", of) EXCEPT !.ops = ops]
Calls(name, args) == Ast("Call", <<Nm(name)>> \o args)
Helped(name, args) == Ast("Call", <<Self(name)>> \o args)
Listed(of) == Ast("List", of)
Nth(e, n) == Ast("Subscript", <<e, Num(n)>>)
Return(e) == Ast("Return", <<e>>)
IfElse(test, yes, no) == [Ast("If", <<test>>) EXCEPT !.body = yes, !.orelse = no]
While(test, body) == [Ast("While", <<test>>) EXCEPT !.body = body]
Ignore(flag) == [Ast("Ignore", <<>>) EXCEPT !.name = flag]
Import(from) == [Ast("ImportFrom", <<>>) EXCEPT !.name = from]

Def(name, params, body) ==
  [Ast("FunctionDef", <<>>) EXCEPT !.name = name, !.params = params, !.body = body]

Primitive(name, params, body) ==
  [Def(name, params, body) EXCEPT !.deco = "define_primitive",
                                  !.meta = [name |-> name, signature |-> params]]

Param(name, min, max) == [Ast("AnnAssign", <<Num(min), Num(max)>>) EXCEPT !.name = name]

Class(meta, body) ==
  [Ast("ClassDef", <<>>) EXCEPT !.deco = "Theory", !.meta = meta, !.body = body]

Dict(keys, of) == [Ast("Dict", of) EXCEPT !.params = keys]

\* A composition whose step_params returns dict.
Chained(name, steps, params, dict) ==
  [Class([name |-> name, tier |-> "A", steps |-> steps],
         params \o <<Def("step_params", <<>>, <<Ast("Return", <<dict>>)>>)>>)
     EXCEPT !.deco = "ComposedTheory"]

Meta == [name |-> "T", family |-> "elementwise", tier |-> "A",
         interrupts |-> "elementwise_default"]

Params == <<Param("a", 0, 28), Param("b", 0, 28)>>
Step(name, body) == Def(name, <<"x", "i">>, body)
Steps(body) == <<Step("encrypt_step", body), Step("decrypt_step", body)>>

-----------------------------------------------------------------------------
RECURSIVE Total(_), Height(_), Laid(_, _), Ignores(_), Kept(_)
Total(stmts) == IF stmts = <<>> THEN 0 ELSE Height(Head(stmts)) + Total(Tail(stmts))
Height(s) == 1 + Total(s.body) + (IF s.orelse = <<>> THEN 0 ELSE 1 + Total(s.orelse))

Laid(stmts, from) ==
  [n \in DOMAIN stmts |->
     LET s == stmts[n]
         line == from + Total(SubSeq(stmts, 1, n - 1)) IN
       [s EXCEPT !.line = line, !.last = line + Height(s) - 1,
                 !.args = [k \in DOMAIN s.args |-> [s.args[k] EXCEPT !.line = line]],
                 !.body = Laid(s.body, line + 1),
                 !.orelse = Laid(s.orelse, line + Total(s.body) + 2)]]

Ignores(stmts) ==
  UNION {(IF s.kind = "Ignore" THEN {[line |-> s.line, flag |-> s.name]} ELSE {})
           \cup Ignores(s.body) \cup Ignores(s.orelse) : s \in ToSet(stmts)}

Kept(stmts) ==
  LET kept == SelectSeq(stmts, LAMBDA s : s.kind # "Ignore") IN
    [n \in DOMAIN kept |->
       [kept[n] EXCEPT !.body = Kept(@), !.orelse = Kept(@)]]

Module(body, allow) ==
  LET laid == Laid(body, 1) IN
    [body |-> Kept(laid), directives |-> Ignores(laid), allow |-> allow]

Authored(defs, members, body) ==
  Module(defs \o <<Class(Meta, Params \o members \o Steps(body))>>, TRUE)

-----------------------------------------------------------------------------
x == Nm("x")  i == Nm("i")  a == Self("a")  b == Self("b")

Pick == Primitive("pick", <<"t", "c", "f">>,
                  <<IfElse(Nm("c"), <<Return(Nm("t"))>>, <<Return(Nm("f"))>>)>>)

Branch == "divergent_branch"

(***************************************************************************)
(* Sources that are compiled.                                              *)
(***************************************************************************)
GoodSources ==
  << Authored(<<>>,
             <<Def("key", <<"n">>, <<Return(a)>>),
               Def("less", <<"s", "k">>, <<Return(Op("Sub", Nm("s"), Nm("k")))>>),
               Def("key", <<"n">>, <<Return(Op("Add", Op("Mult", a, Nm("n")), b))>>)>>,
             <<Return(Helped("less", <<x, Helped("key", <<i>>)>>))>>),
     Authored(<<Primitive("swap", <<"a", "x">>, <<Return(Op("Sub", Nm("a"), Nm("x")))>>),
               Primitive("mix", <<"u", "v">>,
                         <<Return(Op("Mult", Calls("swap", <<Nm("v"), Nm("u")>>), Nm("u")))>>)>>,
             <<>>, <<Return(Op("Add", Calls("swap", <<x, a>>), Calls("mix", <<b, x>>)))>>),
     Authored(<<>>, <<>>,
             <<IfElse(Chain(<<"Gt">>, <<a, Num(9)>>), <<Return(x)>>,
                      <<IfElse(Chain(<<"Eq">>, <<b, Num(3)>>), <<Return(Op("Sub", x, b))>>,
                               <<Return(Op("Add", x, Num(1)))>>)>>)>>),
     Authored(<<>>, <<>>,
             <<IfElse(Chain(<<"Lt">>, <<a, Num(9)>>),
                      <<Ignore(Branch),
                        IfElse(Chain(<<"Gt">>, <<x, b>>), <<Return(Op("Sub", x, b))>>,
                               <<Return(Op("Add", x, a))>>)>>,
                      <<Ignore(Branch),
                        IfElse(i, <<Return(i)>>, <<Return(x)>>)>>)>>),
     Authored(<<>>, <<>>,
             <<Return(Ast("IfExp", <<Chain(<<"GtE">>, <<a, Num(3)>>), Op("Sub", x, a), x>>))>>),
     Authored(<<Import("parcae.dsl.math")>>, <<>>,
             <<Return(Op("Add", Chain(<<"Lt", "LtE">>, <<b, x, Num(20)>>),
                         Joins("Or", <<Joins("And", <<x, i, a>>), Un("Not", x)>>)))>>),
     Authored(<<>>, <<>>, <<Return(Op("Add", x, Calls("z29_det", <<Listed(<<x, a, b, i>>)>>)))>>),
     Authored(<<>>, <<>>,
             <<Return(Calls("z29_det", <<Listed(<<x, a, b, i, x, Num(2), a, Num(7), x>>)>>))>>),
     Authored(<<>>, <<>>,
             <<Return(Nth(Calls("z29_matmul", <<Listed(<<Num(1), a, b, x>>),
                                               Listed(<<x, i>>)>>), 1))>>),
     Authored(<<>>, <<>>,
             <<Return(Op("Sub", Un("UAdd", x),
                         Nth(Calls("z29_matmul",
                                   <<Listed(<<a, b, x, i, Num(1), Num(2), b, x, a>>),
                                     Listed(<<x, i, b>>)>>), 2)))>>),
     Module(<<Class([Meta EXCEPT !.name = "Other"], Params \o Steps(<<Return(x)>>)),
              Class([Meta EXCEPT !.tier = "B", !.family = "keyed_stream", !.interrupts = "policy_method"],
                    Params \o <<Def("structural_claim", <<>>, <<Return(Num(0))>>)>>
                      \o Steps(<<Return(Op("BitXor", x, Op("Pow", a, Un("Invert", i))))>>))>>,
            FALSE),
     Module(<<Class(Meta, Params \o <<Step("encrypt_step", <<Return(x)>>),
                Step("decrypt_step",
                     <<Return(Op("Mult", x, Calls("z29_inv", <<Op("Add", i, Num(1))>>)))>>)>>)>>,
            FALSE) >>

(***************************************************************************)
(* Sources that a directive, a gate, the lowering or the verifier refuses. *)
(***************************************************************************)
OneLine(e) == Authored(<<>>, <<>>, <<Return(e)>>)
Divergent == Ast("IfExp", <<Chain(<<"Gt">>, <<x, Num(14)>>), x, a>>)
Branching == <<Ignore(Branch), IfElse(x, <<Return(x)>>, <<Return(a)>>)>>
Returning(meta, members) == Module(<<Class(meta, members)>>, TRUE)
SteppedWith(params) == Returning(Meta, params \o Steps(<<Return(x)>>))

BadSources ==
  << Module(<<Class(Meta, Params \o Steps(Branching))>>, FALSE),
     Authored(<<>>, <<>>, <<Ignore("warp_size"), Return(x)>>),
     Module(<<Class(Meta, Params \o Steps(<<Return(x)>>)), Ignore(Branch)>>, TRUE),
     Authored(<<>>, <<>>, <<Ignore("hotloop_restriction"),
                           IfElse(x, <<Return(x)>>, <<Return(a)>>)>>),
     OneLine(Divergent), OneLine(Op("Sub", x, Ast("IfExp", <<i, a, b>>))),
     Authored(<<>>, <<>>, <<IfElse(Op("Add", i, a), <<Return(x)>>, <<Return(b)>>)>>),
     OneLine(Calls("z29_unknown", <<x>>)), OneLine(Calls("z29_add", <<x>>)),
     OneLine(Calls("z29_select", <<a, x, b>>)), OneLine(Calls("print", <<x>>)),
     OneLine(Op("MatMult", x, a)), OneLine(Ast("Lambda", <<x>>)),
     OneLine(Num(29)), OneLine(Ast("Attribute", <<x>>)), OneLine(Helped("key", <<>>)),
     OneLine(Calls("z29_det", <<Listed(<<x, a, b>>)>>)),
     Authored(<<Import("os")>>, <<>>, <<Return(x)>>),
     Authored(<<Ast("Break", <<>>)>>, <<>>, <<Return(x)>>),
     Authored(<<>>, <<>>, <<While(a, <<Return(x)>>)>>),
     Authored(<<>>, <<>>, <<Ignore("hotloop_restriction"), While(a, <<Return(x)>>)>>),
     Authored(<<>>, <<>>, <<IfElse(a, <<Return(x)>>, <<>>)>>),
     Authored(<<>>, <<>>, <<Ast("Pass", <<>>), Return(x)>>),
     Authored(<<>>, <<Class(Meta, <<>>), Def("f", <<>>, <<Class(Meta, <<>>)>>)>>, <<Return(x)>>),
     Authored(<<>>, <<Def("key", <<"n">>, <<Return(Nm("n"))>>)>>, <<Return(Helped("key", <<>>))>>),
     Authored(<<Pick, Pick>>, <<>>, <<Return(x)>>),
     Authored(<<Pick>>, <<>>, <<Return(Calls("pick", <<x>>))>>),
     Authored(<<Primitive("half", <<"u">>, <<Return(Calls("z29_inv", <<Nm("u")>>))>>)>>,
             <<>>, <<Return(x)>>),
     Returning(Meta, Params \o <<Step("encrypt_step", <<Return(x)>>)>>),
     Returning([Meta EXCEPT !.tier = "B"], Params \o Steps(<<Return(x)>>)),
     Returning([Meta EXCEPT !.family = "keyed_stream"], Params \o Steps(<<Return(x)>>)),
     SteppedWith(<<Param("a", 0, 29), Param("b", 0, 28)>>),
     SteppedWith(<<Param("a", 3, 2), Param("b", 0, 28)>>), SteppedWith(Params \o Params),
     OneLine(Op("Mult", x, Calls("z29_inv", <<Op("Add", i, Num(1))>>))),
     OneLine(Op("Div", x, Op("Sub", a, a))) >>

-----------------------------------------------------------------------------
X == Var("x")  A == Var("a")  B == Var("b")  I == Var("i")
Plus(l, r) == Bin("add", l, r)
Minus(l, r) == Bin("sub", l, r)
Times(l, r) == Bin("mul", l, r)
InvOf(e) == Node("inv", <<e>>)
Select(c, t, f) == Node("select", <<c, t, f>>)
Lag(e) == Call("autokey_shift", <<X, e>>)

AffineStep == Times(Minus(X, B), InvOf(A))
Nested == Times(X, InvOf(Plus(InvOf(A), B)))

MCSteps ==
  << Times(InvOf(A), Minus(X, B)),                               \* affine
     Minus(X, Plus(B, Times(A, I))),                             \* keyed stream
     Plus(Times(I, A), Minus(X, B)),
     Select(Bin("gt", X, Const(14)), Minus(Const(28), X), Plus(X, A)),
     Minus(X, Lag(Const(2))),                                    \* autokey
     Plus(Times(X, InvOf(A)), InvOf(Plus(B, Const(1)))),
     Select(X, InvOf(X), Const(0)),                              \* an arm that fails
     Select(X, Lag(InvOf(X)), Const(3)),
     Plus(Times(Plus(X, Const(0)), Const(1)), Minus(Const(0), B)),
     Plus(Bin("pow", Const(3), Const(5)), Times(Const(0), InvOf(X))),
     Plus(Times(X, I), Times(I, X)),                             \* never settles
     Node("bit_not", <<Bin("bit_xor", Bin("lshift", X, Const(3)), Bin("rshift", X, A))>>),
     Call("add", <<Call("mul", <<Const(28), Call("neg", <<X>>)>>), Call("inv", <<A>>)>>),
     Plus(Node("neg", <<X>>), Const(28)),
     Select(Const(0), B, Bin("bool_or", Bin("le", X, A), Node("bool_not", <<I>>))),
     Bin("div", X, Minus(A, Const(5))), Bin("mod", Bin("floordiv", X, B), X),
     InvOf(Const(0)), Plus(X, Var("c")), Nested,
     Minus(Const(28), X), Minus(X, B),                           \* the shapes of a search
     Plus(Times(A, X), B), AffineStep,
     Minus(X, Plus(B, Times(A, Times(I, I)))), Plus(X, Times(I, Plus(A, B))),
     Plus(X, Times(A, I)), Times(X, I), Plus(Times(X, InvOf(A)), I),
     Minus(X, Lag(A)), Plus(X, Lag(A)), Times(X, Lag(A)),
     Plus(Times(X, I), Plus(Times(A, I), Bin("bit_xor", X, B))), \* too long for S3
     [Select(Bin("gt", X, B), Plus(X, A), X) EXCEPT !.name = "branch"],
     Bin("div", Plus(X, A), B), InvOf(Plus(X, A)), Plus(A, I) >>

\* Long enough for the index to wrap; some symbols, 2 among them, are not in it.
MCCipher == [n \in 1..34 |-> (n * n) % 29]

MCLanes == << [a |-> 5, b |-> 3], [a |-> 27, b |-> 28] >>

(***************************************************************************)
(* The source of a step: what is no operator of the language is a call, a  *)
(* select that branches a conditional expression under a directive, and a  *)
(* select that does not a primitive.                                       *)
(***************************************************************************)
OpNamed(ops, op) == {o \in DOMAIN ops : ops[o] = op}

RECURSIVE Quoted(_)
Quoted(e) ==
  LET of == [n \in DOMAIN e.args |-> Quoted(e.args[n])] IN
    CASE e.op = "const" -> Num(e.value)
      [] e.op = "var" -> IF e.name \in {"x", "i"} THEN Nm(e.name) ELSE Self(e.name)
      [] e.op = "call" -> Calls("z29_" \o e.name, of)
      [] e.op = "select" /\ e.name = "branch" -> Ast("IfExp", of)
      [] e.op = "select" /\ e.name = "" -> Calls("pick", <<of[2], of[1], of[3]>>)
      [] OpNamed(BinOps, e.op) # {} -> Op(CHOOSE o \in OpNamed(BinOps, e.op) : TRUE, of[1], of[2])
      [] OTHER -> Calls("z29_" \o e.op, of)

Quote(step, interrupts) ==
  LET least == IF step = AffineStep THEN 1 ELSE 0
      asked == IF step.name = "branch" THEN <<Ignore(Branch)>> ELSE <<>> IN
    Module(<<Pick, Class([Meta EXCEPT !.interrupts = interrupts],
                         <<Param("a", least, 28), Param("b", 0, 28)>>
                           \o Steps(asked \o <<Return(Quoted(step))>>))>>, TRUE)

MCApplied(source, direction, tried) ==
  [source |-> source, name |-> "T", direction |-> direction, params |-> [a |-> 5, b |-> 3],
   stream |-> <<7, 0, 28, 1, 15>>, skips |-> {2}, lanes |-> tried, cipher |-> MCCipher]

AllLanes == Append(MCLanes, [a |-> 0, b |-> 0])

MCTheory(step, interrupts) ==
  MCApplied(Quote(step, interrupts), "encrypt", IF step = AffineStep THEN MCLanes ELSE AllLanes)

MCTheories ==
  [n \in DOMAIN MCSteps |-> MCTheory(MCSteps[n], "elementwise_default")]
    \o << MCTheory(MCSteps[1], "none_by_design") >>
    \o [n \in DOMAIN GoodSources |-> MCApplied(GoodSources[n], "decrypt", AllLanes)]
    \o [n \in DOMAIN BadSources |-> MCApplied(BadSources[n], "encrypt", AllLanes)]

\* A Caesar theory that adds its shift.
MCAdded == << MCTheory(Plus(X, A), "elementwise_default") >>

\* Some of the residues, for primitives of up to three arguments.
MCVerifyValues == {0, 1, 2, 7, 28}

\* Limits that a theory of each kind exceeds.
MCDeviceCaps == [ops |-> 16, stack |-> 8, slots |-> 4]
MCInlineCaps == [ops |-> 7, stack |-> 8, slots |-> 4]

MCNameCode ==
  [a |-> 97, b |-> 98, c |-> 99, i |-> 105, x |-> 120, autokey_shift |-> 122]
    @@ (HoistName(0) :> 95) @@ (HoistName(1) :> 96)
=============================================================================
