----------------------------- MODULE DslSource -----------------------------
(***************************************************************************)
(* The source of a theory before it is lowered: its tree, the scope of     *)
(* every node, the directives the author left in it, and the two gates     *)
(* that refuse it.  A module is [body, directives, allow]; a directive is  *)
(* [line, flag], allow is the switch --allow-dsl-ignores.                  *)
(*                                                                         *)
(* A node of the tree is the record Ast(kind, args): args are its          *)
(* expressions, the callee of a Call the first of them, body and orelse    *)
(* its statements, ops its operators, last the line it ends in.  A         *)
(* definition has its decorator in deco, the keywords of it in meta and    *)
(* its positional arguments, without self, in params; a Dict has its keys  *)
(* there.                                                                  *)
(***************************************************************************)
EXTENDS DslOptimize

Ast(kind, args) ==
  [kind |-> kind, name |-> "", value |-> 0, ops |-> <<>>, args |-> args, body |-> <<>>,
   orelse |-> <<>>, line |-> 0, last |-> 0, deco |-> "", meta |-> <<>>, params |-> <<>>]

(***************************************************************************)
(* The operators, with the kinds they are lowered to; MatMult is not one.  *)
(***************************************************************************)
BinOps ==
  [Add |-> "add", Sub |-> "sub", Mult |-> "mul", Div |-> "div", FloorDiv |-> "floordiv",
   Mod |-> "mod", Pow |-> "pow", LShift |-> "lshift", RShift |-> "rshift",
   BitOr |-> "bit_or", BitXor |-> "bit_xor", BitAnd |-> "bit_and"]

UnaryOps == [UAdd |-> "", USub |-> "neg", Not |-> "bool_not", Invert |-> "bit_not"]
BoolOps == [And |-> "bool_and", Or |-> "bool_or"]

CmpOps ==
  [Eq |-> "eq", NotEq |-> "ne", Lt |-> "lt", LtE |-> "le", Gt |-> "gt", GtE |-> "ge"]

OperatorsOf(node) ==
  CASE node.kind = "BinOp"   -> DOMAIN BinOps
    [] node.kind = "UnaryOp" -> DOMAIN UnaryOps
    [] node.kind = "BoolOp"  -> DOMAIN BoolOps
    [] node.kind = "Compare" -> DOMAIN CmpOps
    [] OTHER                 -> {}

(***************************************************************************)
(* arity: the z29_ calls and the number of their arguments; z29_unknown    *)
(* stands for every other name that begins with z29_.                      *)
(***************************************************************************)
Arity ==
  [z29_add |-> 2, z29_sub |-> 2, z29_mul |-> 2, z29_div |-> 2, z29_floordiv |-> 2,
   z29_mod |-> 2, z29_pow |-> 2, z29_bit_and |-> 2, z29_bit_or |-> 2, z29_bit_xor |-> 2,
   z29_lshift |-> 2, z29_rshift |-> 2, z29_eq |-> 2, z29_ne |-> 2, z29_lt |-> 2,
   z29_le |-> 2, z29_gt |-> 2, z29_ge |-> 2, z29_bool_and |-> 2, z29_bool_or |-> 2,
   z29_inv |-> 1, z29_neg |-> 1, z29_atbash |-> 1, z29_bit_not |-> 1, z29_bool_not |-> 1,
   z29_select |-> 3, z29_matmul |-> 2, z29_det |-> 1, z29_autokey_shift |-> 2]

UnknownIntrinsic == "z29_unknown"

-----------------------------------------------------------------------------
(***************************************************************************)
(* analyze: every node with where it is, [hot, depth, defs, theory, member,*)
(* cipher]: in the hot loop or not, the loops and the functions around it, *)
(* whether it is a member of a class and the class a theory, and the name  *)
(* of the symbol there.  A function has its own scope: hot for the steps   *)
(* of a theory and for a primitive that is not in a class.                 *)
(***************************************************************************)
HotMethods == {"encrypt_step", "decrypt_step", "keystream_at", "interrupt_policy"}
TheoryDecos == {"Theory", "ComposedTheory"}
LoopKinds == {"For", "While"}

TopLevel ==
  [hot |-> FALSE, depth |-> 0, defs |-> 0, theory |-> FALSE, member |-> FALSE,
   cipher |-> Cipher_var]

IsHot(fn, at) ==
  IF at.member THEN at.theory /\ fn.name \in HotMethods ELSE fn.deco = "define_primitive"

InFunction(fn, at) ==
  [at EXCEPT !.hot = IsHot(fn, at), !.depth = 0, !.defs = @ + 1, !.member = FALSE,
             !.cipher = IF IsHot(fn, at) /\ fn.params # <<>> THEN fn.params[1] ELSE @]

InClass(cls, at) == [at EXCEPT !.member = TRUE, !.theory = cls.deco \in TheoryDecos]

OwnScope(node, at) ==
  CASE node.kind \in LoopKinds -> [at EXCEPT !.depth = @ + 1, !.member = FALSE]
    [] node.kind \in {"FunctionDef", "ClassDef"} -> [at EXCEPT !.hot = FALSE]
    [] OTHER -> [at EXCEPT !.member = FALSE]

InnerScope(node, at) ==
  CASE node.kind = "FunctionDef" -> InFunction(node, at)
    [] node.kind = "ClassDef"    -> InClass(node, [at EXCEPT !.hot = FALSE])
    [] OTHER                     -> OwnScope(node, at)

RECURSIVE Placed(_, _)
Placed(node, at) ==
  {[node |-> node, at |-> OwnScope(node, at)]}
    \cup UNION {Placed(node.args[n], OwnScope(node, at)) : n \in DOMAIN node.args}
    \cup UNION {Placed(s, InnerScope(node, at)) : s \in ToSet(node.body \o node.orelse)}

PlacedIn(module) == UNION {Placed(s, TopLevel) : s \in ToSet(module.body)}

-----------------------------------------------------------------------------
(***************************************************************************)
(* DslDirectiveTable: a directive is bound to the first statement after it *)
(* of the innermost list that has one and whose parent begins before it.   *)
(***************************************************************************)
KnownFlags == {"divergent_branch", "hotloop_restriction", "host_loop_bound"}

RECURSIVE Bodies(_, _, _)
Bodies(stmts, parent_line, depth) ==
  (IF stmts = <<>> THEN {}
   ELSE {[stmts |-> ToSet(stmts), parent_line |-> parent_line, depth |-> depth]})
    \cup UNION {Bodies(s.body, s.line, depth + 1) \cup Bodies(s.orelse, s.line, depth + 1)
                  : s \in ToSet(stmts)}

Bindable(module, line) ==
  {b \in Bodies(module.body, 0, 0) :
     b.parent_line < line /\ \E s \in b.stmts : s.line >= line}

BoundTo(module, line) ==
  LET bodies == Bindable(module, line)
      deepest == {b \in bodies : \A c \in bodies : c.depth <= b.depth}
      after == {s \in UNION {b.stmts : b \in deepest} : s.line >= line} IN
    CHOOSE s \in after : \A t \in after : s.line <= t.line

DirectivesBind(module) ==
  \A d \in module.directives :
    module.allow /\ d.flag \in KnownFlags /\ Bindable(module, d.line) # {}

Covers(module, flag, node) ==
  \E d \in module.directives : d.flag = flag /\ BoundTo(module, d.line) = node

\* honor_at_line: an expression is covered by the statement around it.
CoversLine(module, flag, line) ==
  \E d \in module.directives :
    LET s == BoundTo(module, d.line) IN d.flag = flag /\ s.line <= line /\ line <= s.last

-----------------------------------------------------------------------------
(***************************************************************************)
(* DslSemanticGate: the kinds of nodes there may be, and where.            *)
(***************************************************************************)
AllowedKinds ==
  {"ClassDef", "FunctionDef", "Return", "Expr", "Assign", "AnnAssign", "Pass", "Raise",
   "If", "For", "While", "Break", "Continue", "ImportFrom", "Name", "Attribute", "Call",
   "Constant", "BinOp", "UnaryOp", "Compare", "BoolOp", "Subscript", "Tuple", "List",
   "Dict", "IfExp"}

AllowedImports ==
  {"parcae.dsl.math", "parcae.dsl.theory", "parcae.dsl.primitives", "parcae.dsl.testing"}

ControlAllowed(module, node, at) ==
  CASE node.kind \in LoopKinds ->
         at.hot => Covers(module, "hotloop_restriction", node)
    [] node.kind \in {"Break", "Continue"} ->
         IF at.hot THEN Covers(module, "hotloop_restriction", node) ELSE at.depth > 0
    [] OTHER -> TRUE

CallAllowed(node) ==
  LET callee == node.args[1] IN
    callee.kind = "Name" =>
      /\ callee.name # UnknownIntrinsic
      /\ callee.name \in DOMAIN Arity => Len(node.args) = 1 + Arity[callee.name]

SemanticGate(module) ==
  \A p \in PlacedIn(module) :
    /\ p.node.kind \in AllowedKinds
    /\ ToSet(p.node.ops) \subseteq OperatorsOf(p.node)
    /\ ControlAllowed(module, p.node, p.at)
    /\ p.node.kind = "ClassDef" => p.at.defs = 0
    /\ p.node.kind = "ImportFrom" => p.node.name \in AllowedImports
    /\ p.node.kind = "Call" => CallAllowed(p.node)

-----------------------------------------------------------------------------
(***************************************************************************)
(* DslDivergenceGate: what a condition depends on is told from its names;  *)
(* the names of an attribute are those of what it is taken from.           *)
(***************************************************************************)
RECURSIVE NamesIn(_)
NamesIn(e) ==
  (IF e.kind = "Name" THEN {e.name} ELSE {})
    \cup UNION {NamesIn(e.args[n]) : n \in DOMAIN e.args}

\* Faulty variant: the position of the symbol is taken for loop invariant.
VariesWithSymbol(test, cipher) == cipher \in NamesIn(test)
ThreadVarying(test, cipher) == NamesIn(test) \cap {cipher, "i"} # {}

\* Faulty variant: conditional expressions are not looked at.
StatementsGate(module) ==
  \A p \in PlacedIn(module) :
    (p.at.hot /\ p.node.kind = "If" /\ ThreadVarying(p.node.args[1], p.at.cipher))
      => Covers(module, "divergent_branch", p.node)

DivergenceGate(module) ==
  \A p \in PlacedIn(module) :
    (p.at.hot /\ p.node.kind \in {"If", "IfExp"} /\ ThreadVarying(p.node.args[1], p.at.cipher))
      => \/ Covers(module, "divergent_branch", p.node)
         \/ p.node.kind = "IfExp" /\ CoversLine(module, "divergent_branch", p.node.line)

Gated(module) ==
  DirectivesBind(module) /\ SemanticGate(module) /\ DivergenceGate(module)
=============================================================================
