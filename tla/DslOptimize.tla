---------------------------- MODULE DslOptimize ----------------------------
(***************************************************************************)
(* The rewriting of a theory's step between its source and its apply form: *)
(* constants are folded, inverses that do not depend on the symbol are     *)
(* hoisted out and, for the apply form, put back; and a normal form is     *)
(* computed to recognise the shape of a theory.                            *)
(***************************************************************************)
EXTENDS Z29Expr, TLC

CONSTANT NameCode      \* a number for each name, in the order of the names

Cipher_var == "x"
Broken == Node("error", <<>>)       \* a rewriting that was refused
IsBroken(e) == e.op = "error"

-----------------------------------------------------------------------------
(***************************************************************************)
(* const_fold: constant operands are evaluated, neutral ones dropped, and  *)
(* a select with a constant condition or two equal constant arms decided.  *)
(***************************************************************************)
\* Faulty variant: 0 - x is taken for x.
FoldedBinaryEither(e) ==
  IF e.op \in {"add", "sub"} /\ IsZero(e.args[1]) THEN e.args[2] ELSE e

FoldedBinary(e) ==
  LET l == e.args[1]  r == e.args[2] IN
    CASE e.op = "add" /\ IsZero(r) -> l
      [] e.op = "add" /\ IsZero(l) -> r
      [] e.op = "sub" /\ IsZero(r) -> l
      [] e.op = "mul" /\ (IsZero(l) \/ IsZero(r)) -> Const(0)
      [] e.op = "mul" /\ l = Const(1) -> r
      [] e.op = "mul" /\ r = Const(1) -> l
      [] OTHER -> e

FoldedSelect(e) ==
  IF IsConst(e.args[1]) THEN (IF e.args[1].value # 0 THEN e.args[2] ELSE e.args[3])
  ELSE IF IsConst(e.args[2]) /\ e.args[2] = e.args[3] THEN e.args[2] ELSE e

Settled(value) == IF value = Failed THEN Broken ELSE Const(value)

FoldedNode(e) ==
  IF \E n \in DOMAIN e.args : IsBroken(e.args[n]) THEN Broken
  ELSE IF e.op = "select" THEN FoldedSelect(e)
  ELSE IF e.op = "call" THEN e
  ELSE IF \A n \in DOMAIN e.args : IsConst(e.args[n])
       THEN Settled(Eval(e, [env |-> <<>>, stream |-> <<>>, i |-> 0, device |-> FALSE]))
  ELSE IF Len(e.args) = 2 THEN FoldedBinary(e) ELSE e

RECURSIVE ConstFold(_)
ConstFold(e) ==
  IF e.args = <<>> THEN e
  ELSE LET k == AsKind(e) IN
         FoldedNode([k EXCEPT !.args = [n \in DOMAIN k.args |-> ConstFold(k.args[n])]])

-----------------------------------------------------------------------------
(***************************************************************************)
(* hoist_inv: the argument of an inverse without the symbol is put in the  *)
(* list, innermost first, and a variable takes the place of the inverse.   *)
(* Rewritten is [expr, hoists], or [args, hoists] for the operands.        *)
(***************************************************************************)
HoistName(n) == "__parcae_inv_" \o ToString(n)

Hoisted(arg, hoists) ==
  CASE DependsOn(arg, Cipher_var) -> [expr |-> Node("inv", <<arg>>), hoists |-> hoists]
    [] ~DependsOn(arg, Cipher_var) /\ IsConst(arg) ->
         [expr |-> IF IsZero(arg) THEN Broken ELSE Const(Inv(arg.value)), hoists |-> hoists]
    [] OTHER -> [expr |-> Var(HoistName(Len(hoists))), hoists |-> Append(hoists, arg)]

RECURSIVE HoistInv(_, _), HoistArgs(_, _, _)
HoistArgs(args, n, hoists) ==
  IF n = 0 THEN [args |-> <<>>, hoists |-> hoists]
  ELSE LET before == HoistArgs(args, n - 1, hoists)
           this   == HoistInv(args[n], before.hoists) IN
         [args |-> Append(before.args, this.expr), hoists |-> this.hoists]

HoistInv(e, hoists) ==
  LET inner == HoistArgs(e.args, Len(e.args), hoists) IN
    IF \E n \in DOMAIN inner.args : IsBroken(inner.args[n])
    THEN [expr |-> Broken, hoists |-> inner.hoists]
    ELSE IF e.op = "inv" THEN Hoisted(inner.args[1], inner.hoists)
    ELSE [expr |-> [e EXCEPT !.args = inner.args], hoists |-> inner.hoists]

\* What a fold refused has no operands left to hoist from.
Optimize(e) == HoistInv(ConstFold(e), <<>>)

(***************************************************************************)
(* bind_hoists: each hoist is evaluated where those before it are bound.   *)
(***************************************************************************)
RECURSIVE BindHoists(_, _, _)
BindHoists(hoists, n, ctx) ==
  IF n = Len(hoists) THEN ctx
  ELSE LET v == Unary("inv", Eval(hoists[n + 1], ctx), ctx.device) IN
         IF v = Failed THEN ctx
         ELSE BindHoists(hoists, n + 1, [ctx EXCEPT !.env = (HoistName(n) :> v) @@ @])

(***************************************************************************)
(* reinstate_invs: the hoists are put back in the order they were taken.   *)
(***************************************************************************)
RECURSIVE Reinstated(_, _, _)
Reinstated(e, hoists, n) ==
  IF n = Len(hoists) THEN e
  ELSE Reinstated(Substituted(e, HoistName(n), Node("inv", <<hoists[n + 1]>>)), hoists, n + 1)

-----------------------------------------------------------------------------
(***************************************************************************)
(* canonical_key: the kinds, values and names in preorder; 44, 59 and 124  *)
(* are the characters between operands, 98 the b of a select.              *)
(***************************************************************************)
RECURSIVE CanonicalKey(_)
CanonicalKey(e) ==
  LET key(n) == CanonicalKey(e.args[n]) IN
    <<KindCode(e.op)>> \o
    CASE e.op = "const"  -> <<e.value>>
      [] e.op = "var"    -> <<NameCode[e.name]>>
      [] e.op = "select" -> <<98>> \o key(1) \o <<59>> \o key(2) \o <<59>> \o key(3)
      [] e.op = "call"   -> <<NameCode[e.name], 124>> \o key(1) \o <<124>> \o key(2)
      [] OTHER -> IF Len(e.args) = 2 THEN key(1) \o <<44>> \o key(2) ELSE key(1)

RECURSIVE Greater(_, _)
Greater(a, b) ==
  IF a = <<>> \/ b = <<>> THEN a # <<>>
  ELSE Head(a) > Head(b) \/ (Head(a) = Head(b) /\ Greater(Tail(a), Tail(b)))

(***************************************************************************)
(* The symbol's side goes left in a sum and right in a product; otherwise  *)
(* the keys decide.                                                        *)
(***************************************************************************)
ShouldSwap(e) ==
  LET lc == DependsOn(e.args[1], Cipher_var)
      rc == DependsOn(e.args[2], Cipher_var) IN
    IF lc # rc THEN rc = (e.op = "add")
    ELSE Greater(CanonicalKey(e.args[1]), CanonicalKey(e.args[2]))

IsMulOfI(e) == e.op = "mul" /\ e.args[2] = Var("i")

(***************************************************************************)
(* rewrite_local: the first rule that applies to a node, or the node.      *)
(***************************************************************************)
RewriteBinary(e) ==
  LET l == e.args[1]  r == e.args[2] IN
    CASE e.op = "sub" /\ l = Const(28)                    -> Node("atbash", <<r>>)
      [] e.op = "add" /\ l = Const(28) /\ r.op = "neg"    -> Node("atbash", r.args)
      [] e.op = "add" /\ r = Const(28) /\ l.op = "neg"    -> Node("atbash", l.args)
      [] e.op = "sub" /\ l # Const(28) /\ DependsOn(l, Cipher_var) /\ ~DependsOn(r, Cipher_var)
                                                    -> Bin("add", l, Node("neg", <<r>>))
      [] OTHER ->
           IF e.op \in {"add", "mul"}
           THEN IF \/ ShouldSwap(e)
                   \/ e.op = "mul" /\ l = Var("i") /\ ~DependsOn(r, "i")
                   \/ e.op = "add" /\ IsMulOfI(l) /\ ~DependsOn(r, "i")
                THEN Bin(e.op, r, l) ELSE e
           ELSE e

RewriteLocal(e) ==
  CASE e.op = "bit_not" -> Node("atbash", e.args)
    [] e.op \notin {"bit_not", "select", "call"} /\ Len(e.args) = 2 -> RewriteBinary(e)
    [] OTHER -> e

(***************************************************************************)
(* normalize_bottom_up: one pass; a select or an autokey call only has its *)
(* operands rewritten.                                                     *)
(***************************************************************************)
RECURSIVE NormalizePass(_)
NormalizePass(e) ==
  RewriteLocal([e EXCEPT !.args = [n \in DOMAIN e.args |-> NormalizePass(e.args[n])]])
=============================================================================
