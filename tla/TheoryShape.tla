---------------------------- MODULE TheoryShape ----------------------------
(***************************************************************************)
(* The shape of a normalized step: which family of ciphers it is, by its   *)
(* expression alone, and where the parameters of the family are in it.  A  *)
(* shape is [id, minus, coeffs]: minus says whether the key stream is      *)
(* subtracted, a coefficient is a constant or a variable.                  *)
(***************************************************************************)
EXTENDS DslOptimize

CipherVar == Var(Cipher_var)
StreamIndex == Var("i")

Shape(id, minus, coeffs) == [id |-> id, minus |-> minus, coeffs |-> coeffs]

NoSymbol(e) == ~DependsOn(e, Cipher_var)
IsFixed(e) == NoSymbol(e) /\ ~DependsOn(e, "i")
IsNamed(e) == e.op = "var"
IsTerm(e) == IsNamed(e) \/ IsConst(e)
Nonzero(e) == IsNamed(e) \/ (IsConst(e) /\ ~IsZero(e))

HasAutokey(e) == \E s \in Subterms(e) : IsAutokey(s)
HasPreferBranch(e) == \E s \in Subterms(e) : s.op = "select" /\ s.name = "branch"

(***************************************************************************)
(* x + key, x + -key and x - key.                                          *)
(***************************************************************************)
IsKeyed(e) == e.op \in {"add", "sub"} /\ e.args[1] = CipherVar
KeyMinus(e) == e.op = "sub" \/ e.args[2].op = "neg"
KeyOf(e) == IF e.op = "add" /\ e.args[2].op = "neg" THEN e.args[2].args[1] ELSE e.args[2]

-----------------------------------------------------------------------------
IsAtbash(e) == e = Node("atbash", <<CipherVar>>)

(***************************************************************************)
(* try_autokey_lag: the key is the stream itself, a fixed lag ago.         *)
(***************************************************************************)
IsAutokeyLag(e) ==
  /\ IsKeyed(e) /\ IsAutokey(KeyOf(e))
  /\ KeyOf(e).args[1] = CipherVar
  /\ IsTerm(KeyOf(e).args[2]) /\ IsFixed(KeyOf(e).args[2])

AutokeyShape(e) ==
  IF IsAutokeyLag(e) THEN Shape("Autokey", KeyMinus(e), [lag |-> KeyOf(e).args[2]])
  ELSE Shape("Autokey", FALSE, <<>>)

(***************************************************************************)
(* try_caesar: a shift by a constant or a parameter, of either sign.       *)
(***************************************************************************)
IsCaesar(e) == e.op = "add" /\ IsKeyed(e) /\ IsTerm(KeyOf(e)) /\ IsFixed(KeyOf(e))

CaesarShape(e) == Shape("Caesar", FALSE, [shift |-> KeyOf(e)])

(***************************************************************************)
(* try_affine_decrypt: inv(a) times x or x - b, the factors in any order.  *)
(***************************************************************************)
AffineDecryptShapes(e) ==
  IF e.op # "mul" THEN {}
  ELSE LET inverse == IF e.args[1].op = "inv" THEN 1 ELSE 2
           body == e.args[3 - inverse] IN
         {Shape("AffineDecrypt", TRUE, [a |-> e.args[inverse].args[1], b |-> b]) :
            b \in IF e.args[inverse].op # "inv" \/ ~Nonzero(e.args[inverse].args[1]) THEN {}
                  ELSE IF body = CipherVar THEN {Const(0)}
                  ELSE IF /\ IsKeyed(body) /\ KeyMinus(body)
                          /\ IsTerm(KeyOf(body)) /\ IsFixed(KeyOf(body))
                  THEN {KeyOf(body)} ELSE {}}

(***************************************************************************)
(* try_affine: a x or a x + b.                                             *)
(***************************************************************************)
IsMultiple(e) ==
  e.op = "mul" /\ e.args[2] = CipherVar /\ Nonzero(e.args[1]) /\ IsFixed(e.args[1])

AffineShapes(e) ==
  IF IsMultiple(e) THEN {Shape("Affine", FALSE, [a |-> e.args[1], b |-> Const(0)])}
  ELSE IF e.op = "add" /\ IsMultiple(e.args[1]) /\ IsTerm(e.args[2]) /\ IsFixed(e.args[2])
  THEN {Shape("Affine", FALSE, [a |-> e.args[1].args[1], b |-> e.args[2]])}
  ELSE {}

-----------------------------------------------------------------------------
(***************************************************************************)
(* Polynomials in i: match_scalar_coeff, match_mul_b1_i_term, match_b2_ii. *)
(***************************************************************************)
IsScalar(e) == IsTerm(e) /\ e # StreamIndex

RECURSIVE Flattened(_, _)
Flattened(op, e) ==
  IF e.op # op THEN <<e>> ELSE Flattened(op, e.args[1]) \o Flattened(op, e.args[2])

LinearCoeffs(e) ==
  IF e = StreamIndex THEN {Const(1)}
  ELSE IF e.op # "mul" THEN {}
  ELSE {e.args[n] : n \in {m \in 1..2 : e.args[3 - m] = StreamIndex /\ IsScalar(e.args[m])}}

SquareCoeffs(e) ==
  LET factors == Flattened("mul", e) IN
    IF Len(factors) = 3 /\ Cardinality({n \in 1..3 : factors[n] = StreamIndex}) = 2
    THEN {c \in Range(factors) : IsScalar(c)} ELSE {}

\* Two coefficients are not the same parameter.
Distinct(coeffs) ==
  \A m, n \in DOMAIN coeffs : coeffs[m] = coeffs[n] => m = n \/ IsConst(coeffs[m])

(***************************************************************************)
(* try_linear_keystream: b0 + b1 i in either order, or one of its terms.   *)
(***************************************************************************)
LinearShapes(e) ==
  IF ~IsKeyed(e) \/ ~NoSymbol(e.args[2]) THEN {}
  ELSE LET key == KeyOf(e)
           sums == IF key.op # "add" THEN {}
                   ELSE {n \in 1..2 : IsScalar(key.args[n]) /\ LinearCoeffs(key.args[3 - n]) # {}}
           pairs == {[b0 |-> Const(0), b1 |-> b] : b \in LinearCoeffs(key)}
             \cup UNION {{[b0 |-> key.args[n], b1 |-> b] : b \in LinearCoeffs(key.args[3 - n])} :
                           n \in sums} IN
         {Shape("LinearKeystream", KeyMinus(e), pair) : pair \in {p \in pairs : Distinct(p)}}

(***************************************************************************)
(* try_poly_keystream: a sum of one square and at most one linear and one  *)
(* constant term; a term that is not there is zero.                        *)
(***************************************************************************)
PolyShapes(e) ==
  IF ~IsKeyed(e) \/ ~NoSymbol(e.args[2]) THEN {}
  ELSE LET terms == Flattened("add", KeyOf(e))
           squares == {n \in DOMAIN terms : SquareCoeffs(terms[n]) # {}}
           linears == {n \in DOMAIN terms : LinearCoeffs(terms[n]) # {}}
           scalars == {n \in DOMAIN terms : IsScalar(terms[n])}
           only(positions, of(_)) ==
             IF positions = {} THEN Const(0)
             ELSE CHOOSE c \in of(terms[CHOOSE n \in positions : TRUE]) : TRUE
           coeffs == [b0 |-> only(scalars, LAMBDA t : {t}), b1 |-> only(linears, LinearCoeffs),
                      b2 |-> only(squares, SquareCoeffs)] IN
         IF /\ squares \cup linears \cup scalars = DOMAIN terms
            /\ Cardinality(squares) = 1 /\ Cardinality(linears) <= 1 /\ Cardinality(scalars) <= 1
            /\ Distinct(coeffs)
         THEN {Shape("PolyKeystream", KeyMinus(e), coeffs)} ELSE {}

-----------------------------------------------------------------------------
(***************************************************************************)
(* match_normalized: the first family that fits, in this order.            *)
(***************************************************************************)
FirstOf(shapes) == CHOOSE s \in shapes : TRUE

ShapeOf(e) ==
  CASE HasPreferBranch(e) -> Shape("Unknown", FALSE, <<>>)
    [] HasAutokey(e) /\ ~HasPreferBranch(e) -> AutokeyShape(e)
    [] OTHER ->
         IF NoSymbol(e) THEN Shape("Unknown", FALSE, <<>>)
         ELSE IF IsAtbash(e) THEN Shape("Atbash", FALSE, <<>>)
         ELSE IF IsCaesar(e) THEN CaesarShape(e)
         ELSE IF AffineDecryptShapes(e) # {} THEN FirstOf(AffineDecryptShapes(e))
         ELSE IF AffineShapes(e) # {} THEN FirstOf(AffineShapes(e))
         ELSE IF LinearShapes(e) # {} THEN FirstOf(LinearShapes(e))
         ELSE IF PolyShapes(e) # {} THEN FirstOf(PolyShapes(e))
         ELSE IF DependsOn(e, "i") THEN Shape("KeyedGeneral", FALSE, <<>>)
         ELSE Shape("FxOnly", FALSE, <<>>)
=============================================================================
