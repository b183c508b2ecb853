--------------------------- MODULE CandidateGrid ---------------------------
(***************************************************************************)
(* The candidates that a search tries on a text: the grids of the families *)
(* in the order in which the generators list them, the identifiers that    *)
(* break ties, and what each candidate makes of the text.                  *)
(***************************************************************************)
EXTENDS ComposeTransform, Z29Expr

CONSTANTS
  DefaultKeys,      \* default_vigenere_max_key_length, 20
  DefaultStarts,    \* default_totient_start_count, 32
  DefaultSample     \* default_max_candidates of the Hill generators, 256 and 128

ASSUME GridAssumption == {DefaultKeys, DefaultStarts, DefaultSample} \subseteq Nat \ {0}

Stage(kind, params) ==
  [kind |-> kind, params |-> params, direction |-> "default", own |-> FALSE, skips |-> {}]

Stream(f, k, l) == Stage("stream", [family |-> f, key |-> k, lag |-> l])
Encrypting(stage) == [stage EXCEPT !.direction = "encrypt"]

-----------------------------------------------------------------------------
(***************************************************************************)
(* Identifiers are compared as text.  One is the rank of its first word,   *)
(* then the digits, commas and colons of the rest.                         *)
(***************************************************************************)
Heads == << "affine", "atbash", "atbash_caesar", "beaufort_key", "caesar",
            "ciphertext_autokey", "compose", "hill_2", "hill_3", "identity",
            "plaintext_autokey", "prior-seed", "theory", "totient_prime_stream",
            "vigenere_key" >>

Comma == -1
Colon == 10

RECURSIVE Decimal(_)
Decimal(n) == IF n < 10 THEN <<n>> ELSE Append(Decimal(n \div 10), n % 10)

Commas(ns) ==
  FlattenSeq([n \in DOMAIN ns |-> (IF n = 1 THEN <<>> ELSE <<Comma>>) \o Decimal(ns[n])])

Id(head, rest) == <<CHOOSE h \in DOMAIN Heads : Heads[h] = head>> \o rest
Numbered(head, i, rest) == Id(head, Decimal(i) \o <<Colon>> \o rest)

IdLess(a, b) ==
  \E n \in 1..Len(b) :
    /\ n <= Len(a) + 1 /\ SubSeq(a, 1, n - 1) = SubSeq(b, 1, n - 1)
    /\ n > Len(a) \/ a[n] < b[n]

-----------------------------------------------------------------------------
(***************************************************************************)
(* What becomes of a text; Failed symbols where it is refused.  The stage  *)
(* of a theory has params [uri, steps, values], a step for each direction. *)
(* A recipe accepts a text when all of its stages do, which depends on the *)
(* length of the text only; a transform is the only stage of a recipe.     *)
(***************************************************************************)
RECURSIVE RecipeRuns(_, _, _, _)
RecipeRuns(stages, skips, depth, text) ==
  /\ EntryOK(stages, depth)
  /\ \A n \in DOMAIN stages :
       LET own == StageSkips(stages[n], skips, depth) IN
         IF stages[n].kind = "compose" THEN RecipeRuns(stages[n].params, own, depth + 1, text)
                                      ELSE StageAccepts(stages[n], own, text)

TheorySymbol(theory_params, dir, text, p) ==
  EvalAt(theory_params.steps[dir],
         [env |-> ("x" :> text[p]) @@ theory_params.values @@ ("i" :> ((p - 1) % 29)),
          stream |-> text, i |-> p - 1, device |-> FALSE])

TheoryText(theory_params, dir, skips, text) ==
  IF \E s \in skips : s >= Len(text) THEN <<Failed>>
  ELSE [p \in DOMAIN text |-> IF p - 1 \in skips THEN text[p]
                             ELSE TheorySymbol(theory_params, dir, text, p)]

RecipeText(stages, dir, skips, text) ==
  IF RecipeRuns(stages, skips, 0, text) THEN Meaning(stages, dir, skips, text) ELSE <<Failed>>

TextUnder(method, dir, skips, text) ==
  IF method.kind = "theory" THEN TheoryText(method.params, dir, skips, text)
  ELSE RecipeText(IF method.kind = "compose" THEN method.params ELSE <<method>>,
                  dir, skips, text)

(***************************************************************************)
(* Priors compare candidates by their parameters alone, whatever transform *)
(* they are the parameters of.                                             *)
(***************************************************************************)
StreamSignature(p) ==
  CASE p.family \in {"identity", "atbash"}    -> <<"none">>
    [] p.family = "caesar"                    -> <<"values", [shift |-> p.key[1]]>>
    [] p.family = "affine"                    -> <<"values", [a |-> p.key[1], b |-> p.key[2]]>>
    [] p.family = "totient_prime_stream"      -> <<"start", p.lag>>
    [] p.family \in Periodic                  -> <<"key", p.key>>
    [] p.family \in Feedback                  ->
         IF p.lag = Len(p.key) THEN <<"key", p.key>> ELSE <<"delayed", p.family, p.lag, p.key>>

RECURSIVE Signature(_)
Signature(method) ==
  CASE method.kind = "stream" -> StreamSignature(method.params)
    [] method.kind = "theory" -> <<"values", method.params.values>>
    [] method.kind = "compose" ->
         <<"stages", [n \in DOMAIN method.params |->
            LET s == method.params[n] IN
              <<IF s.kind = "stream" THEN s.params.family ELSE s.kind,
                Signature(s), s.direction, s.own, s.skips>>]>>
    [] OTHER -> <<method.kind, method.params>>

-----------------------------------------------------------------------------
(***************************************************************************)
(* The grids of the generators.  An offer is [id, method].                 *)
(***************************************************************************)
Offer(id, method) == [id |-> id, method |-> method]

IdentityGrid == <<Offer(Id("identity", <<>>), Stream("identity", <<>>, 0))>>
AtbashGrid == <<Offer(Id("atbash", <<>>), Stream("atbash", <<>>, 0))>>

CaesarGrid ==
  [n \in 1..29 |-> Offer(Id("caesar", Decimal(n - 1)), Stream("caesar", <<n - 1>>, 0))]

\* atbash_then_caesar_params
KoanStages(shift) == <<Stream("atbash", <<>>, 0), Encrypting(Stream("caesar", <<shift>>, 0))>>

AtbashCaesarGrid ==
  [n \in 1..29 |->
     Offer(Id("atbash_caesar", Decimal(n - 1)), Stage("compose", KoanStages(n - 1)))]

AffineOffer(a, b) ==
  Offer(Id("affine", Commas(<<a, b>>)), Stream("affine", <<a, b>>, 0))

AffineGrid == FlattenSeq([a \in 1..28 |-> [n \in 1..29 |-> AffineOffer(a, n - 1)]])

\* default_bounded_key_grid: keys 1, 2, 3 and so on, one of each length.
BoundedKeys(max) == [l \in 1..max |-> [j \in 1..l |-> j % 29]]

KeyedGrid(family, keys) ==
  [n \in DOMAIN keys |->
     Offer(Numbered(family, n - 1, Commas(keys[n])),
           Stream(family, keys[n], IF family \in Feedback THEN Len(keys[n]) ELSE 0))]

VigenereGrid(keys) == KeyedGrid("vigenere_key", keys)
BeaufortGrid(keys) == KeyedGrid("beaufort_key", keys)
CiphertextAutokeyGrid(primers) == KeyedGrid("ciphertext_autokey", primers)
PlaintextAutokeyGrid(primers) == KeyedGrid("plaintext_autokey", primers)

TotientGrid(starts) ==
  [n \in DOMAIN starts |->
     Offer(Id("totient_prime_stream", Decimal(starts[n])),
           Stream("totient_prime_stream", <<>>, starts[n]))]

HillGrid(matrices) ==
  [n \in DOMAIN matrices |->
     Offer(Numbered(IF Len(matrices[n]) = 2 THEN "hill_2" ELSE "hill_3", n - 1,
                    Commas(FlattenSeq(matrices[n]))),
           Stage("hill", matrices[n]))]

\* Numbered by their place in the list that is tried.
TheoryGrid(uri, steps, values) ==
  [n \in DOMAIN values |->
     Offer(Numbered("theory", n - 1, <<uri>>),
           Stage("theory", [uri |-> uri, steps |-> steps, values |-> values[n]]))]

(***************************************************************************)
(* sample_invertible: matrices filled row by row from a congruential       *)
(* generator of 32 bits, kept in two halves; the singular ones are left    *)
(* out, and the tries are counted.                                         *)
(***************************************************************************)
Seeded(size, hi, lo) ==
  IF hi = 0 /\ lo = 0
    THEN IF size = 2 THEN [hi |-> 42405, lo |-> 42405] ELSE [hi |-> 50115, lo |-> 50115]
    ELSE [hi |-> hi, lo |-> lo]

\* state * 1664525 + 1013904223 modulo 2^32
NextState(state) ==
  LET low == state.lo * 26125 + 62303 IN
    [lo |-> low % 65536,
     hi |-> (state.hi * 26125 + state.lo * 25 + 15470 + low \div 65536) % 65536]

RECURSIVE StatesFrom(_, _)
StatesFrom(state, n) ==
  IF n = 0 THEN <<>> ELSE LET s == NextState(state) IN <<s>> \o StatesFrom(s, n - 1)

RECURSIVE Sampled(_, _, _, _)
Sampled(size, n, tries, state) ==
  IF n = 0 \/ tries = 0 THEN <<>>
  ELSE LET states == StatesFrom(state, size * size)
           matrix == [i \in 1..size |-> [j \in 1..size |-> states[(i - 1) * size + j].hi % 29]]
           kept   == IF Det(matrix) = 0 THEN <<>> ELSE <<matrix>> IN
         kept \o Sampled(size, n - Len(kept), tries - 1, states[size * size])

TryBudget(size, n) == IF size = 2 THEN n * 64 + 1024 ELSE n * 128 + 2048

(***************************************************************************)
(* A list of recipes that are all the Atbash-then-Caesar ones is replaced  *)
(* by their generator; one that looks like them has their identifier.      *)
(***************************************************************************)
NoShift == -1

KoanShift(stages) ==
  IF /\ Len(stages) = 2
     /\ \A n \in 1..2 : stages[n].kind = "stream"
     /\ stages[1].params.family = "atbash" /\ stages[2].params.family = "caesar"
     /\ stages[2].direction = "encrypt"
    THEN stages[2].params.key[1] ELSE NoShift

IsKoanGrid(recipes) ==
  Len(recipes) = 29 /\ {KoanShift(recipes[n]) : n \in 1..29} = Index29

RecipeOffer(n, stages) ==
  Offer(IF KoanShift(stages) = NoShift THEN Id("compose", Decimal(n - 1))
        ELSE Id("atbash_caesar", Decimal(KoanShift(stages))),
        Stage("compose", stages))

RecipeGrid(recipes) == [n \in DOMAIN recipes |-> RecipeOffer(n, recipes[n])]

ComposeGrid(recipes) == IF IsKoanGrid(recipes) THEN AtbashCaesarGrid ELSE RecipeGrid(recipes)

-----------------------------------------------------------------------------
(***************************************************************************)
(* A param_grid is [given, list, bound, hi, lo, uri, steps]: which of its  *)
(* fields is there ("nothing" when the grid is empty), the list in it, the *)
(* number, the two halves of a seed, and the theory with its steps.        *)
(***************************************************************************)
BoundOr(default, grid) == IF grid.given = "bound" THEN grid.bound ELSE default

KeysOf(grid) ==
  IF grid.given = "keys" THEN grid.list ELSE BoundedKeys(BoundOr(DefaultKeys, grid))

StartsOf(grid) ==
  IF grid.given = "starts" THEN grid.list
  ELSE [n \in 1..BoundOr(DefaultStarts, grid) |-> n - 1]

MatricesOf(size, grid) ==
  IF grid.given = "matrices" THEN grid.list
  ELSE LET n == BoundOr(DefaultSample, grid) IN
         Sampled(size, n, TryBudget(size, n), Seeded(size, grid.hi, grid.lo))

RecipesOf(grid) ==
  CASE grid.given = "recipes" -> grid.list
    [] grid.given = "stages"  -> <<grid.list>>
    [] OTHER                  -> [n \in 1..29 |-> KoanStages(n - 1)]

HillSize(family) == IF family = "hill_2" THEN 2 ELSE 3

GridOf(family, grid) ==
  CASE family = "caesar"             -> CaesarGrid
    [] family = "atbash"             -> AtbashGrid
    [] family = "atbash_caesar"      -> AtbashCaesarGrid
    [] family = "affine"             -> AffineGrid
    [] family = "vigenere"           -> VigenereGrid(KeysOf(grid))
    [] family = "beaufort"           -> BeaufortGrid(KeysOf(grid))
    [] family = "ciphertext_autokey" -> CiphertextAutokeyGrid(KeysOf(grid))
    [] family = "plaintext_autokey"  -> PlaintextAutokeyGrid(KeysOf(grid))
    [] family = "totient"            -> TotientGrid(StartsOf(grid))
    [] family \in {"hill_2", "hill_3"} -> HillGrid(MatricesOf(HillSize(family), grid))
    [] family = "compose"            -> ComposeGrid(RecipesOf(grid))
    [] family = "theory"             -> TheoryGrid(grid.uri, grid.steps, grid.list)

GridRefused(family, grid) ==
  \/ grid.given = "bound" /\ grid.bound < 1
  \/ grid.given \in {"keys", "starts", "matrices", "recipes", "values"} /\ grid.list = <<>>
  \/ grid.given \in {"keys", "recipes"} /\ \E n \in DOMAIN grid.list : grid.list[n] = <<>>
  \/ grid.given = "stages" /\ grid.list = <<>>
  \/ grid.given = "matrices" /\ \E n \in DOMAIN grid.list : Det(grid.list[n]) = 0

(***************************************************************************)
(* A generator applies every candidate; one that fails fails them all.     *)
(***************************************************************************)
Candidate(offer, dir, skips, text) ==
  [id |-> offer.id, method |-> offer.method, dir |-> dir, skips |-> skips,
   text |-> TextUnder(offer.method, dir, skips, text)]

CandidatesOf(offers, dir, text) ==
  [n \in DOMAIN offers |-> Candidate(offers[n], dir, {}, text)]

Undecoded(candidate) == \E p \in DOMAIN candidate.text : candidate.text[p] = Failed
=============================================================================
