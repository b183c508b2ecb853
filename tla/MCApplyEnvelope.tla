-------------------------- MODULE MCApplyEnvelope --------------------------
(***************************************************************************)
(* Recipes for ApplyEnvelope: one to four stages, every kind of transform, *)
(* recipes in recipes with and without interrupts of their own, stages     *)
(* with a direction, and every grid order on four shapes.  Device jobs:    *)
(* every kernel with and without interrupts, in place and not, aligned and *)
(* not, for texts that packs and blocks do not fit.                        *)
(***************************************************************************)
EXTENDS ApplyEnvelope, MCTheoryApply

(***************************************************************************)
(* Texts, keys and interrupts for StreamCipher: texts from empty to longer *)
(* than a key and than a lag, every set of interrupts among the first four *)
(* positions, a lag that is the length of the primer and one that is not.  *)
(***************************************************************************)
OfFamily(f, k, l, s) == [family |-> f, key |-> k, lag |-> l, skips |-> s]

MCSkips == SUBSET (0..3)

MCPlains == {<<>>, <<28>>, <<3, 1, 4>>, <<0, 28, 5, 17>>, <<2, 3, 5, 7, 11>>}

MCCiphers ==
  {OfFamily("identity", <<>>, 0, {}), OfFamily("atbash", <<>>, 0, {1}),
   OfFamily("caesar", <<3>>, 0, {1}), OfFamily("affine", <<5, 7>>, 0, {}),
   OfFamily("affine", <<0, 7>>, 0, {})}
  \cup {OfFamily(f, <<5, 28>>, 0, s) : f \in Periodic, s \in MCSkips}
  \cup {OfFamily(f, <<9, 2>>, l, s) : f \in Feedback, s \in MCSkips, l \in {2, 3, 4}}
  \cup {OfFamily(f, <<7>>, 1, s) : f \in Feedback, s \in MCSkips}
  \cup {OfFamily("totient_prime_stream", TotientShifts(start, n), 0, s)
          : start \in {0, 2}, n \in 0..5, s \in MCSkips}

-----------------------------------------------------------------------------
Grid(read, height, width) ==
  Stage("grid", [read |-> read, rows |-> height, cols |-> width,
                 key  |-> SubSeq(<<3, 1, 3, 0, 2, 9>>, 1, width)])

Nest(stages) == Stage("compose", stages)
Own(stage, skips) == [stage EXCEPT !.own = TRUE, !.skips = skips]

Vigenere == Stream("vigenere_key", <<5, 28, 1>>, 0)
Autokey  == Stream("ciphertext_autokey", <<9, 2>>, 2)
Delayed  == Stream("plaintext_autokey", <<9, 2>>, 3)
Totient  == Stream("totient_prime_stream", <<>>, 1)
Affine   == Stream("affine", <<5, 7>>, 0)
Hill2    == Stage("hill", << <<3, 5>>, <<1, 2>> >>)
Hill3    == Stage("hill", << <<1, 2, 3>>, <<0, 1, 4>>, <<5, 6, 1>> >>)

Recipe(stages, skips) == [stages |-> stages, skips |-> skips]

Shapes == << <<2, 3>>, <<3, 2>>, <<1, 6>>, <<6, 1>> >>
Reads == <<"spiral", "spiral_outward", "ltr", "rtl", "diagonal", "anti", "columnar">>

MCRecipes ==
  << Recipe(<<Vigenere>>, {1}),
     Recipe(<<Vigenere, Autokey>>, {1}),
     Recipe(<<Vigenere, Hill2, Autokey>>, {0, 3}),
     Recipe(<<Encrypting(Vigenere), Affine, Hill3, Totient>>, {2}),
     Recipe(<<Nest(<<Vigenere, Delayed>>), Own(Autokey, {4})>>, {1}),
     Recipe(<<Hill2, Own(Nest(<<Autokey, Hill3, Encrypting(Vigenere)>>), {2}),
              Delayed, Totient>>, {1, 5}),
     Recipe(<<Affine, Nest(<<Nest(<<Vigenere, Totient>>), Affine>>), Affine>>, {}),
     Recipe(<<Nest(<<Nest(<<Nest(<<Vigenere>>)>>)>>)>>, {}),       \* too deep
     Recipe(<<>>, {}), Recipe(<<Affine, Nest(<<>>)>>, {}) >>
  \o [n \in 1..28 |->
        LET shape == Shapes[((n - 1) \div 7) + 1]  read == Reads[((n - 1) % 7) + 1] IN
          Recipe(<<Grid(read, shape[1], shape[2]), Vigenere, Grid("spiral", 2, 3)>>, {0})]

MCMessages == {<<0, 28, 5, 17, 4, 9>>, <<3, 1, 4, 1, 5>>, <<2, 7, 1, 8, 2, 8>>}

-----------------------------------------------------------------------------
Cand(stages, dir) == [stages |-> stages, dir |-> dir]

DeviceJob(way, aligned, aliased, candidates, skips, text) ==
  [way |-> way, aligned |-> aligned, aliased |-> aliased, candidates |-> candidates,
   skips |-> skips, text |-> text]

Letters == <<0, 28, 5, 17, 4, 9, 22, 1, 13>>
Text(n) == SubSeq(Letters, 1, n)

Twin(stage, dir, aligned, aliased, skips, n) ==
  DeviceJob("twin", aligned, aliased, <<Cand(<<stage>>, dir)>>, skips, Text(n))

Backed(stage, dir, skips, n) ==
  DeviceJob("backend", TRUE, TRUE, <<Cand(<<stage>>, dir)>>, skips, Text(n))

Composed(stages, dir, skips, n) ==
  DeviceJob("compose", TRUE, FALSE, <<Cand(stages, dir)>>, skips, Text(n))

Batched(first, second, skips, n) ==
  DeviceJob("batch", TRUE, FALSE, <<Cand(first, "decrypt"), Cand(second, "encrypt")>>,
            skips, Text(n))

Matrices(candidates) == DeviceJob("matrix", TRUE, FALSE, candidates, {}, <<>>)

Plain(f) == Stream(f, <<>>, 0)
Caesar(k) == Stream("caesar", <<k>>, 0)
Beaufort == Stream("beaufort_key", <<5, 28, 1>>, 0)
Koan(k)  == <<Plain("atbash"), Encrypting(Caesar(k))>>
Singular == Stage("hill", << <<2, 4>>, <<1, 2>> >>)
Spiral   == Grid("spiral", 2, 2)

DenseJobs ==
  << Twin(Caesar(3), "decrypt", TRUE, FALSE, {}, 9),
     Twin(Affine, "encrypt", TRUE, TRUE, {}, 7),
     Twin(Affine, "decrypt", FALSE, TRUE, {}, 3),
     Twin(Plain("identity"), "decrypt", FALSE, TRUE, {}, 3),
     Twin(Plain("atbash"), "encrypt", TRUE, FALSE, {9}, 6),
     Twin(Vigenere, "decrypt", TRUE, FALSE, {}, 6),
     Twin(Vigenere, "encrypt", FALSE, TRUE, {}, 5),
     Twin(Beaufort, "decrypt", TRUE, TRUE, {}, 6),
     Twin(Totient, "encrypt", TRUE, FALSE, {}, 6),
     Twin(Autokey, "decrypt", TRUE, FALSE, {}, 9),
     Twin(Autokey, "decrypt", FALSE, FALSE, {}, 4),
     Twin(Autokey, "encrypt", TRUE, TRUE, {}, 6),
     Twin(Caesar(3), "decrypt", TRUE, FALSE, {}, 0) >>

SkipJobs ==
  << Twin(Vigenere, "decrypt", TRUE, TRUE, {1, 2}, 5),
     Twin(Vigenere, "encrypt", TRUE, FALSE, {0, 3}, 6),
     Twin(Beaufort, "decrypt", TRUE, TRUE, {0}, 5),
     Twin(Totient, "decrypt", TRUE, FALSE, {1}, 5),
     Twin(Totient, "encrypt", TRUE, TRUE, {4, 5}, 6),
     Twin(Autokey, "decrypt", TRUE, TRUE, {1}, 5),
     Twin(Autokey, "encrypt", TRUE, FALSE, {2, 5}, 7) >>

BlockJobs ==
  << Twin(Hill2, "encrypt", TRUE, FALSE, {}, 6),
     Twin(Hill2, "decrypt", FALSE, TRUE, {}, 6),
     Twin(Hill3, "decrypt", TRUE, TRUE, {}, 9),
     Twin(Hill3, "encrypt", TRUE, FALSE, {}, 6),
     Matrices(<<[op |-> "inverse", m |-> Hill2.params], [op |-> "inverse", m |-> Singular.params],
                [op |-> "inverse", m |-> Hill3.params]>>),
     Matrices(<<[op |-> "mul_vec", m |-> Hill2.params, v |-> <<7, 28>>],
                [op |-> "mul_vec", m |-> Hill3.params, v |-> <<7, 28, 3>>]>>) >>

RefusedJobs ==
  << Twin(Spiral, "decrypt", TRUE, FALSE, {}, 4), Twin(Delayed, "decrypt", TRUE, FALSE, {}, 4),
     Twin(Singular, "decrypt", TRUE, FALSE, {}, 4), Twin(Hill2, "decrypt", TRUE, FALSE, {}, 3),
     Twin(Vigenere, "decrypt", TRUE, FALSE, {4}, 4),
     Twin(Plain("vigenere_key"), "decrypt", TRUE, FALSE, {}, 4),
     Backed(Hill2, "decrypt", {}, 4), Backed(Affine, "decrypt", {4}, 4),
     Composed(<<Vigenere, Hill2>>, "decrypt", {}, 4),
     Composed(<<Vigenere, Singular>>, "decrypt", {}, 4),
     Composed(<<Nest(<<Vigenere>>)>>, "decrypt", {}, 4), Composed(<<>>, "decrypt", {}, 4),
     Batched(<<Caesar(1)>>, <<Caesar(2)>>, {}, 6),
     DeviceJob("batch", TRUE, FALSE, <<>>, {}, Text(2)),
     DeviceJob("batch", TRUE, FALSE, [c \in 1..4 |-> Cand(<<Caesar(c)>>, "decrypt")], {}, Text(2)) >>

PathJobs ==
  << Backed(Caesar(7), "decrypt", {}, 5), Backed(Vigenere, "encrypt", {1}, 4),
     DeviceJob("smoke", TRUE, TRUE, <<Cand(<<Caesar(28)>>, "encrypt")>>, {}, Text(5)),
     Composed(<<Vigenere, Affine, Totient>>, "decrypt", {1}, 4),
     Composed(<<Encrypting(Vigenere), Affine, Beaufort>>, "encrypt", {}, 6),
     Composed(<<Beaufort, Caesar(4), Vigenere, Plain("identity")>>, "encrypt", {0}, 4),
     Batched(<<Caesar(1)>>, <<Caesar(28)>>, {}, 2),
     Batched(<<Affine>>, <<Stream("affine", <<28, 1>>, 0)>>, {}, 2),
     Batched(<<Plain("atbash")>>, <<Plain("atbash")>>, {}, 2),
     Batched(Koan(3), Koan(28), {}, 2),
     Batched(<<Vigenere>>, <<Stream("vigenere_key", <<2, 11>>, 0)>>, {0}, 3) >>

MCDeviceJobs == DenseJobs \o SkipJobs \o BlockJobs \o RefusedJobs \o PathJobs

-----------------------------------------------------------------------------
CountLetters == <<0, 28, 5, 17, 4, 9, 22, 1, 13, 5, 28, 3, 3, 11, 26, 7, 19, 2, 14, 5, 8, 21, 16>>
CountingText(n) == SubSeq(CountLetters, 1, n)

CountBatch(family, way, candidates) ==
  [family |-> family, way |-> way, candidates |-> candidates, minus |-> TRUE]

Added(batch) == [batch EXCEPT !.minus = FALSE]
CountJob(batches, n) == [batches |-> batches, text |-> CountingText(n)]

Shift(k) == [shift |-> k, encrypt |-> FALSE]
ShiftBack(k) == [shift |-> k, encrypt |-> TRUE]
Coeffs(m, k) == [a |-> m, b |-> k]
WithKey(k) == [key |-> k]
\* p - 1 modulo 29 for the primes from 2 on.
Totients == <<1, 2, 4, 6, 10, 12, 16, 18, 22, 28, 1, 7, 11, 13, 17, 23, 0, 2, 8, 12, 14, 20, 24,
              1, 9, 13, 15>>
Shifts(first) == [shifts |-> SubSeq(Totients, first + 1, first + 23)]
Moving(k, m) == [base |-> k, step |-> m]
Poly(u, v, w) == [b0 |-> u, b1 |-> v, b2 |-> w]

Keys(family, way) ==
  CountBatch(family, way, <<WithKey(<<3, 27>>), WithKey(<<9, 1, 22>>), WithKey(<<14, 0>>)>>)
LongKeys(family, way) ==
  CountBatch(family, way, <<WithKey(<<3, 27, 1, 8>>), WithKey(<<5>>)>>)
Unkeyed(family) == CountBatch(family, "remap", <<WithKey(<<3, 27>>), WithKey(<<>>)>>)
TooLong(family) == CountBatch(family, "remap", <<WithKey(<<3, 27, 1, 8, 9>>)>>)

Simple(way) ==
  << CountBatch("caesar", way, <<Shift(3), Shift(28), Shift(0)>>),
     CountBatch("atbash", way, <<Shift(0)>>),
     CountBatch("atbash_caesar", way, <<Shift(28), Shift(11)>>),
     CountBatch("affine", way, <<Coeffs(5, 7), Coeffs(28, 1), Coeffs(1, 0)>>) >>

Streams(way) ==
  << CountBatch("linear", way, <<Poly(3, 28, 0), Poly(0, 1, 0)>>),
     Added(CountBatch("linear", way, <<Poly(17, 2, 0)>>)),
     CountBatch("poly", way, <<Poly(3, 28, 5), Poly(0, 1, 28)>>),
     Added(CountBatch("poly", way, <<Poly(1, 0, 2)>>)) >>

Pairs(way) == CountBatch("bigram", way, <<Shift(0), Shift(13), Shift(28)>>)
Words == CountBatch("ngram_dict", "decode", <<Shift(0), Shift(4)>>)

MCCountJobs ==
  << CountJob(Simple("remap"), 23), CountJob(Simple("decode"), 23),
     CountJob(Streams("remap"), 23), CountJob(Streams("decode"), 23),
     CountJob(<<Keys("vigenere_key", "remap"), Keys("beaufort_key", "remap")>>, 23),
     CountJob(<<Keys("ciphertext_autokey", "remap"), LongKeys("ciphertext_autokey", "remap")>>, 23),
     CountJob(<<LongKeys("ciphertext_autokey", "remap"), TooLong("ciphertext_autokey")>>, 3),
     CountJob(<<Keys("vigenere_key", "decode"), LongKeys("vigenere_key", "decode"),
                LongKeys("vigenere_key", "remap")>>, 23),
     CountJob(<<Keys("beaufort_key", "decode"), LongKeys("beaufort_key", "decode")>>, 23),
     CountJob(<<Keys("ciphertext_autokey", "decode"), LongKeys("ciphertext_autokey", "decode")>>, 23),
     CountJob(<<Unkeyed("vigenere_key"), TooLong("beaufort_key"), Unkeyed("ciphertext_autokey"),
                Keys("beaufort_key", "remap")>>, 6),
     CountJob(<<CountBatch("caesar", "directed", <<Shift(3), ShiftBack(3), ShiftBack(28)>>),
                CountBatch("totient_prime_stream", "decode", <<Shifts(0), Shifts(4)>>),
                CountBatch("dynamic_shift", "decode", <<Moving(3, 28), Moving(0, 1)>>)>>, 23),
     CountJob(<<Pairs("remap"), Pairs("decode"), Words>>, 23),
     CountJob(<<Pairs("decode"), Simple("decode")[1], Pairs("remap")>>, 1),
     CountJob(<<Simple("remap")[1]>>, 0), CountJob(<<CountBatch("caesar", "remap", <<>>)>>, 4) >>

MCPairWeight == [p \in Index29 \X Index29 |-> -((p[1] * 7 + p[2] * 3) % 11)]
MCDictionary == << <<13, 5, 28>>, <<>>, <<9>>, <<0, 28>>, <<16, 5>>, <<25, 24>>, <<13, 6>> >>

-----------------------------------------------------------------------------
NoGrid == [given |-> "nothing", list |-> <<>>, bound |-> 0, hi |-> 0, lo |-> 1, uri |-> 0,
           steps |-> [decrypt |-> AffineStep, encrypt |-> Plus(Times(A, X), B)]]

OfGrid(field, list) == [NoGrid EXCEPT !.given = field, !.list = list]
UpTo(n) == [NoGrid EXCEPT !.given = "bound", !.bound = n]
Seed(high, low) == [UpTo(2) EXCEPT !.hi = high, !.lo = low]

Search(family, backend, grid, n) ==
  [way |-> "job", family |-> family, score |-> "chi2_english_gp_v0", k |-> 3, max |-> 1000,
   direction |-> "decrypt", backend |-> backend, grid |-> grid, seeds |-> <<>>,
   exclusions |-> <<>>, text |-> Text(n), extended |-> TRUE, theories |-> TRUE]

WithScore(search, score) == [search EXCEPT !.score = score]
Keeping(search, k) == [search EXCEPT !.k = k]
Backwards(search) == [search EXCEPT !.direction = "encrypt"]
Prior(search, seeds, exclusions) == [search EXCEPT !.seeds = seeds, !.exclusions = exclusions]
SeedOf(hid, method, skips) == [hid |-> hid, method |-> method, skips |-> skips]
Sweep(family, n) == [Search(family, "cuda", NoGrid, n) EXCEPT !.way = "sweep"]

TheoryStage(bound) ==
  Stage("theory", [uri |-> 0, steps |-> NoGrid.steps, values |-> bound])

AffineValues(m, k) == [a |-> m, b |-> k]
Grid29(own) == [n \in 1..29 |-> <<IF own THEN Own(Plain("atbash"), {1}) ELSE Plain("atbash"),
                                  Encrypting(Caesar((n * 12) % 29))>>]

AlphabetSearches ==
  << Search("caesar", "cpu", NoGrid, 5), Search("caesar", "cuda", NoGrid, 6),
     Search("atbash", "cuda", NoGrid, 4), Search("atbash_caesar", "cuda", NoGrid, 6),
     WithScore(Search("atbash_caesar", "cuda", NoGrid, 5), "log_bigram_gp_v0"),
     Keeping(Search("affine", "cuda", NoGrid, 4), 5),
     WithScore(Search("affine", "cpu", NoGrid, 3), "ic_mod29"),
     Backwards(Search("caesar", "cpu", NoGrid, 4)),
     [Search("identity", "cpu", NoGrid, 4) EXCEPT !.way = "battery", !.k = 1] >>
  \o [n \in 1..5 |-> Sweep(<<"caesar", "atbash", "atbash_caesar", "affine", "vigenere">>[n], 5)]

KeySearches ==
  << Search("vigenere", "cuda", UpTo(4), 7), Search("beaufort", "cuda", NoGrid, 6),
     Search("vigenere", "cpu", OfGrid("keys", << <<5, 28>>, <<9>>, <<0, 0>> >>), 5),
     Search("beaufort", "cuda", OfGrid("keys", << <<5, 28>>, <<9>> >>), 5),
     WithScore(Search("vigenere", "cuda", UpTo(12), 6), "self_repeat_rate"),
     Search("totient", "cuda", OfGrid("starts", <<2, 0, 1>>), 4),
     Search("totient", "cuda", UpTo(3), 4), Search("totient", "cpu", NoGrid, 3),
     Search("ciphertext_autokey", "cuda", OfGrid("keys", << <<9, 2>>, <<4>> >>), 5),
     Backwards(Search("plaintext_autokey", "cpu", UpTo(3), 5)) >>

BlockSearches ==
  << Search("hill_2", "cuda", OfGrid("matrices", <<Hill2.params, << <<0, 1>>, <<1, 0>> >> >>), 6),
     Search("hill_2", "cpu", UpTo(3), 4), Search("hill_2", "cpu", Seed(40000, 1), 4),
     Search("hill_2", "cpu", Seed(0, 0), 4), Search("hill_3", "cpu", NoGrid, 6),
     Search("compose", "cuda", OfGrid("recipes", <<Koan(3), <<Vigenere, Affine>>, <<Beaufort>> >>), 5),
     Search("compose", "cuda", OfGrid("recipes", << <<Own(Vigenere, {1}), Affine>> >>), 5),
     Search("compose", "cpu", OfGrid("recipes", << <<Hill2, Own(Nest(<<Autokey>>), {2})>>,
                                                  <<Totient>> >>), 4),
     Search("compose", "cuda", NoGrid, 5), Search("compose", "cpu", OfGrid("recipes", Grid29(FALSE)), 5),
     Search("compose", "cuda", OfGrid("recipes", Grid29(TRUE)), 5),
     Search("compose", "cuda", OfGrid("stages", Koan(7)), 5) >>

PriorSearches ==
  << Prior(Search("caesar", "cuda", NoGrid, 5),
           <<SeedOf(7, Affine, {1}), SeedOf(4, Caesar(3), {}), SeedOf(12, Caesar(2), {0})>>,
           <<Caesar(2), Caesar(11), Affine>>),
     Prior(Search("atbash", "cpu", NoGrid, 4), <<>>, <<Plain("identity")>>),
     Prior(Search("atbash", "cuda", NoGrid, 4), <<SeedOf(1, Nest(Koan(4)), {}),
           SeedOf(2, Nest(Koan(4)), {2})>>, <<Plain("identity")>>),
     Prior(Search("caesar", "cpu", NoGrid, 5), <<SeedOf(1, Singular, {})>>, <<>>),
     Prior(Search("vigenere", "cuda", UpTo(2), 5),
           <<SeedOf(1, Stream("beaufort_key", <<1, 2>>, 0), {})>>, <<>>) >>

TheoryValues == <<AffineValues(5, 7), AffineValues(0, 1), AffineValues(28, 1), AffineValues(5, 8), AffineValues(1, 0)>>
TheorySearch(backend, n) == Search("theory", backend, OfGrid("values", TheoryValues), n)

\* Those that decrypt, so that the host would answer too.
SoundValues == SubSeq(TheoryValues, 3, 5)
SoundSearch(k, seeds, exclusions) ==
  Prior(Keeping(Search("theory", "cuda", OfGrid("values", SoundValues), 4), k), seeds, exclusions)

TheorySearches ==
  << TheorySearch("cuda", 5), Keeping(TheorySearch("cuda", 5), 5), TheorySearch("cpu", 5),
     Prior(Search("theory", "cpu", OfGrid("values", Tail(Tail(TheoryValues))), 4),
           <<SeedOf(3, TheoryStage(AffineValues(9, 9)), {0})>>, <<TheoryStage(AffineValues(5, 8))>>),
     Prior(TheorySearch("cuda", 4), <<SeedOf(3, TheoryStage(AffineValues(9, 9)), {0}),
             SeedOf(5, Affine, {}), SeedOf(6, Caesar(3), {})>>, <<TheoryStage(AffineValues(5, 8))>>),
     Prior(Keeping(TheorySearch("cuda", 4), 1), [n \in 1..4 |->
             SeedOf(n, TheoryStage(TheoryValues[<<1, 3, 4, 5>>[n]]), {})], <<>>),
     Prior(Search("theory", "cuda", OfGrid("values", <<AffineValues(5, 7)>>), 4),
           <<SeedOf(2, Caesar(3), {})>>, <<Affine>>),
     Prior(Search("theory", "cuda", OfGrid("values", <<AffineValues(5, 7)>>), 4), <<>>, <<Affine>>),
     Prior(TheorySearch("cuda", 4), <<SeedOf(2, TheoryStage(AffineValues(0, 3)), {})>>, <<>>),
     SoundSearch(3, <<SeedOf(3, Caesar(9), {})>>, <<>>),
     SoundSearch(2, <<SeedOf(3, TheoryStage(AffineValues(9, 9)), {0})>>,
                 <<TheoryStage(SoundValues[1])>>),
     SoundSearch(1, [n \in 1..3 |-> SeedOf(n, TheoryStage(SoundValues[n]), {1})], <<>>),
     [TheorySearch("cuda", 4) EXCEPT !.theories = FALSE], TheorySearch("cuda", 0),
     Search("theory", "cuda", OfGrid("values", <<>>), 4) >>

RefusedSearches ==
  << Search("caesar", "cpu", NoGrid, 0), Search("caesar", "cuda", NoGrid, 0),
     Backwards(Search("caesar", "cuda", NoGrid, 4)), Keeping(Search("caesar", "cpu", NoGrid, 4), 0),
     [Search("caesar", "cpu", NoGrid, 4) EXCEPT !.max = 5],
     [Search("caesar", "cpu", NoGrid, 4) EXCEPT !.max = 2],
     WithScore(Search("atbash", "cpu", NoGrid, 4), "exact_match"),
     WithScore(Search("atbash", "cpu", NoGrid, 1), "self_repeat_rate"),
     [Search("totient", "cuda", NoGrid, 4) EXCEPT !.extended = FALSE],
     Search("totient", "cuda", OfGrid("starts", <<>>), 4), Search("vigenere", "cuda", UpTo(0), 4),
     Search("hill_2", "cpu", OfGrid("matrices", <<Hill2.params>>), 5),
     Search("hill_2", "cpu", OfGrid("matrices", <<Singular.params>>), 4),
     Search("compose", "cuda", OfGrid("recipes", << <<Vigenere, Hill2>> >>), 4),
     Search("compose", "cpu", OfGrid("recipes", << <<Nest(<<>>)>> >>), 4),
     Search("compose", "cuda", OfGrid("stages", <<>>), 4) >>

MCExportJobs ==
  AlphabetSearches \o KeySearches \o BlockSearches \o PriorSearches \o TheorySearches
    \o RefusedSearches

\* The searches of which a part goes to the device, for the parity that is documented.
MCParityJobs == KeySearches \o TheorySearches
ParitySpec == (route = "export" /\ EnvelopeInit) /\ [][EnvelopeNext]_envelopeVars

-----------------------------------------------------------------------------
NoDirections == [n \in {} |-> ""]

Fusing(defs, name, dirs, values, skips) ==
  [source |-> Module(defs, FALSE), name |-> name, dirs |-> dirs, values |-> values,
   text |-> Text(6), skips |-> skips]

Simply(defs, values) == Fusing(defs, "outer", NoDirections, values, {})

Unbound == Dict(<<>>, <<>>)
To(step, param, name) == Dict(<<step>>, <<Dict(<<param>>, <<Self(name)>>)>>)
ToAffine(m, k) == Dict(<<"a", "b">>, <<Self(m), Self(k)>>)
KeyK == <<Param("k", 0, 28)>>
KeysJK == <<Param("j", 0, 28), Param("k", 0, 28)>>

Koan1 == Chained("outer", <<"atbash", "caesar">>, <<Param("caesar_shift", 0, 28)>>,
                 To("caesar", "shift", "caesar_shift"))
AffineCaesar(params, m, k, shift) ==
  Chained("outer", <<"affine", "caesar">>, params,
          Dict(<<"affine", "caesar">>, <<ToAffine(m, k), Dict(<<"shift">>, <<Self(shift)>>)>>))
InnerCaesar(ref) == Chained("inner", <<"caesar">>, <<Param(ref, 0, 28)>>, To("caesar", "shift", ref))
Over(steps, params, dict) == Chained("outer", steps, params, dict)

AffineTheory(family, key) ==
  Class([Meta EXCEPT !.family = family, !.interrupts = "policy_method"],
        <<Param("a", 1, 28), Param("b", 0, 28),
          Step("encrypt_step", <<Return(Op("Add", Op("Mult", x, a), key))>>),
          Step("decrypt_step", <<Return(Op("Mult", Op("Sub", x, key), Calls("z29_inv", <<a>>)))>>)>>)
TheoryChain == Over(<<"T", "caesar", "T">>, <<Param("m", 1, 28), Param("k", 0, 28)>>,
                    Dict(<<"T", "caesar">>, <<ToAffine("m", "k"), Dict(<<"shift">>, <<Self("k")>>)>>))

FusedJobs ==
  << Simply(<<Koan1>>, [caesar_shift |-> 3]),
     Fusing(<<Koan1>>, "outer", [outer |-> [caesar |-> "encrypt"]], [caesar_shift |-> 3], {}),
     Fusing(<<Koan1>>, "outer", NoDirections, [caesar_shift |-> 28], {0, 4}),
     Simply(<<AffineCaesar(<<Param("m", 1, 28)>> \o KeysJK, "m", "j", "k")>>,
            [m |-> 5, j |-> 7, k |-> 11]),
     Simply(<<AffineCaesar(<<Param("k", 1, 28)>>, "k", "k", "k")>>, [k |-> 5]),
     Simply(<<Chained("inner", <<"atbash">>, <<>>, Unbound),
              Over(<<"inner", "caesar">>, KeyK, To("caesar", "shift", "k"))>>, [k |-> 9]),
     Fusing(<<InnerCaesar("k"), Chained("mid", <<"inner", "atbash">>, <<>>, Unbound),
              Over(<<"affine", "mid", "atbash", "mid">>, <<Param("m", 1, 28)>> \o KeyK,
                   Dict(<<"affine">>, <<ToAffine("m", "k")>>))>>,
            "outer", [inner |-> [caesar |-> "encrypt"]], [m |-> 3, k |-> 20], {}),
     Simply(<<Over(<<"caesar", "atbash", "caesar", "identity">>, KeyK, To("caesar", "shift", "k"))>>,
            [k |-> 4]),
     Simply(<<InnerCaesar("j"), Over(<<"inner", "caesar">>, KeysJK, To("caesar", "shift", "k"))>>,
            [j |-> 4, k |-> 9]),
     Fusing(<<InnerCaesar("k"), Over(<<"atbash", "inner">>, KeyK, Unbound)>>, "outer",
            [outer |-> [inner |-> "encrypt"]], [k |-> 9], {}),
     Simply(<<Over(<<"atbash", "matrix_mix">>,
                   [n \in 1..4 |-> Param(<<"a", "b", "c", "d">>[n], 0, 28)], Unbound)>>,
            [a |-> 3, b |-> 5, c |-> 28, d |-> 2]),
     Simply(<<Over(<<"identity", "autokey_lag">>, <<Param("k", 1, 28)>>,
                   To("autokey_lag", "lag", "k"))>>, [k |-> 2]),
     Simply(<<AffineTheory("elementwise", b), TheoryChain>>, [m |-> 5, k |-> 7]) >>

UnfusedJobs ==
  << Simply(<<Over(<<"atbash", "autokey_lag">>, KeyK, To("autokey_lag", "lag", "k"))>>, [k |-> 2]),
     Simply(<<AffineCaesar(KeyK, "k", "k", "k")>>, [k |-> 5]),
     Simply(<<AffineTheory("keyed_stream", Op("Add", i, b)), TheoryChain>>, [m |-> 5, k |-> 7]),
     Simply(<<AffineTheory("elementwise", Op("Add", i, b)), TheoryChain>>, [m |-> 5, k |-> 7]),
     Simply(<<InnerCaesar("j"), Over(<<"inner">>, KeyK, To("inner", "j", "k"))>>, [k |-> 2]),
     Simply(<<Over(<<"atbash", "outer">>, <<>>, Unbound)>>, NoDirections),
     Simply(<<Over(<<"atbash", "vigenere_key">>, <<>>, Unbound)>>, NoDirections),
     Simply(<<Over(<<>>, <<>>, Unbound)>>, NoDirections),
     Simply(<<Over(<<"atbash">>, KeyK, To("caesar", "shift", "k"))>>, NoDirections),
     Simply(<<Over(<<"caesar">>, KeyK, To("caesar", "shift", "j"))>>, NoDirections),
     Simply(<<Over(<<"caesar">>, KeyK, Listed(<<>>))>>, NoDirections),
     Simply(<<[Koan1 EXCEPT !.meta.tier = "B"]>>, NoDirections),
     Simply(<<[Koan1 EXCEPT !.body = Params]>>, NoDirections),
     Simply(<<[Koan1 EXCEPT !.body = @ \o Steps(<<Return(x)>>)]>>, NoDirections),
     Simply(<<Import("os"), Koan1>>, NoDirections) >>

MCComposeJobs == FusedJobs \o UnfusedJobs
MCBenchStream == [n \in 1..29 |-> n - 1]

MCExpected == [y \in Index29 |-> <<1, 2, 4>>[(y % 3) + 1]]
=============================================================================
