-------------------------- MODULE CandidateExport --------------------------
(***************************************************************************)
(* What a search reports: the k best candidates of a family.  The host     *)
(* makes every candidate, leaves out the excluded ones, adds the seeds of  *)
(* the prior and ranks them all.  The device scores the candidates of some *)
(* families as lanes of a kernel, and the host makes only the text of the  *)
(* best lanes; a theory leaves out first and adds its seeds last.          *)
(***************************************************************************)
EXTENDS CandidateGrid, DeviceTwins, CountLaunch

(***************************************************************************)
(* A request is [way, family, score, k, max, direction, backend, grid,     *)
(* seeds, exclusions, text, extended, theories].  way is "job", "battery"  *)
(* or "sweep"; a seed is [hid, method, skips]; exclusions are methods.     *)
(***************************************************************************)
CONSTANTS
  ExportJobs,      \* a sequence of requests
  Expected,        \* the expected frequencies, as weights: [Index29 -> Nat \ {0}]
  Scale            \* a multiple of all the weights

ASSUME ExportAssumption ==
  /\ Expected \in [Index29 -> Nat \ {0}]
  /\ \A b \in Index29 : Scale % Expected[b] = 0

VARIABLES
  exportJob,       \* index in ExportJobs
  exportStep,      \* "asked", "made", "expanded", "filtered", "launched",
                   \* "kept", "done", "refused" or "failed"
  pool,            \* the candidates to rank
  laneScores,      \* the scores that came back from the device, lane by lane
  mergedSeeds,     \* how many seeds of the prior were looked at
  rows,            \* what is reported: candidates with their score and source
  ranOn            \* the backend reported

exportVars == <<exportJob, exportStep, pool, laneScores, mergedSeeds, rows, ranOn>>

Request == ExportJobs[exportJob]
CipherText == Request.text

-----------------------------------------------------------------------------
(***************************************************************************)
(* The scores, times what is the same for all texts of one length.  Of     *)
(* chi2 and the repeats the least is the best, of the others the most.     *)
(***************************************************************************)
TotalExpected == MapThenSumSet(LAMBDA b : Expected[b], Index29)

Chi2(counts, n) ==
  MapThenSumSet(
    LAMBDA b : LET off == TotalExpected * counts[b] - n * Expected[b] IN
                 off * off * (Scale \div Expected[b]),
    Index29)

Coincidences(counts) == MapThenSumSet(LAMBDA b : counts[b] * (counts[b] - 1), Index29)
Repeats(s) == Cardinality({n \in 1..(Len(s) - 1) : s[n] = s[n + 1]})

\* exact_match and hamming have no reference text in a search.
Unscorable(score, s) ==
  \/ score \in {"exact_match", "hamming_index"}
  \/ s = <<>>
  \/ score # "chi2_english_gp_v0" /\ Len(s) < 2

ScoreText(score, s) ==
  CASE score = "chi2_english_gp_v0" -> Chi2(CipherHist(s), Len(s))
    [] score = "ic_mod29"           -> Coincidences(CipherHist(s))
    [] score = "self_repeat_rate"   -> Repeats(s)
    [] score = "log_bigram_gp_v0"   -> HostPairScore(s, PairWeight, 0)

LeastFirst(score) == score \in {"chi2_english_gp_v0", "self_repeat_rate"}

-----------------------------------------------------------------------------
(***************************************************************************)
(* The order of a ranking, and its k best.  A hit is [id, score, source].  *)
(***************************************************************************)
Better(score, l, r) ==
  \/ l.score # r.score /\ IF LeastFirst(score) THEN l.score < r.score ELSE l.score > r.score
  \/ l.score = r.score /\ l.id # r.id /\ IdLess(l.id, r.id)
  \/ l.score = r.score /\ l.id = r.id /\ l.source < r.source

BestOf(score, k, hits) ==
  SubSeq(SortSeq(hits, LAMBDA l, r : Better(score, l, r)), 1,
         IF Len(hits) < k THEN Len(hits) ELSE k)

Row(candidate, score, source) ==
  [id |-> candidate.id, method |-> candidate.method, dir |-> candidate.dir,
   skips |-> candidate.skips, text |-> candidate.text, score |-> score, source |-> source]

Ranked(score, k, candidates) ==
  BestOf(score, k, [n \in DOMAIN candidates |->
                      Row(candidates[n], ScoreText(score, candidates[n].text), n - 1)])

-----------------------------------------------------------------------------
(***************************************************************************)
(* The families of a job, and the way that the scheduler takes.            *)
(***************************************************************************)
V0Families == {"caesar", "atbash", "atbash_caesar", "affine", "vigenere", "compose"}
HostFamilies == {"hill_2", "hill_3"} \cup Feedback
ExtendedFamilies == {"beaufort", "totient"} \cup HostFamilies
FusedFamilies == V0Families \cup {"beaufort", "totient", "theory"}

FamilyAllowed(request) ==
  \/ request.family \in V0Families
  \/ request.family \in ExtendedFamilies /\ request.extended
  \/ request.family = "theory" /\ request.theories

JobRefused(request) ==
  \/ ~FamilyAllowed(request)
  \/ request.k = 0 \/ request.max < request.k
  \/ request.family = "theory" /\ request.grid.list = <<>>

HasPrior(request) == request.seeds # <<>> \/ request.exclusions # <<>>

OnHost(request) ==
  \/ request.backend = "cpu" \/ request.family \in HostFamilies
  \/ request.score # "chi2_english_gp_v0"
  \/ request.direction = "decrypt" /\ request.family \notin FusedFamilies
  \/ request.direction = "decrypt" /\ HasPrior(request) /\ request.family # "theory"

Route(request) ==
  CASE request.way = "battery"          -> "host"
    [] request.way = "sweep"            -> "fused"
    [] OnHost(request)                  -> "host"
    [] request.direction # "decrypt"    -> "none"
    [] request.family = "theory"        -> "theory"
    [] OTHER                            -> "fused"

-----------------------------------------------------------------------------
(***************************************************************************)
(* The prior.  A seed is applied in the direction of the job, with its own *)
(* interrupts.                                                             *)
(***************************************************************************)
SameParams(m, o) == Signature(m) = Signature(o)

Excluded(request, method) ==
  \E n \in DOMAIN request.exclusions : SameParams(request.exclusions[n], method)

Known(candidates, method) ==
  \E n \in DOMAIN candidates : SameParams(candidates[n].method, method)

SeedCandidate(request, seed) ==
  Candidate(Offer(Id("prior-seed", <<Colon, seed.hid>>), seed.method), request.direction,
            seed.skips, request.text)

\* The candidates of the blind crack, from all the small families.
Battery == IdentityGrid \o AtbashGrid \o CaesarGrid \o AtbashCaesarGrid \o AffineGrid

-----------------------------------------------------------------------------
(***************************************************************************)
(* The lanes of the device.  The keys of all lanes lie in one arena, their *)
(* shifts are parts of one stream from the first prime on.                 *)
(***************************************************************************)
DeviceFamily(family) ==
  CASE family = "vigenere" -> "vigenere_key"
    [] family = "beaufort" -> "beaufort_key"
    [] family = "totient"  -> "totient_prime_stream"
    [] family = "compose"  -> "atbash_caesar"
    [] OTHER               -> family

DeviceGrid(family, grid) ==
  CASE family = "vigenere"                 -> VigenereGrid(BoundedKeys(BoundOr(DefaultKeys, grid)))
    [] family = "beaufort"                 -> BeaufortGrid(BoundedKeys(BoundOr(DefaultKeys, grid)))
    [] family = "compose"                  -> AtbashCaesarGrid
    [] OTHER                               -> GridOf(family, grid)

KeysOfLanes(offers) == PackedKeys([n \in DOMAIN offers |-> offers[n].method.params.key])

ShiftStream(offers, n) ==
  LET starts == {offers[l].method.params.lag : l \in DOMAIN offers} IN
    TotientShifts(0, Max(starts) + n)

OfferParams(offer) == offer.method.params

CaesarParam(offers, l) == [shift |-> OfferParams(offers[l]).key[1], encrypt |-> FALSE]
AtbashParam == [shift |-> 0]
AtbashCaesarParam(offers, l) == [shift |-> KoanShift(OfferParams(offers[l]))]
AffineParam(offers, l) == [a |-> OfferParams(offers[l]).key[1], b |-> OfferParams(offers[l]).key[2]]
VigenereParam(offers, l) == [key |-> ArenaKey(KeysOfLanes(offers), l)]
BeaufortParam(offers, l) == [key |-> ArenaKey(KeysOfLanes(offers), l)]

TotientParam(offers, l, n) ==
  LET start == OfferParams(offers[l]).lag IN
    [shifts |-> SubSeq(ShiftStream(offers, n), start + 1, start + n)]

LaneParam(family, offers, l, n) ==
  CASE family = "caesar"   -> CaesarParam(offers, l)
    [] family = "atbash"   -> AtbashParam
    [] family \in {"atbash_caesar", "compose"} -> AtbashCaesarParam(offers, l)
    [] family = "affine"   -> AffineParam(offers, l)
    [] family = "vigenere" -> VigenereParam(offers, l)
    [] family = "beaufort" -> BeaufortParam(offers, l)
    [] family = "totient"  -> TotientParam(offers, l, n)

LaneParams(family, offers, n) ==
  [l \in DOMAIN offers |-> LaneParam(family, offers, l, n)]

LaneBatch(family, params) ==
  [family |-> DeviceFamily(family), way |-> "decode", candidates |-> params, minus |-> TRUE]

BatchScores(batch, text) ==
  [l \in DOMAIN batch.candidates |->
     Chi2(DecodeHist(batch, batch.candidates[l], text), Len(text))]

FusedScores(family, grid, text) ==
  BatchScores(LaneBatch(family, LaneParams(family, DeviceGrid(family, grid), Len(text))), text)

(***************************************************************************)
(* The candidate that a lane was, from its number and the list that the    *)
(* lanes were made from.                                                   *)
(***************************************************************************)
CaesarAt(index) == Offer(Id("caesar", Decimal(index)), Stream("caesar", <<index>>, 0))
AtbashAt(index) == AtbashGrid[index + 1]

AtbashCaesarAt(index) ==
  Offer(Id("atbash_caesar", Decimal(index)), Stage("compose", KoanStages(index)))

\* Faulty variant: a counts from 0.
AffineAtZero(index) == AffineOffer(index \div 29, index % 29)

AffineAt(index) == AffineOffer(index \div 29 + 1, index % 29)

VigenereAt(keys, index) == VigenereGrid(keys)[index + 1]
BeaufortAt(keys, index) == BeaufortGrid(keys)[index + 1]
TotientAt(starts, index) == TotientGrid(starts)[index + 1]

LaneOffer(family, grid, index) ==
  CASE family = "caesar"   -> CaesarAt(index)
    [] family = "atbash"   -> AtbashAt(index)
    [] family \in {"atbash_caesar", "compose"} -> AtbashCaesarAt(index)
    [] family = "affine"   -> AffineAt(index)
    [] family = "vigenere" -> VigenereAt(BoundedKeys(BoundOr(DefaultKeys, grid)), index)
    [] family = "beaufort" -> BeaufortAt(BoundedKeys(BoundOr(DefaultKeys, grid)), index)
    [] family = "totient"  -> TotientAt(StartsOf(grid), index)

(***************************************************************************)
(* Recipes run on the device one by one, without the interrupts of their   *)
(* stages, and are scored on the host.                                     *)
(***************************************************************************)
Unskipped(stages) == [n \in DOMAIN stages |-> [stages[n] EXCEPT !.own = FALSE, !.skips = {}]]

DeviceRunsRecipe(stages) == RecipeParsed(stages) /\ \A n \in DOMAIN stages : Wired(stages[n])

DeviceRecipe(offer, text) ==
  [id |-> offer.id, method |-> offer.method, dir |-> "decrypt", skips |-> {},
   text |-> IF DeviceRunsRecipe(offer.method.params)
              THEN RecipeText(Unskipped(offer.method.params), "decrypt", {}, text)
              ELSE <<Failed>>]

DeviceRecipes(request) ==
  [n \in DOMAIN RecipesOf(request.grid) |->
     DeviceRecipe(RecipeOffer(n, RecipesOf(request.grid)[n]), request.text)]

ByDriver(request) == request.family = "compose" /\ ~IsKoanGrid(RecipesOf(request.grid))

\* Lists of keys are not looked at.
DeviceGridRefused(request) ==
  IF request.family \in {"vigenere", "beaufort"}
    THEN request.grid.given = "bound" /\ request.grid.bound < 1
    ELSE GridRefused(request.family, request.grid)

-----------------------------------------------------------------------------
(***************************************************************************)
(* The lanes of a theory.  One whose step fails has an infinite score;     *)
(* whether it fails must not depend on the symbol here, as FusedHist has   *)
(* the kernels that look at all of the symbols.                            *)
(***************************************************************************)
InfiniteScore == 2147483647

TheoryLane(candidate) ==
  IF Undecoded(candidate) THEN InfiniteScore ELSE ScoreText("chi2_english_gp_v0", candidate.text)

\* Faulty variant: the exclusions are not looked at.
KeptValuesAll(request) == request.grid.list

\* The offers of a theory are numbered in the filtered list.
KeptValues(request) ==
  LET kept == SelectSeq(TheoryGrid(request.grid.uri, request.grid.steps, request.grid.list),
                        LAMBDA offer : ~Excluded(request, offer.method)) IN
    [n \in DOMAIN kept |-> kept[n].method.params.values]

DeviceTheory(request) ==
  TheoryGrid(request.grid.uri, request.grid.steps, KeptValues(request))

-----------------------------------------------------------------------------
ExportInit ==
  /\ exportJob \in DOMAIN ExportJobs
  /\ exportStep = "asked" /\ pool = <<>> /\ laneScores = <<>>
  /\ mergedSeeds = 0 /\ rows = <<>> /\ ranOn = "none"

ExportIdle ==
  /\ exportJob = 1 /\ exportStep = "asked" /\ pool = <<>> /\ laneScores = <<>>
  /\ mergedSeeds = 0 /\ rows = <<>> /\ ranOn = "none"

RefuseExport ==
  /\ exportStep' = "refused"
  /\ UNCHANGED <<exportJob, pool, laneScores, mergedSeeds, rows, ranOn>>

MakeJob ==
  /\ exportStep = "asked"
  /\ IF Request.way = "job" /\ (JobRefused(Request) \/ Route(Request) = "none") THEN RefuseExport
     ELSE /\ exportStep' = "made"
          /\ UNCHANGED <<exportJob, pool, laneScores, mergedSeeds, rows, ranOn>>

-----------------------------------------------------------------------------
(***************************************************************************)
(* The host's way.                                                         *)
(***************************************************************************)
HostOffers(request) ==
  IF request.way = "battery" THEN Battery ELSE GridOf(request.family, request.grid)

HostMade(request) == CandidatesOf(HostOffers(request), request.direction, request.text)

HostRefuses(request, made) ==
  \/ request.text = <<>>
  \/ request.way = "job" /\ GridRefused(request.family, request.grid)
  \/ \E n \in DOMAIN made : Undecoded(made[n])

Expand ==
  /\ exportStep = "made" /\ Route(Request) = "host"
  /\ \E made \in {HostMade(Request)} :
       IF HostRefuses(Request, made) THEN RefuseExport
       ELSE /\ pool' = made /\ exportStep' = "expanded"
            /\ UNCHANGED <<exportJob, laneScores, mergedSeeds, rows, ranOn>>

Exclude ==
  /\ exportStep = "expanded" /\ exportStep' = "filtered"
  /\ pool' = SelectSeq(pool, LAMBDA c : ~Excluded(Request, c.method))
  /\ UNCHANGED <<exportJob, laneScores, mergedSeeds, rows, ranOn>>

NextSeed == Request.seeds[mergedSeeds + 1]

MergeSeed ==
  /\ exportStep = "filtered" /\ mergedSeeds < Len(Request.seeds)
  /\ \E seed \in {SeedCandidate(Request, NextSeed)} :
       IF Undecoded(seed) THEN RefuseExport
       ELSE /\ pool' = IF Known(pool, seed.method) THEN pool ELSE Append(pool, seed)
            /\ mergedSeeds' = mergedSeeds + 1
            /\ UNCHANGED <<exportJob, exportStep, laneScores, rows, ranOn>>

RankPool ==
  /\ exportStep = "filtered" /\ mergedSeeds = Len(Request.seeds)
  /\ IF \/ pool = <<>> \/ Len(pool) > Request.max
        \/ \E n \in DOMAIN pool : Unscorable(Request.score, pool[n].text)
       THEN RefuseExport
     ELSE /\ rows' = Ranked(Request.score, Request.k, pool)
          /\ ranOn' = "cpu" /\ exportStep' = "done"
          /\ UNCHANGED <<exportJob, pool, laneScores, mergedSeeds>>

-----------------------------------------------------------------------------
(***************************************************************************)
(* The device's way: all lanes are launched, waited for and read at once.  *)
(***************************************************************************)
RecipesDriven(request) == IF ByDriver(request) THEN DeviceRecipes(request) ELSE <<>>

FusedRefuses(request, made) ==
  \/ request.text = <<>> \/ DeviceGridRefused(request)
  \/ \E n \in DOMAIN made : Undecoded(made[n])

FusedLaneScores(request, made) ==
  IF ByDriver(request) THEN [n \in DOMAIN made |-> ScoreText(request.score, made[n].text)]
  ELSE FusedScores(request.family, request.grid, request.text)

FusedLaunch ==
  /\ exportStep = "made" /\ Route(Request) = "fused"
  /\ \E made \in {RecipesDriven(Request)} :
       IF FusedRefuses(Request, made) THEN RefuseExport
       ELSE /\ pool' = made /\ laneScores' = FusedLaneScores(Request, made)
            /\ exportStep' = "launched"
            /\ UNCHANGED <<exportJob, mergedSeeds, rows, ranOn>>

LaneHits(offers) ==
  [n \in DOMAIN laneScores |->
     [id |-> offers[n].id, score |-> laneScores[n], source |-> n - 1]]

LaneOffers(request) ==
  IF ByDriver(request) THEN RecipeGrid(RecipesOf(request.grid))
  ELSE [n \in DOMAIN laneScores |-> LaneOffer(request.family, request.grid, n - 1)]

SelectLanes ==
  /\ exportStep = "launched" /\ Route(Request) = "fused" /\ Request.way = "job"
  /\ \E offers \in {LaneOffers(Request)} :
       \E best \in {BestOf(Request.score, Request.k, LaneHits(offers))} :
         rows' = [n \in DOMAIN best |->
                    Row(IF ByDriver(Request) THEN pool[best[n].source + 1]
                        ELSE Candidate(offers[best[n].source + 1], "decrypt", {}, CipherText),
                        best[n].score, best[n].source)]
  /\ ranOn' = "cuda" /\ exportStep' = "done"
  /\ UNCHANGED <<exportJob, pool, laneScores, mergedSeeds>>

\* search_run only keeps the scores.
SweepDone ==
  /\ exportStep = "launched" /\ Request.way = "sweep"
  /\ ranOn' = "cuda" /\ exportStep' = "done"
  /\ UNCHANGED <<exportJob, pool, laneScores, mergedSeeds, rows>>

-----------------------------------------------------------------------------
(***************************************************************************)
(* A theory on the device: excluded parameters have no lane, the seeds are *)
(* compared with the rows that were kept and ranked with them.             *)
(***************************************************************************)
TheoryLaunchLanes ==
  /\ exportStep = "made" /\ Route(Request) = "theory"
  /\ \E made \in {CandidatesOf(DeviceTheory(Request), "decrypt", CipherText)} :
       IF (made = <<>> /\ Request.seeds = <<>>) \/ (made # <<>> /\ CipherText = <<>>)
         THEN RefuseExport
       ELSE /\ laneScores' = [n \in DOMAIN made |-> TheoryLane(made[n])]
            /\ exportStep' = "launched"
            /\ UNCHANGED <<exportJob, pool, mergedSeeds, rows, ranOn>>

\* The texts of the best lanes are made, which fails where the step does.
KeepLanes ==
  /\ exportStep = "launched" /\ Route(Request) = "theory"
  /\ \E offers \in {DeviceTheory(Request)} :
     \E best \in {BestOf(Request.score, Request.k, LaneHits(offers))} :
     \E kept \in {CandidatesOf([n \in DOMAIN best |-> offers[best[n].source + 1]],
                              "decrypt", CipherText)} :
       IF \E n \in DOMAIN kept : Undecoded(kept[n]) THEN RefuseExport
       ELSE /\ rows' = [n \in DOMAIN best |-> Row(kept[n], best[n].score, best[n].source)]
            /\ ranOn' = IF offers = <<>> THEN "cpu" ELSE "cuda"
            /\ exportStep' = "kept"
            /\ UNCHANGED <<exportJob, pool, laneScores, mergedSeeds>>

MergeTheorySeed ==
  /\ exportStep = "kept" /\ mergedSeeds < Len(Request.seeds)
  /\ \E seed \in {SeedCandidate(Request, NextSeed)} :
       IF \/ Undecoded(seed)
          \/ ~Known(rows, seed.method) /\ Unscorable(Request.score, CipherText)
         THEN RefuseExport
       ELSE /\ rows' = IF Known(rows, seed.method) THEN rows
                       ELSE Append(rows, Row(seed, ScoreText(Request.score, seed.text), Len(rows)))
            /\ mergedSeeds' = mergedSeeds + 1
            /\ UNCHANGED <<exportJob, exportStep, pool, laneScores, ranOn>>

\* A stable sort by score and identifier; the sources stay.
RankTheory ==
  /\ exportStep = "kept" /\ mergedSeeds = Len(Request.seeds)
  /\ \E best \in {BestOf(Request.score, Request.k,
                        [n \in DOMAIN rows |->
                           [id |-> rows[n].id, score |-> rows[n].score, source |-> n]])} :
       rows' = [n \in DOMAIN best |-> rows[best[n].source]]
  /\ exportStep' = "done"
  /\ UNCHANGED <<exportJob, pool, laneScores, mergedSeeds, ranOn>>

(***************************************************************************)
(* An allocation, a launch, the wait or a copy may fail; nothing is        *)
(* reported then.                                                          *)
(***************************************************************************)
ExportFault ==
  /\ exportStep = "launched" /\ laneScores # <<>>
  /\ exportStep' = "failed" /\ pool' = <<>> /\ laneScores' = <<>>
  /\ UNCHANGED <<exportJob, mergedSeeds, rows, ranOn>>

ExportNext ==
  \/ MakeJob \/ Expand \/ Exclude \/ MergeSeed \/ RankPool
  \/ FusedLaunch \/ SelectLanes \/ SweepDone
  \/ TheoryLaunchLanes \/ KeepLanes \/ MergeTheorySeed \/ RankTheory \/ ExportFault

ExportSpec == ExportInit /\ [][ExportNext]_exportVars

-----------------------------------------------------------------------------
(***************************************************************************)
(* The candidates that a route tries.  On the device these are the lanes,  *)
(* for which lists of keys and a stage's own interrupts are not looked at, *)
(* and a theory adds the seeds after it has kept the k best.               *)
(***************************************************************************)
SeedCandidates(request) ==
  [n \in DOMAIN request.seeds |-> SeedCandidate(request, request.seeds[n])]

WithSeeds(candidates, seeds) ==
  FoldLeft(LAMBDA known, seed : IF Known(known, seed.method) THEN known ELSE Append(known, seed),
           candidates, seeds)

Included(request, offers) ==
  SelectSeq(offers, LAMBDA offer : ~Excluded(request, offer.method))

TriedOffers(request) ==
  CASE request.way = "sweep"     -> GridOf(request.family, request.grid)
    [] Route(request) = "host"   -> Included(request, HostOffers(request))
    [] Route(request) = "fused"  -> DeviceGrid(request.family, request.grid)
    [] Route(request) = "theory" -> DeviceTheory(request)

FirstTried(request) ==
  IF Route(request) = "fused" /\ ByDriver(request) THEN DeviceRecipes(request)
  ELSE CandidatesOf(TriedOffers(request), request.direction, request.text)

TheoryKept(request, made) ==
  Ranked(request.score, request.k, SelectSeq(made, LAMBDA c : ~Undecoded(c)))

Tried(request, made) ==
  IF Route(request) = "fused" THEN made
  ELSE WithSeeds(IF Route(request) = "theory" THEN TheoryKept(request, made) ELSE made,
                 SeedCandidates(request))

\* But for its identifier; the source is the place in a list of its own.
SameButId(l, r) ==
  /\ l.score = r.score /\ l.text = r.text
  /\ l.method = r.method /\ l.dir = r.dir /\ l.skips = r.skips

SameRow(l, r) == l.id = r.id /\ SameButId(l, r)

BestOfHits(request, hits) ==
  /\ Len(rows) = (IF Len(hits) < request.k THEN Len(hits) ELSE request.k)
  /\ \A n \in DOMAIN rows :
       \E m \in DOMAIN hits :
         /\ SameRow(rows[n], hits[m])
         /\ Cardinality({o \in DOMAIN hits : Better(request.score, hits[o], hits[m])}) = n - 1

ScoredHits(score, candidates) ==
  [n \in DOMAIN candidates |-> Row(candidates[n], ScoreText(score, candidates[n].text), n)]

\* cpu_family_scores, which the sweep compares with
FamilyScores(score, made) == [n \in DOMAIN made |-> ScoreText(score, made[n].text)]

AsRanked(request) ==
  \E made \in {FirstTried(request)} :
    IF request.way = "sweep" THEN laneScores = FamilyScores(request.score, made)
    ELSE \E hits \in {ScoredHits(request.score, Tried(request, made))} : BestOfHits(request, hits)

(***************************************************************************)
(* The report is that of the k best of the candidates that the route       *)
(* tried, each with the text and the score that its own parameters give on *)
(* the host, whether the host or the lanes of the device ranked them; and  *)
(* the lanes of a sweep have the scores that the host gives its family.    *)
(* Whether the host would try the same ones is RowsAsOnHost's question.    *)
(***************************************************************************)
RowsAsRanked == exportStep = "done" => AsRanked(Request)

-----------------------------------------------------------------------------
(***************************************************************************)
(* What the host would report for a request that was sent to the device.   *)
(***************************************************************************)
HostPool(request, made, seeds) ==
  WithSeeds(SelectSeq(made, LAMBDA c : ~Excluded(request, c.method)), seeds)

HostAnswers(request, made, seeds, tried) ==
  /\ request.way = "job" /\ ~HostRefuses(request, made)
  /\ \A n \in DOMAIN seeds : ~Undecoded(seeds[n])
  /\ Len(tried) \in 1..request.max
  /\ \A n \in DOMAIN tried : ~Unscorable(request.score, tried[n].text)

(***************************************************************************)
(* Where the device tries other candidates than the host: a list of keys,  *)
(* recipes whose stages have interrupts of their own, and a seed whose     *)
(* parameters were scored but not kept, which is then added once more.     *)
(***************************************************************************)
KeysUnseen(request) ==
  /\ Route(request) = "fused" /\ request.family \in {"vigenere", "beaufort"}
  /\ request.grid.given = "keys"

InterruptsUnseen(request) ==
  /\ Route(request) = "fused" /\ ByDriver(request)
  /\ \E n \in DOMAIN RecipesOf(request.grid) :
       \E m \in DOMAIN RecipesOf(request.grid)[n] : RecipesOf(request.grid)[n][m].own

SeedRepeated(request) ==
  /\ Route(request) = "theory"
  /\ \E offers \in {DeviceTheory(request)} :
     \E kept \in {TheoryKept(request, CandidatesOf(offers, "decrypt", request.text))} :
     \E n \in DOMAIN request.seeds :
       Known(offers, request.seeds[n].method) /\ ~Known(kept, request.seeds[n].method)

\* The host numbers the values of a theory before it leaves any out.
Renumbered(request) ==
  Route(request) = "theory" /\ Len(KeptValues(request)) < Len(request.grid.list)

AsOnHost(request, host) ==
  /\ Len(rows) = (IF Len(host) < request.k THEN Len(host) ELSE request.k)
  /\ \A n \in DOMAIN rows :
       IF Renumbered(request)
         THEN /\ rows[n].score = host[n].score
              /\ \E m \in DOMAIN host : SameButId(rows[n], host[m])
         ELSE SameRow(rows[n], host[n])

ReportedAsOnHost(request) ==
  \E made \in {HostMade(request)} : \E seeds \in {SeedCandidates(request)} :
  \E tried \in {HostPool(request, made, seeds)} :
    \/ ~HostAnswers(request, made, seeds, tried)
    \/ KeysUnseen(request) \/ InterruptsUnseen(request) \/ SeedRepeated(request)
    \/ AsOnHost(request, Ranked(request.score, request.max, tried))

(***************************************************************************)
(* A job that the host would answer has the same rows from the device: the *)
(* same candidates, identifiers, texts and scores in the same order.  Not  *)
(* said of the three kinds of job above, where the two differ; and of a    *)
(* theory with exclusions the scores and the candidates are the same, but  *)
(* not the identifiers, so that candidates of one score may change places. *)
(***************************************************************************)
RowsAsOnHost ==
  exportStep = "done" /\ Route(Request) # "host" => ReportedAsOnHost(Request)

IdsOf(ranking) == [n \in DOMAIN ranking |-> ranking[n].id]

IdsAsOnHost(request) ==
  \E made \in {HostMade(request)} : \E seeds \in {SeedCandidates(request)} :
  \E tried \in {HostPool(request, made, seeds)} :
    \/ ~HostAnswers(request, made, seeds, tried)
    \/ IdsOf(rows) = IdsOf(Ranked(request.score, request.k, tried))

(***************************************************************************)
(* As docs/spec/search-loop.md:395 has it, of every job that both answer:  *)
(* the ranked identifiers are those that the host gives.                   *)
(***************************************************************************)
RankedIdsMatch == exportStep = "done" => IdsAsOnHost(Request)
=============================================================================
