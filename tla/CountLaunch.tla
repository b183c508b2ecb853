---------------------------- MODULE CountLaunch ----------------------------
(***************************************************************************)
(* Launches that score the candidates of a search by counting.  The host   *)
(* queues operations on a stream and goes on; the device does them in      *)
(* order.  A batch is decoded and counted at once, or counted once into a  *)
(* scratch that all batches share and remapped for every candidate.        *)
(* A batch is [family, way, candidates, minus]; a job is [batches, text].  *)
(***************************************************************************)
EXTENDS HistKernels, DeviceKernels

CONSTANTS
  CountJobs,       \* a sequence of jobs
  KeyCache,        \* bytes of a key kept in shared memory, 64
  TileCap,         \* production_tile_cap, 64
  SmallTileCap,    \* slot_default of S2, S5 and totient, 32
  MaxPeriod,       \* kMaxPeriod
  PairWeight,      \* the table of pairs: [Index29 \X Index29 -> Int]
  Dictionary,      \* the words of the dictionary kernel
  NoWord           \* ends a chain of words, 255

ASSUME CountAssumption ==
  {KeyCache, TileCap, SmallTileCap, MaxPeriod} \subseteq Nat \ {0}

VARIABLES
  countJob,    \* the index of the job
  turn,        \* of its batches, the one that is launched or to be launched
  hostAt,      \* "call", "plan" or "launch"
  periods,     \* the key lengths that wait for their launch
  queue,       \* operations queued on the stream
  scratch,     \* the histograms counted once
  counted,     \* of each candidate: the counts
  results,     \* of each candidate: the score
  delivered    \* of each batch: what the caller reads

countVars == <<countJob, turn, hostAt, periods, queue, scratch, counted, results, delivered>>

CountText == CountJobs[countJob].text
Batches == CountJobs[countJob].batches
Batch == Batches[turn]

-----------------------------------------------------------------------------
(***************************************************************************)
(* Which thread of which tile visits which position: packs of four, then   *)
(* the rest, each with the stride of the whole grid.                       *)
(***************************************************************************)
Pack == 4

WorkTiles(n) == LET by_work == BlocksFor(CeilDiv(n, Pack)) IN IF by_work < 1 THEN 1 ELSE by_work
CappedTiles(n, cap) == IF WorkTiles(n) < cap THEN WorkTiles(n) ELSE cap

SlotCap(family) ==
  IF family \in {"totient_prime_stream", "linear", "poly"} THEN SmallTileCap ELSE TileCap

TilesFor(family, n) == CappedTiles(n, SlotCap(family))

FirstAt(tile, thread) == tile * BlockThreads + thread
Walk(first, limit, stride) == {first + k * stride : k \in 0..limit} \cap (0..(limit - 1))

\* Faulty variant: the rest starts where the first thread's packs ended.
VisitsOverlapping(tiles, n, packed) ==
  LET stride == BlockThreads * tiles
      whole  == IF packed THEN n \div Pack ELSE 0
      ofThread(tile, thread) ==
        {Pack * i + q : i \in Walk(FirstAt(tile, thread), whole, stride), q \in 0..(Pack - 1)}
          \cup Walk(whole + FirstAt(tile, thread), n, stride) IN
    UNION {{<<tile, thread, t>> : t \in ofThread(tile, thread)} :
             <<tile, thread>> \in (0..(tiles - 1)) \X (0..(BlockThreads - 1))}

Visits(tiles, n, packed) ==
  LET stride == BlockThreads * tiles
      whole  == IF packed THEN n \div Pack ELSE 0
      ofThread(tile, thread) ==
        {Pack * i + q : i \in Walk(FirstAt(tile, thread), whole, stride), q \in 0..(Pack - 1)}
          \cup Walk(Pack * whole + FirstAt(tile, thread), n, stride) IN
    UNION {{<<tile, thread, t>> : t \in ofThread(tile, thread)} :
             <<tile, thread>> \in (0..(tiles - 1)) \X (0..(BlockThreads - 1))}

Merged(counts, added) == [b \in Index29 |-> counts[b] + added[b]]

CountedVisits(visits, symbol) ==
  [b \in Index29 |-> Cardinality({v \in visits : symbol[v] = b})]

-----------------------------------------------------------------------------
(***************************************************************************)
(* Kernels that decode and count: the symbol of the position t.            *)
(***************************************************************************)
CountedCaesar(x, c) == Shifted(IF c.encrypt THEN "encrypt" ELSE "decrypt", x, c.shift)
CountedAtbash(x) == 28 - x
CountedAtbashCaesar(x, shift) == DeviceAdd(28 - x, shift)

\* The table of a block, one entry for every symbol.
CountedAffine(x, a, b) == [y \in Index29 |-> Mul(Inv(a), DeviceSub(y, b))][x]

IsPowerOf2(n) == n \in {2^e : e \in 0..6}
CachedLen(key) == IF Len(key) < KeyCache THEN Len(key) ELSE KeyCache

\* The first bytes of the key are cached, the others are read in place.
CachedKeyAt(key, ki) == IF ki < CachedLen(key) THEN SubSeq(key, 1, CachedLen(key))[ki + 1]
                                               ELSE At(key, ki)

KeyPacked(key) == IsPowerOf2(Len(key)) /\ CachedLen(key) = Len(key)
CountedVigenere(s, key, t) == DeviceSub(At(s, t), CachedKeyAt(key, t % Len(key)))
CountedBeaufort(s, key, t) == DeviceSub(CachedKeyAt(key, t % Len(key)), At(s, t))

CountedTotient(s, shifts, t) == DeviceSub(At(s, t), At(shifts, t))

AutokeyKey(s, primer, len, t) == IF t < len THEN At(primer, t) ELSE At(s, t - len)

CountedAutokey(s, primer, t) ==
  LET view == IF t < CachedLen(primer) THEN SubSeq(primer, 1, CachedLen(primer)) ELSE primer IN
    DeviceSub(At(s, t), AutokeyKey(s, view, Len(primer), t))

\* A thread adds the shift of one stride for each position it went on.
RunningShift(first, k, base, step, stride) ==
  (((base + step * first) % 29) + k * ((step * stride) % 29)) % 29

CountedDynamic(s, c, v, tiles) ==
  LET stride == BlockThreads * tiles  first == FirstAt(v[1], v[2])  t == v[3] IN
    DeviceSub(At(s, t), RunningShift(first, (t - first) \div stride, c.base, c.step, stride))

\* The residue of the position, kept by a thread from pack to pack.
Residue(v, n, tiles) ==
  LET stride == BlockThreads * tiles
      first  == FirstAt(v[1], v[2])
      whole  == n \div Pack
      pack   == v[3] \div Pack
      start  == Pack * whole + first IN
    IF pack < whole
      THEN (((first * Pack) % 29)
              + ((pack - first) \div stride) * ((Pack * (stride % 29)) % 29) + (v[3] % Pack)) % 29
      ELSE ((start % 29) + ((v[3] - start) \div stride) * (stride % 29)) % 29

CountedKeystream(s, keys, v, tiles, minus) ==
  LET key == keys[Residue(v, Len(s), tiles)] IN
    IF minus THEN DeviceSub(At(s, v[3]), key) ELSE DeviceAdd(At(s, v[3]), key)

Packed(batch, c) ==
  \/ batch.family \in {"atbash", "atbash_caesar", "affine", "totient_prime_stream", "linear", "poly"}
  \/ batch.family = "caesar" /\ batch.way = "decode"
  \/ batch.family \in {"vigenere_key", "beaufort_key"} /\ KeyPacked(c.key)

DecodedSymbol(batch, c, s, v, tiles) ==
  LET t == v[3]  x == At(s, v[3]) IN
  CASE batch.family = "atbash"               -> CountedAtbash(x)
    [] batch.family = "caesar"               -> CountedCaesar(x, c)
    [] batch.family = "atbash_caesar"        -> CountedAtbashCaesar(x, c.shift)
    [] batch.family = "affine"               -> CountedAffine(x, c.a, c.b)
    [] batch.family = "vigenere_key"         -> CountedVigenere(s, c.key, t)
    [] batch.family = "beaufort_key"         -> CountedBeaufort(s, c.key, t)
    [] batch.family = "totient_prime_stream" -> CountedTotient(s, c.shifts, t)
    [] batch.family = "ciphertext_autokey"   -> CountedAutokey(s, c.key, t)
    [] batch.family = "dynamic_shift"        -> CountedDynamic(s, c, v, tiles)
    [] batch.family = "linear" -> CountedKeystream(s, LinearKeys(c.b0, c.b1), v, tiles, batch.minus)
    [] batch.family = "poly"   -> CountedKeystream(s, PolyKeys(c.b0, c.b1, c.b2), v, tiles, batch.minus)

DecodeHist(batch, c, s) ==
  LET tiles  == TilesFor(batch.family, Len(s))
      visits == Visits(tiles, Len(s), Packed(batch, c))
      symbol == [v \in visits |-> DecodedSymbol(batch, c, s, v, tiles)] IN
    CountedVisits(visits, symbol)

(***************************************************************************)
(* Kernels that decode and add up the pairs, with and without words: each  *)
(* eighth position is also looked up, in the chain of its first symbol.    *)
(***************************************************************************)
PairVisits(s) == Visits(CappedTiles(Len(s), TileCap), Len(s) - 1, FALSE)

PairSum(s, shift) ==
  -MapThenSumSet(LAMBDA v : PairWeight[<<DeviceSub(At(s, v[3]), shift),
                                        DeviceSub(At(s, v[3] + 1), shift)>>],
                 PairVisits(s))

\* Words are numbered from 0; a word whose number ends chains hides its chain.
WordsFrom(first) ==
  LET starting == {w \in 0..(Len(Dictionary) - 1) :
                     At(Dictionary, w) # <<>> /\ At(Dictionary, w)[1] = first} IN
    IF NoWord \in starting THEN {} ELSE starting

WordMatches(s, shift, w, t) ==
  LET word == At(Dictionary, w) IN
    /\ t + Len(word) <= Len(s)
    /\ \A i \in 1..(Len(word) - 1) : DeviceSub(At(s, t + i), shift) = At(word, i)

WordBonus == 8

DictSum(s, shift) ==
  PairSum(s, shift)
    - WordBonus * MapThenSumSet(
        LAMBDA v : Cardinality({w \in WordsFrom(DeviceSub(At(s, v[3]), shift)) :
                                  WordMatches(s, shift, w, v[3])}),
        {v \in PairVisits(s) : v[3] % 8 = 0})

-----------------------------------------------------------------------------
(***************************************************************************)
(* What a launch refuses.                                                  *)
(***************************************************************************)
ByKeyLength(family) == family \in {"vigenere_key", "beaufort_key", "ciphertext_autokey"}
SumsPairs(family) == family \in {"bigram", "ngram_dict"}

LaunchRefuses(batch, s) ==
  Len(batch.candidates) \notin 1..MaxCandidates \/ s = <<>>

NeedsLengths(batch) == ByKeyLength(batch.family) /\ batch.way = "remap"

\* Only read once the lengths are on the host.
LengthRefused(batch, len) ==
  len = 0 \/ (batch.family # "ciphertext_autokey" /\ len > MaxPeriod)

\* In the order in which the candidates have them.
UniqueLengths(batch) ==
  FoldLeft(LAMBDA seen, c : IF Len(c.key) \in Range(seen) THEN seen ELSE Append(seen, Len(c.key)),
           <<>>, batch.candidates)

(***************************************************************************)
(* The operations that a launch queues.                                    *)
(***************************************************************************)
StreamOp(kind, period) == [kind |-> kind, period |-> period, turn |-> turn]

DecodeOps == <<StreamOp("clear", 0), StreamOp("decode", 0), StreamOp("finalize", 0), StreamOp("read", 0)>>
PairOps == <<StreamOp("zero", 0), StreamOp("sum", 0), StreamOp("read", 0)>>

OnceOps(batch) ==
  CASE batch.family = "bigram" -> <<StreamOp("bigrams", 0), StreamOp("sum_remap", 0), StreamOp("read", 0)>>
    [] batch.family \in {"linear", "poly"} ->
         <<StreamOp("columns", 29), StreamOp("remap", 29), StreamOp("finalize", 0), StreamOp("read", 0)>>
    [] OTHER -> <<StreamOp("hist", 0), StreamOp("remap", 0), StreamOp("finalize", 0), StreamOp("read", 0)>>

PeriodOps(batch, period) ==
  <<StreamOp(IF batch.family = "ciphertext_autokey" THEN "lag" ELSE "columns", period),
    StreamOp("remap", period)>>

CallOps(batch) ==
  IF batch.way = "remap" THEN OnceOps(batch)
  ELSE IF SumsPairs(batch.family) THEN PairOps ELSE DecodeOps

-----------------------------------------------------------------------------
(***************************************************************************)
(* What one operation does on the device.                                  *)
(***************************************************************************)
CountedOnce(op, s) ==
  CASE op.kind = "hist"    -> [scratch EXCEPT !.hist = CipherHist(s)]
    [] op.kind = "columns" -> [scratch EXCEPT !.columns = ColumnHists(s, op.period)]
    [] op.kind = "lag"     -> [scratch EXCEPT !.lag = LagHist(s, op.period, TRUE)]
    [] op.kind = "bigrams" -> [scratch EXCEPT !.bigrams = PairCounts(s)]

RemappedRow(batch, c, s) ==
  CASE batch.family = "atbash"        -> AtbashRemap(scratch.hist)
    [] batch.family = "caesar"        -> CaesarRemap(scratch.hist, c.shift)
    [] batch.family = "atbash_caesar" -> AtbashCaesarRemap(scratch.hist, c.shift)
    [] batch.family = "affine"        -> AffineRemap(scratch.hist, c.a, c.b)
    [] batch.family = "vigenere_key"  -> VigenereRemap(scratch.columns, c.key)
    [] batch.family = "beaufort_key"  -> BeaufortRemap(scratch.columns, c.key)
    [] batch.family = "ciphertext_autokey" -> AutokeyRemap(scratch.lag, s, c.key)
    [] batch.family = "linear" -> ColumnRemap(scratch.columns, LinearKeys(c.b0, c.b1), batch.minus)
    [] batch.family = "poly"   -> ColumnRemap(scratch.columns, PolyKeys(c.b0, c.b1, c.b2), batch.minus)

\* Candidates of another key length keep their row.
OfPeriod(batch, c, period) == ByKeyLength(batch.family) => Len(c.key) = period

RunOp ==
  /\ queue # <<>>
  /\ queue' = Tail(queue)
  /\ LET op == Head(queue)  batch == Batches[op.turn]  s == CountText
         launched == DOMAIN batch.candidates
         each(buffer, value(_)) ==
           [c \in DOMAIN buffer |-> IF c \in launched THEN value(c) ELSE buffer[c]] IN
       /\ scratch' = IF op.kind \in {"hist", "columns", "lag", "bigrams"}
                       THEN CountedOnce(op, s) ELSE scratch
       /\ counted' = CASE op.kind = "clear" -> each(counted, LAMBDA c : NoCounts)
                    [] op.kind = "decode" ->
                         each(counted, LAMBDA c :
                                Merged(counted[c], DecodeHist(batch, batch.candidates[c], s)))
                    [] op.kind = "remap" ->
                         each(counted, LAMBDA c :
                                IF OfPeriod(batch, batch.candidates[c], op.period)
                                  THEN RemappedRow(batch, batch.candidates[c], s) ELSE counted[c])
                    [] OTHER -> counted
       /\ results' = CASE op.kind = "finalize" -> each(results, LAMBDA c : counted[c])
                       [] op.kind = "zero" -> each(results, LAMBDA c : 0)
                       [] op.kind = "sum" ->
                            each(results, LAMBDA c : results[c] +
                                   IF batch.family = "bigram"
                                     THEN PairSum(s, batch.candidates[c].shift)
                                     ELSE DictSum(s, batch.candidates[c].shift))
                       [] op.kind = "sum_remap" ->
                            each(results, LAMBDA c :
                                   PairScoreRotated(scratch.bigrams, PairWeight,
                                                    batch.candidates[c].shift))
                       [] OTHER -> results
       /\ delivered' = IF op.kind = "read"
                    THEN [delivered EXCEPT ![op.turn] = [c \in launched |-> results[c]]] ELSE delivered
  /\ UNCHANGED <<countJob, turn, hostAt, periods>>

-----------------------------------------------------------------------------
(***************************************************************************)
(* The host.  A launch of periodic keys downloads their lengths, and waits *)
(* for the stream to do so; then it counts and remaps once per length.     *)
(***************************************************************************)
NextBatch == turn' = turn + 1 /\ hostAt' = "call" /\ periods' = <<>>

CallRefused ==
  /\ hostAt = "call" /\ turn <= Len(Batches) /\ LaunchRefuses(Batch, CountText)
  /\ NextBatch
  /\ UNCHANGED <<countJob, queue, scratch, counted, results, delivered>>

CallLaunch ==
  /\ hostAt = "call" /\ turn <= Len(Batches) /\ ~LaunchRefuses(Batch, CountText)
  /\ IF NeedsLengths(Batch)
       THEN hostAt' = "plan" /\ UNCHANGED <<turn, periods, queue>>
       ELSE queue' = queue \o CallOps(Batch) /\ NextBatch
  /\ UNCHANGED <<countJob, scratch, counted, results, delivered>>

PlanPeriods ==
  /\ hostAt = "plan" /\ queue = <<>>
  /\ IF \E len \in Range(UniqueLengths(Batch)) : LengthRefused(Batch, len)
       THEN NextBatch
       ELSE periods' = UniqueLengths(Batch) /\ hostAt' = "launch" /\ UNCHANGED turn
  /\ UNCHANGED <<countJob, queue, scratch, counted, results, delivered>>

LaunchPeriod ==
  /\ hostAt = "launch" /\ periods # <<>>
  /\ queue' = queue \o PeriodOps(Batch, Head(periods))
  /\ periods' = Tail(periods)
  /\ UNCHANGED <<countJob, turn, hostAt, scratch, counted, results, delivered>>

LaunchFinalize ==
  /\ hostAt = "launch" /\ periods = <<>>
  /\ queue' = queue \o <<StreamOp("finalize", 0), StreamOp("read", 0)>>
  /\ NextBatch
  /\ UNCHANGED <<countJob, scratch, counted, results, delivered>>

\* An operation that cannot be queued ends the launch; those before it run.
LaunchFault ==
  /\ \/ hostAt = "call" /\ turn <= Len(Batches) /\ ~LaunchRefuses(Batch, CountText)
        /\ ~NeedsLengths(Batch)
        /\ \E k \in 0..2 : queue' = queue \o SubSeq(CallOps(Batch), 1, k)
     \/ hostAt \in {"plan", "launch"} /\ UNCHANGED queue
     \/ hostAt = "launch" /\ periods # <<>>
        /\ queue' = Append(queue, Head(PeriodOps(Batch, Head(periods))))
  /\ NextBatch
  /\ UNCHANGED <<countJob, scratch, counted, results, delivered>>

-----------------------------------------------------------------------------
NotRead == <<>>
StaleRow == [b \in Index29 |-> 7]

BeforeLaunches ==
  /\ turn = 1 /\ hostAt = "call" /\ periods = <<>> /\ queue = <<>>
  /\ scratch = [hist |-> StaleRow, columns |-> [j \in 0..0 |-> StaleRow],
                lag |-> StaleRow, bigrams |-> <<>>]
  /\ counted = [c \in 1..MaxCandidates |-> StaleRow]
  /\ results = [c \in 1..MaxCandidates |-> StaleRow]

CountIdle == countJob = 1 /\ BeforeLaunches /\ delivered = <<>>

CountInit ==
  /\ countJob \in DOMAIN CountJobs
  /\ BeforeLaunches
  /\ delivered = [n \in DOMAIN CountJobs[countJob].batches |-> NotRead]

CountNext ==
  \/ CallRefused \/ CallLaunch \/ PlanPeriods \/ LaunchPeriod \/ LaunchFinalize
  \/ LaunchFault \/ RunOp

CountSpec == CountInit /\ [][CountNext]_countVars

-----------------------------------------------------------------------------
(***************************************************************************)
(* What a candidate decodes the text to, as its kernel on the host does.   *)
(***************************************************************************)
KeyedText(s, key(_), minus) ==
  [n \in DOMAIN s |-> IF minus THEN Sub(s[n], key(n - 1)) ELSE Add(s[n], key(n - 1))]

DecodedText(batch, c, s) ==
  CASE batch.family = "atbash"        -> [n \in DOMAIN s |-> Atbash(s[n])]
    [] batch.family = "caesar"        -> KeyedText(s, LAMBDA t : c.shift, ~c.encrypt)
    [] batch.family = "atbash_caesar" -> [n \in DOMAIN s |-> Add(Atbash(s[n]), c.shift)]
    [] batch.family = "affine"        -> [n \in DOMAIN s |-> Mul(Inv(c.a), Sub(s[n], c.b))]
    [] batch.family = "vigenere_key"  -> KeyedText(s, LAMBDA t : c.key[(t % Len(c.key)) + 1], TRUE)
    [] batch.family = "beaufort_key"  ->
         [n \in DOMAIN s |-> Sub(c.key[((n - 1) % Len(c.key)) + 1], s[n])]
    [] batch.family = "totient_prime_stream" -> KeyedText(s, LAMBDA t : c.shifts[t + 1], TRUE)
    [] batch.family = "ciphertext_autokey" ->
         KeyedText(s, LAMBDA t : (c.key \o s)[t + 1], TRUE)
    [] batch.family = "dynamic_shift" -> KeyedText(s, LAMBDA t : (c.base + c.step * t) % 29, TRUE)
    [] batch.family = "linear" -> KeyedText(s, LAMBDA t : (c.b0 + c.b1 * t) % 29, batch.minus)
    [] batch.family = "poly" ->
         KeyedText(s, LAMBDA t : (c.b0 + c.b1 * t + c.b2 * t * t) % 29, batch.minus)
    [] batch.family \in {"bigram", "ngram_dict"} -> KeyedText(s, LAMBDA t : c.shift, TRUE)

WordsFound(s) ==
  {<<w, n>> \in (DOMAIN Dictionary) \X {n \in 1..(Len(s) - 1) : n % 8 = 1} :
     /\ Dictionary[w] # <<>> /\ n + Len(Dictionary[w]) - 1 <= Len(s)
     /\ SubSeq(s, n, n + Len(Dictionary[w]) - 1) = Dictionary[w]}

ScoreOf(batch, c, s) ==
  LET text == DecodedText(batch, c, s) IN
  CASE batch.family = "bigram"     -> HostPairScore(text, PairWeight, 0)
    [] batch.family = "ngram_dict" ->
         HostPairScore(text, PairWeight, 0) - WordBonus * Cardinality(WordsFound(text))
    [] OTHER -> HistOf(text, DOMAIN text)

(***************************************************************************)
(* The map of the host, which gives the counts without decoding either.    *)
(***************************************************************************)
HostCounts(batch, c, s) ==
  CASE batch.family = "atbash"        -> HostMirrored(HostStream(s))
    [] batch.family = "caesar"        -> HostRotated(HostStream(s), c.shift, c.encrypt)
    [] batch.family = "atbash_caesar" -> HostAtbashCaesar(HostStream(s), c.shift)
    [] batch.family = "affine"        -> HostAffine(HostStream(s), c.a, c.b)
    [] batch.family = "vigenere_key"  -> HostVigenere(s, c.key)
    [] batch.family = "beaufort_key"  -> HostBeaufort(s, c.key)
    [] batch.family = "ciphertext_autokey" -> HostAutokey(s, c.key)
    [] batch.family = "linear"        -> HostLinear(s, c.b0, c.b1, batch.minus)
    [] batch.family = "poly"          -> HostPoly(s, c.b0, c.b1, c.b2, batch.minus)
    [] batch.family = "dynamic_shift" -> HostLinear(s, c.base, c.step, TRUE)
    [] batch.family = "bigram"        -> HostPairScore(s, PairWeight, c.shift)
    [] OTHER -> ScoreOf(batch, c, s)

\* The ring of S4 has no launch of its own here; its counts are compared directly.
RingAsMapped ==
  turn = 1 /\ queue = <<>> =>
    \A lag \in 0..4, minus \in BOOLEAN :
      RingRemap(CountText, lag, minus) = HostRing(CountText, lag, minus)

(***************************************************************************)
(* What a caller reads for a candidate is the score of what the candidate  *)
(* decodes to, whatever was launched before it and with whatever failures. *)
(***************************************************************************)
LaunchesAsDecoded ==
  /\ RingAsMapped
  /\ \A n \in DOMAIN delivered : delivered[n] # NotRead =>
      \A c \in DOMAIN delivered[n] :
        LET batch == Batches[n]  candidate == batch.candidates[c] IN
          delivered[n][c] = ScoreOf(batch, candidate, CountText)
            /\ delivered[n][c] = HostCounts(batch, candidate, CountText)
=============================================================================
