---------------------------- MODULE HistKernels ----------------------------
(***************************************************************************)
(* The device kernels that count what a cipher text decodes to without     *)
(* decoding it: one histogram of the text, of its columns or of its lags   *)
(* is taken once, and every candidate reads its own counts out of it by a  *)
(* remap of the bins.                                                      *)
(***************************************************************************)
EXTENDS Z29, FiniteSetsExt, Sequences

HistOf(s, positions) == [b \in Index29 |-> Cardinality({n \in positions : s[n] = b})]

\* CipherHistOnce
CipherHist(s) == HistOf(s, DOMAIN s)

\* ColumnHistOnce: column j holds the positions j, j + period, ... from 0.
ColumnHists(s, period) ==
  [j \in 0..(period - 1) |-> HistOf(s, {n \in DOMAIN s : (n - 1) % period = j})]

\* LagDiffHistOnce: every symbol from the lag on, with the one a lag before it.
LagHist(s, lag, minus) ==
  LET tail == (lag + 1)..Len(s) IN
    HistOf([n \in tail |-> IF minus THEN Sub(s[n], s[n - lag]) ELSE Add(s[n], s[n - lag])], tail)

NoCounts == [b \in Index29 |-> 0]
Prefix(s, n) == 1..(IF n < Len(s) THEN n ELSE Len(s))

-----------------------------------------------------------------------------
(***************************************************************************)
(* Remaps of one histogram: counts[b] is read from the bin of the symbol   *)
(* that decodes to b.                                                      *)
(***************************************************************************)
CaesarRemap(h, shift) == [b \in Index29 |-> h[(b + shift) % 29]]
AtbashRemap(h) == [b \in Index29 |-> h[28 - b]]
AtbashCaesarRemap(h, shift) == [b \in Index29 |-> h[(28 + shift + 29 - b) % 29]]

\* Each bin is written where its symbol goes; a is not zero.
AffineRemap(h, a, b) ==
  [y \in Index29 |-> h[CHOOSE x \in Index29 : Mul(Inv(a), Sub(x, b)) = y]]

\* Any table, also one that is not a permutation: the bins add up.
LutRemap(h, lut) ==
  [y \in Index29 |-> MapThenSumSet(LAMBDA x : h[x], {x \in Index29 : lut[x] = y})]

(***************************************************************************)
(* Remaps of columns: the key symbol of column j is keys[j].  What the     *)
(* columns count is added up, one after the other.                         *)
(***************************************************************************)
Summed(counts, columns) ==
  LET sum[j \in 0..columns] == IF j = 0 THEN 0 ELSE sum[j - 1] + counts[j - 1] IN sum[columns]

\* Faulty variant: the source bin of an added key is that of a subtracted one.
ColumnRemapSubtracted(cols, keys, minus) ==
  [b \in Index29 |->
     Summed([j \in DOMAIN cols |-> cols[j][(b + keys[j]) % 29]], Cardinality(DOMAIN cols))]

ColumnRemap(cols, keys, minus) ==
  [b \in Index29 |->
     Summed([j \in DOMAIN cols |->
               cols[j][(IF minus THEN b + keys[j] ELSE b + 29 - keys[j]) % 29]],
            Cardinality(DOMAIN cols))]

\* A key is a sequence; its first symbol is that of column 0.
VigenereRemap(cols, key) == ColumnRemap(cols, [j \in DOMAIN cols |-> key[j + 1]], TRUE)

BeaufortRemap(cols, key) ==
  [b \in Index29 |->
     Summed([j \in DOMAIN cols |-> cols[j][(key[j + 1] + 29 - b) % 29]],
            Cardinality(DOMAIN cols))]

LinearKeys(b0, b1) == [j \in Index29 |-> Add(b0, Mul(b1, j))]
PolyKeys(b0, b1, b2) == [j \in Index29 |-> Add(b0, Add(Mul(b1, j), Mul(b2, Mul(j, j))))]

(***************************************************************************)
(* Ciphertext autokey: the primer decodes the symbols before the lag.      *)
(***************************************************************************)
AutokeyRemap(lagged, s, primer) ==
  LET prefix == Prefix(s, Len(primer)) IN
    [b \in Index29 |-> lagged[b] + HistOf([n \in prefix |-> Sub(s[n], primer[n])], prefix)[b]]

(***************************************************************************)
(* S4: the symbols before the lag have the key 0 and count as they are.    *)
(***************************************************************************)
RingRemap(s, lag, minus) ==
  LET lagged == IF lag = 0 THEN NoCounts ELSE LagHist(s, lag, minus)
      prefix == HistOf(s, IF lag = 0 THEN DOMAIN s ELSE Prefix(s, lag)) IN
    [b \in Index29 |-> lagged[b] + prefix[b]]

-----------------------------------------------------------------------------
(***************************************************************************)
(* HistAlphabetMap, the same on the host, which refuses what is out of     *)
(* range.  Only here does a remap add up where it could overwrite.         *)
(***************************************************************************)
RefusedCounts == [b \in Index29 |-> -1]

HostRotated(h, shift, encrypt) ==
  IF shift \notin Index29 THEN RefusedCounts
  ELSE [b \in Index29 |-> h[(IF encrypt THEN b + 29 - shift ELSE b + shift) % 29]]

HostMirrored(h) == [b \in Index29 |-> h[28 - b]]
HostAtbashCaesar(h, shift) == HostRotated(HostMirrored(h), shift, TRUE)

HostBinMap(h, map) ==
  IF DOMAIN map # Index29 \/ ~\A x \in Index29 : map[x] \in Index29 THEN RefusedCounts
  ELSE [y \in Index29 |-> MapThenSumSet(LAMBDA x : h[x], {x \in Index29 : map[x] = y})]

HostAffine(h, a, b) ==
  IF a \notin Index29 \ {0} \/ b \notin Index29 THEN RefusedCounts
  ELSE HostBinMap(h, [x \in Index29 |-> Mul(Inv(a), Sub(x, b))])

InAlphabet(s) == \A n \in DOMAIN s : s[n] \in Index29
HostStream(s) == IF InAlphabet(s) THEN HistOf(s, DOMAIN s) ELSE RefusedCounts

HostColumns(s, period) ==
  [j \in 0..(period - 1) |-> HistOf(s, {n \in DOMAIN s : (n - 1) % period = j})]

\* source(b, k): the bin of a column that the key symbol k decodes to b.
HostPeriodic(s, key, source(_, _)) ==
  IF key = <<>> \/ ~InAlphabet(key) THEN RefusedCounts
  ELSE LET cols == HostColumns(s, Len(key)) IN
         [b \in Index29 |->
            MapThenSumSet(LAMBDA j : cols[j][source(b, key[j + 1]) % 29], 0..(Len(key) - 1))]

HostVigenere(s, key) == HostPeriodic(s, key, LAMBDA b, k : b + k)
HostBeaufort(s, key) == HostPeriodic(s, key, LAMBDA b, k : k + 29 - b)

HostKeystream(s, key, minus) ==
  IF minus THEN HostVigenere(s, key) ELSE HostPeriodic(s, key, LAMBDA b, k : b + 29 - k)

HostLinear(s, b0, b1, minus) ==
  HostKeystream(s, [n \in 1..29 |-> (b0 + b1 * (n - 1)) % 29], minus)

HostPoly(s, b0, b1, b2, minus) ==
  HostKeystream(s, [n \in 1..29 |-> (b0 + b1 * (n - 1) + b2 * (((n - 1) * (n - 1)) % 29)) % 29],
                minus)

HostMerged(lagged, prefix) == [b \in Index29 |-> lagged[b] + prefix[b]]

HostLag(s, lag, minus) ==
  IF lag = 0 THEN RefusedCounts ELSE IF lag >= Len(s) THEN NoCounts ELSE LagHist(s, lag, minus)

HostAutokeyPrefix(s, primer) ==
  LET prefix == Prefix(s, Len(primer)) IN
    HistOf([n \in prefix |-> Sub(s[n], primer[n])], prefix)

HostAutokey(s, primer) ==
  IF primer = <<>> THEN RefusedCounts
  ELSE HostMerged(HostLag(s, Len(primer), TRUE), HostAutokeyPrefix(s, primer))

HostRing(s, lag, minus) ==
  IF lag = 0 THEN HostStream(s)
  ELSE HostMerged(HostLag(s, lag, minus), HistOf(s, Prefix(s, lag)))

-----------------------------------------------------------------------------
(***************************************************************************)
(* Adjacent pairs, and the score of a shift as a sum over the 841 bins;    *)
(* weight stands for the logarithm of a pair's probability.                *)
(***************************************************************************)
PairCounts(s) ==
  [p \in Index29 \X Index29 |->
     Cardinality({n \in 1..(Len(s) - 1) : <<s[n], s[n + 1]>> = p})]

PairScoreRotated(pairs, weight, shift) ==
  -MapThenSumSet(LAMBDA p : pairs[p] * weight[<<(p[1] + 29 - shift) % 29, (p[2] + 29 - shift) % 29>>],
                 {p \in DOMAIN pairs : pairs[p] # 0})

\* bigram_ll_brute_force
HostPairScore(s, weight, shift) ==
  -MapThenSumSet(LAMBDA n : weight[<<Sub(s[n], shift), Sub(s[n + 1], shift)>>], 1..(Len(s) - 1))
=============================================================================
