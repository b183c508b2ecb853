--------------------------- MODULE DeviceKernels ---------------------------
(***************************************************************************)
(* The CUDA kernels that decode: what one thread computes for one symbol,  *)
(* which symbols it is given, and which kernel a host call launches.       *)
(* Positions t count from 0, as in the code.                               *)
(***************************************************************************)
EXTENDS StreamKernels, BlockKernels

CONSTANTS
  BlockThreads,      \* threads of a block: LaunchGeom::threads, 256
  WordBits,          \* bits of a word of the interrupt mask, 32
  BitmaskMax,        \* kBitmaskMaxT and kMaxT, 4096
  MaxCandidates      \* kMaxC, 8192

ASSUME DeviceAssumption ==
  {BlockThreads, WordBits, BitmaskMax, MaxCandidates} \subseteq Nat \ {0}

CeilDiv(n, d) == (n + d - 1) \div d
BlocksFor(work) == CeilDiv(work, BlockThreads)
At(s, t) == s[t + 1]

(***************************************************************************)
(* What device memory holds before anyone wrote to it.                     *)
(***************************************************************************)
Unwritten == -1
Fresh(n) == [p \in 1..n |-> Unwritten]

-----------------------------------------------------------------------------
(***************************************************************************)
(* Z29Device and HistFast reduce a sum by at most one subtraction.         *)
(***************************************************************************)
Wrapped(s) == IF s >= 29 THEN s - 29 ELSE s
DeviceAdd(x, y) == Wrapped(x + y)
DeviceSub(x, y) == Wrapped(x + 29 - y)
Shifted(dir, x, s) == IF dir = "encrypt" THEN DeviceAdd(x, s) ELSE DeviceSub(x, s)

-----------------------------------------------------------------------------
(***************************************************************************)
(* InterruptDeviceView: the positions that are skipped, as a mask of words *)
(* for a short text and as a sorted list for a long one.                   *)
(***************************************************************************)
ViewAccepts(skips, n) == \A s \in skips : s < n

InterruptView(skips, n) ==
  [bitmask |-> n <= BitmaskMax,
   words   |-> [w \in 0..(CeilDiv(n, WordBits) - 1) |->
                  {b \in 0..(WordBits - 1) : w * WordBits + b \in skips}],
   sorted  |-> SetToSortSeq(skips, <)]

MaskSkips(words, t) == (t % WordBits) \in words[t \div WordBits]

\* Faulty variant: the low bits of the word of t are forgotten.
MaskConsumedWords(words, t) ==
  t - MapThenSumSet(LAMBDA w : Cardinality(words[w]), 0..((t \div WordBits) - 1))

\* Whole words first, then the low bits of the word of t.
MaskConsumed(words, t) ==
  LET full == t \div WordBits
      rem  == t % WordBits
      inWord(w) == WordBits - Cardinality(words[w]) IN
    MapThenSumSet(inWord, 0..(full - 1))
      + (IF rem = 0 THEN 0 ELSE rem - Cardinality(words[full] \cap (0..(rem - 1))))

RECURSIVE LowerBound(_, _, _, _)
LowerBound(sorted, t, lo, hi) ==
  IF lo >= hi THEN lo
  ELSE LET mid == lo + ((hi - lo) \div 2) IN
         IF At(sorted, mid) < t THEN LowerBound(sorted, t, mid + 1, hi)
                                ELSE LowerBound(sorted, t, lo, mid)

SkipsBefore(sorted, t) == LowerBound(sorted, t, 0, Len(sorted))
ListSkips(sorted, t) ==
  SkipsBefore(sorted, t) < Len(sorted) /\ At(sorted, SkipsBefore(sorted, t)) = t

SkippedAt(view, t) ==
  IF view.bitmask THEN MaskSkips(view.words, t) ELSE ListSkips(view.sorted, t)

CursorAt(view, t) ==
  IF view.bitmask THEN MaskConsumed(view.words, t) ELSE t - SkipsBefore(view.sorted, t)

ConsumableCount(view, n) == Cardinality({t \in 0..(n - 1) : ~SkippedAt(view, t)})

-----------------------------------------------------------------------------
(***************************************************************************)
(* One symbol of each family, in is the device copy of the text.           *)
(***************************************************************************)
IdentitySymbol(in, t) == At(in, t)
AtbashSymbol(in, t) == 28 - At(in, t)
CaesarSymbol(c, dir, in, t) == Shifted(dir, At(in, t), c.key[1])

AffineSymbol(c, dir, in, t) ==
  IF dir = "encrypt" THEN DeviceAdd(Mul(c.key[1], At(in, t)), c.key[2])
                     ELSE Mul(Inv(c.key[1]), DeviceSub(At(in, t), c.key[2]))

VigenereDense(c, dir, in, t) == Shifted(dir, At(in, t), KeyAt(c, t))
BeaufortDense(c, in, t) == DeviceSub(KeyAt(c, t), At(in, t))

TotientDense(c, dir, in, t) ==
  IF t >= Len(c.key) THEN At(in, t) ELSE Shifted(dir, At(in, t), At(c.key, t))

(***************************************************************************)
(* Decrypting, a ciphertext autokey needs no symbol that another thread    *)
(* makes: the key is the ciphertext.                                       *)
(***************************************************************************)
AutokeyDense(c, in, t) ==
  DeviceSub(At(in, t), IF t < Len(c.key) THEN At(c.key, t) ELSE At(in, t - Len(c.key)))

DenseSymbol(c, dir, in, t) ==
  CASE c.family = "identity"             -> IdentitySymbol(in, t)
    [] c.family = "atbash"               -> AtbashSymbol(in, t)
    [] c.family = "caesar"               -> CaesarSymbol(c, dir, in, t)
    [] c.family = "affine"               -> AffineSymbol(c, dir, in, t)
    [] c.family = "vigenere_key"         -> VigenereDense(c, dir, in, t)
    [] c.family = "beaufort_key"         -> BeaufortDense(c, in, t)
    [] c.family = "totient_prime_stream" -> TotientDense(c, dir, in, t)
    [] c.family = "ciphertext_autokey"   -> AutokeyDense(c, in, t)

(***************************************************************************)
(* With interrupts, every thread counts for itself how many key symbols    *)
(* were taken before its own.                                              *)
(***************************************************************************)
VigenereSkip(c, dir, view, in, t) == Shifted(dir, At(in, t), KeyAt(c, CursorAt(view, t)))
BeaufortSkip(c, view, in, t) == DeviceSub(KeyAt(c, CursorAt(view, t)), At(in, t))

TotientSkip(c, dir, view, in, t) ==
  LET cursor == CursorAt(view, t) IN
    IF cursor >= Len(c.key) THEN At(in, t) ELSE Shifted(dir, At(in, t), At(c.key, cursor))

SkipSymbol(c, dir, view, in, t) ==
  CASE SkippedAt(view, t)                -> At(in, t)
    [] c.family = "vigenere_key"         -> VigenereSkip(c, dir, view, in, t)
    [] c.family = "beaufort_key"         -> BeaufortSkip(c, view, in, t)
    [] c.family = "totient_prime_stream" -> TotientSkip(c, dir, view, in, t)

(***************************************************************************)
(* Otherwise one thread does the whole text, with a ring as long as the    *)
(* primer for what it has seen of the ciphertext.                          *)
(***************************************************************************)
RingKey(c, ring, consumed) ==
  IF consumed < Len(c.key) THEN At(c.key, consumed)
  ELSE ring[(consumed - Len(c.key)) % Len(c.key)]

AutokeySerial(c, dir, view, in, t, local) ==
  IF SkippedAt(view, t) THEN [local EXCEPT !.reg = <<At(in, t)>>]
  ELSE LET y == Shifted(dir, At(in, t), RingKey(c, local.ring, local.consumed)) IN
         [local EXCEPT !.reg = <<y>>, !.consumed = @ + 1,
                       !.ring[local.consumed % Len(c.key)] =
                           IF dir = "encrypt" THEN y ELSE At(in, t)]

(***************************************************************************)
(* Hill blocks: every thread inverts the matrix for itself.                *)
(***************************************************************************)
DeviceMulVec(m, v) ==
  LET product(i, j) == Mul(m[i][j], v[j])
      upTo2(i) == DeviceAdd(product(i, 1), product(i, 2)) IN
    [i \in DOMAIN m |-> IF Len(m) = 2 THEN upTo2(i) ELSE DeviceAdd(upTo2(i), product(i, 3))]

HillUnit(m, dir, in, unit) ==
  LET n == Len(m)
      a == IF dir = "encrypt" THEN m ELSE Inverted(m)
      block(b) == DeviceMulVec(a, [i \in 1..n |-> At(in, unit[b * n + i])]) IN
    [i \in DOMAIN unit |-> block((i - 1) \div n)[((i - 1) % n) + 1]]

-----------------------------------------------------------------------------
(***************************************************************************)
(* Batches: one text, many candidates, one thread per candidate and symbol.*)
(* begin, len and bytes are the key arena.                                 *)
(***************************************************************************)
KeysBefore(keys, c) == MapThenSumSet(LAMBDA d : Len(keys[d]), 1..(c - 1))

PackedKeys(keys) ==
  [begin |-> [c \in DOMAIN keys |-> KeysBefore(keys, c)],
   len   |-> [c \in DOMAIN keys |-> Len(keys[c])],
   bytes |-> FlattenSeq(keys)]

ArenaKey(arena, c) ==
  SubSeq(arena.bytes, arena.begin[c] + 1, arena.begin[c] + arena.len[c])

CaesarBatch(dir, x, shift) ==
  IF dir = "encrypt" THEN (x + shift) % 29 ELSE (x + 29 - shift) % 29

AffineBatch(dir, x, a, b) ==
  IF dir = "encrypt" THEN DeviceAdd(Mul(a, x), b) ELSE Mul(Inv(a), DeviceSub(x, b))

AtbashBatch(x) == 28 - x

\* The recipe of the first koan: Atbash, then a Caesar shift that encrypts.
AtbashCaesarBatch(dir, x, shift) ==
  IF dir = "encrypt" THEN 28 - ((x + 29 - shift) % 29) ELSE (28 - x + shift) % 29

VigenereBatch(dir, x, view, arena, c, t) ==
  IF SkippedAt(view, t) THEN x
  ELSE Shifted(dir, x, At(arena.bytes, arena.begin[c] + (CursorAt(view, t) % arena.len[c])))

-----------------------------------------------------------------------------
(***************************************************************************)
(* Which positions a thread is given: it starts at its own number and goes *)
(* on by the number of threads of the grid.  A pack is four symbols read   *)
(* and written at once; what is left over goes symbol by symbol.           *)
(***************************************************************************)
Strided(first, step, bound) ==
  [j \in 1..(IF first < bound THEN CeilDiv(bound - first, step) ELSE 0) |->
     first + (j - 1) * step]

Blocks(starts, width) == [j \in DOMAIN starts |-> Up(starts[j], starts[j] + width - 1)]

PackUnits(tid, stride, n) ==
  LET packed == 4 * (n \div 4) IN
    Blocks(Strided(4 * tid, 4 * stride, packed), 4) \o Blocks(Strided(packed + tid, stride, n), 1)

SymbolUnits(tid, stride, n) == Blocks(Strided(tid, stride, n), 1)

\* Two Hill pairs to a pack, and the pair that is left over.
PairPackUnits(tid, stride, n) ==
  LET packed == 4 * (n \div 4) IN
    Blocks(Strided(4 * tid, 4 * stride, packed), 4)
      \o Blocks(Strided(packed + 2 * tid, 2 * stride, n - 1), 2)

PairUnits(tid, stride, n) == Blocks(Strided(2 * tid, 2 * stride, n), 2)
TripleUnits(tid, stride, n) == Blocks(Strided(3 * tid, 3 * stride, n), 3)
OwnUnit(tid, n) == IF tid < n THEN << <<tid>> >> ELSE <<>>

Work(kernel, n) ==
  CASE kernel \in {"packs", "pair packs"}                  -> CeilDiv(n, 4)
    [] kernel = "pairs"                                    -> n \div 2
    [] kernel = "triples"                                  -> n \div 3
    [] kernel \in {"symbols", "skips", "own"}              -> n

GridThreads(kernel, n) ==
  IF kernel = "serial" THEN 1 ELSE BlocksFor(Work(kernel, n)) * BlockThreads

UnitsOf(kernel, tid, n) ==
  LET stride == GridThreads(kernel, n) IN
    CASE kernel = "packs"                         -> PackUnits(tid, stride, n)
      [] kernel \in {"symbols", "skips", "serial"} -> SymbolUnits(tid, stride, n)
      [] kernel = "pair packs"                    -> PairPackUnits(tid, stride, n)
      [] kernel = "pairs"                         -> PairUnits(tid, stride, n)
      [] kernel = "triples"                       -> TripleUnits(tid, stride, n)
      [] kernel = "own"                           -> OwnUnit(tid, n)

-----------------------------------------------------------------------------
(***************************************************************************)
(* launch_device_async of each family: the kernel, or "refused".  Packs    *)
(* need device pointers that are aligned to four bytes.                    *)
(***************************************************************************)
DenseKernel(aligned) == IF aligned THEN "packs" ELSE "symbols"

Unless(refused, kernel) == IF refused THEN "refused" ELSE kernel

CaesarLaunch(c, aligned) == Unless(Len(c.key) # 1, DenseKernel(aligned))
AffineLaunch(c, aligned) == Unless(Len(c.key) # 2 \/ c.key[1] = 0, DenseKernel(aligned))

VigenereLaunch(c, view, aligned) ==
  Unless(c.key = <<>>, IF view.sorted = <<>> THEN DenseKernel(aligned) ELSE "skips")

BeaufortLaunch(c, view, aligned) == VigenereLaunch(c, view, aligned)

TotientLaunch(c, view, n, aligned) ==
  Unless(Len(c.key) # ConsumableCount(view, n),
         IF view.sorted = <<>> THEN DenseKernel(aligned) ELSE "skips")

AutokeyLaunch(c, dir, view, aligned) ==
  Unless(c.key = <<>>,
         IF view.sorted = <<>> /\ dir = "decrypt" THEN DenseKernel(aligned) ELSE "serial")

Hill2Launch(m, n, aligned) ==
  Unless(Det(m) = 0 \/ n % 2 # 0, IF aligned THEN "pair packs" ELSE "pairs")

Hill3Launch(m, n) == Unless(Det(m) = 0 \/ n % 3 # 0, "triples")

StreamLaunch(c, dir, view, n, aligned) ==
  CASE c.family = "identity"             -> DenseKernel(aligned)
    [] c.family = "atbash"               -> DenseKernel(aligned)
    [] c.family = "caesar"               -> CaesarLaunch(c, aligned)
    [] c.family = "affine"               -> AffineLaunch(c, aligned)
    [] c.family = "vigenere_key"         -> VigenereLaunch(c, view, aligned)
    [] c.family = "beaufort_key"         -> BeaufortLaunch(c, view, aligned)
    [] c.family = "totient_prime_stream" -> TotientLaunch(c, view, n, aligned)
    [] c.family = "ciphertext_autokey" /\ c.lag = Len(c.key)
                                         -> AutokeyLaunch(c, dir, view, aligned)
    [] OTHER                             -> "refused"      \* no twin yet
=============================================================================
