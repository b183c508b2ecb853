--------------------------- MODULE StreamKernels ---------------------------
(***************************************************************************)
(* The symbol-by-symbol cipher kernels: identity, Atbash, Caesar, affine,  *)
(* Vigenere, Beaufort, the autokeys and the totient stream.  They read one *)
(* span and write another, which may be the same memory; interrupts        *)
(* (skipped positions) pass through and do not advance the key.            *)
(***************************************************************************)
EXTENDS Z29, Sequences, FiniteSets

CONSTANT InPlace      \* are input and output the same span?

Elementwise == {"identity", "atbash", "caesar", "affine"}
Periodic    == {"vigenere_key", "beaufort_key"}
Feedback    == {"ciphertext_autokey", "plaintext_autokey"}
Families    == Elementwise \cup Periodic \cup Feedback \cup {"totient_prime_stream"}

(***************************************************************************)
(* key: the key, the primer or the shifts; lag: how far back an autokey    *)
(* reads (0 for the others); skips: the skip_indices, counted from 0.  A   *)
(* variable_delay_autokey is the autokey of its mode with a lag that is    *)
(* not the length of the primer.                                           *)
(***************************************************************************)
Cipher == [family : Families, key : Seq(Index29), lag : Nat, skips : SUBSET Nat]

Zeros(n) == [p \in 1..n |-> 0]

(***************************************************************************)
(* The families that work on each symbol alone ignore interrupts.          *)
(***************************************************************************)
Skips(c) == IF c.family \in Elementwise THEN {} ELSE c.skips

(***************************************************************************)
(* The consumable symbols, and how many of them come before p.             *)
(***************************************************************************)
Taken(c, n) == {p \in 1..n : p - 1 \notin Skips(c)}
Consumed(c, p) == Cardinality(Taken(c, p - 1))

(***************************************************************************)
(* What apply_into refuses: an interrupt beyond the text, a key without a  *)
(* symbol, an affine map without an inverse, a lag that is neither the     *)
(* length of the primer nor a prime, and any other number of shifts than   *)
(* there are consumable symbols.                                           *)
(***************************************************************************)
IsPrime(n) == n >= 2 /\ \A d \in 2..(n - 1) : n % d # 0

Accepts(c, text) ==
  /\ \A s \in Skips(c) : s < Len(text)
  /\ c.family \in Periodic \cup Feedback => c.key # <<>>
  /\ c.family = "caesar" => Len(c.key) = 1
  /\ c.family = "affine" => Len(c.key) = 2 /\ c.key[1] # 0
  /\ c.family \in Feedback => c.lag = Len(c.key) \/ IsPrime(c.lag)
  /\ c.family = "totient_prime_stream" => Len(c.key) = Cardinality(Taken(c, Len(text)))

(***************************************************************************)
(* The shifts of the totient stream: (p_j - 1) mod 29 for consecutive      *)
(* primes, p_0 = 2.  A prime is looked for up to a bound, rougher here     *)
(* than in the code; a prime that is not found leaves no shifts at all,    *)
(* and then the cipher is refused.                                         *)
(***************************************************************************)
UpperBoundForNth(index) == (index + 1) * (index + 1) + 1

IsNth(p, index) == IsPrime(p) /\ Cardinality({q \in 2..(p - 1) : IsPrime(q)}) = index

Sieved(index) == \E p \in 2..UpperBoundForNth(index) : IsNth(p, index)

NthPrime(index) == CHOOSE p \in 2..UpperBoundForNth(index) : IsNth(p, index)

TotientShifts(start, count) ==
  IF \A j \in 1..count : Sieved(start + j - 1)
    THEN [j \in 1..count |-> (NthPrime(start + j - 1) - 1) % 29]
    ELSE <<>>

-----------------------------------------------------------------------------
(***************************************************************************)
(* A call of a kernel: pos is the symbol to do next, counted from 1;       *)
(* cursor is key_cursor, the number of symbols that took a key symbol;     *)
(* feedback is the stream an autokey reads when there are interrupts.      *)
(***************************************************************************)
Called(in, out) ==
  [input |-> in, output |-> out, pos |-> 1, cursor |-> 0, feedback |-> <<>>]

KeyAt(c, n) == c.key[(n % Len(c.key)) + 1]

\* Faulty variant: the direction is forgotten.
FromInputAlways(c, dir) == c.family = "plaintext_autokey"

\* Does the autokey read back the span that is being read, or the one written?
FromInput(c, dir) == (c.family = "ciphertext_autokey") = (dir = "decrypt")

\* Faulty variant: the dense loop reads one symbol too far back.
DenseKeyOff(c, dir, k) ==
  IF k.pos - 1 <= c.lag THEN KeyAt(c, k.pos - 1)
  ELSE IF FromInput(c, dir) THEN k.input[k.pos - c.lag - 1]
       ELSE k.output[k.pos - c.lag - 1]

\* Without interrupts an autokey looks back into the spans themselves.
DenseKey(c, dir, k) ==
  IF k.pos - 1 < c.lag THEN KeyAt(c, k.pos - 1)
  ELSE IF FromInput(c, dir) THEN k.input[k.pos - c.lag] ELSE k.output[k.pos - c.lag]

\* With interrupts it looks back into the symbols that were not skipped.
SparseKey(c, k) ==
  IF Len(k.feedback) < c.lag THEN KeyAt(c, Len(k.feedback))
  ELSE k.feedback[Len(k.feedback) - c.lag + 1]

KeySymbol(c, dir, k) ==
  CASE c.family \in {"identity", "atbash"}   -> 0
    [] c.family \in {"caesar", "affine"}     -> c.key[1]
    [] c.family \in Periodic                 -> KeyAt(c, k.cursor)
    [] c.family = "totient_prime_stream"     -> c.key[k.cursor + 1]
    [] c.family \in Feedback /\ c.skips = {} -> DenseKey(c, dir, k)
    [] OTHER                                 -> SparseKey(c, k)

(***************************************************************************)
(* One symbol x under the key symbol s; the first is a faulty variant.     *)
(***************************************************************************)
EncryptedUnreduced(c, x, s) == x + s

Encrypted(c, x, s) ==
  CASE c.family = "atbash"       -> Atbash(x)
    [] c.family = "affine"       -> Add(Mul(s, x), c.key[2])
    [] c.family = "beaufort_key" -> Sub(s, x)
    [] OTHER                     -> Add(x, s)

Decrypted(c, x, s) ==
  CASE c.family = "atbash"       -> Atbash(x)
    [] c.family = "affine"       -> Mul(Inv(s), Sub(x, c.key[2]))
    [] c.family = "beaufort_key" -> Sub(s, x)
    [] OTHER                     -> Sub(x, s)

Mixed(c, dir, x, s) == IF dir = "encrypt" THEN Encrypted(c, x, s) ELSE Decrypted(c, x, s)

(***************************************************************************)
(* output[i] = y, which is input[i] as well when the spans are the same.   *)
(***************************************************************************)
Stored(k, y) ==
  LET out == [k.output EXCEPT ![k.pos] = y] IN
    [k EXCEPT !.output = out, !.input = IF InPlace THEN out ELSE @, !.pos = @ + 1]

Passed(k) == Stored(k, k.input[k.pos])

(***************************************************************************)
(* feedback.push_back reads the span after the symbol has been written.    *)
(***************************************************************************)
Transformed(c, dir, k) ==
  LET w == Stored(k, Mixed(c, dir, k.input[k.pos], KeySymbol(c, dir, k))) IN
    [w EXCEPT !.cursor = @ + 1,
              !.feedback = IF c.skips = {} THEN @
                           ELSE Append(@, IF FromInput(c, dir) THEN w.input[k.pos]
                                                               ELSE w.output[k.pos])]

KernelStep(c, dir, k) ==
  IF k.pos - 1 \in Skips(c) THEN Passed(k) ELSE Transformed(c, dir, k)
=============================================================================
