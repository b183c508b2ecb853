---------------------------- MODULE Kernels_proof ----------------------------
(***************************************************************************)
(* Proofs about the transforms of the catalog: the stream ciphers, for any *)
(* texts, keys, lags and interrupts, as long as the two spans of a call    *)
(* are different memory; the Hill matrices; the grids; and from these that *)
(* any one stage of a recipe is undone by the opposite direction.          *)
(***************************************************************************)
EXTENDS StreamCipher, CatalogStages, FiniteSetTheorems, SequenceTheorems, WellFoundedInduction, TLAPS

(***************************************************************************)
(* Arithmetic of rune indices: the operations stay within them, and each   *)
(* family's decryption of a symbol undoes its encryption.                  *)
(***************************************************************************)
LEMMA Residues ==
  /\ \A x, y \in Index29 : /\ Add(x, y) \in Index29 /\ Sub(x, y) \in Index29
                           /\ Mul(x, y) \in Index29 /\ Atbash(x) \in Index29
  /\ \A x, y \in Index29 : Sub(Add(x, y), y) = x /\ Sub(y, Sub(y, x)) = x
  /\ \A x \in Index29 : Atbash(Atbash(x)) = x
<1>1. \A x, y \in Index29 : Add(x, y) \in Index29 /\ Neg(y) \in Index29 /\ Atbash(x) \in Index29
  BY DEF Add, Neg, Atbash, Index29
<1>2. \A x, y \in Index29 : Mul(x, y) \in Index29
  <2> TAKE x, y \in Index29
  <2>1. x * y \in Nat
    BY DEF Index29
  <2> QED BY <2>1 DEF Mul, Index29
<1>3. \A x, y \in Index29 : Sub(Add(x, y), y) = x /\ Sub(y, Sub(y, x)) = x
  BY DEF Sub, Add, Neg, Index29
<1>4. \A x, y \in Index29 : Sub(x, y) \in Index29
  BY <1>1 DEF Sub
<1>5. \A x \in Index29 : Atbash(Atbash(x)) = x
  BY DEF Atbash, Index29
<1> QED BY <1>1, <1>2, <1>3, <1>4, <1>5

LEMMA Inverses ==
  \A s \in Index29 \ {0} :
    /\ Inv(s) \in Index29
    /\ \A x \in Index29 : Mul(Inv(s), Mul(s, x)) = x /\ Mul(s, Mul(Inv(s), x)) = x
<1> SUFFICES ASSUME NEW s \in Index29 \ {0}, NEW x \in Index29
             PROVE  Inv(s) \in Index29 /\ Mul(Inv(s), Mul(s, x)) = x /\ Mul(s, Mul(Inv(s), x)) = x
  OBVIOUS
<1> USE DEF Inv, InvTable, Mul, Index29
<1>0. Inv(s) \in Index29
  OBVIOUS
<1>1. CASE s = 1
  BY <1>1
<1>2. CASE s = 2
  BY <1>2
<1>3. CASE s = 3
  BY <1>3
<1>4. CASE s = 4
  BY <1>4
<1>5. CASE s = 5
  BY <1>5
<1>6. CASE s = 6
  BY <1>6
<1>7. CASE s = 7
  BY <1>7
<1>8. CASE s = 8
  BY <1>8
<1>9. CASE s = 9
  BY <1>9
<1>10. CASE s = 10
  BY <1>10
<1>11. CASE s = 11
  BY <1>11
<1>12. CASE s = 12
  BY <1>12
<1>13. CASE s = 13
  BY <1>13
<1>14. CASE s = 14
  BY <1>14
<1>15. CASE s = 15
  BY <1>15
<1>16. CASE s = 16
  BY <1>16
<1>17. CASE s = 17
  BY <1>17
<1>18. CASE s = 18
  BY <1>18
<1>19. CASE s = 19
  BY <1>19
<1>20. CASE s = 20
  BY <1>20
<1>21. CASE s = 21
  BY <1>21
<1>22. CASE s = 22
  BY <1>22
<1>23. CASE s = 23
  BY <1>23
<1>24. CASE s = 24
  BY <1>24
<1>25. CASE s = 25
  BY <1>25
<1>26. CASE s = 26
  BY <1>26
<1>27. CASE s = 27
  BY <1>27
<1>28. CASE s = 28
  BY <1>28
<1>29. s \in 1..28
  OBVIOUS
<1> HIDE DEF Inv, InvTable, Mul
<1> QED
  BY <1>0, <1>1, <1>2, <1>3, <1>4, <1>5, <1>6, <1>7, <1>8, <1>9, <1>10, <1>11, <1>12, <1>13, <1>14, <1>15, <1>16, <1>17, <1>18, <1>19, <1>20, <1>21, <1>22, <1>23, <1>24, <1>25, <1>26, <1>27, <1>28, <1>29

(***************************************************************************)
(* How many key symbols go by: one more for each symbol that is not        *)
(* skipped, and never more than there are.                                 *)
(***************************************************************************)
LEMMA TakenFinite ==
  ASSUME NEW c, NEW n \in Nat
  PROVE  IsFiniteSet(Taken(c, n)) /\ Cardinality(Taken(c, n)) \in Nat
<1>1. IsFiniteSet(1..n)
  BY FS_Interval
<1>2. Taken(c, n) \subseteq 1..n
  BY DEF Taken
<1> QED BY <1>1, <1>2, FS_Subset, FS_CardinalityType

LEMMA ConsumedSteps ==
  ASSUME NEW c, NEW p \in Nat \ {0}
  PROVE  /\ Consumed(c, 1) = 0 /\ Consumed(c, p) \in Nat
         /\ Consumed(c, p + 1) = Consumed(c, p) + (IF p - 1 \in Skips(c) THEN 0 ELSE 1)
<1>1. Taken(c, 0) = {}
  BY DEF Taken
<1>2. Consumed(c, 1) = 0
  BY <1>1, FS_EmptySet DEF Consumed
<1>3. IsFiniteSet(Taken(c, p - 1)) /\ Consumed(c, p) \in Nat
  BY TakenFinite DEF Consumed
<1>4. Consumed(c, p + 1) = Cardinality(Taken(c, p))
  BY DEF Consumed
<1>5. CASE p - 1 \in Skips(c)
  <2>1. Taken(c, p) = Taken(c, p - 1)
    BY <1>5 DEF Taken
  <2> QED BY <1>2, <1>3, <1>4, <1>5, <2>1 DEF Consumed
<1>6. CASE p - 1 \notin Skips(c)
  <2>1. Taken(c, p) = Taken(c, p - 1) \cup {p} /\ p \notin Taken(c, p - 1)
    BY <1>6 DEF Taken
  <2> QED BY <1>2, <1>3, <1>4, <1>6, <2>1, FS_AddElement DEF Consumed
<1> QED BY <1>5, <1>6

LEMMA ConsumedBounded ==
  ASSUME NEW c, NEW n \in Nat, NEW p \in 1..n, p - 1 \notin Skips(c)
  PROVE  Consumed(c, p) + 1 <= Cardinality(Taken(c, n))
<1>1. Taken(c, p) \subseteq Taken(c, n)
  BY DEF Taken
<1>2. Cardinality(Taken(c, p)) <= Cardinality(Taken(c, n))
  BY <1>1, TakenFinite, FS_Subset
<1>3. Consumed(c, p + 1) = Cardinality(Taken(c, p))
  BY DEF Consumed
<1> QED BY <1>2, <1>3, ConsumedSteps

(***************************************************************************)
(* The key symbol of position p in terms of the text, the ciphertext and   *)
(* the feedback: the same in both directions.                              *)
(***************************************************************************)
Looked(c, p, text, coded) ==
  IF c.family = "ciphertext_autokey" THEN coded[p] ELSE text[p]

SymbolAt(c, p, text, coded, feedback) ==
  CASE c.family \in {"identity", "atbash"}   -> 0
    [] c.family \in {"caesar", "affine"}     -> c.key[1]
    [] c.family \in Periodic                 -> KeyAt(c, Consumed(c, p))
    [] c.family = "totient_prime_stream"     -> c.key[Consumed(c, p) + 1]
    [] c.family \in Feedback /\ c.skips = {} ->
         IF p - 1 < c.lag THEN KeyAt(c, p - 1) ELSE Looked(c, p - c.lag, text, coded)
    [] OTHER                                 ->
         IF Len(feedback) < c.lag THEN KeyAt(c, Len(feedback))
         ELSE feedback[Len(feedback) - c.lag + 1]

LEMMA Remainder == \A m \in Nat, k \in Nat : k > 0 => m % k \in 0..(k - 1)
OBVIOUS

LEMMA KeyType ==
  ASSUME NEW c \in Cipher, NEW n \in Nat, NEW text \in [1..n -> Index29],
         NEW coded \in [1..n -> Index29], NEW feedback \in Seq(Index29),
         NEW p \in 1..n, p - 1 \notin Skips(c), Accepts(c, text)
  PROVE  /\ SymbolAt(c, p, text, coded, feedback) \in Index29
         /\ c.family = "affine" => c.key[1] \in Index29 \ {0} /\ c.key[2] \in Index29
<1>1. c.key \in Seq(Index29) /\ c.lag \in Nat /\ c.family \in Families
  BY DEF Cipher
<1>2. Len(text) = n
  OBVIOUS
<1>3. ASSUME NEW m \in Nat, c.key # <<>> PROVE KeyAt(c, m) \in Index29
  <2>1. Len(c.key) \in Nat /\ Len(c.key) > 0
    BY <1>1, <1>3
  <2>2. PICK i \in 0..(Len(c.key) - 1) : i = m % Len(c.key)
    BY <2>1, Remainder
  <2>3. KeyAt(c, m) = c.key[i + 1]
    BY <2>2 DEF KeyAt
  <2>4. i + 1 \in 1..Len(c.key)
    BY <2>1
  <2> QED BY <1>1, <2>3, <2>4
<1>4. CASE c.family \in {"identity", "atbash"}
  <2>1. SymbolAt(c, p, text, coded, feedback) = 0
    BY <1>4 DEF SymbolAt, Periodic, Feedback
  <2>2. 0 \in Index29
    BY DEF Index29
  <2>3. c.family # "affine"
    BY <1>4
  <2> QED BY <2>1, <2>2, <2>3
<1>5. CASE c.family \in {"caesar", "affine"}
  BY <1>1, <1>5 DEF SymbolAt, Accepts, Periodic, Feedback
<1>6. CASE c.family \in Periodic
  <2>1. KeyAt(c, Consumed(c, p)) \in Index29
    BY <1>3, <1>6, ConsumedSteps DEF Accepts
  <2> QED BY <1>6, <2>1 DEF SymbolAt, Periodic, Feedback
<1>7. CASE c.family = "totient_prime_stream"
  <2>1. Consumed(c, p) \in Nat /\ Consumed(c, p) + 1 <= Len(c.key)
    BY <1>2, <1>7, ConsumedSteps, ConsumedBounded DEF Accepts
  <2>2. c.key[Consumed(c, p) + 1] \in Index29
    BY <1>1, <2>1
  <2> QED BY <1>7, <2>2 DEF SymbolAt, Periodic, Feedback
<1>8. CASE c.family \in Feedback
  <2>1. c.key # <<>> /\ c.lag > 0
    BY <1>1, <1>8 DEF Accepts, IsPrime
  <2>2. CASE c.skips = {}
    <3>1. ASSUME ~(p - 1 < c.lag) PROVE Looked(c, p - c.lag, text, coded) \in Index29
      BY <1>1, <2>1, <3>1 DEF Looked
    <3> QED BY <1>1, <1>3, <1>8, <2>1, <2>2, <3>1 DEF SymbolAt, Feedback, Periodic
  <2>3. CASE c.skips # {}
    <3>1. Len(feedback) \in Nat
      OBVIOUS
    <3>2. ASSUME ~(Len(feedback) < c.lag) PROVE feedback[Len(feedback) - c.lag + 1] \in Index29
      BY <1>1, <2>1, <3>1, <3>2
    <3> QED BY <1>1, <1>3, <1>8, <2>1, <2>3, <3>1, <3>2 DEF SymbolAt, Feedback, Periodic
  <2> QED BY <2>2, <2>3
<1>9. c.family = "affine" => c.key[1] \in Index29 \ {0} /\ c.key[2] \in Index29
  BY <1>1 DEF Accepts
<1> QED BY <1>1, <1>4, <1>5, <1>6, <1>7, <1>8, <1>9 DEF Families, Elementwise

(***************************************************************************)
(* Under the same key symbol, decryption undoes encryption.                *)
(***************************************************************************)
LEMMA SymbolUndone ==
  ASSUME NEW c \in Cipher, NEW x \in Index29, NEW s \in Index29,
         c.family = "affine" => c.key[1] \in Index29 \ {0} /\ c.key[2] \in Index29 /\ s = c.key[1]
  PROVE  /\ Encrypted(c, x, s) \in Index29 /\ Decrypted(c, Encrypted(c, x, s), s) = x
         /\ \A y \in Index29 : Decrypted(c, y, s) \in Index29
<1>1. CASE c.family = "affine"
  <2> DEFINE b == c.key[2]
  <2>1. s \in Index29 \ {0} /\ b \in Index29 /\ Mul(s, x) \in Index29 /\ Inv(s) \in Index29
    BY <1>1, Residues, Inverses
  <2>2. Encrypted(c, x, s) = Add(Mul(s, x), b) /\ \A y : Decrypted(c, y, s) = Mul(Inv(s), Sub(y, b))
    BY <1>1 DEF Encrypted, Decrypted
  <2> HIDE DEF b
  <2>3. Sub(Add(Mul(s, x), b), b) = Mul(s, x) /\ Mul(Inv(s), Mul(s, x)) = x
    BY <2>1, Residues, Inverses
  <2>4. \A y \in Index29 : Decrypted(c, y, s) \in Index29
    BY <2>1, <2>2, Residues
  <2>5. Encrypted(c, x, s) \in Index29
    BY <2>1, <2>2, Residues
  <2>6. Decrypted(c, Encrypted(c, x, s), s) = x
    BY <2>2, <2>3, Zenon
  <2> QED BY <2>4, <2>5, <2>6
<1>2. CASE c.family # "affine"
  BY <1>2, Residues DEF Encrypted, Decrypted
<1> QED BY <1>1, <1>2

(***************************************************************************)
(* The inductive invariant.  Coded is the ciphertext as far as it is       *)
(* known, in the span that is being written or in the one handed on.  The  *)
(* trace says which key symbol each position was encrypted under and what  *)
(* the feedback was; a kernel has the feedback of its position, whichever  *)
(* its direction, because it takes in the same symbols.                    *)
(***************************************************************************)
Coded == IF pass = "encrypt" THEN kernel.output ELSE secret

After(p) ==
  IF p - 1 \in Skips(cipher) \/ cipher.skips = {} THEN trace[p].feedback
  ELSE Append(trace[p].feedback, Looked(cipher, p, plain, Coded))

FeedbackOf(p) == IF p = 1 THEN <<>> ELSE After(p - 1)

Underway ==
  /\ Accepts(cipher, plain)
  /\ Coded \in Texts
  /\ kernel.input = IF pass = "encrypt" THEN plain ELSE secret
  /\ kernel.cursor = Consumed(cipher, kernel.pos)
  /\ Len(trace) = IF pass = "encrypt" THEN kernel.pos - 1 ELSE Len(plain)
  /\ kernel.feedback = FeedbackOf(kernel.pos)

Traced ==
  \A p \in 1..Len(trace) :
    /\ trace[p].feedback = FeedbackOf(p)
    /\ IF p - 1 \in Skips(cipher) THEN Coded[p] = plain[p]
       ELSE /\ trace[p].key = SymbolAt(cipher, p, plain, Coded, trace[p].feedback)
            /\ Coded[p] = Encrypted(cipher, plain[p], trace[p].key)

Restored == pass # "encrypt" => \A p \in 1..(kernel.pos - 1) : kernel.output[p] = plain[p]

IInv ==
  /\ StreamTypeOK
  /\ pass = "start" =>
       trace = <<>> /\ kernel = Called(plain, Zeros(Len(plain))) 
  /\ pass \in {"encrypt", "decrypt", "done"} => Underway /\ Traced /\ Restored
  /\ pass = "done" => kernel.pos = Len(plain) + 1

LEMMA InitIInv == ASSUME ~InPlace, StreamInit PROVE IInv
<1>1. cipher \in Cipher /\ plain \in Seq(Index29) /\ plain \in Texts /\ Len(plain) \in Nat
  BY StreamAssumption DEF StreamInit, Texts
<1>2. Zeros(Len(plain)) \in Texts
  BY DEF Zeros, Texts, Index29
<1>3. kernel = Called(plain, Zeros(Len(plain))) /\ trace = <<>> /\ pass = "start"
  BY DEF StreamInit
<1>4. kernel \in [input : Texts, output : Texts, pos : 1..(Len(plain) + 1),
                  cursor : Nat, feedback : Seq(Index29)] /\ kernel.cursor < kernel.pos
  BY <1>1, <1>2, <1>3 DEF Called
<1> QED BY <1>1, <1>3, <1>4 DEF IInv, StreamTypeOK

(***************************************************************************)
(* The key symbol a kernel computes is that of the position, in either     *)
(* direction.                                                              *)
(***************************************************************************)
LEMMA KernelKey ==
  ASSUME IInv, pass \in {"encrypt", "decrypt"}, kernel.pos <= Len(plain),
         kernel.pos - 1 \notin Skips(cipher)
  PROVE  KeySymbol(cipher, pass, kernel)
           = SymbolAt(cipher, kernel.pos, plain, Coded, kernel.feedback)
<1> DEFINE c == cipher  p == kernel.pos
<1>1. /\ c.family \in Families /\ c.lag \in Nat /\ c.key \in Seq(Index29)
      /\ p \in 1..Len(plain) /\ Len(plain) \in Nat
      /\ kernel.cursor = Consumed(c, p)
  BY DEF IInv, StreamTypeOK, Underway, Cipher
<1>2. CASE c.family \in Elementwise
  BY <1>2 DEF KeySymbol, SymbolAt, Elementwise, Periodic, Feedback
<1>3. CASE c.family \in Periodic \cup {"totient_prime_stream"}
  BY <1>1, <1>3 DEF KeySymbol, SymbolAt, Periodic, Feedback
<1>4. CASE c.family \in Feedback /\ c.skips # {}
  BY <1>4 DEF KeySymbol, SymbolAt, Periodic, Feedback, SparseKey
<1>5. CASE c.family \in Feedback /\ c.skips = {}
  <2>1. c.lag > 0
    BY <1>1, <1>5 DEF IInv, Underway, Accepts, IsPrime
  <2>2. KeySymbol(c, pass, kernel) = DenseKey(c, pass, kernel)
    BY <1>5 DEF KeySymbol, Periodic, Feedback
  <2>3. SymbolAt(c, p, plain, Coded, kernel.feedback) =
          IF p - 1 < c.lag THEN KeyAt(c, p - 1) ELSE Looked(c, p - c.lag, plain, Coded)
    BY <1>5 DEF SymbolAt, Periodic, Feedback
  <2>4. ASSUME ~(p - 1 < c.lag)
        PROVE  (IF FromInput(c, pass) THEN kernel.input[p - c.lag] ELSE kernel.output[p - c.lag])
                 = Looked(c, p - c.lag, plain, Coded)
    <3>1. p - c.lag \in 1..(p - 1)
      BY <1>1, <2>1, <2>4
    <3>2. CASE pass = "encrypt"
      BY <1>5, <3>2 DEF IInv, Underway, FromInput, Looked, Coded
    <3>3. CASE pass = "decrypt"
      BY <1>5, <3>1, <3>3 DEF IInv, Underway, Restored, FromInput, Looked, Coded
    <3> QED BY <3>2, <3>3
  <2> QED BY <2>2, <2>3, <2>4 DEF DenseKey
<1> QED BY <1>1, <1>2, <1>3, <1>4, <1>5 DEF Families

(***************************************************************************)
(* What one step of a kernel changes.                                      *)
(***************************************************************************)
Moved(y, more, feedback) ==
  /\ kernel'.input = kernel.input
  /\ kernel'.output = [kernel.output EXCEPT ![kernel.pos] = y]
  /\ kernel'.pos = kernel.pos + 1
  /\ kernel'.cursor = kernel.cursor + more
  /\ kernel'.feedback = feedback

LEMMA SymbolMoves ==
  ASSUME ~InPlace, IInv, Symbol
  PROVE  LET x == kernel.input[kernel.pos]
             y == Mixed(cipher, pass, x, KeySymbol(cipher, pass, kernel))
         IN  IF kernel.pos - 1 \in Skips(cipher)
               THEN Moved(x, 0, kernel.feedback)
               ELSE Moved(y, 1,
                          IF cipher.skips = {} THEN kernel.feedback
                          ELSE Append(kernel.feedback, IF FromInput(cipher, pass) THEN x ELSE y))
<1>1. /\ DOMAIN kernel = {"input", "output", "pos", "cursor", "feedback"}
      /\ kernel.output \in Texts /\ kernel.pos \in 1..Len(plain) /\ Len(plain) \in Nat
  BY DEF IInv, StreamTypeOK, Symbol
<1>2. kernel = [input |-> kernel.input, output |-> kernel.output, pos |-> kernel.pos,
                cursor |-> kernel.cursor, feedback |-> kernel.feedback]
  BY DEF IInv, StreamTypeOK
<1>3. kernel' = KernelStep(cipher, pass, kernel)
  BY DEF Symbol
<1>4. ASSUME NEW y
      PROVE  /\ DOMAIN Stored(kernel, y) = DOMAIN kernel
             /\ Stored(kernel, y).input = kernel.input
             /\ Stored(kernel, y).output = [kernel.output EXCEPT ![kernel.pos] = y]
             /\ Stored(kernel, y).pos = kernel.pos + 1
             /\ Stored(kernel, y).cursor = kernel.cursor
             /\ Stored(kernel, y).feedback = kernel.feedback
             /\ Stored(kernel, y).output[kernel.pos] = y
  <2> DEFINE out == [kernel.output EXCEPT ![kernel.pos] = y]
  <2>1. Stored(kernel, y) = [kernel EXCEPT !.output = out, !.input = kernel.input, !.pos = kernel.pos + 1]
    BY DEF Stored
  <2>2. out[kernel.pos] = y
    BY <1>1 DEF Texts
  <2> HIDE DEF out
  <2>3. QED BY <1>1, <2>1, <2>2 DEF out
<1>5. CASE kernel.pos - 1 \in Skips(cipher)
  <2>1. kernel' = Stored(kernel, kernel.input[kernel.pos])
    BY <1>3, <1>5 DEF KernelStep, Passed
  <2>2. kernel.cursor \in Nat
    BY DEF IInv, StreamTypeOK
  <2> QED BY <1>4, <1>5, <2>1, <2>2 DEF Moved
<1>6. CASE kernel.pos - 1 \notin Skips(cipher)
  <2> DEFINE y == Mixed(cipher, pass, kernel.input[kernel.pos], KeySymbol(cipher, pass, kernel))
             w == Stored(kernel, y)
             f == IF cipher.skips = {} THEN w.feedback
                  ELSE Append(w.feedback, IF FromInput(cipher, pass) THEN w.input[kernel.pos]
                                                                     ELSE w.output[kernel.pos])
  <2>1. kernel' = [w EXCEPT !.cursor = w.cursor + 1, !.feedback = f]
    BY <1>3, <1>6 DEF KernelStep, Transformed
  <2>2. /\ DOMAIN w = DOMAIN kernel /\ w.input = kernel.input
        /\ w.output = [kernel.output EXCEPT ![kernel.pos] = y] /\ w.pos = kernel.pos + 1
        /\ w.cursor = kernel.cursor /\ w.feedback = kernel.feedback /\ w.output[kernel.pos] = y
    BY <1>4
  <2> HIDE DEF w, y
  <2>3. f = IF cipher.skips = {} THEN kernel.feedback
            ELSE Append(kernel.feedback, IF FromInput(cipher, pass) THEN kernel.input[kernel.pos] ELSE y)
    BY <2>2
  <2> HIDE DEF f
  <2>4. Moved(y, 1, f)
    BY <1>1, <2>1, <2>2 DEF Moved
  <2> QED BY <1>6, <2>3, <2>4 DEF y
<1> QED BY <1>5, <1>6

(***************************************************************************)
(* What a step knows of its position.                                      *)
(***************************************************************************)
Here(key) ==
  /\ kernel.pos \in 1..Len(plain) /\ Len(plain) \in Nat /\ plain \in Texts
  /\ kernel.pos - 1 \notin Skips(cipher) =>
       /\ key = SymbolAt(cipher, kernel.pos, plain, Coded, kernel.feedback)
       /\ key \in Index29 /\ Encrypted(cipher, plain[kernel.pos], key) \in Index29
       /\ \A y \in Index29 : Decrypted(cipher, y, key) \in Index29
       /\ Decrypted(cipher, Encrypted(cipher, plain[kernel.pos], key), key) = plain[kernel.pos]

LEMMA HereKnown ==
  ASSUME IInv, Symbol PROVE Here(KeySymbol(cipher, pass, kernel))
<1> DEFINE p == kernel.pos
           key == KeySymbol(cipher, pass, kernel)
<1>1. /\ p \in 1..Len(plain) /\ Len(plain) \in Nat /\ plain \in Texts /\ plain[p] \in Index29
      /\ cipher \in Cipher /\ kernel.feedback \in Seq(Index29) /\ Coded \in Texts
      /\ Accepts(cipher, plain)
  BY DEF IInv, StreamTypeOK, Underway, Texts, Symbol
<1>2. ASSUME p - 1 \notin Skips(cipher)
      PROVE  /\ key = SymbolAt(cipher, p, plain, Coded, kernel.feedback) /\ key \in Index29
             /\ cipher.family = "affine" =>
                  cipher.key[1] \in Index29 \ {0} /\ cipher.key[2] \in Index29 /\ key = cipher.key[1]
  <2>1. key = SymbolAt(cipher, p, plain, Coded, kernel.feedback)
    BY <1>2, KernelKey DEF Symbol
  <2>2. /\ SymbolAt(cipher, p, plain, Coded, kernel.feedback) \in Index29
        /\ cipher.family = "affine" => cipher.key[1] \in Index29 \ {0} /\ cipher.key[2] \in Index29
    BY <1>1, <1>2, KeyType DEF Texts
  <2>3. cipher.family = "affine" => key = cipher.key[1]
    BY DEF KeySymbol, Periodic, Feedback
  <2> QED BY <2>1, <2>2, <2>3
<1> HIDE DEF key
<1>3. ASSUME p - 1 \notin Skips(cipher)
      PROVE  /\ Encrypted(cipher, plain[p], key) \in Index29
             /\ \A y \in Index29 : Decrypted(cipher, y, key) \in Index29
             /\ Decrypted(cipher, Encrypted(cipher, plain[p], key), key) = plain[p]
  BY <1>1, <1>2, <1>3, SymbolUndone
<1> QED BY <1>1, <1>2, <1>3 DEF Here, key

LEMMA KernelShape ==
  ASSUME IInv, Symbol
  PROVE  kernel' = [input |-> kernel'.input, output |-> kernel'.output, pos |-> kernel'.pos,
                    cursor |-> kernel'.cursor, feedback |-> kernel'.feedback]
<1>1. kernel = [input |-> kernel.input, output |-> kernel.output, pos |-> kernel.pos,
                cursor |-> kernel.cursor, feedback |-> kernel.feedback]
  BY DEF IInv, StreamTypeOK
<1> QED BY <1>1 DEF Symbol, KernelStep, Passed, Transformed, Stored

LEMMA EncryptStep ==
  ASSUME ~InPlace, IInv, Symbol, pass = "encrypt"
  PROVE  IInv'
<1> DEFINE p == kernel.pos
           key == KeySymbol(cipher, pass, kernel)
           skip == p - 1 \in Skips(cipher)
           y == IF skip THEN plain[p] ELSE Encrypted(cipher, plain[p], key)
           fb == IF skip \/ cipher.skips = {} THEN kernel.feedback
                 ELSE Append(kernel.feedback, IF cipher.family = "ciphertext_autokey" THEN y ELSE plain[p])
           entry == [key |-> IF skip THEN 0 ELSE key, feedback |-> kernel.feedback]
<1>1. Here(key)
  BY HereKnown
<1>2. /\ UNCHANGED <<cipher, plain, secret, pass>> /\ trace' = Append(trace, entry)
      /\ Len(trace) = p - 1 /\ trace \in Seq([key : Index29, feedback : Seq(Index29)])
      /\ kernel.input = plain /\ kernel.output \in Texts /\ Coded = kernel.output
      /\ kernel.feedback \in Seq(Index29) /\ kernel.feedback = FeedbackOf(p)
      /\ kernel.cursor = Consumed(cipher, p) /\ kernel.cursor \in Nat /\ kernel.cursor < p
  BY DEF IInv, StreamTypeOK, Underway, Symbol, Coded
<1>3. Moved(y, IF skip THEN 0 ELSE 1, fb)
  <2>1. CASE skip
    BY <1>2, <2>1, SymbolMoves
  <2>2. CASE ~skip
    <3>1. Mixed(cipher, pass, kernel.input[p], key) = y
      BY <1>2, <2>2 DEF Mixed
    <3>2. FromInput(cipher, pass) <=> cipher.family # "ciphertext_autokey"
      BY DEF FromInput
    <3> QED BY <1>2, <2>2, <3>1, <3>2, SymbolMoves
  <2> QED BY <2>1, <2>2
<1>4. y \in Index29 /\ plain[p] \in Index29 /\ p \in 1..Len(plain) /\ Len(plain) \in Nat
  BY <1>1 DEF Here, Texts
<1>5. entry \in [key : Index29, feedback : Seq(Index29)]
  <2>1. ~skip => key \in Index29
    <3> HIDE DEF key
    <3> QED BY <1>1 DEF Here
  <2>2. 0 \in Index29
    BY DEF Index29
  <2>3. (IF skip THEN 0 ELSE key) \in Index29
    <3> HIDE DEF key, skip
    <3> QED BY <2>1, <2>2
  <2> HIDE DEF key, skip
  <2> QED BY <1>2, <2>3
<1>6. fb \in Seq(Index29)
  BY <1>2, <1>4, AppendProperties
<1>7. /\ trace' \in Seq([key : Index29, feedback : Seq(Index29)]) /\ Len(trace') = p
      /\ \A q \in 1..(p - 1) : trace'[q] = trace[q]
      /\ trace'[p] = entry
  BY <1>2, <1>4, <1>5, AppendProperties
<1>8. /\ Coded' \in Texts /\ Coded'[p] = y /\ \A q \in 1..(p - 1) : Coded'[q] = Coded[q]
      /\ Coded' = kernel'.output /\ Texts' = Texts
  BY <1>2, <1>3, <1>4 DEF Moved, Coded, Texts
<1> HIDE DEF key, skip, y, fb, entry
<1>9. StreamTypeOK'
  <2>1. /\ kernel'.input \in Texts /\ kernel'.output \in Texts /\ kernel'.pos \in 1..(Len(plain) + 1)
        /\ kernel'.cursor \in Nat /\ kernel'.feedback \in Seq(Index29) /\ kernel'.cursor < kernel'.pos
    BY <1>2, <1>3, <1>4, <1>6, <1>8 DEF Moved, IInv, StreamTypeOK
  <2>2. kernel' = [input |-> kernel'.input, output |-> kernel'.output, pos |-> kernel'.pos,
                   cursor |-> kernel'.cursor, feedback |-> kernel'.feedback]
    BY KernelShape
  <2>3. kernel' \in [input : Texts, output : Texts, pos : 1..(Len(plain) + 1),
                     cursor : Nat, feedback : Seq(Index29)]
    BY <2>1, <2>2
  <2> QED BY <1>2, <1>7, <1>8, <2>1, <2>3 DEF IInv, StreamTypeOK
<1>10. ASSUME NEW q \in 1..p PROVE FeedbackOf(q)' = FeedbackOf(q)
  <2>1. CASE q = 1
    BY <2>1 DEF FeedbackOf
  <2>2. CASE q # 1
    <3>1. q - 1 \in 1..(p - 1)
      BY <1>4, <2>2
    <3>2. trace'[q - 1] = trace[q - 1] /\ Coded'[q - 1] = Coded[q - 1]
      BY <1>7, <1>8, <3>1
    <3>3. After(q - 1)' = After(q - 1)
      BY <1>2, <3>2 DEF After, Looked
    <3> QED BY <2>2, <3>3 DEF FeedbackOf
  <2> QED BY <2>1, <2>2
<1>11. FeedbackOf(kernel.pos)' = fb
  <2>1. kernel'.pos # 1 /\ kernel'.pos - 1 = p
    BY <1>3, <1>4 DEF Moved
  <2>2. trace'[p].feedback = kernel.feedback
    BY <1>7 DEF entry
  <2>3. After(kernel.pos - 1)' = fb
    BY <1>2, <1>8, <2>1, <2>2 DEF After, Looked, fb, skip, y
  <2> QED BY <2>1, <2>3 DEF FeedbackOf
<1>12. Underway'
  <2>1. kernel'.pos = p + 1 /\ kernel'.feedback = fb /\ kernel'.input = kernel.input
    BY <1>3 DEF Moved
  <2>2. kernel'.cursor = Consumed(cipher, p + 1)
    <3>1. Consumed(cipher, p + 1) = Consumed(cipher, p) + (IF skip THEN 0 ELSE 1)
      <4>1. p \in Nat \ {0}
        BY <1>4
      <4> HIDE DEF p
      <4> QED BY <4>1, ConsumedSteps DEF skip
    <3> QED BY <1>2, <1>3, <3>1 DEF Moved
  <2>3. Accepts(cipher, plain)'
    BY <1>2 DEF IInv, Underway
  <2>4. Len(trace') = kernel'.pos - 1 /\ kernel'.cursor = Consumed(cipher', kernel'.pos)
    BY <1>2, <1>4, <1>7, <2>1, <2>2
  <2> QED BY <1>2, <1>8, <1>11, <2>1, <2>3, <2>4 DEF Underway
<1>13. ASSUME NEW q \in 1..(p - 1), ~(q - 1 \in Skips(cipher))
       PROVE  SymbolAt(cipher, q, plain, Coded, trace[q].feedback)' 
                = SymbolAt(cipher, q, plain, Coded, trace[q].feedback)
  <2>1. trace'[q] = trace[q] /\ UNCHANGED <<cipher, plain>>
    BY <1>2, <1>7
  <2>2. ASSUME cipher.family \in Feedback, cipher.skips = {}, ~(q - 1 < cipher.lag)
        PROVE  Looked(cipher, q - cipher.lag, plain, Coded') = Looked(cipher, q - cipher.lag, plain, Coded)
    <3>1. cipher.lag \in Nat /\ q - cipher.lag \in 1..(p - 1)
      BY <1>4, <2>2 DEF IInv, StreamTypeOK, Cipher
    <3> QED BY <1>8, <3>1 DEF Looked
  <2> QED BY <2>1, <2>2 DEF SymbolAt
<1>14. ASSUME NEW q \in 1..p
       PROVE  /\ trace'[q].feedback = FeedbackOf(q)'
              /\ IF q - 1 \in Skips(cipher) THEN Coded'[q] = plain[q]
                 ELSE /\ trace'[q].key = SymbolAt(cipher, q, plain, Coded', trace'[q].feedback)
                      /\ Coded'[q] = Encrypted(cipher, plain[q], trace'[q].key)
  <2>1. CASE q = p
    <3>1. trace'[q].feedback = FeedbackOf(q)'
      BY <1>2, <1>7, <1>10, <2>1 DEF entry
    <3>2. CASE skip
      BY <1>7, <1>8, <2>1, <3>1, <3>2 DEF skip, y
    <3>3. CASE ~skip
      <4>1. trace'[q].key = key /\ key = SymbolAt(cipher, p, plain, Coded, kernel.feedback)
        BY <1>1, <1>7, <2>1, <3>3 DEF entry, Here, skip
      <4>2. SymbolAt(cipher, p, plain, Coded', kernel.feedback) = SymbolAt(cipher, p, plain, Coded, kernel.feedback)
        <5>1. ASSUME cipher.family \in Feedback, cipher.skips = {}, ~(p - 1 < cipher.lag)
              PROVE  Looked(cipher, p - cipher.lag, plain, Coded') = Looked(cipher, p - cipher.lag, plain, Coded)
          <6>1. cipher.lag \in Nat /\ cipher.lag > 0
            BY <5>1 DEF IInv, StreamTypeOK, Cipher, Underway, Accepts, IsPrime
          <6>2. p - cipher.lag \in 1..(p - 1)
            BY <1>4, <5>1, <6>1
          <6> QED BY <1>8, <6>2 DEF Looked
        <5> QED BY <5>1 DEF SymbolAt
      <4>3. Coded'[q] = Encrypted(cipher, plain[q], key)
        BY <1>8, <2>1, <3>3 DEF y, skip
      <4>4. trace'[q].feedback = kernel.feedback
        BY <1>7, <2>1 DEF entry
      <4> QED BY <2>1, <3>1, <3>3, <4>1, <4>2, <4>3, <4>4 DEF skip
    <3> QED BY <3>2, <3>3
  <2>2. CASE q \in 1..(p - 1)
    <3>1. trace'[q] = trace[q] /\ Coded'[q] = Coded[q]
      BY <1>7, <1>8, <2>2
    <3>2. /\ trace[q].feedback = FeedbackOf(q)
          /\ IF q - 1 \in Skips(cipher) THEN Coded[q] = plain[q]
             ELSE /\ trace[q].key = SymbolAt(cipher, q, plain, Coded, trace[q].feedback)
                  /\ Coded[q] = Encrypted(cipher, plain[q], trace[q].key)
      BY <1>2, <2>2 DEF IInv, Traced
    <3> QED BY <1>2, <1>10, <1>13, <2>2, <3>1, <3>2
  <2> QED BY <1>4, <2>1, <2>2
<1>15. Traced'
  BY <1>2, <1>7, <1>14 DEF Traced
<1>16. Restored'
  BY <1>2 DEF Restored
<1> QED BY <1>2, <1>9, <1>12, <1>15, <1>16 DEF IInv

LEMMA DecryptStep ==
  ASSUME ~InPlace, IInv, Symbol, pass = "decrypt"
  PROVE  IInv'
<1> DEFINE p == kernel.pos
           key == KeySymbol(cipher, pass, kernel)
           skip == p - 1 \in Skips(cipher)
           y == plain[p]
           fb == IF skip \/ cipher.skips = {} THEN kernel.feedback
                 ELSE Append(kernel.feedback, Looked(cipher, p, plain, Coded))
<1>1. Here(key)
  BY HereKnown
<1>2. /\ UNCHANGED <<cipher, plain, secret, pass, trace>>
      /\ Len(trace) = Len(plain) /\ trace \in Seq([key : Index29, feedback : Seq(Index29)])
      /\ kernel.input = secret /\ kernel.output \in Texts /\ Coded = secret /\ secret \in Texts
      /\ kernel.feedback \in Seq(Index29) /\ kernel.feedback = FeedbackOf(p)
      /\ kernel.cursor = Consumed(cipher, p) /\ kernel.cursor \in Nat /\ kernel.cursor < p
  BY DEF IInv, StreamTypeOK, Underway, Symbol, Coded
<1>3. p \in 1..Len(plain) /\ Len(plain) \in Nat /\ y \in Index29 /\ secret[p] \in Index29
  BY <1>1, <1>2 DEF Here, Texts
<1>4. /\ trace[p].feedback = kernel.feedback
      /\ IF skip THEN secret[p] = plain[p]
         ELSE trace[p].key = key /\ secret[p] = Encrypted(cipher, plain[p], key)
  BY <1>1, <1>2, <1>3 DEF IInv, Traced, Here
<1>5. Moved(y, IF skip THEN 0 ELSE 1, fb)
  <2>1. CASE skip
    BY <1>2, <1>4, <2>1, SymbolMoves
  <2>2. CASE ~skip
    <3>1. Mixed(cipher, pass, kernel.input[p], key) = y
      BY <1>1, <1>2, <1>4, <2>2 DEF Mixed, Here
    <3>2. FromInput(cipher, pass) <=> cipher.family = "ciphertext_autokey"
      BY DEF FromInput
    <3>3. (IF FromInput(cipher, pass) THEN kernel.input[p] ELSE y) = Looked(cipher, p, plain, Coded)
      BY <1>2, <3>2 DEF Looked
    <3> QED BY <1>2, <2>2, <3>1, <3>3, SymbolMoves
  <2> QED BY <2>1, <2>2
<1>6. fb \in Seq(Index29)
  <2>1. Looked(cipher, p, plain, Coded) \in Index29
    BY <1>2, <1>3 DEF Looked
  <2> QED BY <1>2, <2>1, AppendProperties
<1>7. /\ kernel'.output \in Texts /\ kernel'.output[p] = y /\ Texts' = Texts
      /\ \A q \in 1..(p - 1) : kernel'.output[q] = kernel.output[q]
      /\ Coded' = Coded
  BY <1>2, <1>3, <1>5 DEF Moved, Coded, Texts
<1> HIDE DEF key, skip, fb
<1>8. StreamTypeOK'
  <2>1. /\ kernel'.input \in Texts /\ kernel'.output \in Texts /\ kernel'.pos \in 1..(Len(plain) + 1)
        /\ kernel'.cursor \in Nat /\ kernel'.feedback \in Seq(Index29) /\ kernel'.cursor < kernel'.pos
    BY <1>2, <1>3, <1>5, <1>6, <1>7 DEF Moved, IInv, StreamTypeOK
  <2>2. kernel' = [input |-> kernel'.input, output |-> kernel'.output, pos |-> kernel'.pos,
                   cursor |-> kernel'.cursor, feedback |-> kernel'.feedback]
    BY KernelShape
  <2>3. kernel' \in [input : Texts, output : Texts, pos : 1..(Len(plain) + 1),
                     cursor : Nat, feedback : Seq(Index29)]
    BY <2>1, <2>2
  <2> QED BY <1>2, <1>7, <2>1, <2>3 DEF IInv, StreamTypeOK
<1>9. \A q : FeedbackOf(q)' = FeedbackOf(q)
  BY <1>2, <1>7 DEF FeedbackOf, After, Looked
<1>10. FeedbackOf(kernel.pos)' = fb
  <2>1. kernel'.pos # 1 /\ kernel'.pos - 1 = p
    BY <1>3, <1>5 DEF Moved
  <2>2. After(kernel.pos - 1)' = fb
    BY <1>2, <1>4, <1>7, <2>1 DEF After, fb, skip
  <2> QED BY <2>1, <2>2 DEF FeedbackOf
<1>11. Underway'
  <2>1. kernel'.pos = p + 1 /\ kernel'.feedback = fb /\ kernel'.input = kernel.input
    BY <1>5 DEF Moved
  <2>2. kernel'.cursor = Consumed(cipher, p + 1)
    <3>1. Consumed(cipher, p + 1) = Consumed(cipher, p) + (IF skip THEN 0 ELSE 1)
      <4>1. p \in Nat \ {0}
        BY <1>3
      <4> HIDE DEF p
      <4> QED BY <4>1, ConsumedSteps DEF skip
    <3> QED BY <1>2, <1>5, <3>1 DEF Moved
  <2>3. Accepts(cipher, plain)'
    BY <1>2 DEF IInv, Underway
  <2> QED BY <1>2, <1>7, <1>10, <2>1, <2>2, <2>3 DEF Underway
<1>12. Traced'
  BY <1>2, <1>7, <1>9 DEF IInv, Traced, SymbolAt, Looked
<1>13. Restored'
  <2>1. ASSUME NEW q \in 1..p PROVE kernel'.output[q] = plain[q]
    <3>1. CASE q = p
      BY <1>7, <3>1
    <3>2. CASE q \in 1..(p - 1)
      BY <1>2, <1>7, <3>2 DEF IInv, Restored
    <3> QED BY <1>3, <3>1, <3>2
  <2>2. kernel'.pos - 1 = p
    BY <1>3, <1>5 DEF Moved
  <2> QED BY <1>2, <2>1, <2>2 DEF Restored
<1> QED BY <1>2, <1>8, <1>11, <1>12, <1>13 DEF IInv

LEMMA StepIInv == ASSUME ~InPlace, IInv, [StreamNext]_streamVars PROVE IInv'
<1>1. CASE Start
  <2>1. /\ kernel.pos = 1 /\ kernel.cursor = 0 /\ kernel.feedback = <<>> /\ trace = <<>>
        /\ kernel.input = plain /\ kernel.output \in Texts
        /\ UNCHANGED <<cipher, plain, secret, kernel, trace>>
    BY <1>1 DEF Start, IInv, StreamTypeOK, Called
  <2>2. StreamTypeOK'
    BY <1>1, <2>1 DEF Start, IInv, StreamTypeOK, Texts
  <2>3. Consumed(cipher, 1) = 0
    BY ConsumedSteps
  <2>4. CASE pass' = "encrypt"
    BY <1>1, <2>1, <2>2, <2>3, <2>4
    DEF Start, IInv, Underway, Traced, Restored, Coded, Texts, FeedbackOf
  <2>5. CASE pass' = "refused"
    BY <2>2, <2>5 DEF IInv
  <2> QED BY <1>1, <2>4, <2>5 DEF Start
<1>2. CASE Symbol
  BY <1>2, EncryptStep, DecryptStep DEF Symbol
<1>3. CASE TurnRound
  <2>1. /\ pass = "encrypt" /\ pass' = "decrypt" /\ secret' = kernel.output /\ Coded' = Coded
        /\ kernel' = Called(kernel.output, Zeros(Len(plain)))
        /\ UNCHANGED <<cipher, plain, trace>> /\ Coded = kernel.output /\ Coded \in Texts
        /\ Len(trace) = Len(plain) /\ Len(plain) \in Nat
    BY <1>3 DEF TurnRound, IInv, Underway, StreamTypeOK, Coded
  <2>2. Zeros(Len(plain)) \in Texts
    BY <2>1 DEF Zeros, Texts, Index29
  <2>3. StreamTypeOK'
    <3>1. kernel' \in [input : Texts, output : Texts, pos : 1..(Len(plain) + 1),
                       cursor : Nat, feedback : Seq(Index29)] /\ kernel'.cursor < kernel'.pos
      BY <2>1, <2>2 DEF Called
    <3> QED BY <2>1, <3>1 DEF IInv, StreamTypeOK, Texts
  <2>4. Consumed(cipher, 1) = 0
    BY ConsumedSteps
  <2>5. \A q : FeedbackOf(q)' = FeedbackOf(q)
    BY <2>1 DEF FeedbackOf, After, Looked
  <2>6. Underway'
    BY <2>1, <2>4, <1>3 DEF IInv, Underway, Called, FeedbackOf, Texts
  <2>7. Traced'
    BY <2>1, <2>5 DEF IInv, Traced, SymbolAt, Looked
  <2>8. Restored'
    BY <2>1 DEF Restored, Called
  <2> QED BY <2>1, <2>3, <2>6, <2>7, <2>8 DEF IInv
<1>4. ASSUME UNCHANGED <<cipher, plain, secret, kernel, trace>>,
             UNCHANGED pass \/ (pass = "decrypt" /\ pass' = "done" /\ kernel.pos > Len(plain))
      PROVE  IInv'
  <2>1. Texts' = Texts /\ Coded' = Coded
    BY <1>4 DEF Texts, Coded
  <2>2. \A q : FeedbackOf(q)' = FeedbackOf(q)
    BY <1>4, <2>1 DEF FeedbackOf, After
  <2>3. StreamTypeOK'
    BY <1>4, <2>1 DEF IInv, StreamTypeOK
  <2>4. Underway => Underway'
    <3>1. FeedbackOf(kernel.pos)' = FeedbackOf(kernel.pos)
      BY <1>4, <2>1 DEF FeedbackOf, After
    <3> QED BY <1>4, <2>1, <3>1 DEF Underway
  <2>5. Traced => Traced'
    BY <1>4, <2>1, <2>2 DEF Traced
  <2>6. Restored /\ (pass # "encrypt" \/ pass' = pass) => Restored'
    BY <1>4 DEF Restored
  <2>7. pass' = "done" => kernel'.pos = Len(plain') + 1
    BY <1>4 DEF IInv, StreamTypeOK
  <2>8. pass' = "start" => trace' = <<>> /\ kernel' = Called(plain', Zeros(Len(plain')))
    BY <1>4 DEF IInv
  <2>9. pass' \in {"encrypt", "decrypt", "done"} => Underway' /\ Traced' /\ Restored'
    BY <1>4, <2>4, <2>5, <2>6 DEF IInv
  <2> QED BY <2>3, <2>7, <2>8, <2>9 DEF IInv
<1>5. CASE Finish \/ UNCHANGED streamVars
  BY <1>4, <1>5 DEF Finish, streamVars
<1> QED BY <1>1, <1>2, <1>3, <1>5 DEF StreamNext

(***************************************************************************)
(* The spans and the key stream keep their types: no kernel reads a key or *)
(* a feedback symbol that is not there.                                    *)
(***************************************************************************)
THEOREM StreamTypes == ASSUME ~InPlace PROVE StreamSpec => []StreamTypeOK
<1>1. IInv => StreamTypeOK
  BY DEF IInv
<1> QED BY InitIInv, StepIInv, <1>1, PTL DEF StreamSpec

(***************************************************************************)
(* For every text, key, lag and set of interrupts a call accepts, and each *)
(* of the nine families: decryption gives the text back.                   *)
(***************************************************************************)
THEOREM RoundTripCorrect == ASSUME ~InPlace PROVE StreamSpec => []RoundTrip
<1>1. IInv => RoundTrip
  <2> SUFFICES ASSUME IInv PROVE RoundTrip
    OBVIOUS
  <2>1. ASSUME pass \in {"decrypt", "done"}
        PROVE  /\ \A p \in 1..(kernel.pos - 1) : kernel.output[p] = plain[p]
               /\ \A s \in Skips(cipher) : secret[s + 1] = plain[s + 1]
    <3>1. Restored /\ Traced /\ Coded = secret /\ Len(trace) = Len(plain) /\ Accepts(cipher, plain)
      BY <2>1 DEF IInv, Underway, Coded
    <3>2. ASSUME NEW s \in Skips(cipher) PROVE secret[s + 1] = plain[s + 1]
      <4>1. s \in Nat /\ s < Len(plain) /\ Len(plain) \in Nat
        BY <3>1 DEF Accepts, Skips, IInv, StreamTypeOK, Cipher
      <4>2. s + 1 \in 1..Len(trace) /\ (s + 1) - 1 \in Skips(cipher)
        BY <3>1, <4>1
      <4> QED BY <3>1, <4>2 DEF Traced
    <3> QED BY <2>1, <3>1, <3>2 DEF Restored
  <2>2. ASSUME pass = "done" PROVE kernel.output = plain
    <3>1. kernel.output \in Texts /\ plain \in Seq(Index29) /\ kernel.pos - 1 = Len(plain)
      BY <2>2 DEF IInv, StreamTypeOK
    <3>2. \A p \in 1..Len(plain) : kernel.output[p] = plain[p]
      BY <2>1, <2>2, <3>1
    <3> QED BY <3>1, <3>2 DEF Texts
  <2> QED BY <2>1, <2>2 DEF RoundTrip
<1> QED BY InitIInv, StepIInv, <1>1, PTL DEF StreamSpec

(***************************************************************************)
(* Why the key stream is the documented one.  The feedback of a position   *)
(* has one entry for each consumable symbol before it, in their order.     *)
(* That is a fact about the finished trace: the first position where it    *)
(* fails would follow one where it holds.                                  *)
(***************************************************************************)
Listed(p) ==
  /\ FeedbackOf(p) \in Seq(Index29)
  /\ Len(FeedbackOf(p)) = Consumed(cipher, p)
  /\ \A j \in 1..Consumed(cipher, p) : \E q \in Taken(cipher, p - 1) :
       Consumed(cipher, q) = j - 1 /\ FeedbackOf(p)[j] = Looked(cipher, q, plain, Coded)

\* Some position of a set of them is the first.
LEMMA FirstPosition ==
  ASSUME NEW n \in Nat, NEW S \in SUBSET (1..n), S # {}
  PROVE  \E m \in S : \A p \in S : m <= p
<1> DEFINE T == {1..p : p \in S}
<1>1. IsFiniteSet(1..n) /\ FiniteSubsetsOf(1..n) = SUBSET (1..n)
  BY FS_Interval, FS_FiniteSubsetsOfFinite
<1>2. T \subseteq FiniteSubsetsOf(1..n) /\ T # {}
  <2>1. \A p \in S : 1..p \in SUBSET (1..n)
    OBVIOUS
  <2>2. T # {}
    OBVIOUS
  <2> QED BY <1>1, <2>1, <2>2
<1> HIDE DEF T
<1>3. \E x \in T : \A y \in T : ~(<<y, x>> \in StrictSubsetOrdering(1..n))
  BY <1>1, <1>2, FS_StrictSubsetOrderingWellFounded, WFMin
<1> USE DEF T
<1>4. PICK m \in S : \A p \in S : ~(<<1..p, 1..m>> \in StrictSubsetOrdering(1..n))
  BY <1>3
<1>5. ASSUME NEW p \in S, ~(m <= p) PROVE FALSE
  <2>1. 1..p \subseteq 1..m /\ m \in 1..m /\ m \notin 1..p /\ 1..m \subseteq 1..n
    BY <1>5
  <2>2. <<1..p, 1..m>> \in StrictSubsetOrdering(1..n)
    BY <2>1 DEF StrictSubsetOrdering
  <2> QED BY <1>4, <2>2
<1> QED BY <1>5

LEMMA FeedbackListed ==
  ASSUME IInv, pass \in {"decrypt", "done"}, cipher.family \in Feedback, cipher.skips # {}
  PROVE  \A p \in 1..Len(plain) : Listed(p)
<1>1. /\ Traced /\ Len(trace) = Len(plain) /\ Len(plain) \in Nat
      /\ trace \in Seq([key : Index29, feedback : Seq(Index29)])
      /\ plain \in Seq(Index29) /\ Coded \in [1..Len(plain) -> Index29]
  BY DEF IInv, Underway, StreamTypeOK, Texts
<1>2. Listed(1)
  <2>1. FeedbackOf(1) = <<>> /\ <<>> \in Seq(Index29) /\ Len(<<>>) = 0
    BY DEF FeedbackOf
  <2>2. 1 \in Nat \ {0}
    OBVIOUS
  <2>3. Consumed(cipher, 1) = 0
    BY <2>2, ConsumedSteps
  <2>4. 1..Consumed(cipher, 1) = {}
    BY <2>3
  <2> QED BY <2>1, <2>3, <2>4 DEF Listed
<1>3. ASSUME NEW p \in 1..Len(plain), Listed(p) PROVE Listed(p + 1)
  <2>1. FeedbackOf(p + 1) = After(p) /\ trace[p].feedback = FeedbackOf(p)
    BY <1>1 DEF FeedbackOf, Traced
  <2>2. /\ Consumed(cipher, p) \in Nat
        /\ Consumed(cipher, p + 1) = Consumed(cipher, p) + (IF p - 1 \in Skips(cipher) THEN 0 ELSE 1)
    <3>1. p \in Nat \ {0}
      BY <1>1
    <3> QED BY <3>1, ConsumedSteps
  <2>3. /\ Taken(cipher, p - 1) \subseteq Taken(cipher, p)
        /\ p - 1 \notin Skips(cipher) => p \in Taken(cipher, p)
        /\ (p + 1) - 1 = p
    BY DEF Taken
  <2>4. CASE p - 1 \in Skips(cipher)
    <3>1. FeedbackOf(p + 1) = FeedbackOf(p) /\ Consumed(cipher, p + 1) = Consumed(cipher, p)
      BY <2>1, <2>2, <2>4 DEF After
    <3> QED BY <1>3, <2>3, <3>1 DEF Listed
  <2>5. CASE p - 1 \notin Skips(cipher)
    <3> DEFINE x == Looked(cipher, p, plain, Coded)
    <3>1. x \in Index29
      BY <1>1 DEF Looked
    <3>2. PICK f \in Seq(Index29) : f = FeedbackOf(p)
      BY <1>3 DEF Listed
    <3>3. PICK n \in Nat : n = Consumed(cipher, p)
      BY <2>2
    <3>4. /\ FeedbackOf(p + 1) = Append(f, x) /\ Consumed(cipher, p + 1) = n + 1 /\ Len(f) = n
      BY <1>3, <2>1, <2>2, <2>5, <3>2, <3>3 DEF After, Listed
    <3>5. ASSUME NEW j \in 1..n
          PROVE  \E q \in Taken(cipher, p) :
                   Consumed(cipher, q) = j - 1 /\ f[j] = Looked(cipher, q, plain, Coded)
      BY <1>3, <2>3, <3>2, <3>3 DEF Listed
    <3> HIDE DEF x
    <3>6. /\ Append(f, x) \in Seq(Index29) /\ Len(Append(f, x)) = n + 1
          /\ \A j \in 1..n : Append(f, x)[j] = f[j]
          /\ Append(f, x)[n + 1] = x
      BY <3>1, <3>4
    <3>7. ASSUME NEW j \in 1..(n + 1)
          PROVE  \E q \in Taken(cipher, p) :
                   Consumed(cipher, q) = j - 1
                   /\ Append(f, x)[j] = Looked(cipher, q, plain, Coded)
      <4>1. CASE j \in 1..n
        BY <3>5, <3>6, <4>1
      <4>2. CASE j = n + 1
        <5>1. p \in Taken(cipher, p) /\ Consumed(cipher, p) = j - 1
          BY <2>3, <2>5, <3>3, <4>2
        <5>2. Append(f, x)[j] = Looked(cipher, p, plain, Coded)
          BY <3>6, <4>2 DEF x
        <5> QED BY <5>1, <5>2
      <4>3. j \in 1..n \/ j = n + 1
        OBVIOUS
      <4> QED BY <4>1, <4>2, <4>3
    <3> QED BY <2>3, <3>4, <3>6, <3>7 DEF Listed
  <2> QED BY <2>4, <2>5
<1>4. SUFFICES ASSUME NEW b \in 1..Len(plain), ~Listed(b) PROVE FALSE
  OBVIOUS
<1> DEFINE S == {p \in 1..Len(plain) : ~Listed(p)}
<1>5. S \in SUBSET (1..Len(plain)) /\ S # {}
  BY <1>4
<1> HIDE DEF S
<1>6. PICK m \in S : \A p \in S : m <= p
  BY <1>1, <1>5, FirstPosition
<1>7. m \in 1..Len(plain) /\ ~Listed(m) /\ \A p \in 1..Len(plain) : p < m => Listed(p)
  BY <1>1, <1>6 DEF S
<1>8. m # 1 /\ m - 1 \in 1..Len(plain) /\ Listed(m - 1) /\ (m - 1) + 1 = m
  BY <1>1, <1>2, <1>7
<1> QED BY <1>3, <1>7, <1>8

(***************************************************************************)
(* Without interrupts every symbol takes a key symbol.                     *)
(***************************************************************************)
LEMMA DenseConsumed ==
  ASSUME Skips(cipher) = {}, NEW p \in Nat \ {0}
  PROVE  Consumed(cipher, p) = p - 1 /\ Taken(cipher, p) = 1..p
<1>1. Taken(cipher, p - 1) = 1..(p - 1) /\ Taken(cipher, p) = 1..p
  BY DEF Taken
<1>2. Cardinality(1..(p - 1)) = p - 1
  BY FS_Interval
<1> QED BY <1>1, <1>2 DEF Consumed

(***************************************************************************)
(* The loop that looks back into the spans and the one that keeps a        *)
(* feedback both give an autokey the key stream it is documented to have,  *)
(* for every primer, lag, set of interrupts and text that is accepted.     *)
(***************************************************************************)
THEOREM KeyStream == ASSUME ~InPlace PROVE StreamSpec => []KeyAsSpecified
<1>1. ASSUME IInv PROVE KeyAsSpecified
  <2> DEFINE stream == IF cipher.family = "ciphertext_autokey" THEN secret ELSE plain
  <2>1. SUFFICES ASSUME cipher.family \in Feedback, pass \in {"decrypt", "done"},
                        NEW p \in Taken(cipher, Len(plain))
                 PROVE  IF Consumed(cipher, p) < cipher.lag
                          THEN trace[p].key = KeyAt(cipher, Consumed(cipher, p))
                          ELSE \E q \in Taken(cipher, Len(plain)) :
                                 Consumed(cipher, q) = Consumed(cipher, p) - cipher.lag
                                 /\ trace[p].key = stream[q]
    BY DEF KeyAsSpecified
  <2>2. /\ Traced /\ Len(trace) = Len(plain) /\ Len(plain) \in Nat /\ Coded = secret
        /\ Accepts(cipher, plain) /\ cipher \in Cipher
    BY <1>1, <2>1 DEF IInv, Underway, StreamTypeOK, Coded
  <2>3. cipher.lag \in Nat /\ cipher.lag > 0
    BY <2>1, <2>2 DEF Accepts, IsPrime, Cipher
  <2>4. p \in 1..Len(plain) /\ p - 1 \notin Skips(cipher) /\ p \in Nat \ {0}
    BY <2>1, <2>2 DEF Taken
  <2>5. /\ trace[p].feedback = FeedbackOf(p)
        /\ trace[p].key = SymbolAt(cipher, p, plain, secret, FeedbackOf(p))
    BY <2>2, <2>4 DEF Traced
  <2>6. \A q : Looked(cipher, q, plain, secret) = stream[q]
    BY DEF Looked
  <2>7. Taken(cipher, p) \subseteq Taken(cipher, Len(plain))
        /\ Taken(cipher, p - 1) \subseteq Taken(cipher, Len(plain))
    BY <2>2, <2>4 DEF Taken
  <2> HIDE DEF stream
  <2>8. CASE cipher.skips = {}
    <3>1. Consumed(cipher, p) = p - 1 /\ Taken(cipher, p) = 1..p
      BY <2>1, <2>4, <2>8, DenseConsumed DEF Skips
    <3>2. trace[p].key = IF p - 1 < cipher.lag THEN KeyAt(cipher, p - 1) ELSE stream[p - cipher.lag]
      BY <2>1, <2>5, <2>6, <2>8 DEF SymbolAt, Feedback, Periodic
    <3>3. ASSUME ~(p - 1 < cipher.lag)
          PROVE  /\ p - cipher.lag \in Taken(cipher, Len(plain))
                 /\ Consumed(cipher, p - cipher.lag) = (p - 1) - cipher.lag
      <4>1. p - cipher.lag \in 1..p /\ p - cipher.lag \in Nat \ {0}
        BY <2>3, <2>4, <3>3
      <4>2. Consumed(cipher, p - cipher.lag) = (p - cipher.lag) - 1
        BY <2>1, <2>8, <4>1, DenseConsumed DEF Skips
      <4> QED BY <2>3, <2>4, <2>7, <3>1, <4>1, <4>2
    <3> QED BY <3>1, <3>2, <3>3
  <2>9. CASE cipher.skips # {}
    <3>1. Listed(p)
      BY <1>1, <2>1, <2>4, <2>9, FeedbackListed
    <3>2. PICK n \in Nat : n = Consumed(cipher, p)
      BY <2>4, ConsumedSteps
    <3>3. Len(FeedbackOf(p)) = n
      BY <3>1, <3>2 DEF Listed
    <3>4. trace[p].key = IF n < cipher.lag THEN KeyAt(cipher, n)
                         ELSE FeedbackOf(p)[n - cipher.lag + 1]
      BY <2>1, <2>5, <2>9, <3>3 DEF SymbolAt, Feedback, Periodic
    <3>5. ASSUME ~(n < cipher.lag)
          PROVE  \E q \in Taken(cipher, Len(plain)) :
                   Consumed(cipher, q) = n - cipher.lag
                   /\ FeedbackOf(p)[n - cipher.lag + 1] = stream[q]
      <4>1. PICK j \in 1..n : j = n - cipher.lag + 1
        BY <2>3, <3>5
      <4>2. PICK q \in Taken(cipher, p - 1) :
              Consumed(cipher, q) = j - 1 /\ FeedbackOf(p)[j] = Looked(cipher, q, plain, secret)
        BY <2>2, <3>1, <3>2 DEF Listed
      <4>3. j - 1 = n - cipher.lag
        BY <2>3, <4>1
      <4> QED BY <2>6, <2>7, <4>1, <4>2, <4>3
    <3> QED BY <3>2, <3>4, <3>5
  <2> QED BY <2>8, <2>9
<1> QED BY InitIInv, StepIInv, <1>1, PTL DEF StreamSpec

-----------------------------------------------------------------------------
(***************************************************************************)
(* Counting without decoding.  Each symbol b of the plain text has one bin *)
(* of the cipher text that holds its positions, under a key symbol k; for  *)
(* an affine map it is the bin that decodes to the symbol.                 *)
(***************************************************************************)
LEMMA Images ==
  ASSUME NEW b \in Index29, NEW x \in Index29, NEW k \in Index29
  PROVE  /\ 28 - b \in Index29 /\ (Atbash(x) = 28 - b <=> x = b)
         /\ (b + k) % 29 \in Index29 /\ (Add(x, k) = (b + k) % 29 <=> x = b)
         /\ (k + 29 - b) % 29 \in Index29 /\ (Sub(k, x) = (k + 29 - b) % 29 <=> x = b)
<1> USE DEF Index29
<1>1. 28 - b \in Index29 /\ (Atbash(x) = 28 - b <=> x = b)
  BY DEF Atbash
<1>2. (b + k) % 29 \in Index29 /\ (k + 29 - b) % 29 \in Index29
  OBVIOUS
<1>3. Add(x, k) = (b + k) % 29 <=> x = b
  BY DEF Add
<1>4. Sub(k, x) = (k + 29 - x) % 29
  BY DEF Sub, Add, Neg
<1>5. (k + 29 - x) % 29 = (k + 29 - b) % 29 <=> x = b
  OBVIOUS
<1> QED
  BY <1>1, <1>2, <1>3, <1>4, <1>5

AffineBin(a, c, y) == CHOOSE x \in Index29 : Mul(Inv(a), Sub(x, c)) = y

LEMMA AffineImage ==
  ASSUME NEW a \in Index29 \ {0}, NEW c \in Index29, NEW y \in Index29
  PROVE  /\ AffineBin(a, c, y) \in Index29
         /\ \A x \in Index29 : Add(Mul(a, x), c) = AffineBin(a, c, y) <=> x = y
<1> DEFINE image == AffineBin(a, c, y)
<1>1. ASSUME NEW x \in Index29
      PROVE  /\ Add(Mul(a, x), c) \in Index29
             /\ Mul(Inv(a), Sub(Add(Mul(a, x), c), c)) = x
  <2>1. Mul(a, x) \in Index29
    BY Residues
  <2>2. Sub(Add(Mul(a, x), c), c) = Mul(a, x) /\ Add(Mul(a, x), c) \in Index29
    BY <2>1, Residues
  <2>3. Mul(Inv(a), Mul(a, x)) = x
    BY Inverses
  <2> QED
    BY <2>2, <2>3
<1>2. \E x \in Index29 : Mul(Inv(a), Sub(x, c)) = y
  BY <1>1
<1>3. image \in Index29 /\ Mul(Inv(a), Sub(image, c)) = y
  BY <1>2 DEF AffineBin
<1>4. \A z \in Index29 : Mul(Inv(a), Sub(z, c)) = y => z = Add(Mul(a, y), c)
  <2> TAKE z \in Index29
  <2> HAVE Mul(Inv(a), Sub(z, c)) = y
  <2>1. Sub(z, c) \in Index29 /\ Add(Sub(z, c), c) = z
    BY DEF Sub, Add, Neg, Index29
  <2>2. Mul(a, Mul(Inv(a), Sub(z, c))) = Sub(z, c)
    BY <2>1, Inverses
  <2> QED
    BY <2>1, <2>2
<1> QED
  BY <1>1, <1>3, <1>4

-----------------------------------------------------------------------------
(***************************************************************************)
(* Adding up columns.  The recursive function exists, as the least length  *)
(* for which it did not would follow one for which it did; and it counts   *)
(* the columns so far, for the same reason.                                *)
(***************************************************************************)
SumTo(f, counts, m) == f = [j \in 0..m |-> IF j = 0 THEN 0 ELSE f[j - 1] + counts[j - 1]]

LEMMA SumExists ==
  ASSUME NEW counts, NEW k \in Nat
  PROVE  \E f : SumTo(f, counts, k)
<1>1. \E f : SumTo(f, counts, 0)
  <2>1. SumTo([j \in 0..0 |-> 0], counts, 0)
    BY DEF SumTo
  <2> QED
    BY <2>1
<1>2. ASSUME NEW m \in Nat, \E f : SumTo(f, counts, m)
      PROVE  \E f : SumTo(f, counts, m + 1)
  <2>1. PICK f : SumTo(f, counts, m)
    BY <1>2
  <2> DEFINE g == [j \in 0..(m + 1) |-> IF j <= m THEN f[j] ELSE f[m] + counts[m]]
  <2>2. \A j \in 0..m : g[j] = f[j] /\ f[j] = IF j = 0 THEN 0 ELSE f[j - 1] + counts[j - 1]
    BY <2>1 DEF SumTo
  <2>3. g[m + 1] = g[m] + counts[m]
    BY <2>2
  <2>4. ASSUME NEW j \in 0..(m + 1)
        PROVE  g[j] = IF j = 0 THEN 0 ELSE g[j - 1] + counts[j - 1]
    <3>1. CASE j = m + 1
      BY <2>3, <3>1
    <3>2. CASE j \in 0..m
      <4>1. j # 0 => j - 1 \in 0..m
        BY <3>2
      <4> QED
        BY <2>2, <3>2, <4>1
    <3> QED
      BY <3>1, <3>2
  <2>5. g = [j \in 0..(m + 1) |-> g[j]]
    OBVIOUS
  <2> HIDE DEF g
  <2>6. SumTo(g, counts, m + 1)
    BY <2>4, <2>5 DEF SumTo
  <2> QED
    BY <2>6
<1>3. SUFFICES ASSUME ~\E f : SumTo(f, counts, k) PROVE FALSE
  OBVIOUS
<1> DEFINE S == {m \in 1..k : ~\E f : SumTo(f, counts, m)}
<1>4. S \in SUBSET (1..k) /\ S # {}
  <2>1. k # 0
    BY <1>1, <1>3
  <2>2. k \in S
    BY <1>3, <2>1
  <2> QED
    BY <2>2
<1>5. PICK m \in S : \A p \in S : m <= p
  <2> HIDE DEF S
  <2> QED
    BY <1>4, FirstPosition
<1>6. m \in 1..k /\ ~(\E f : SumTo(f, counts, m)) /\ m - 1 \in Nat /\ (m - 1) + 1 = m
  BY <1>5
<1>7. \E f : SumTo(f, counts, m - 1)
  <2>1. CASE m = 1
    BY <1>1, <2>1
  <2>2. CASE m # 1
    <3>1. m - 1 \in 1..k /\ ~(m <= m - 1)
      BY <1>6, <2>2
    <3>2. m - 1 \notin S
      BY <1>5, <3>1
    <3> QED
      BY <3>1, <3>2
  <2> QED
    BY <2>1, <2>2
<1> HIDE DEF S
<1> QED
  BY <1>2, <1>6, <1>7

LEMMA SummedIs ==
  ASSUME NEW counts, NEW k \in Nat
  PROVE  \E f : SumTo(f, counts, k) /\ Summed(counts, k) = f[k]
<1> DEFINE f == CHOOSE g : g = [j \in 0..k |-> IF j = 0 THEN 0 ELSE g[j - 1] + counts[j - 1]]
<1>1. SumTo(f, counts, k)
  BY SumExists DEF SumTo
<1>2. Summed(counts, k) = f[k]
  BY DEF Summed
<1> QED
  BY <1>1, <1>2

Column(t, n, k, j, b) == {p \in 1..n : (p - 1) % k = j /\ t[p] = b}
Places(t, n, b) == {p \in 1..n : t[p] = b}

LEMMA ColumnsAddUp ==
  ASSUME NEW n \in Nat, NEW t, NEW k \in Nat \ {0}, NEW b, NEW counts,
         \A j \in 0..(k - 1) : counts[j] = Cardinality(Column(t, n, k, j, b))
  PROVE  Summed(counts, k) = Cardinality(Places(t, n, b))
<1> DEFINE Upto(m) == {p \in 1..n : (p - 1) % k < m /\ t[p] = b}
<1>0. \A p \in 1..n : (p - 1) % k \in 0..(k - 1)
  <2> TAKE p \in 1..n
  <2>1. p - 1 \in Nat
    OBVIOUS
  <2> QED
    BY <2>1, Remainder
<1>1. PICK f : SumTo(f, counts, k) /\ Summed(counts, k) = f[k]
  BY SummedIs
<1>2. f[0] = 0 /\ \A j \in 1..k : f[j] = f[j - 1] + counts[j - 1]
  <2>1. PICK g : g = [j \in 0..k |-> IF j = 0 THEN 0 ELSE f[j - 1] + counts[j - 1]] /\ f = g
    BY <1>1 DEF SumTo
  <2>2. \A j \in 0..k : g[j] = IF j = 0 THEN 0 ELSE f[j - 1] + counts[j - 1]
    BY <2>1, Zenon
  <2>3. \A j \in 0..k : f[j] = IF j = 0 THEN 0 ELSE f[j - 1] + counts[j - 1]
    BY <2>1, <2>2, Zenon
  <2>4. 0 \in 0..k /\ \A j \in 1..k : j \in 0..k /\ j # 0
    OBVIOUS
  <2> QED
    BY <2>3, <2>4, Zenon
<1>3. f[0] = Cardinality(Upto(0))
  <2>1. Upto(0) = {}
    BY <1>0
  <2> QED
    BY <1>2, <2>1, FS_EmptySet
<1>4. ASSUME NEW j \in 0..(k - 1), f[j] = Cardinality(Upto(j))
      PROVE  f[j + 1] = Cardinality(Upto(j + 1))
  <2>1. Upto(j + 1) = Upto(j) \cup Column(t, n, k, j, b) /\ Upto(j) \cap Column(t, n, k, j, b) = {}
    BY <1>0 DEF Column
  <2>2. IsFiniteSet(1..n)
    BY FS_Interval
  <2>3. IsFiniteSet(Upto(j)) /\ IsFiniteSet(Column(t, n, k, j, b))
    <3>1. Upto(j) \subseteq 1..n /\ Column(t, n, k, j, b) \subseteq 1..n
      BY DEF Column
    <3> QED
      BY <2>2, <3>1, FS_Subset
  <2>4. counts[j] = Cardinality(Column(t, n, k, j, b))
    OBVIOUS
  <2>5. f[j + 1] = f[j] + counts[j]
    <3>1. j + 1 \in 1..k /\ (j + 1) - 1 = j
      OBVIOUS
    <3> QED
      BY <1>2, <3>1
  <2> HIDE DEF Upto
  <2>6. Cardinality(Upto(j) \cup Column(t, n, k, j, b))
          = Cardinality(Upto(j)) + Cardinality(Column(t, n, k, j, b)) - Cardinality(Upto(j) \cap Column(t, n, k, j, b))
    BY <2>3, FS_Union
  <2>7. Cardinality({}) = 0 /\ Cardinality(Upto(j)) \in Nat /\ Cardinality(Column(t, n, k, j, b)) \in Nat
    BY <2>3, FS_EmptySet, FS_CardinalityType
  <2>8. Cardinality(Upto(j + 1)) = Cardinality(Upto(j)) + Cardinality(Column(t, n, k, j, b))
    <3>1. PICK u \in Nat, c \in Nat : u = Cardinality(Upto(j)) /\ c = Cardinality(Column(t, n, k, j, b))
      BY <2>7
    <3>2. Cardinality(Upto(j + 1)) = u + c - 0
      BY <2>1, <2>6, <2>7, <3>1, Zenon
    <3>3. u + c - 0 = u + c
      OBVIOUS
    <3> QED
      BY <3>1, <3>2, <3>3
  <2> QED
    BY <1>4, <2>4, <2>5, <2>8
<1>5. f[k] = Cardinality(Upto(k))
  <2> SUFFICES ASSUME f[k] # Cardinality(Upto(k)) PROVE FALSE
    OBVIOUS
  <2> DEFINE S == {j \in 1..k : f[j] # Cardinality(Upto(j))}
  <2>1. k \in S /\ S \in SUBSET (1..k)
    OBVIOUS
  <2> HIDE DEF S, Upto
  <2>2. PICK m \in S : \A p \in S : m <= p
    <3>1. S # {}
      BY <2>1
    <3> QED
      BY <2>1, <3>1, FirstPosition
  <2> USE DEF S
  <2>3. m \in 1..k /\ f[m] # Cardinality(Upto(m)) /\ m - 1 \in 0..(k - 1) /\ (m - 1) + 1 = m
    BY <2>2
  <2>4. f[m - 1] = Cardinality(Upto(m - 1))
    <3>1. CASE m = 1
      BY <1>3, <3>1
    <3>2. CASE m # 1
      <4>1. m - 1 \in 1..k /\ ~(m <= m - 1)
        BY <2>3, <3>2
      <4>2. m - 1 \notin S
        <5> HIDE DEF S
        <5> QED
          BY <2>2, <4>1
      <4> QED
        BY <4>1, <4>2
    <3> QED
      BY <3>1, <3>2
  <2>5. f[(m - 1) + 1] = Cardinality(Upto((m - 1) + 1))
    BY <1>4, <2>3, <2>4
  <2> QED
    BY <2>3, <2>5
<1>6. Upto(k) = Places(t, n, b)
  BY <1>0 DEF Places
<1> QED
  BY <1>1, <1>5, <1>6

-----------------------------------------------------------------------------
(***************************************************************************)
(* The finished round trip, without interrupts: every symbol of the cipher *)
(* text is the image of its symbol under the key symbol of its position.   *)
(***************************************************************************)
LEMMA Finished ==
  ASSUME IInv, pass = "done"
  PROVE  /\ Len(plain) \in Nat /\ plain \in Seq(Index29) /\ secret \in [1..Len(plain) -> Index29]
         /\ DOMAIN plain = 1..Len(plain)
         /\ kernel.output = plain /\ cipher \in Cipher /\ Accepts(cipher, plain)
         /\ Skips(cipher) = {} =>
              \A p \in 1..Len(plain) : \E feedback :
                secret[p] = Encrypted(cipher, plain[p], SymbolAt(cipher, p, plain, secret, feedback))
<1>1. /\ Traced /\ Len(trace) = Len(plain) /\ Coded = secret /\ Restored
      /\ plain \in Seq(Index29) /\ secret \in [1..Len(plain) -> Index29]
      /\ kernel.output \in [1..Len(plain) -> Index29] /\ kernel.pos = Len(plain) + 1
      /\ cipher \in Cipher /\ Accepts(cipher, plain) /\ Len(plain) \in Nat
  BY DEF IInv, Underway, StreamTypeOK, Coded, Texts
<1>2. kernel.output = plain
  BY <1>1 DEF Restored
<1>3. ASSUME Skips(cipher) = {}, NEW p \in 1..Len(plain)
      PROVE  \E feedback :
               secret[p] = Encrypted(cipher, plain[p], SymbolAt(cipher, p, plain, secret, feedback))
  BY <1>1, <1>3 DEF Traced
<1> QED
  BY <1>1, <1>2, <1>3

LEMMA ElementwiseCounted ==
  ASSUME IInv, pass = "done", cipher.family \in {"atbash", "caesar", "affine"}
  PROVE  CatalogCounts(cipher, secret) = CipherHist(kernel.output)
<1> DEFINE n == Len(plain)
<1>1. Skips(cipher) = {}
  BY DEF Skips, Elementwise
<1>2. /\ n \in Nat /\ plain \in Seq(Index29) /\ secret \in [1..n -> Index29]
      /\ DOMAIN plain = 1..n /\ DOMAIN secret = 1..n
      /\ kernel.output = plain /\ cipher \in Cipher /\ Accepts(cipher, plain)
      /\ \A p \in 1..n : plain[p] \in Index29
      /\ \A p \in 1..n : \E feedback :
           secret[p] = Encrypted(cipher, plain[p], SymbolAt(cipher, p, plain, secret, feedback))
  BY <1>1, Finished
<1>3. cipher.key \in Seq(Index29)
  BY <1>2 DEF Cipher
<1> HIDE DEF n
<1>4. CipherHist(plain) = [b \in Index29 |-> CipherHist(plain)[b]]
  BY DEF CipherHist, HistOf
<1>5. ASSUME NEW b \in Index29, NEW image \in Index29,
             \A p \in 1..n : secret[p] = image <=> plain[p] = b
      PROVE  CipherHist(secret)[image] = CipherHist(plain)[b]
  <2>1. CipherHist(secret) = HistOf(secret, 1..n) /\ CipherHist(plain) = HistOf(plain, 1..n)
    BY <1>2 DEF CipherHist
  <2>2. HistOf(secret, 1..n)[image] = HistOf(plain, 1..n)[b]
    <3>1. {p \in 1..n : secret[p] = image} = {p \in 1..n : plain[p] = b}
      BY <1>5
    <3> QED
      BY <1>5, <3>1 DEF HistOf
  <2> QED
    BY <2>1, <2>2
<1>6. CASE cipher.family = "atbash"
  <2>1. \A p \in 1..n : secret[p] = Atbash(plain[p])
    BY <1>2, <1>6 DEF Encrypted
  <2>2. ASSUME NEW b \in Index29
        PROVE  CipherHist(secret)[28 - b] = CipherHist(plain)[b]
    <3>1. PICK image \in Index29 : image = 28 - b
      BY DEF Index29
    <3>2. ASSUME NEW p \in 1..n PROVE secret[p] = image <=> plain[p] = b
      <4>1. PICK x \in Index29 : x = plain[p]
        BY <1>2
      <4>2. Atbash(x) = 28 - b <=> x = b
        BY Images
      <4> QED
        BY <2>1, <3>1, <4>1, <4>2
    <3> QED
      BY <1>5, <3>1, <3>2
  <2>3. CatalogCounts(cipher, secret) = [b \in Index29 |-> CipherHist(secret)[28 - b]]
    BY <1>6 DEF CatalogCounts, AtbashRemap
  <2> QED
    BY <1>2, <1>4, <2>2, <2>3
<1>7. CASE cipher.family = "caesar"
  <2>1. PICK k \in Index29 : k = cipher.key[1]
    BY <1>2, <1>3, <1>7 DEF Accepts
  <2>2. \A p \in 1..n : secret[p] = Add(plain[p], k)
    BY <1>2, <1>7, <2>1 DEF Encrypted, SymbolAt, Periodic, Feedback
  <2>3. ASSUME NEW b \in Index29
        PROVE  CipherHist(secret)[(b + k) % 29] = CipherHist(plain)[b]
    <3>1. PICK image \in Index29 : image = (b + k) % 29
      BY Images
    <3>2. ASSUME NEW p \in 1..n PROVE secret[p] = image <=> plain[p] = b
      <4>1. PICK x \in Index29 : x = plain[p]
        BY <1>2
      <4>2. Add(x, k) = (b + k) % 29 <=> x = b
        BY Images
      <4> QED
        BY <2>2, <3>1, <4>1, <4>2
    <3> QED
      BY <1>5, <3>1, <3>2
  <2>4. CatalogCounts(cipher, secret) = [b \in Index29 |-> CipherHist(secret)[(b + k) % 29]]
    BY <1>7, <2>1 DEF CatalogCounts, CaesarRemap
  <2> QED
    BY <1>2, <1>4, <2>3, <2>4
<1>8. CASE cipher.family = "affine"
  <2>1. PICK a \in Index29 \ {0}, c \in Index29 : a = cipher.key[1] /\ c = cipher.key[2]
    BY <1>2, <1>3, <1>8 DEF Accepts
  <2>2. \A p \in 1..n : secret[p] = Add(Mul(a, plain[p]), c)
    BY <1>2, <1>8, <2>1 DEF Encrypted, SymbolAt, Periodic, Feedback
  <2>3. ASSUME NEW y \in Index29
        PROVE  CipherHist(secret)[AffineBin(a, c, y)] = CipherHist(plain)[y]
    <3>1. PICK image \in Index29 : image = AffineBin(a, c, y)
      BY AffineImage
    <3>2. \A p \in 1..n : secret[p] = image <=> plain[p] = y
      BY <1>2, <2>2, <3>1, AffineImage
    <3>3. CipherHist(secret)[image] = CipherHist(plain)[y]
      BY <1>5, <3>2
    <3> QED
      BY <3>1, <3>3, Zenon
  <2>4. CatalogCounts(cipher, secret) =
          [y \in Index29 |-> CipherHist(secret)[AffineBin(a, c, y)]]
    <3>1. CatalogCounts(cipher, secret) = AffineRemap(CipherHist(secret), cipher.key[1], cipher.key[2])
      BY <1>8 DEF CatalogCounts
    <3>2. AffineRemap(CipherHist(secret), cipher.key[1], cipher.key[2])
            = AffineRemap(CipherHist(secret), a, c)
      BY <2>1
    <3>3. AffineRemap(CipherHist(secret), a, c)
            = [y \in Index29 |-> CipherHist(secret)[AffineBin(a, c, y)]]
      BY DEF AffineRemap, AffineBin
    <3> QED
      BY <3>1, <3>2, <3>3
  <2>5. CatalogCounts(cipher, secret) = [y \in Index29 |-> CipherHist(plain)[y]]
    BY <2>3, <2>4, Zenon
  <2> QED
    BY <1>2, <1>4, <2>5
<1> QED
  BY <1>6, <1>7, <1>8

(***************************************************************************)
(* With a periodic key: a column counts, in the bin that its key symbol    *)
(* makes of b, its own positions of b; and the columns are all there are.  *)
(***************************************************************************)
BinnedBy(coded, k, image) == [j \in 0..(k - 1) |-> ColumnHists(coded, k)[j][image[j]]]
ImagesOf(b, text, coded, n, k, image) == \A p \in 1..n : coded[p] = image[(p - 1) % k] <=> text[p] = b

LEMMA ColumnsCount ==
  ASSUME NEW n \in Nat, NEW k \in Nat \ {0}, NEW b \in Index29,
         NEW coded, DOMAIN coded = 1..n, NEW text, DOMAIN text = 1..n,
         NEW image \in [0..(k - 1) -> Index29], ImagesOf(b, text, coded, n, k, image)
  PROVE  Summed(BinnedBy(coded, k, image), k) = CipherHist(text)[b]
<1>1. ASSUME NEW j \in 0..(k - 1)
      PROVE  ColumnHists(coded, k)[j][image[j]] = Cardinality(Column(text, n, k, j, b))
  <2>1. ColumnHists(coded, k)[j] = HistOf(coded, {p \in 1..n : (p - 1) % k = j})
    BY DEF ColumnHists
  <2>2. PICK y \in Index29 : y = image[j]
    OBVIOUS
  <2>3. HistOf(coded, {p \in 1..n : (p - 1) % k = j})[y]
          = Cardinality({m \in {p \in 1..n : (p - 1) % k = j} : coded[m] = y})
    BY DEF HistOf
  <2>4. {m \in {p \in 1..n : (p - 1) % k = j} : coded[m] = y} = Column(text, n, k, j, b)
    BY <2>2 DEF Column, ImagesOf
  <2> QED
    BY <2>1, <2>2, <2>3, <2>4
<1>2. \A j \in 0..(k - 1) : BinnedBy(coded, k, image)[j] = Cardinality(Column(text, n, k, j, b))
  BY <1>1 DEF BinnedBy
<1>3. Summed(BinnedBy(coded, k, image), k) = Cardinality(Places(text, n, b))
  BY <1>2, ColumnsAddUp
<1>4. CipherHist(text)[b] = Cardinality(Places(text, n, b))
  BY DEF CipherHist, HistOf, Places
<1> QED
  BY <1>3, <1>4

LEMMA PeriodicCounted ==
  ASSUME IInv, pass = "done", Skips(cipher) = {}, cipher.family \in {"vigenere_key", "beaufort_key"}
  PROVE  CatalogCounts(cipher, secret) = CipherHist(kernel.output)
<1>1. PICK n \in Nat : n = Len(plain)
  BY Finished
<1>2. /\ plain \in Seq(Index29) /\ secret \in [1..n -> Index29]
      /\ DOMAIN plain = 1..n /\ DOMAIN secret = 1..n
      /\ kernel.output = plain /\ cipher \in Cipher /\ Accepts(cipher, plain)
      /\ \A p \in 1..n : plain[p] \in Index29
      /\ \A p \in 1..n : \E feedback :
           secret[p] = Encrypted(cipher, plain[p], SymbolAt(cipher, p, plain, secret, feedback))
  BY <1>1, Finished
<1>3. cipher.key \in Seq(Index29) /\ cipher.key # <<>>
  BY <1>2 DEF Cipher, Accepts, Periodic
<1>4. PICK k \in Nat \ {0} : k = Len(cipher.key)
  BY <1>3
<1> DEFINE Key(j) == cipher.key[j + 1]
           cols   == ColumnHists(secret, k)
<1>5. \A j \in 0..(k - 1) : Key(j) \in Index29
  BY <1>3, <1>4
<1>6. ASSUME NEW p \in 1..n
      PROVE  /\ (p - 1) % k \in 0..(k - 1)
             /\ \A feedback : SymbolAt(cipher, p, plain, secret, feedback) = Key((p - 1) % k)
  <2>1. Consumed(cipher, p) = p - 1 /\ p - 1 \in Nat
    <3>1. p \in Nat \ {0}
      OBVIOUS
    <3> QED
      BY <3>1, DenseConsumed
  <2>2. (p - 1) % k \in 0..(k - 1)
    BY <2>1, Remainder
  <2>3. KeyAt(cipher, p - 1) = Key((p - 1) % k)
    BY <1>4 DEF KeyAt
  <2>4. \A feedback : SymbolAt(cipher, p, plain, secret, feedback) = KeyAt(cipher, Consumed(cipher, p))
    BY DEF SymbolAt, Periodic, Feedback
  <2> QED
    BY <2>1, <2>2, <2>3, <2>4
<1>7. DOMAIN cols = 0..(k - 1) /\ Cardinality(0..(k - 1)) = k
  <2>1. Cardinality(0..(k - 1)) = k
    BY FS_Interval
  <2> QED
    BY <2>1 DEF ColumnHists
<1>8. CipherHist(plain) = [b \in Index29 |-> CipherHist(plain)[b]]
  BY DEF CipherHist, HistOf
<1> HIDE DEF cols, Key
<1>9. ASSUME NEW b \in Index29, NEW image \in [0..(k - 1) -> Index29],
             \A p \in 1..n : secret[p] = image[(p - 1) % k] <=> plain[p] = b
      PROVE  Summed([j \in 0..(k - 1) |-> cols[j][image[j]]], k) = CipherHist(plain)[b]
  <2>1. ImagesOf(b, plain, secret, n, k, image)
    BY <1>9 DEF ImagesOf
  <2>2. Summed(BinnedBy(secret, k, image), k) = CipherHist(plain)[b]
    BY <1>2, <2>1, ColumnsCount
  <2> QED
    BY <2>2 DEF cols, BinnedBy
<1>10. CASE cipher.family = "vigenere_key"
  <2>1. \A p \in 1..n : secret[p] = Add(plain[p], Key((p - 1) % k))
    BY <1>2, <1>6, <1>10 DEF Encrypted
  <2>2. ASSUME NEW b \in Index29
        PROVE  Summed([j \in 0..(k - 1) |-> cols[j][(b + Key(j)) % 29]], k) = CipherHist(plain)[b]
    <3> DEFINE image == [j \in 0..(k - 1) |-> (b + Key(j)) % 29]
    <3>1. image \in [0..(k - 1) -> Index29]
      BY <1>5, Images
    <3>2. ASSUME NEW p \in 1..n PROVE secret[p] = image[(p - 1) % k] <=> plain[p] = b
      <4>1. PICK j \in 0..(k - 1) : j = (p - 1) % k
        BY <1>6
      <4>2. PICK x \in Index29, s \in Index29 : x = plain[p] /\ s = Key(j)
        BY <1>2, <1>5
      <4>3. Add(x, s) = (b + s) % 29 <=> x = b
        BY Images
      <4> QED
        BY <2>1, <4>1, <4>2, <4>3
    <3>3. Summed([j \in 0..(k - 1) |-> cols[j][image[j]]], k) = CipherHist(plain)[b]
      <4> HIDE DEF image
      <4> QED
        BY <1>9, <3>1, <3>2
    <3>4. [j \in 0..(k - 1) |-> cols[j][image[j]]] = [j \in 0..(k - 1) |-> cols[j][(b + Key(j)) % 29]]
      OBVIOUS
    <3> QED
      BY <3>3, <3>4
  <2>3. CatalogCounts(cipher, secret)
          = [b \in Index29 |-> Summed([j \in 0..(k - 1) |-> cols[j][(b + Key(j)) % 29]], k)]
    <3>1. CatalogCounts(cipher, secret) = VigenereRemap(cols, cipher.key)
      BY <1>4, <1>10 DEF CatalogCounts, cols
    <3>2. VigenereRemap(cols, cipher.key) = ColumnRemap(cols, [j \in 0..(k - 1) |-> Key(j)], TRUE)
      BY <1>7 DEF VigenereRemap, Key
    <3>3. ColumnRemap(cols, [j \in 0..(k - 1) |-> Key(j)], TRUE)
            = [b \in Index29 |-> Summed([j \in 0..(k - 1) |-> cols[j][(b + Key(j)) % 29]], k)]
      BY <1>7 DEF ColumnRemap
    <3> QED
      BY <3>1, <3>2, <3>3
  <2> QED
    BY <1>2, <1>8, <2>2, <2>3
<1>11. CASE cipher.family = "beaufort_key"
  <2>1. \A p \in 1..n : secret[p] = Sub(Key((p - 1) % k), plain[p])
    BY <1>2, <1>6, <1>11 DEF Encrypted
  <2>2. ASSUME NEW b \in Index29
        PROVE  Summed([j \in 0..(k - 1) |-> cols[j][(Key(j) + 29 - b) % 29]], k) = CipherHist(plain)[b]
    <3> DEFINE image == [j \in 0..(k - 1) |-> (Key(j) + 29 - b) % 29]
    <3>1. image \in [0..(k - 1) -> Index29]
      BY <1>5, Images
    <3>2. ASSUME NEW p \in 1..n PROVE secret[p] = image[(p - 1) % k] <=> plain[p] = b
      <4>1. PICK j \in 0..(k - 1) : j = (p - 1) % k
        BY <1>6
      <4>2. PICK x \in Index29, s \in Index29 : x = plain[p] /\ s = Key(j)
        BY <1>2, <1>5
      <4>3. Sub(s, x) = (s + 29 - b) % 29 <=> x = b
        BY Images
      <4> QED
        BY <2>1, <4>1, <4>2, <4>3
    <3>3. Summed([j \in 0..(k - 1) |-> cols[j][image[j]]], k) = CipherHist(plain)[b]
      <4> HIDE DEF image
      <4> QED
        BY <1>9, <3>1, <3>2
    <3>4. [j \in 0..(k - 1) |-> cols[j][image[j]]]
            = [j \in 0..(k - 1) |-> cols[j][(Key(j) + 29 - b) % 29]]
      OBVIOUS
    <3> QED
      BY <3>3, <3>4
  <2>3. CatalogCounts(cipher, secret)
          = [b \in Index29 |-> Summed([j \in 0..(k - 1) |-> cols[j][(Key(j) + 29 - b) % 29]], k)]
    <3>1. CatalogCounts(cipher, secret) = BeaufortRemap(cols, cipher.key)
      BY <1>4, <1>11 DEF CatalogCounts, cols
    <3>2. BeaufortRemap(cols, cipher.key)
            = [b \in Index29 |-> Summed([j \in 0..(k - 1) |-> cols[j][(Key(j) + 29 - b) % 29]], k)]
      BY <1>7 DEF BeaufortRemap, Key
    <3> QED
      BY <3>1, <3>2
  <2> QED
    BY <1>2, <1>8, <2>2, <2>3
<1> QED
  BY <1>10, <1>11

(***************************************************************************)
(* What the alphabet search counts for a candidate without decoding it are *)
(* the symbols of the text the candidate decrypts to: for every text and   *)
(* every parameter of the five families, not only those of the run.        *)
(***************************************************************************)
THEOREM CatalogCounted == ASSUME ~InPlace PROVE StreamSpec => []CatalogAsDecoded
<1>1. IInv => CatalogAsDecoded
  BY ElementwiseCounted, PeriodicCounted DEF CatalogAsDecoded, Countable, Elementwise, Periodic
<1> QED
  BY InitIInv, StepIInv, <1>1, PTL DEF StreamSpec

-----------------------------------------------------------------------------
(***************************************************************************)
(* Reckoning mod 29 with integers that have not been reduced.              *)
(***************************************************************************)
Cong(a, b) == \E k \in Int : a = b + 29 * k

LEMMA CongKeeps ==
  ASSUME NEW a \in Int, NEW b \in Int, NEW c \in Int, NEW d \in Int, Cong(a, b), Cong(c, d)
  PROVE  Cong(a + c, b + d) /\ Cong(a - c, b - d) /\ Cong(a * c, b * d)
<1>1. PICK k \in Int : a = b + 29 * k
  BY DEF Cong
<1>2. PICK l \in Int : c = d + 29 * l
  BY DEF Cong
<1>3. k + l \in Int /\ a + c = b + d + 29 * (k + l)
  BY <1>1, <1>2
<1>4. k - l \in Int /\ a - c = b - d + 29 * (k - l)
  BY <1>1, <1>2
<1>5. PICK q \in Int : q = b * l + k * d + 29 * (k * l)
  OBVIOUS
<1>6. a * c = b * d + 29 * q
  BY <1>1, <1>2, <1>5
<1> QED
  BY <1>3, <1>4, <1>6 DEF Cong

LEMMA CongReduced ==
  /\ \A a \in Int : Cong(a % 29, a) /\ a % 29 \in Index29
  /\ \A a, b \in Index29 : Cong(a, b) => a = b
  /\ \A a \in Int : Cong(a, a)
<1>1. ASSUME NEW a \in Int PROVE Cong(a % 29, a) /\ a % 29 \in Index29
  <2>1. a % 29 \in 0..28
    OBVIOUS
  <2>2. a \div 29 \in Int
    OBVIOUS
  <2>3. a = 29 * (a \div 29) + (a % 29)
    OBVIOUS
  <2>4. PICK q \in Int : q = a \div 29
    BY <2>2
  <2>5. (a % 29) = a + 29 * (-q) /\ -q \in Int
    BY <2>1, <2>3, <2>4
  <2> QED
    BY <2>1, <2>5 DEF Cong, Index29
<1>2. ASSUME NEW a \in Index29, NEW b \in Index29, Cong(a, b) PROVE a = b
  BY <1>2 DEF Cong, Index29
<1>3. ASSUME NEW a \in Int PROVE Cong(a, a)
  <2>1. a = a + 29 * 0 /\ 0 \in Int
    OBVIOUS
  <2> QED
    BY <2>1 DEF Cong
<1> QED
  BY <1>1, <1>2, <1>3

LEMMA IndexIsInt == \A x \in Index29 : x \in Int
BY DEF Index29

LEMMA CongThrough ==
  ASSUME NEW a \in Int, NEW b \in Int, NEW c \in Int, Cong(a, b), Cong(b, c)
  PROVE  Cong(a, c)
<1>1. PICK k \in Int : a = b + 29 * k
  BY DEF Cong
<1>2. PICK l \in Int : b = c + 29 * l
  BY DEF Cong
<1>3. k + l \in Int /\ a = c + 29 * (k + l)
  BY <1>1, <1>2
<1> QED
  BY <1>3 DEF Cong

LEMMA ResiduesCong ==
  ASSUME NEW x \in Index29, NEW y \in Index29, NEW a \in Int, NEW b \in Int,
         Cong(x, a), Cong(y, b)
  PROVE  /\ Add(x, y) \in Index29 /\ Cong(Add(x, y), a + b)
         /\ Sub(x, y) \in Index29 /\ Cong(Sub(x, y), a - b)
         /\ Mul(x, y) \in Index29 /\ Cong(Mul(x, y), a * b)
         /\ Neg(y) \in Index29 /\ Cong(Neg(y), -b)
<1>1. x \in Int /\ y \in Int /\ a + b \in Int /\ a - b \in Int /\ a * b \in Int /\ -b \in Int
  BY DEF Index29
<1>2. Cong(x + y, a + b) /\ Cong(x * y, a * b) /\ Cong(x - y, a - b)
  BY <1>1, CongKeeps
<1>3. Add(x, y) \in Index29 /\ Cong(Add(x, y), a + b)
  <2>1. Cong((x + y) % 29, x + y) /\ (x + y) % 29 \in Index29
    BY <1>1, CongReduced
  <2>2. x + y \in Int /\ (x + y) % 29 \in Int
    BY <1>1, <2>1 DEF Index29
  <2> QED
    BY <1>1, <1>2, <2>1, <2>2, CongThrough DEF Add
<1>4. Mul(x, y) \in Index29 /\ Cong(Mul(x, y), a * b)
  <2>1. PICK p \in Int : p = x * y
    BY <1>1
  <2>2. Cong(p % 29, p) /\ p % 29 \in Index29
    BY CongReduced
  <2>3. p % 29 \in Int
    BY <2>2 DEF Index29
  <2> QED
    BY <1>1, <1>2, <2>1, <2>2, <2>3, CongThrough DEF Mul
<1>5. Neg(y) \in Index29 /\ Cong(Neg(y), -b)
  <2>1. Neg(y) \in Index29 /\ Cong(Neg(y), 0 - y)
    <3>1. Neg(y) = (0 - y) + 29 * (IF y = 0 THEN 0 ELSE 1)
      BY DEF Neg, Index29
    <3>2. (IF y = 0 THEN 0 ELSE 1) \in Int
      OBVIOUS
    <3>3. Cong(Neg(y), 0 - y)
      BY <3>1, <3>2 DEF Cong
    <3> QED
      BY <3>3 DEF Neg, Index29
  <2>2. Cong(0, 0) /\ 0 - b = -b
    BY CongReduced
  <2>3. Cong(0 - y, 0 - b)
    BY <1>1, <2>2, CongKeeps
  <2>4. Neg(y) \in Int /\ 0 - y \in Int /\ 0 - b \in Int
    BY <1>1, <2>1 DEF Index29
  <2>5. Cong(Neg(y), 0 - b)
    BY <2>1, <2>3, <2>4, CongThrough
  <2> QED
    BY <2>1, <2>2, <2>5
<1>6. Sub(x, y) \in Index29 /\ Cong(Sub(x, y), a - b)
  <2>1. Neg(y) \in Int /\ x + Neg(y) \in Int
    BY <1>1, <1>5 DEF Index29
  <2>2. Cong(x + Neg(y), a + (-b)) /\ a + (-b) = a - b
    BY <1>1, <1>5, <2>1, CongKeeps
  <2>3. Cong((x + Neg(y)) % 29, x + Neg(y)) /\ (x + Neg(y)) % 29 \in Index29
    BY <2>1, CongReduced
  <2>4. (x + Neg(y)) % 29 \in Int
    BY <2>3 DEF Index29
  <2> QED
    BY <1>1, <2>1, <2>2, <2>3, <2>4, CongThrough DEF Sub, Add
<1> QED
  BY <1>3, <1>4, <1>5, <1>6
-----------------------------------------------------------------------------
(***************************************************************************)
(* Rows times columns, as integers and as residues.                        *)
(***************************************************************************)
Dot(a1, a2, a3, b1, b2, b3) == a1 * b1 + a2 * b2 + a3 * b3
DotMod(a1, a2, a3, b1, b2, b3) == Add(Add(Mul(a1, b1), Mul(a2, b2)), Mul(a3, b3))

LEMMA DotCong ==
  ASSUME NEW u1 \in Int, NEW u2 \in Int, NEW u3 \in Int,
         NEW e1 \in Int, NEW e2 \in Int, NEW e3 \in Int,
         Cong(u1, e1), Cong(u2, e2), Cong(u3, e3),
         NEW v1 \in Int, NEW v2 \in Int, NEW v3 \in Int
  PROVE  /\ Dot(u1, u2, u3, v1, v2, v3) \in Int /\ Dot(e1, e2, e3, v1, v2, v3) \in Int
         /\ Cong(Dot(u1, u2, u3, v1, v2, v3), Dot(e1, e2, e3, v1, v2, v3))
<1>1. Cong(v1, v1) /\ Cong(v2, v2) /\ Cong(v3, v3)
  BY CongReduced
<1>2. PICK m1 \in Int : m1 = u1 * v1
  OBVIOUS
<1>3. PICK m2 \in Int : m2 = u2 * v2
  OBVIOUS
<1>4. PICK m3 \in Int : m3 = u3 * v3
  OBVIOUS
<1>5. PICK n1 \in Int : n1 = e1 * v1
  OBVIOUS
<1>6. PICK n2 \in Int : n2 = e2 * v2
  OBVIOUS
<1>7. PICK n3 \in Int : n3 = e3 * v3
  OBVIOUS
<1>8. Cong(m1, n1) /\ Cong(m2, n2) /\ Cong(m3, n3)
  BY <1>1, <1>2, <1>3, <1>4, <1>5, <1>6, <1>7, CongKeeps
<1>9. Cong(m1 + m2, n1 + n2)
  BY <1>8, CongKeeps
<1>10. Cong(m1 + m2 + m3, n1 + n2 + n3)
  <2>1. m1 + m2 \in Int /\ n1 + n2 \in Int
    OBVIOUS
  <2> QED
    BY <1>8, <1>9, <2>1, CongKeeps
<1>11. Dot(u1, u2, u3, v1, v2, v3) = m1 + m2 + m3 /\ Dot(e1, e2, e3, v1, v2, v3) = n1 + n2 + n3
  BY <1>2, <1>3, <1>4, <1>5, <1>6, <1>7 DEF Dot
<1> QED
  BY <1>10, <1>11

LEMMA DotModCong ==
  ASSUME NEW p1 \in Index29, NEW p2 \in Index29, NEW p3 \in Index29,
         NEW w1 \in Index29, NEW w2 \in Index29, NEW w3 \in Index29,
         NEW c1 \in Int, NEW c2 \in Int, NEW c3 \in Int,
         Cong(w1, c1), Cong(w2, c2), Cong(w3, c3)
  PROVE  /\ DotMod(p1, p2, p3, w1, w2, w3) \in Index29
         /\ Dot(p1, p2, p3, c1, c2, c3) \in Int
         /\ Cong(DotMod(p1, p2, p3, w1, w2, w3), Dot(p1, p2, p3, c1, c2, c3))
<1>1. p1 \in Int /\ p2 \in Int /\ p3 \in Int /\ Cong(p1, p1) /\ Cong(p2, p2) /\ Cong(p3, p3)
  BY CongReduced DEF Index29
<1>2. PICK m1 \in Int : m1 = p1 * c1
  BY <1>1
<1>3. PICK m2 \in Int : m2 = p2 * c2
  BY <1>1
<1>4. PICK m3 \in Int : m3 = p3 * c3
  BY <1>1
<1>5. /\ Mul(p1, w1) \in Index29 /\ Cong(Mul(p1, w1), m1)
      /\ Mul(p2, w2) \in Index29 /\ Cong(Mul(p2, w2), m2)
      /\ Mul(p3, w3) \in Index29 /\ Cong(Mul(p3, w3), m3)
  BY <1>1, <1>2, <1>3, <1>4, ResiduesCong
<1>6. /\ Add(Mul(p1, w1), Mul(p2, w2)) \in Index29
      /\ Cong(Add(Mul(p1, w1), Mul(p2, w2)), m1 + m2)
  BY <1>5, ResiduesCong
<1>7. /\ DotMod(p1, p2, p3, w1, w2, w3) \in Index29
      /\ Cong(DotMod(p1, p2, p3, w1, w2, w3), m1 + m2 + m3)
  <2>1. m1 + m2 \in Int
    OBVIOUS
  <2> QED
    BY <1>5, <1>6, <2>1, ResiduesCong DEF DotMod
<1>8. Dot(p1, p2, p3, c1, c2, c3) = m1 + m2 + m3
  BY <1>2, <1>3, <1>4 DEF Dot
<1> QED
  BY <1>7, <1>8

-----------------------------------------------------------------------------
(***************************************************************************)
(* The matrices of the Hill ciphers, and two of them whose product is the  *)
(* unit matrix mod 29: a vector multiplied by one and then by the other is *)
(* the vector.  One of size two is reckoned with as if it had zeros around.*)
(***************************************************************************)
Square(n) == [1..n -> [1..n -> Index29]]
Matrices == Square(2) \cup Square(3)

Entry(m, i, j) == IF i \in DOMAIN m /\ j \in DOMAIN m THEN m[i][j] ELSE 0

Unit(i, j) == IF i = j THEN 1 ELSE 0

Product(p, q, i, j) ==
  Dot(Entry(p, i, 1), Entry(p, i, 2), Entry(p, i, 3),
      Entry(q, 1, j), Entry(q, 2, j), Entry(q, 3, j))

Undoes(p, q) == \A i, j \in DOMAIN p : Cong(Product(p, q, i, j), Unit(i, j))

Item(v, i) == IF i \in DOMAIN v THEN v[i] ELSE 0

LEMMA MulVecDot ==
  ASSUME NEW n \in {2, 3}, NEW q \in Square(n), NEW v \in [1..n -> Index29]
  PROVE  /\ MulVec(q, v) = [i \in 1..n |-> MulVec(q, v)[i]]
         /\ \A k \in 1..n :
              MulVec(q, v)[k] = DotMod(Entry(q, k, 1), Entry(q, k, 2), Entry(q, k, 3),
                                       Item(v, 1), Item(v, 2), Item(v, 3))
<1>1. Len(q) = n /\ DOMAIN q = 1..n /\ DOMAIN v = 1..n
  BY DEF Square
<1>2. ASSUME NEW k \in 1..n
      PROVE  MulVec(q, v)[k] = DotMod(Entry(q, k, 1), Entry(q, k, 2), Entry(q, k, 3),
                                      Item(v, 1), Item(v, 2), Item(v, 3))
  <2>1. CASE n = 3
    BY <1>1, <2>1 DEF MulVec, DotMod, Entry, Item
  <2>2. CASE n = 2
    <3>1. DotMod(Entry(q, k, 1), Entry(q, k, 2), Entry(q, k, 3), Item(v, 1), Item(v, 2), Item(v, 3))
            = Add(Add(Mul(q[k][1], v[1]), Mul(q[k][2], v[2])), Mul(0, 0))
      BY <1>1, <2>2 DEF DotMod, Entry, Item
    <3>2. MulVec(q, v)[k] = Add(Mul(q[k][1], v[1]), Mul(q[k][2], v[2]))
      BY <1>1, <2>2 DEF MulVec
    <3>3. q[k][1] \in Index29 /\ q[k][2] \in Index29 /\ v[1] \in Index29 /\ v[2] \in Index29
      BY <2>2 DEF Square
    <3>4. Add(Mul(q[k][1], v[1]), Mul(q[k][2], v[2])) \in Index29
      BY <3>3, Residues
    <3>5. \A x \in Index29 : Add(x, Mul(0, 0)) = x
      BY DEF Add, Mul, Index29
    <3> QED
      BY <3>1, <3>2, <3>4, <3>5
  <2> QED
    BY <2>1, <2>2
<1>3. MulVec(q, v) = [i \in 1..n |-> MulVec(q, v)[i]]
  BY <1>1 DEF MulVec
<1> QED
  BY <1>2, <1>3

LEMMA UnitPicks ==
  ASSUME NEW v1 \in Int, NEW v2 \in Int, NEW v3 \in Int
  PROVE  /\ Dot(1, 0, 0, v1, v2, v3) = v1
         /\ Dot(0, 1, 0, v1, v2, v3) = v2
         /\ Dot(0, 0, 1, v1, v2, v3) = v3
BY DEF Dot

LEMMA VectorUndone ==
  ASSUME NEW n \in {2, 3}, NEW p \in Square(n), NEW q \in Square(n), Undoes(p, q),
         NEW v \in [1..n -> Index29]
  PROVE  MulVec(q, v) \in [1..n -> Index29] /\ MulVec(p, MulVec(q, v)) = v
<1>1. Len(p) = n /\ Len(q) = n /\ DOMAIN p = 1..n /\ DOMAIN q = 1..n /\ DOMAIN v = 1..n
  BY DEF Square
<1>2. ASSUME NEW i \in 1..3, NEW j \in 1..3
      PROVE  Entry(p, i, j) \in Index29 /\ Entry(q, i, j) \in Index29
  <2>1. 0 \in Index29
    BY DEF Index29
  <2>2. CASE i \in 1..n /\ j \in 1..n
    BY <1>1, <2>2 DEF Square, Entry
  <2>3. CASE ~(i \in 1..n /\ j \in 1..n)
    <3>1. i \in 1..n => DOMAIN p[i] = 1..n /\ DOMAIN q[i] = 1..n
      BY DEF Square
    <3> QED
      BY <1>1, <2>1, <2>3, <3>1 DEF Entry
  <2> QED
    BY <2>2, <2>3
<1>3. Item(v, 1) \in Index29 /\ Item(v, 2) \in Index29 /\ Item(v, 3) \in Index29
  BY <1>1 DEF Item, Index29
<1>4. PICK w : w = MulVec(q, v)
  OBVIOUS
<1>5. \A k \in 1..n : w[k] = DotMod(Entry(q, k, 1), Entry(q, k, 2), Entry(q, k, 3),
                                    Item(v, 1), Item(v, 2), Item(v, 3))
  BY <1>4, MulVecDot
<1> DEFINE row(k) == DotMod(Entry(q, k, 1), Entry(q, k, 2), Entry(q, k, 3),
                            Item(v, 1), Item(v, 2), Item(v, 3))
<1>a. PICK r1 : r1 = row(1)
  OBVIOUS
<1>b. PICK r2 : r2 = row(2)
  OBVIOUS
<1>c. PICK r3 : r3 = row(3)
  OBVIOUS
<1>6. ASSUME NEW i \in 1..n
      PROVE  /\ r1 \in Index29 /\ r2 \in Index29 /\ r3 \in Index29
             /\ DotMod(Entry(p, i, 1), Entry(p, i, 2), Entry(p, i, 3), r1, r2, r3) = v[i]
  <2>1. i \in 1..3 /\ i \in DOMAIN p
    BY <1>1
  <2>2. /\ Entry(p, i, 1) \in Index29 /\ Entry(p, i, 2) \in Index29 /\ Entry(p, i, 3) \in Index29
        /\ Entry(q, 1, 1) \in Index29 /\ Entry(q, 1, 2) \in Index29 /\ Entry(q, 1, 3) \in Index29
        /\ Entry(q, 2, 1) \in Index29 /\ Entry(q, 2, 2) \in Index29 /\ Entry(q, 2, 3) \in Index29
        /\ Entry(q, 3, 1) \in Index29 /\ Entry(q, 3, 2) \in Index29 /\ Entry(q, 3, 3) \in Index29
    BY <1>2, <2>1
  <2>3. ASSUME NEW j \in 1..3 PROVE Cong(Product(p, q, i, j), Unit(i, j))
    <3>1. CASE j \in 1..n
      BY <1>1, <3>1 DEF Undoes
    <3>2. CASE j \notin 1..n
      <4>1. Entry(q, 1, j) = 0 /\ Entry(q, 2, j) = 0 /\ Entry(q, 3, j) = 0
        BY <1>1, <3>2 DEF Entry
      <4>2. \A a, b, c \in Index29 : Dot(a, b, c, 0, 0, 0) = 0
        BY DEF Dot, Index29
      <4>3. Product(p, q, i, j) = 0
        BY <2>2, <4>1, <4>2 DEF Product
      <4>4. Unit(i, j) = 0
        BY <3>2 DEF Unit
      <4> QED
        BY <4>3, <4>4, CongReduced
    <3> QED
      BY <3>1, <3>2
  <2>4. Unit(i, 1) \in Int /\ Unit(i, 2) \in Int /\ Unit(i, 3) \in Int
    BY DEF Unit
  <2>p1. PICK p1 \in Index29 : p1 = Entry(p, i, 1)
    BY <2>2
  <2>p2. PICK p2 \in Index29 : p2 = Entry(p, i, 2)
    BY <2>2
  <2>p3. PICK p3 \in Index29 : p3 = Entry(p, i, 3)
    BY <2>2
  <2>q11. PICK q11 \in Index29 : q11 = Entry(q, 1, 1)
    BY <2>2
  <2>q12. PICK q12 \in Index29 : q12 = Entry(q, 1, 2)
    BY <2>2
  <2>q13. PICK q13 \in Index29 : q13 = Entry(q, 1, 3)
    BY <2>2
  <2>q21. PICK q21 \in Index29 : q21 = Entry(q, 2, 1)
    BY <2>2
  <2>q22. PICK q22 \in Index29 : q22 = Entry(q, 2, 2)
    BY <2>2
  <2>q23. PICK q23 \in Index29 : q23 = Entry(q, 2, 3)
    BY <2>2
  <2>q31. PICK q31 \in Index29 : q31 = Entry(q, 3, 1)
    BY <2>2
  <2>q32. PICK q32 \in Index29 : q32 = Entry(q, 3, 2)
    BY <2>2
  <2>q33. PICK q33 \in Index29 : q33 = Entry(q, 3, 3)
    BY <2>2
  <2>v1. PICK v1 \in Index29 : v1 = Item(v, 1)
    BY <1>3
  <2>v2. PICK v2 \in Index29 : v2 = Item(v, 2)
    BY <1>3
  <2>v3. PICK v3 \in Index29 : v3 = Item(v, 3)
    BY <1>3
  <2>e1. PICK e1 \in Int : e1 = Unit(i, 1)
    BY <2>4
  <2>e2. PICK e2 \in Int : e2 = Unit(i, 2)
    BY <2>4
  <2>e3. PICK e3 \in Int : e3 = Unit(i, 3)
    BY <2>4
  <2> DEFINE out == DotMod(p1, p2, p3, r1, r2, r3)
             sum == Dot(e1, e2, e3, v1, v2, v3)
  <2>5. PICK u1 \in Int : u1 = Dot(p1, p2, p3, q11, q21, q31)
    BY DEF Dot, Index29
  <2>6. PICK u2 \in Int : u2 = Dot(p1, p2, p3, q12, q22, q32)
    BY DEF Dot, Index29
  <2>7. PICK u3 \in Int : u3 = Dot(p1, p2, p3, q13, q23, q33)
    BY DEF Dot, Index29
  <2>8. Cong(u1, e1) /\ Cong(u2, e2) /\ Cong(u3, e3)
    <3>1. Product(p, q, i, 1) = u1 /\ Product(p, q, i, 2) = u2 /\ Product(p, q, i, 3) = u3
      BY <2>p1, <2>p2, <2>p3, <2>q11, <2>q12, <2>q13, <2>q21, <2>q22, <2>q23, <2>q31, <2>q32, <2>q33, <2>v1, <2>v2, <2>v3, <2>e1, <2>e2, <2>e3, <2>5, <2>6, <2>7 DEF Product
    <3>2. 1 \in 1..3 /\ 2 \in 1..3 /\ 3 \in 1..3
      OBVIOUS
    <3> QED
      BY <2>3, <2>e1, <2>e2, <2>e3, <3>1, <3>2
  <2>9. PICK c1 \in Int : c1 = Dot(q11, q12, q13, v1, v2, v3)
    BY DEF Dot, Index29
  <2>10. PICK c2 \in Int : c2 = Dot(q21, q22, q23, v1, v2, v3)
    BY DEF Dot, Index29
  <2>11. PICK c3 \in Int : c3 = Dot(q31, q32, q33, v1, v2, v3)
    BY DEF Dot, Index29
  <2>12. /\ v1 \in Int /\ v2 \in Int /\ v3 \in Int
         /\ Cong(v1, v1) /\ Cong(v2, v2) /\ Cong(v3, v3)
    BY CongReduced, IndexIsInt
  <2>13. /\ r1 = DotMod(q11, q12, q13, v1, v2, v3)
         /\ r2 = DotMod(q21, q22, q23, v1, v2, v3)
         /\ r3 = DotMod(q31, q32, q33, v1, v2, v3)
    BY <2>p1, <2>p2, <2>p3, <2>q11, <2>q12, <2>q13, <2>q21, <2>q22, <2>q23, <2>q31, <2>q32, <2>q33, <2>v1, <2>v2, <2>v3, <2>e1, <2>e2, <2>e3, <1>a, <1>b, <1>c
  <2>14. /\ r1 \in Index29 /\ Cong(r1, c1)
         /\ r2 \in Index29 /\ Cong(r2, c2)
         /\ r3 \in Index29 /\ Cong(r3, c3)
    BY <2>9, <2>10, <2>11, <2>12, <2>13, DotModCong
  <2>15. out \in Index29 /\ Cong(out, Dot(p1, p2, p3, c1, c2, c3))
    BY <2>14, DotModCong
  <2>16. Dot(p1, p2, p3, c1, c2, c3) = Dot(u1, u2, u3, v1, v2, v3)
    BY <2>5, <2>6, <2>7, <2>9, <2>10, <2>11 DEF Dot, Index29
  <2>17. /\ Dot(u1, u2, u3, v1, v2, v3) \in Int /\ sum \in Int
         /\ Cong(Dot(u1, u2, u3, v1, v2, v3), sum)
    BY <2>8, <2>12, DotCong
  <2> HIDE DEF out
  <2>18. out \in Int
    BY <2>15, IndexIsInt
  <2>19. Cong(out, sum)
    <3> HIDE DEF sum
    <3> QED
      BY <2>15, <2>16, <2>17, <2>18, CongThrough
  <2>20. sum = v[i]
    <3>0. v[i] = Item(v, i)
      BY <1>1 DEF Item
    <3>1. CASE i = 1
      <4>1. e1 = 1 /\ e2 = 0 /\ e3 = 0
        BY <3>1, <2>e1, <2>e2, <2>e3 DEF Unit
      <4> QED
        BY <3>0, <2>12, <2>v1, <3>1, <4>1, UnitPicks
    <3>2. CASE i = 2
      <4>1. e1 = 0 /\ e2 = 1 /\ e3 = 0
        BY <3>2, <2>e1, <2>e2, <2>e3 DEF Unit
      <4> QED
        BY <3>0, <2>12, <2>v2, <3>2, <4>1, UnitPicks
    <3>3. CASE i = 3
      <4>1. e1 = 0 /\ e2 = 0 /\ e3 = 1
        BY <3>3, <2>e1, <2>e2, <2>e3 DEF Unit
      <4> QED
        BY <3>0, <2>12, <2>v3, <3>3, <4>1, UnitPicks
    <3> QED
      BY <2>1, <3>1, <3>2, <3>3
  <2>21. v[i] \in Index29
    OBVIOUS
  <2>22. out = v[i]
    <3> HIDE DEF sum
    <3> QED
      BY <2>15, <2>19, <2>20, <2>21, CongReduced
  <2> QED
    BY <2>14, <2>22, <2>p1, <2>p2, <2>p3 DEF out
<1>7. w \in [1..n -> Index29]
  <2>1. ASSUME NEW k \in 1..n PROVE w[k] \in Index29
    <3>1. k \in 1..3 /\ w[k] = row(k)
      BY <1>5
    <3>2. row(1) \in Index29 /\ row(2) \in Index29 /\ row(3) \in Index29
      BY <1>6, <1>a, <1>b, <1>c
    <3> HIDE DEF row
    <3>3. k = 1 \/ k = 2 \/ k = 3
      BY <3>1
    <3> QED
      BY <3>1, <3>2, <3>3
  <2>2. w = [k \in 1..n |-> w[k]]
    <3>1. MulVec(q, v) = [k \in 1..n |-> MulVec(q, v)[k]]
      BY MulVecDot
    <3> QED
      BY <1>4, <3>1, Zenon
  <2> QED
    BY <2>1, <2>2
<1>8. ASSUME NEW i \in 1..n PROVE MulVec(p, w)[i] = v[i]
  <2>1. MulVec(p, w)[i] = DotMod(Entry(p, i, 1), Entry(p, i, 2), Entry(p, i, 3),
                                 Item(w, 1), Item(w, 2), Item(w, 3))
    BY <1>7, MulVecDot
  <2>2. CASE n = 3
    <3>1. Item(w, 1) = row(1) /\ Item(w, 2) = row(2) /\ Item(w, 3) = row(3)
      BY <1>5, <1>7, <2>2 DEF Item
    <3> QED
      BY <1>6, <1>a, <1>b, <1>c, <2>1, <3>1
  <2>3. CASE n = 2
    <3>1. Item(w, 1) = row(1) /\ Item(w, 2) = row(2)
      BY <1>5, <1>7, <2>3 DEF Item
    <3>2. Item(w, 3) = 0
      BY <1>7, <2>3 DEF Item
    <3>3. row(3) = 0
      <4>1. Entry(q, 3, 1) = 0 /\ Entry(q, 3, 2) = 0 /\ Entry(q, 3, 3) = 0
        BY <1>1, <2>3 DEF Entry
      <4>2. \A a, b, c \in Index29 : DotMod(0, 0, 0, a, b, c) = 0
        BY DEF DotMod, Mul, Add, Index29
      <4> QED
        BY <1>3, <4>1, <4>2
    <3> QED
      BY <1>6, <1>a, <1>b, <1>c, <2>1, <3>1, <3>2, <3>3
  <2> QED
    BY <2>2, <2>3
<1>9. MulVec(p, w) = [i \in 1..n |-> MulVec(p, w)[i]]
  BY <1>7, MulVecDot
<1>10. MulVec(p, w) = v
  <2>1. v = [i \in 1..n |-> v[i]]
    OBVIOUS
  <2> QED
    BY <1>8, <1>9, <2>1
<1> QED
  BY <1>4, <1>7, <1>10
-----------------------------------------------------------------------------
(***************************************************************************)
(* The inverse of a matrix: its adjugate and determinant with integers     *)
(* that are not reduced, whose product with the matrix is the determinant  *)
(* times the unit matrix.                                                  *)
(***************************************************************************)
IntMinor2(p, q, r, s) == p * s - q * r

IntMinor(m, row, col) ==
  LET r == Others(row)  c == Others(col) IN
    IntMinor2(m[r[1]][c[1]], m[r[1]][c[2]], m[r[2]][c[1]], m[r[2]][c[2]])

IntDet(m) ==
  IF Len(m) = 2 THEN IntMinor2(m[1][1], m[1][2], m[2][1], m[2][2])
  ELSE m[1][1] * IntMinor(m, 1, 1) - m[1][2] * IntMinor(m, 1, 2) + m[1][3] * IntMinor(m, 1, 3)

IntAdjugate(m) ==
  IF Len(m) = 2
  THEN [i \in 1..2 |-> [j \in 1..2 |->
          IF i = j THEN m[3 - i][3 - j] ELSE -m[i][j]]]
  ELSE [i \in 1..3 |-> [j \in 1..3 |->
          IF (i + j) % 2 = 0 THEN IntMinor(m, j, i) ELSE -IntMinor(m, j, i)]]

LEMMA MinorCong ==
  ASSUME NEW p \in Index29, NEW q \in Index29, NEW r \in Index29, NEW s \in Index29
  PROVE  /\ Minor2(p, q, r, s) \in Index29 /\ IntMinor2(p, q, r, s) \in Int
         /\ Cong(Minor2(p, q, r, s), IntMinor2(p, q, r, s))
<1>1. /\ p \in Int /\ q \in Int /\ r \in Int /\ s \in Int
      /\ Cong(p, p) /\ Cong(q, q) /\ Cong(r, r) /\ Cong(s, s)
  BY IndexIsInt, CongReduced
<1>2. PICK a \in Int : a = p * s
  BY <1>1
<1>3. PICK b \in Int : b = q * r
  BY <1>1
<1>4. /\ Mul(p, s) \in Index29 /\ Cong(Mul(p, s), a)
      /\ Mul(q, r) \in Index29 /\ Cong(Mul(q, r), b)
  BY <1>1, <1>2, <1>3, ResiduesCong
<1>5. Minor2(p, q, r, s) \in Index29 /\ Cong(Minor2(p, q, r, s), a - b)
  BY <1>4, ResiduesCong DEF Minor2
<1>6. IntMinor2(p, q, r, s) = a - b
  BY <1>2, <1>3 DEF IntMinor2
<1> QED
  BY <1>5, <1>6

LEMMA Minor3Cong ==
  ASSUME NEW m \in Square(3), NEW i \in 1..3, NEW j \in 1..3
  PROVE  /\ Minor3(m, i, j) \in Index29 /\ IntMinor(m, i, j) \in Int
         /\ Cong(Minor3(m, i, j), IntMinor(m, i, j))
<1>1. \A k \in 1..3 : Others(k)[1] \in 1..3 /\ Others(k)[2] \in 1..3
  BY DEF Others
<1>2. PICK r1 \in 1..3, r2 \in 1..3 : r1 = Others(i)[1] /\ r2 = Others(i)[2]
  BY <1>1
<1>3. PICK c1 \in 1..3, c2 \in 1..3 : c1 = Others(j)[1] /\ c2 = Others(j)[2]
  BY <1>1
<1>4. \A k, l \in 1..3 : m[k][l] \in Index29
  BY DEF Square
<1>5. PICK p \in Index29, q \in Index29, r \in Index29, s \in Index29 :
         p = m[r1][c1] /\ q = m[r1][c2] /\ r = m[r2][c1] /\ s = m[r2][c2]
  BY <1>4
<1>6. Minor3(m, i, j) = Minor2(p, q, r, s)
  BY <1>2, <1>3, <1>5 DEF Minor3
<1>7. IntMinor(m, i, j) = IntMinor2(p, q, r, s)
  BY <1>2, <1>3, <1>5 DEF IntMinor
<1>8. /\ Minor2(p, q, r, s) \in Index29 /\ IntMinor2(p, q, r, s) \in Int
      /\ Cong(Minor2(p, q, r, s), IntMinor2(p, q, r, s))
  BY MinorCong
<1> QED
  BY <1>6, <1>7, <1>8

LEMMA AdjugateCong ==
  ASSUME NEW n \in {2, 3}, NEW m \in Square(n)
  PROVE  /\ Det(m) \in Index29 /\ IntDet(m) \in Int /\ Cong(Det(m), IntDet(m))
         /\ \A i, j \in 1..n :
              /\ Adjugate(m)[i][j] \in Index29 /\ IntAdjugate(m)[i][j] \in Int
              /\ Cong(Adjugate(m)[i][j], IntAdjugate(m)[i][j])
<1>1. Len(m) = n /\ \A i, j \in 1..n : m[i][j] \in Index29
  BY DEF Square
<1>2. CASE n = 2
  <2>1. /\ m[1][1] \in Index29 /\ m[1][2] \in Index29 /\ m[2][1] \in Index29 /\ m[2][2] \in Index29
    BY <1>1, <1>2
  <2>2. /\ Det(m) = Minor2(m[1][1], m[1][2], m[2][1], m[2][2])
        /\ IntDet(m) = IntMinor2(m[1][1], m[1][2], m[2][1], m[2][2])
    BY <1>1, <1>2 DEF Det, IntDet
  <2>3. Det(m) \in Index29 /\ IntDet(m) \in Int /\ Cong(Det(m), IntDet(m))
    <3>1. PICK p \in Index29, q \in Index29, r \in Index29, s \in Index29 :
             p = m[1][1] /\ q = m[1][2] /\ r = m[2][1] /\ s = m[2][2]
      BY <2>1
    <3>2. Det(m) = Minor2(p, q, r, s) /\ IntDet(m) = IntMinor2(p, q, r, s)
      BY <2>2, <3>1
    <3>3. /\ Minor2(p, q, r, s) \in Index29 /\ IntMinor2(p, q, r, s) \in Int
          /\ Cong(Minor2(p, q, r, s), IntMinor2(p, q, r, s))
      BY MinorCong
    <3> QED
      BY <3>2, <3>3
  <2>4. \A x \in Index29 : /\ x \in Int /\ Cong(x, x)
                           /\ Neg(x) \in Index29 /\ -x \in Int /\ Cong(Neg(x), -x)
    <3>1. ASSUME NEW x \in Index29
          PROVE  x \in Int /\ Cong(x, x) /\ Neg(x) \in Index29 /\ -x \in Int /\ Cong(Neg(x), -x)
      <4>1. x \in Int /\ Cong(x, x)
        BY IndexIsInt, CongReduced
      <4> QED
        BY <4>1, ResiduesCong
    <3> QED
      BY <3>1
  <2>5. /\ Adjugate(m)[1][1] = m[2][2] /\ Adjugate(m)[1][2] = Neg(m[1][2])
        /\ Adjugate(m)[2][1] = Neg(m[2][1]) /\ Adjugate(m)[2][2] = m[1][1]
        /\ IntAdjugate(m)[1][1] = m[2][2] /\ IntAdjugate(m)[1][2] = -m[1][2]
        /\ IntAdjugate(m)[2][1] = -m[2][1] /\ IntAdjugate(m)[2][2] = m[1][1]
    BY <1>1, <1>2 DEF Adjugate, IntAdjugate
  <2>6. ASSUME NEW i \in 1..2, NEW j \in 1..2
        PROVE  /\ Adjugate(m)[i][j] \in Index29 /\ IntAdjugate(m)[i][j] \in Int
               /\ Cong(Adjugate(m)[i][j], IntAdjugate(m)[i][j])
    <3>1. (i = 1 \/ i = 2) /\ (j = 1 \/ j = 2)
      OBVIOUS
    <3> QED
      BY <2>1, <2>4, <2>5, <3>1, Zenon
  <2> QED
    BY <1>2, <2>3, <2>6
<1>3. CASE n = 3
  <2>1. \A i, j \in 1..3 : /\ Minor3(m, i, j) \in Index29 /\ IntMinor(m, i, j) \in Int
                           /\ Cong(Minor3(m, i, j), IntMinor(m, i, j))
    BY <1>3, Minor3Cong
  <2>2. /\ m[1][1] \in Index29 /\ m[1][2] \in Index29 /\ m[1][3] \in Index29
        /\ 1 \in 1..3 /\ 2 \in 1..3 /\ 3 \in 1..3
    BY <1>1, <1>3
  <2>3. PICK a \in Index29, b \in Index29, c \in Index29 : a = m[1][1] /\ b = m[1][2] /\ c = m[1][3]
    BY <2>2
  <2>4. PICK x \in Int, y \in Int, z \in Int :
          x = IntMinor(m, 1, 1) /\ y = IntMinor(m, 1, 2) /\ z = IntMinor(m, 1, 3)
    BY <2>1, <2>2
  <2>5. PICK u \in Index29, v \in Index29, w \in Index29 :
          /\ u = Minor3(m, 1, 1) /\ v = Minor3(m, 1, 2) /\ w = Minor3(m, 1, 3)
          /\ Cong(u, x) /\ Cong(v, y) /\ Cong(w, z)
    BY <2>1, <2>2, <2>4
  <2>6. /\ a \in Int /\ b \in Int /\ c \in Int /\ Cong(a, a) /\ Cong(b, b) /\ Cong(c, c)
    BY IndexIsInt, CongReduced
  <2>7. PICK p \in Int, q \in Int, r \in Int : p = a * x /\ q = b * y /\ r = c * z
    BY <2>6
  <2>8. /\ Mul(a, u) \in Index29 /\ Cong(Mul(a, u), p)
        /\ Mul(b, v) \in Index29 /\ Cong(Mul(b, v), q)
        /\ Mul(c, w) \in Index29 /\ Cong(Mul(c, w), r)
    BY <2>5, <2>6, <2>7, ResiduesCong
  <2>9. Sub(Mul(a, u), Mul(b, v)) \in Index29 /\ Cong(Sub(Mul(a, u), Mul(b, v)), p - q)
    BY <2>8, ResiduesCong
  <2>10. /\ Add(Sub(Mul(a, u), Mul(b, v)), Mul(c, w)) \in Index29
         /\ Cong(Add(Sub(Mul(a, u), Mul(b, v)), Mul(c, w)), (p - q) + r)
    <3>1. p - q \in Int
      OBVIOUS
    <3> QED
      BY <2>8, <2>9, <3>1, ResiduesCong
  <2>11. Det(m) = Add(Sub(Mul(a, u), Mul(b, v)), Mul(c, w))
    BY <1>1, <1>3, <2>3, <2>5 DEF Det
  <2>12. IntDet(m) = (p - q) + r
    BY <1>1, <1>3, <2>3, <2>4, <2>7 DEF IntDet
  <2>13. Det(m) \in Index29 /\ IntDet(m) \in Int /\ Cong(Det(m), IntDet(m))
    BY <2>10, <2>11, <2>12
  <2>14. ASSUME NEW i \in 1..3, NEW j \in 1..3
         PROVE  /\ Adjugate(m)[i][j] \in Index29 /\ IntAdjugate(m)[i][j] \in Int
                /\ Cong(Adjugate(m)[i][j], IntAdjugate(m)[i][j])
    <3>1. PICK s \in Index29 : s = Minor3(m, j, i)
      BY <2>1
    <3>2. PICK t \in Int : t = IntMinor(m, j, i) /\ Cong(s, t)
      BY <2>1, <3>1
    <3>3. Neg(s) \in Index29 /\ Cong(Neg(s), -t) /\ -t \in Int
      BY <3>2, ResiduesCong
    <3>4. Adjugate(m)[i][j] = IF (i + j) % 2 = 0 THEN s ELSE Neg(s)
      BY <1>1, <1>3, <3>1 DEF Adjugate
    <3>5. IntAdjugate(m)[i][j] = IF (i + j) % 2 = 0 THEN t ELSE -t
      BY <1>1, <1>3, <3>2 DEF IntAdjugate
    <3> QED
      BY <3>2, <3>3, <3>4, <3>5
  <2> QED
    BY <1>3, <2>13, <2>14
<1> QED
  BY <1>2, <1>3

LEMMA AdjugateTimes ==
  ASSUME NEW n \in {2, 3}, NEW m \in Square(n), NEW i \in 1..n, NEW j \in 1..n
  PROVE  /\ Product(IntAdjugate(m), m, i, j) = Unit(i, j) * IntDet(m)
         /\ Product(m, IntAdjugate(m), i, j) = Unit(i, j) * IntDet(m)
<1>1. Len(m) = n /\ DOMAIN m = 1..n /\ \A k, l \in 1..n : m[k][l] \in Int
  BY DEF Square, Index29
<1>2. CASE n = 2
  <2>1. PICK a \in Int, b \in Int, c \in Int, d \in Int :
          a = m[1][1] /\ b = m[1][2] /\ c = m[2][1] /\ d = m[2][2]
    BY <1>1, <1>2
  <2> DEFINE A == IntAdjugate(m)
  <2>2. DOMAIN A = 1..2 /\ A[1][1] = d /\ A[1][2] = -b /\ A[2][1] = -c /\ A[2][2] = a
    BY <1>1, <1>2, <2>1 DEF IntAdjugate
  <2>3. PICK det \in Int : det = a * d - b * c
    OBVIOUS
  <2>4. IntDet(m) = det /\ 1 * det = det /\ 0 * det = 0
    BY <1>1, <1>2, <2>1, <2>3 DEF IntDet, IntMinor2
  <2> HIDE DEF A
  <2>5. PICK x \in Int, y \in Int : x = -b /\ y = -c
    OBVIOUS
  <2>6. /\ Entry(A, 1, 1) = d /\ Entry(A, 1, 2) = x /\ Entry(A, 1, 3) = 0
        /\ Entry(A, 2, 1) = y /\ Entry(A, 2, 2) = a /\ Entry(A, 2, 3) = 0
        /\ Entry(A, 3, 1) = 0 /\ Entry(A, 3, 2) = 0
    BY <2>2, <2>5 DEF Entry
  <2>7. /\ Entry(m, 1, 1) = a /\ Entry(m, 1, 2) = b /\ Entry(m, 1, 3) = 0
        /\ Entry(m, 2, 1) = c /\ Entry(m, 2, 2) = d /\ Entry(m, 2, 3) = 0
        /\ Entry(m, 3, 1) = 0 /\ Entry(m, 3, 2) = 0
    BY <1>1, <1>2, <2>1 DEF Entry
  <2>8. /\ Dot(d, x, 0, a, c, 0) = det /\ Dot(d, x, 0, b, d, 0) = 0
        /\ Dot(y, a, 0, a, c, 0) = 0 /\ Dot(y, a, 0, b, d, 0) = det
        /\ Dot(a, b, 0, d, y, 0) = det /\ Dot(a, b, 0, x, a, 0) = 0
        /\ Dot(c, d, 0, d, y, 0) = 0 /\ Dot(c, d, 0, x, a, 0) = det
    BY <2>3, <2>5 DEF Dot
  <2>9. (i = 1 \/ i = 2) /\ (j = 1 \/ j = 2)
    BY <1>2
  <2>10. /\ Product(A, m, i, j) = Unit(i, j) * det
         /\ Product(m, A, i, j) = Unit(i, j) * det
    BY <2>4, <2>6, <2>7, <2>8, <2>9 DEF Product, Unit
  <2> QED
    BY <2>4, <2>10 DEF A
<1>3. CASE n = 3
  <2>1. PICK a \in Int, b \in Int, c \in Int : a = m[1][1] /\ b = m[1][2] /\ c = m[1][3]
    BY <1>1, <1>3
  <2>2. PICK d \in Int, e \in Int, f \in Int : d = m[2][1] /\ e = m[2][2] /\ f = m[2][3]
    BY <1>1, <1>3
  <2>3. PICK g \in Int, h \in Int, k \in Int : g = m[3][1] /\ h = m[3][2] /\ k = m[3][3]
    BY <1>1, <1>3
  <2>4. PICK x11 \in Int, x12 \in Int, x13 \in Int :
          x11 = e * k - f * h /\ x12 = -(b * k - c * h) /\ x13 = b * f - c * e
    OBVIOUS
  <2>5. PICK x21 \in Int, x22 \in Int, x23 \in Int :
          x21 = -(d * k - f * g) /\ x22 = a * k - c * g /\ x23 = -(a * f - c * d)
    OBVIOUS
  <2>6. PICK x31 \in Int, x32 \in Int, x33 \in Int :
          x31 = d * h - e * g /\ x32 = -(a * h - b * g) /\ x33 = a * e - b * d
    OBVIOUS
  <2>7. PICK det \in Int :
          det = a * (e * k - f * h) - b * (d * k - f * g) + c * (d * h - e * g)
    OBVIOUS
  <2> DEFINE A == IntAdjugate(m)
  <2>8. /\ IntMinor(m, 1, 1) = e * k - f * h /\ IntMinor(m, 1, 2) = d * k - f * g
        /\ IntMinor(m, 1, 3) = d * h - e * g /\ IntMinor(m, 2, 1) = b * k - c * h
        /\ IntMinor(m, 2, 2) = a * k - c * g /\ IntMinor(m, 2, 3) = a * h - b * g
        /\ IntMinor(m, 3, 1) = b * f - c * e /\ IntMinor(m, 3, 2) = a * f - c * d
        /\ IntMinor(m, 3, 3) = a * e - b * d
    BY <2>1, <2>2, <2>3 DEF IntMinor, IntMinor2, Others
  <2>9. /\ Dot(x11, x12, x13, a, d, g) = det
        /\ Dot(x11, x12, x13, b, e, h) = 0
        /\ Dot(x11, x12, x13, c, f, k) = 0
        /\ Dot(x21, x22, x23, a, d, g) = 0
        /\ Dot(x21, x22, x23, b, e, h) = det
        /\ Dot(x21, x22, x23, c, f, k) = 0
        /\ Dot(x31, x32, x33, a, d, g) = 0
        /\ Dot(x31, x32, x33, b, e, h) = 0
        /\ Dot(x31, x32, x33, c, f, k) = det
        /\ Dot(a, b, c, x11, x21, x31) = det
        /\ Dot(a, b, c, x12, x22, x32) = 0
        /\ Dot(a, b, c, x13, x23, x33) = 0
        /\ Dot(d, e, f, x11, x21, x31) = 0
        /\ Dot(d, e, f, x12, x22, x32) = det
        /\ Dot(d, e, f, x13, x23, x33) = 0
        /\ Dot(g, h, k, x11, x21, x31) = 0
        /\ Dot(g, h, k, x12, x22, x32) = 0
        /\ Dot(g, h, k, x13, x23, x33) = det
    BY <2>4, <2>5, <2>6, <2>7 DEF Dot
  <2>10. IntDet(m) = det /\ 1 * det = det /\ 0 * det = 0
    BY <1>1, <1>3, <2>1, <2>7, <2>8 DEF IntDet
  <2>11. DOMAIN A = 1..3 /\ \A r, s \in 1..3 :
          A[r][s] = IF (r + s) % 2 = 0 THEN IntMinor(m, s, r) ELSE -IntMinor(m, s, r)
    BY <1>1, <1>3 DEF IntAdjugate
  <2> HIDE DEF A
  <2>12. /\ Entry(A, 1, 1) = x11 /\ Entry(A, 1, 2) = x12 /\ Entry(A, 1, 3) = x13
         /\ Entry(A, 2, 1) = x21 /\ Entry(A, 2, 2) = x22 /\ Entry(A, 2, 3) = x23
         /\ Entry(A, 3, 1) = x31 /\ Entry(A, 3, 2) = x32 /\ Entry(A, 3, 3) = x33
    <3>1. /\ Entry(A, 1, 1) = IntMinor(m, 1, 1) /\ Entry(A, 1, 2) = -IntMinor(m, 2, 1)
          /\ Entry(A, 1, 3) = IntMinor(m, 3, 1) /\ Entry(A, 2, 1) = -IntMinor(m, 1, 2)
          /\ Entry(A, 2, 2) = IntMinor(m, 2, 2) /\ Entry(A, 2, 3) = -IntMinor(m, 3, 2)
          /\ Entry(A, 3, 1) = IntMinor(m, 1, 3) /\ Entry(A, 3, 2) = -IntMinor(m, 2, 3)
          /\ Entry(A, 3, 3) = IntMinor(m, 3, 3)
      BY <2>11 DEF Entry
    <3> QED
      BY <2>4, <2>5, <2>6, <2>8, <3>1
  <2>13. /\ Entry(m, 1, 1) = a /\ Entry(m, 1, 2) = b /\ Entry(m, 1, 3) = c
         /\ Entry(m, 2, 1) = d /\ Entry(m, 2, 2) = e /\ Entry(m, 2, 3) = f
         /\ Entry(m, 3, 1) = g /\ Entry(m, 3, 2) = h /\ Entry(m, 3, 3) = k
    BY <1>1, <1>3, <2>1, <2>2, <2>3 DEF Entry
  <2>14. (i = 1 \/ i = 2 \/ i = 3) /\ (j = 1 \/ j = 2 \/ j = 3)
    BY <1>3
  <2>15. /\ Product(A, m, i, j) = Unit(i, j) * det
         /\ Product(m, A, i, j) = Unit(i, j) * det
    BY <2>9, <2>10, <2>12, <2>13, <2>14 DEF Product, Unit
  <2> QED
    BY <2>10, <2>15 DEF A
<1> QED
  BY <1>2, <1>3

\* A row of a matrix times t and a column of another, when t is an inverse of det.
LEMMA ScaledDot ==
  ASSUME NEW x1 \in Int, NEW x2 \in Int, NEW x3 \in Int,
         NEW a1 \in Int, NEW a2 \in Int, NEW a3 \in Int,
         NEW m1 \in Int, NEW m2 \in Int, NEW m3 \in Int,
         NEW t \in Int, NEW det \in Int, NEW u \in Int, NEW d \in Int,
         Cong(x1, t * a1), Cong(x2, t * a2), Cong(x3, t * a3),
         Cong(d, det), Cong(t * d, 1), Dot(a1, a2, a3, m1, m2, m3) = u * det
  PROVE  Cong(Dot(x1, x2, x3, m1, m2, m3), u)
<1>1. PICK b1 \in Int, b2 \in Int, b3 \in Int : b1 = t * a1 /\ b2 = t * a2 /\ b3 = t * a3
  OBVIOUS
<1>2. /\ Dot(x1, x2, x3, m1, m2, m3) \in Int /\ Dot(b1, b2, b3, m1, m2, m3) \in Int
      /\ Cong(Dot(x1, x2, x3, m1, m2, m3), Dot(b1, b2, b3, m1, m2, m3))
  BY <1>1, DotCong
<1>3. PICK s \in Int : s = u * det
  OBVIOUS
<1>4. PICK td \in Int, tdet \in Int : td = t * d /\ tdet = t * det
  OBVIOUS
<1>5. Dot(b1, b2, b3, m1, m2, m3) = u * tdet
  <2>1. Dot(b1, b2, b3, m1, m2, m3) = t * Dot(a1, a2, a3, m1, m2, m3)
    BY <1>1 DEF Dot
  <2>2. Dot(b1, b2, b3, m1, m2, m3) = t * (u * det)
    BY <2>1
  <2>3. t * (u * det) = u * tdet
    BY <1>4
  <2> QED
    BY <2>2, <2>3
<1>6. Cong(td, 1) /\ Cong(tdet, td)
  <2>1. Cong(det, d)
    <3>1. PICK k \in Int : d = det + 29 * k
      BY DEF Cong
    <3>2. det = d + 29 * (-k) /\ -k \in Int
      BY <3>1
    <3> QED
      BY <3>2 DEF Cong
  <2>2. Cong(t, t)
    BY CongReduced
  <2> QED
    BY <1>4, <2>1, <2>2, CongKeeps
<1>7. Cong(tdet, 1)
  BY <1>6, CongThrough
<1>8. PICK w \in Int : w = u * tdet
  OBVIOUS
<1>9. Cong(w, u)
  <2>1. Cong(u, u) /\ u * 1 = u /\ 1 \in Int
    BY CongReduced
  <2> QED
    BY <1>7, <1>8, <2>1, CongKeeps
<1> QED
  BY <1>2, <1>5, <1>8, <1>9, CongThrough

LEMMA InvertedUndoes ==
  ASSUME NEW n \in {2, 3}, NEW m \in Square(n), Det(m) # 0
  PROVE  Inverted(m) \in Square(n) /\ Undoes(Inverted(m), m) /\ Undoes(m, Inverted(m))
<1>1. Len(m) = n /\ DOMAIN m = 1..n
  BY DEF Square
<1>2. /\ Det(m) \in Index29 /\ IntDet(m) \in Int /\ Cong(Det(m), IntDet(m))
      /\ \A i, j \in 1..n :
           /\ Adjugate(m)[i][j] \in Index29 /\ IntAdjugate(m)[i][j] \in Int
           /\ Cong(Adjugate(m)[i][j], IntAdjugate(m)[i][j])
  BY AdjugateCong
<1>3. PICK d \in Index29 : d = Det(m) /\ d # 0
  BY <1>2
<1>4. PICK det \in Int : det = IntDet(m) /\ Cong(d, det)
  BY <1>2, <1>3
<1>5. PICK t \in Index29 : t = Inv(d)
  BY <1>3, Inverses
<1>6. t \in Int /\ d \in Int /\ Cong(t, t) /\ t * d \in Int
  BY IndexIsInt, CongReduced
<1>7. Cong(t * d, 1)
  <2>1. Mul(t, Mul(d, 1)) = 1 /\ Mul(d, 1) = d
    <3>1. 1 \in Index29 /\ d \in Index29 \ {0}
      BY <1>3 DEF Index29
    <3>2. Mul(Inv(d), Mul(d, 1)) = 1
      BY <3>1, Inverses
    <3>3. Mul(d, 1) = d
      BY DEF Mul, Index29
    <3> QED
      BY <1>5, <3>2, <3>3
  <2>2. PICK p \in Int : p = t * d
    BY <1>6
  <2>3. p % 29 = 1
    BY <2>1, <2>2 DEF Mul
  <2>4. p = 1 + 29 * (p \div 29) /\ p \div 29 \in Int
    BY <2>3
  <2> QED
    BY <2>2, <2>4 DEF Cong
<1> DEFINE v == Inverted(m)
           A == IntAdjugate(m)
<1>8. ASSUME NEW i \in 1..n, NEW j \in 1..n
      PROVE v[i][j] \in Index29 /\ A[i][j] \in Int /\ Cong(v[i][j], t * A[i][j])
  <2>1. v[i][j] = Mul(t, Adjugate(m)[i][j])
    BY <1>1, <1>3, <1>5 DEF Inverted
  <2>2. PICK a \in Index29 : a = Adjugate(m)[i][j]
    BY <1>2
  <2>3. PICK b \in Int : b = A[i][j] /\ Cong(a, b)
    BY <1>2, <2>2
  <2>4. Mul(t, a) \in Index29 /\ Cong(Mul(t, a), t * b)
    BY <1>6, <2>3, ResiduesCong
  <2> QED
    BY <2>1, <2>2, <2>3, <2>4
<1>9. v \in Square(n)
  <2>1. v = [i \in 1..n |-> [j \in 1..n |-> v[i][j]]]
    BY <1>1 DEF Inverted
  <2> HIDE DEF v
  <2> QED
    BY <1>8, <2>1 DEF Square
<1>10. DOMAIN v = 1..n /\ DOMAIN A = 1..n
  <2>1. DOMAIN v = 1..n
    BY <1>1 DEF Inverted
  <2>2. DOMAIN A = 1..n
    BY <1>1 DEF IntAdjugate
  <2> QED
    BY <2>1, <2>2
<1> HIDE DEF v, A
<1>11. ASSUME NEW i \in 1..3, NEW j \in 1..3
       PROVE  /\ Entry(v, i, j) \in Int /\ Entry(A, i, j) \in Int
              /\ Entry(m, i, j) \in Int
              /\ Cong(Entry(v, i, j), t * Entry(A, i, j))
  <2>1. CASE i \in 1..n /\ j \in 1..n
    BY <1>1, <1>8, <1>10, <2>1, IndexIsInt DEF Entry, Square
  <2>2. CASE ~(i \in 1..n /\ j \in 1..n)
    <3>1. Entry(v, i, j) = 0 /\ Entry(A, i, j) = 0 /\ Entry(m, i, j) = 0
      BY <1>1, <1>10, <2>2 DEF Entry
    <3>2. t * 0 = 0 /\ Cong(0, 0)
      BY <1>6, CongReduced
    <3> QED
      BY <3>1, <3>2
  <2> QED
    BY <2>1, <2>2
<1>12. ASSUME NEW i \in 1..n, NEW j \in 1..n
       PROVE  Cong(Product(v, m, i, j), Unit(i, j))
  <2>1. i \in 1..3 /\ j \in 1..3 /\ 1 \in 1..3 /\ 2 \in 1..3 /\ 3 \in 1..3
    OBVIOUS
  <2>2. PICK u \in Int : u = Unit(i, j)
    BY DEF Unit
  <2>3. Product(A, m, i, j) = u * det
    BY <1>4, <2>2, AdjugateTimes DEF A
  <2>4. PICK x1 \in Int, x2 \in Int, x3 \in Int :
          x1 = Entry(v, i, 1) /\ x2 = Entry(v, i, 2) /\ x3 = Entry(v, i, 3)
    BY <1>11, <2>1
  <2>5. PICK a1 \in Int, a2 \in Int, a3 \in Int :
          a1 = Entry(A, i, 1) /\ a2 = Entry(A, i, 2) /\ a3 = Entry(A, i, 3)
    BY <1>11, <2>1
  <2>6. PICK m1 \in Int, m2 \in Int, m3 \in Int :
          m1 = Entry(m, 1, j) /\ m2 = Entry(m, 2, j) /\ m3 = Entry(m, 3, j)
    BY <1>11, <2>1
  <2>7. Cong(x1, t * a1) /\ Cong(x2, t * a2) /\ Cong(x3, t * a3)
    BY <1>11, <2>1, <2>4, <2>5
  <2>8. Dot(a1, a2, a3, m1, m2, m3) = u * det
    BY <2>3, <2>5, <2>6 DEF Product
  <2>9. Cong(Dot(x1, x2, x3, m1, m2, m3), u)
    BY <1>4, <1>6, <1>7, <2>7, <2>8, ScaledDot
  <2>10. Product(v, m, i, j) = Dot(x1, x2, x3, m1, m2, m3)
    BY <2>4, <2>6 DEF Product
  <2> QED
    BY <2>2, <2>9, <2>10
<1>13. ASSUME NEW i \in 1..n, NEW j \in 1..n
       PROVE  Cong(Product(m, v, i, j), Unit(i, j))
  <2>1. i \in 1..3 /\ j \in 1..3 /\ 1 \in 1..3 /\ 2 \in 1..3 /\ 3 \in 1..3
    OBVIOUS
  <2>2. PICK u \in Int : u = Unit(i, j)
    BY DEF Unit
  <2>3. Product(m, A, i, j) = u * det
    BY <1>4, <2>2, AdjugateTimes DEF A
  <2>4. PICK x1 \in Int, x2 \in Int, x3 \in Int :
          x1 = Entry(v, 1, j) /\ x2 = Entry(v, 2, j) /\ x3 = Entry(v, 3, j)
    BY <1>11, <2>1
  <2>5. PICK a1 \in Int, a2 \in Int, a3 \in Int :
          a1 = Entry(A, 1, j) /\ a2 = Entry(A, 2, j) /\ a3 = Entry(A, 3, j)
    BY <1>11, <2>1
  <2>6. PICK m1 \in Int, m2 \in Int, m3 \in Int :
          m1 = Entry(m, i, 1) /\ m2 = Entry(m, i, 2) /\ m3 = Entry(m, i, 3)
    BY <1>11, <2>1
  <2>7. Cong(x1, t * a1) /\ Cong(x2, t * a2) /\ Cong(x3, t * a3)
    BY <1>11, <2>1, <2>4, <2>5
  <2>8. Dot(a1, a2, a3, m1, m2, m3) = u * det
    <3>1. Dot(m1, m2, m3, a1, a2, a3) = u * det
      BY <2>3, <2>5, <2>6 DEF Product
    <3> QED
      BY <3>1 DEF Dot
  <2>9. Cong(Dot(x1, x2, x3, m1, m2, m3), u)
    BY <1>4, <1>6, <1>7, <2>7, <2>8, ScaledDot
  <2>10. Product(m, v, i, j) = Dot(x1, x2, x3, m1, m2, m3)
    <3>1. Product(m, v, i, j) = Dot(m1, m2, m3, x1, x2, x3)
      BY <2>4, <2>6 DEF Product
    <3> QED
      BY <3>1 DEF Dot
  <2> QED
    BY <2>2, <2>9, <2>10
<1> QED
  BY <1>1, <1>9, <1>10, <1>12, <1>13 DEF Undoes, v

-----------------------------------------------------------------------------
(***************************************************************************)
(* Texts in blocks: the place of a symbol in its block.                    *)
(***************************************************************************)
InBlock(n, length, p, b, r) ==
  /\ b = (p - 1) \div n /\ r = ((p - 1) % n) + 1 /\ p = b * n + r
  /\ \A j \in 1..n : /\ b * n + j \in 1..length
                     /\ ((b * n + j) - 1) \div n = b
                     /\ (((b * n + j) - 1) % n) + 1 = j

InBlocks(n, length) == length % n = 0

LEMMA BlockPlaces ==
  ASSUME NEW n \in {2, 3}, NEW length \in Nat, InBlocks(n, length), NEW p \in 1..length
  PROVE  \E b \in Nat, r \in 1..n : InBlock(n, length, p, b, r)
<1>1. PICK b \in Nat : b = (p - 1) \div n
  <2>1. CASE n = 2
    BY <2>1
  <2>2. CASE n = 3
    BY <2>2
  <2> QED
    BY <2>1, <2>2
<1>2. PICK r \in 1..n : r = ((p - 1) % n) + 1
  <2>1. CASE n = 2
    BY <2>1
  <2>2. CASE n = 3
    BY <2>2
  <2> QED
    BY <2>1, <2>2
<1>3. CASE n = 2
  <2>1. p = b * 2 + r
    BY <1>1, <1>2, <1>3
  <2>2. ASSUME NEW j \in 1..2
        PROVE  /\ b * 2 + j \in 1..length
               /\ ((b * 2 + j) - 1) \div 2 = b
               /\ (((b * 2 + j) - 1) % 2) + 1 = j
    BY <1>1, <1>2, <1>3, <2>1 DEF InBlocks
  <2> QED
    BY <1>1, <1>2, <1>3, <2>1, <2>2 DEF InBlock
<1>4. CASE n = 3
  <2>1. p = b * 3 + r
    BY <1>1, <1>2, <1>4
  <2>2. ASSUME NEW j \in 1..3
        PROVE  /\ b * 3 + j \in 1..length
               /\ ((b * 3 + j) - 1) \div 3 = b
               /\ (((b * 3 + j) - 1) % 3) + 1 = j
    BY <1>1, <1>2, <1>4, <2>1 DEF InBlocks
  <2> QED
    BY <1>1, <1>2, <1>4, <2>1, <2>2 DEF InBlock
<1> QED
  BY <1>3, <1>4

LEMMA BlocksUndone ==
  ASSUME NEW n \in {2, 3}, NEW p \in Square(n), NEW q \in Square(n), Undoes(p, q),
         NEW length \in Nat, InBlocks(n, length), NEW text \in [1..length -> Index29]
  PROVE  /\ HillBlocks(q, text) \in [1..length -> Index29]
         /\ HillBlocks(p, HillBlocks(q, text)) = text
<1>1. Len(p) = n /\ Len(q) = n /\ DOMAIN p = 1..n /\ DOMAIN q = 1..n /\ DOMAIN text = 1..length
  BY DEF Square
<1> DEFINE vector(b) == [j \in 1..n |-> text[b * n + j]]
           coded == HillBlocks(q, text)
<1>2. ASSUME NEW i \in 1..length, NEW b \in Nat, NEW r \in 1..n, InBlock(n, length, i, b, r)
      PROVE  /\ vector(b) \in [1..n -> Index29]
             /\ MulVec(q, vector(b)) \in [1..n -> Index29]
             /\ MulVec(p, MulVec(q, vector(b))) = vector(b)
             /\ coded[i] = MulVec(q, vector(b))[r]
  <2>1. \A j \in 1..n : b * n + j \in 1..length
    BY <1>2 DEF InBlock
  <2>2. vector(b) \in [1..n -> Index29]
    BY <2>1
  <2>3. coded[i] = MulVec(q, vector(b))[r]
    BY <1>1, <1>2 DEF InBlock, HillBlocks, HillBlock
  <2> HIDE DEF vector, coded
  <2>4. PICK w \in [1..n -> Index29] : w = vector(b)
    BY <2>2
  <2>5. MulVec(q, w) \in [1..n -> Index29] /\ MulVec(p, MulVec(q, w)) = w
    BY VectorUndone
  <2> QED
    BY <2>2, <2>3, <2>4, <2>5
<1>3. coded = [i \in 1..length |-> coded[i]]
  BY <1>1 DEF HillBlocks
<1> HIDE DEF coded
<1>4. coded \in [1..length -> Index29]
  <2>1. ASSUME NEW i \in 1..length PROVE coded[i] \in Index29
    <3>1. PICK b \in Nat, r \in 1..n : InBlock(n, length, i, b, r)
      BY BlockPlaces
    <3> HIDE DEF vector
    <3> QED
      BY <1>2, <3>1
  <2> QED
    BY <1>3, <2>1
<1>5. ASSUME NEW i \in 1..length PROVE HillBlocks(p, coded)[i] = text[i]
  <2>1. PICK b \in Nat, r \in 1..n : InBlock(n, length, i, b, r)
    BY BlockPlaces
  <2> DEFINE block == [j \in 1..n |-> coded[b * n + j]]
  <2>2. HillBlocks(p, coded)[i] = MulVec(p, block)[r]
    BY <1>1, <1>4, <2>1 DEF InBlock, HillBlocks, HillBlock
  <2>3. ASSUME NEW j \in 1..n PROVE coded[b * n + j] = MulVec(q, vector(b))[j]
    <3>1. PICK k \in 1..length : k = b * n + j
      BY <2>1 DEF InBlock
    <3>2. InBlock(n, length, k, b, j)
      BY <2>1, <3>1 DEF InBlock
    <3> HIDE DEF vector
    <3> QED
      BY <1>2, <3>1, <3>2
  <2>4. /\ MulVec(q, vector(b)) \in [1..n -> Index29]
        /\ MulVec(p, MulVec(q, vector(b))) = vector(b)
    <3> HIDE DEF vector
    <3> QED
      BY <1>2, <2>1
  <2>5. block = MulVec(q, vector(b))
    <3>1. PICK w \in [1..n -> Index29] : w = MulVec(q, vector(b))
      BY <2>4
    <3> HIDE DEF vector
    <3>2. \A j \in 1..n : coded[b * n + j] = w[j]
      BY <2>3, <3>1
    <3>3. block = w
      BY <3>2
    <3> QED
      BY <3>1, <3>3
  <2>6. vector(b)[r] = text[i]
    BY <2>1 DEF InBlock
  <2> HIDE DEF block, vector
  <2> QED
    BY <2>2, <2>4, <2>5, <2>6
<1>6. HillBlocks(p, coded) = [i \in 1..length |-> HillBlocks(p, coded)[i]]
  <2>1. DOMAIN coded = 1..length
    BY <1>4
  <2> QED
    BY <2>1 DEF HillBlocks
<1>7. HillBlocks(p, coded) = text
  BY <1>5, <1>6
<1> QED
  BY <1>4, <1>7 DEF coded

LEMMA HillUndone ==
  ASSUME NEW m \in Matrices, NEW length \in Nat, NEW text \in [1..length -> Index29],
         HillAccepts(m, text), NEW dir \in {"encrypt", "decrypt"}, NEW back \in {"encrypt", "decrypt"},
         back # dir
  PROVE  /\ HillOutput(m, dir, text) \in [1..length -> Index29]
         /\ HillOutput(m, back, HillOutput(m, dir, text)) = text
<1>1. PICK n \in {2, 3} : m \in Square(n)
  BY DEF Matrices
<1>2. Len(m) = n /\ Len(text) = length
  BY <1>1 DEF Square
<1>3. InBlocks(n, length) /\ Det(m) # 0
  BY <1>2 DEF HillAccepts, InBlocks
<1>4. PICK v \in Square(n) : v = Inverted(m) /\ Undoes(v, m) /\ Undoes(m, v)
  BY <1>1, <1>3, InvertedUndoes
<1>5. CASE dir = "decrypt"
  <2>1. HillOutput(m, dir, text) = HillBlocks(v, text)
    BY <1>4, <1>5 DEF HillOutput
  <2>2. HillOutput(m, back, HillBlocks(v, text)) = HillBlocks(m, HillBlocks(v, text))
    BY <1>5 DEF HillOutput
  <2> QED
    BY <1>1, <1>3, <1>4, <2>1, <2>2, BlocksUndone
<1>6. CASE dir = "encrypt"
  <2>1. HillOutput(m, dir, text) = HillBlocks(m, text)
    BY <1>6 DEF HillOutput
  <2>2. HillOutput(m, back, HillBlocks(m, text)) = HillBlocks(v, HillBlocks(m, text))
    BY <1>4, <1>6 DEF HillOutput
  <2> QED
    BY <1>1, <1>3, <1>4, <2>1, <2>2, BlocksUndone
<1> QED
  BY <1>5, <1>6

-----------------------------------------------------------------------------
(***************************************************************************)
(* Sequences one after the other: what is in them, and that nothing is in  *)
(* them twice when no two of their places hold the same.                   *)
(***************************************************************************)
FlatTo(f, ss, m) == f = [i \in 1..m |-> IF i = 1 THEN ss[i] ELSE f[i - 1] \o ss[i]]

LEMMA FlatExists ==
  ASSUME NEW ss, NEW n \in Nat
  PROVE  \E f : FlatTo(f, ss, n)
<1>1. \E f : FlatTo(f, ss, 0)
  <2>1. FlatTo([i \in 1..0 |-> 0], ss, 0)
    BY DEF FlatTo
  <2> QED
    BY <2>1
<1>2. ASSUME NEW m \in Nat, \E f : FlatTo(f, ss, m)
      PROVE  \E f : FlatTo(f, ss, m + 1)
  <2>1. PICK f : FlatTo(f, ss, m)
    BY <1>2
  <2> DEFINE g == [i \in 1..(m + 1) |->
                     IF i <= m THEN f[i] ELSE IF i = 1 THEN ss[i] ELSE f[m] \o ss[i]]
  <2>2. \A i \in 1..m : g[i] = f[i] /\ f[i] = IF i = 1 THEN ss[i] ELSE f[i - 1] \o ss[i]
    <3>1. \A i \in 1..m : f[i] = IF i = 1 THEN ss[i] ELSE f[i - 1] \o ss[i]
      BY <2>1, Zenon DEF FlatTo
    <3>2. \A i \in 1..m : g[i] = f[i]
      OBVIOUS
    <3> QED
      BY <3>1, <3>2
  <2>3. g[m + 1] = IF m + 1 = 1 THEN ss[m + 1] ELSE g[m] \o ss[m + 1]
    <3>1. m # 0 => g[m] = f[m]
      BY <2>2
    <3> QED
      BY <3>1
  <2>4. ASSUME NEW i \in 1..(m + 1)
        PROVE  g[i] = IF i = 1 THEN ss[i] ELSE g[i - 1] \o ss[i]
    <3>1. CASE i = m + 1
      BY <2>3, <3>1
    <3>2. CASE i \in 1..m
      <4>1. i # 1 => i - 1 \in 1..m
        BY <3>2
      <4> HIDE DEF g
      <4> QED
        BY <2>2, <3>2, <4>1
    <3> QED
      BY <3>1, <3>2
  <2>5. g = [i \in 1..(m + 1) |-> g[i]]
    OBVIOUS
  <2> HIDE DEF g
  <2>6. FlatTo(g, ss, m + 1)
    BY <2>4, <2>5 DEF FlatTo
  <2> QED
    BY <2>6
<1>3. SUFFICES ASSUME ~\E f : FlatTo(f, ss, n) PROVE FALSE
  OBVIOUS
<1> DEFINE S == {m \in 1..n : ~\E f : FlatTo(f, ss, m)}
<1>4. S \in SUBSET (1..n) /\ S # {}
  <2>1. n # 0
    BY <1>1, <1>3
  <2>2. n \in S
    BY <1>3, <2>1
  <2> QED
    BY <2>2
<1>5. PICK m \in S : \A p \in S : m <= p
  <2> HIDE DEF S
  <2> QED
    BY <1>4, FirstPosition
<1>6. m \in 1..n /\ ~(\E f : FlatTo(f, ss, m)) /\ m - 1 \in Nat /\ (m - 1) + 1 = m
  BY <1>5
<1>7. \E f : FlatTo(f, ss, m - 1)
  <2>1. CASE m = 1
    BY <1>1, <2>1
  <2>2. CASE m # 1
    <3>1. m - 1 \in 1..n /\ ~(m <= m - 1)
      BY <1>6, <2>2
    <3>2. m - 1 \notin S
      BY <1>5, <3>1
    <3> QED
      BY <3>1, <3>2
  <2> QED
    BY <2>1, <2>2
<1> HIDE DEF S
<1> QED
  BY <1>2, <1>6, <1>7

Holds(s, x) == \E i \in DOMAIN s : s[i] = x
HoldsUpTo(ss, n, x) == \E k \in 1..n : Holds(ss[k], x)
Once(s) == \A i, j \in DOMAIN s : s[i] = s[j] => i = j
Apart(ss) == \A k, l \in DOMAIN ss : \A i \in DOMAIN ss[k], j \in DOMAIN ss[l] :
               ss[k][i] = ss[l][j] => k = l /\ i = j

LEMMA Joined ==
  ASSUME NEW T, NEW s \in Seq(T), NEW t \in Seq(T)
  PROVE  /\ s \o t \in Seq(T)
         /\ \A x : Holds(s \o t, x) <=> Holds(s, x) \/ Holds(t, x)
         /\ Once(s) /\ Once(t) /\ (\A x : ~(Holds(s, x) /\ Holds(t, x))) => Once(s \o t)
<1> DEFINE u == s \o t
<1>1. /\ u \in Seq(T) /\ Len(u) = Len(s) + Len(t) /\ Len(s) \in Nat /\ Len(t) \in Nat
      /\ \A i \in 1..Len(s) : u[i] = s[i]
      /\ \A i \in 1..Len(t) : u[Len(s) + i] = t[i]
  OBVIOUS
<1>2. DOMAIN u = 1..(Len(s) + Len(t)) /\ DOMAIN s = 1..Len(s) /\ DOMAIN t = 1..Len(t)
  BY <1>1
<1> HIDE DEF u
<1>3. ASSUME NEW i \in DOMAIN u
      PROVE  \/ i \in 1..Len(s) /\ u[i] = s[i]
             \/ \E j \in 1..Len(t) : i = Len(s) + j /\ u[i] = t[j]
  <2>1. CASE i > Len(s)
    <3>1. i - Len(s) \in 1..Len(t) /\ i = Len(s) + (i - Len(s))
      BY <1>1, <1>2, <2>1
    <3> QED
      BY <1>1, <3>1
  <2>2. CASE i <= Len(s)
    <3>1. i \in 1..Len(s)
      BY <1>1, <1>2, <2>2
    <3> QED
      BY <1>1, <3>1
  <2> QED
    BY <1>1, <1>2, <2>1, <2>2
<1>4. ASSUME NEW x PROVE Holds(u, x) <=> Holds(s, x) \/ Holds(t, x)
  <2>1. ASSUME Holds(u, x) PROVE Holds(s, x) \/ Holds(t, x)
    BY <1>2, <1>3, <2>1 DEF Holds
  <2>2. ASSUME Holds(s, x) PROVE Holds(u, x)
    <3>1. PICK i \in 1..Len(s) : s[i] = x
      BY <1>2, <2>2 DEF Holds
    <3>2. i \in DOMAIN u /\ u[i] = x
      BY <1>1, <1>2, <3>1
    <3> QED
      BY <3>2 DEF Holds
  <2>3. ASSUME Holds(t, x) PROVE Holds(u, x)
    <3>1. PICK i \in 1..Len(t) : t[i] = x
      BY <1>2, <2>3 DEF Holds
    <3>2. Len(s) + i \in DOMAIN u /\ u[Len(s) + i] = x
      BY <1>1, <1>2, <3>1
    <3> QED
      BY <3>2 DEF Holds
  <2> QED
    BY <2>1, <2>2, <2>3
<1>5. ASSUME Once(s), Once(t), \A x : ~(Holds(s, x) /\ Holds(t, x))
      PROVE  Once(u)
  <2>1. ASSUME NEW i \in DOMAIN u, NEW j \in DOMAIN u, u[i] = u[j] PROVE i = j
    <3>1. CASE i \in 1..Len(s) /\ u[i] = s[i] /\ j \in 1..Len(s) /\ u[j] = s[j]
      BY <1>2, <1>5, <2>1, <3>1 DEF Once
    <3>2. ASSUME i \in 1..Len(s), u[i] = s[i],
                 NEW l \in 1..Len(t), j = Len(s) + l, u[j] = t[l]
          PROVE  FALSE
      BY <1>2, <1>5, <2>1, <3>2 DEF Holds
    <3>3. ASSUME j \in 1..Len(s), u[j] = s[j],
                 NEW k \in 1..Len(t), i = Len(s) + k, u[i] = t[k]
          PROVE  FALSE
      BY <1>2, <1>5, <2>1, <3>3 DEF Holds
    <3>4. ASSUME NEW k \in 1..Len(t), i = Len(s) + k, u[i] = t[k],
                 NEW l \in 1..Len(t), j = Len(s) + l, u[j] = t[l]
          PROVE  i = j
      BY <1>2, <1>5, <2>1, <3>4 DEF Once
    <3> QED
      BY <1>3, <3>1, <3>2, <3>3, <3>4
  <2> QED
    BY <2>1 DEF Once
<1> QED
  BY <1>1, <1>4, <1>5 DEF u

FlatUpTo(f, ss, T, n) ==
  /\ f[n] \in Seq(T)
  /\ \A x : Holds(f[n], x) <=> HoldsUpTo(ss, n, x)
  /\ Apart(ss) => Once(f[n])

LEMMA FlatStep ==
  ASSUME NEW T, NEW ss \in Seq(Seq(T)), NEW f, FlatTo(f, ss, Len(ss)),
         NEW n \in 1..Len(ss), n # 1 => FlatUpTo(f, ss, T, n - 1)
  PROVE  FlatUpTo(f, ss, T, n)
<1>1. f[n] = IF n = 1 THEN ss[n] ELSE f[n - 1] \o ss[n]
  BY DEF FlatTo
<1>2. ss[n] \in Seq(T) /\ n \in DOMAIN ss
  OBVIOUS
<1>3. Apart(ss) => Once(ss[n])
  BY <1>2 DEF Apart, Once
<1>4. \A x : HoldsUpTo(ss, n, x) <=> (n # 1 /\ HoldsUpTo(ss, n - 1, x)) \/ Holds(ss[n], x)
  BY DEF HoldsUpTo
<1>5. CASE n = 1
  BY <1>1, <1>2, <1>3, <1>4, <1>5 DEF FlatUpTo
<1>6. CASE n # 1
  <2>1. PICK s \in Seq(T) : s = f[n - 1]
    BY <1>6 DEF FlatUpTo
  <2>2. PICK t \in Seq(T) : t = ss[n]
    BY <1>2
  <2>3. /\ s \o t \in Seq(T)
        /\ \A x : Holds(s \o t, x) <=> Holds(s, x) \/ Holds(t, x)
        /\ Once(s) /\ Once(t) /\ (\A x : ~(Holds(s, x) /\ Holds(t, x))) => Once(s \o t)
    BY Joined
  <2>4. \A x : Holds(s, x) <=> HoldsUpTo(ss, n - 1, x)
    BY <1>6, <2>1 DEF FlatUpTo
  <2>5. ASSUME Apart(ss) PROVE Once(s \o t)
    <3>1. ASSUME NEW x, Holds(s, x), Holds(t, x) PROVE FALSE
      <4>1. PICK k \in 1..(n - 1) : Holds(ss[k], x)
        BY <2>4, <3>1 DEF HoldsUpTo
      <4>2. k \in DOMAIN ss /\ k # n /\ Holds(ss[n], x)
        BY <2>2, <3>1
      <4> QED
        BY <1>2, <2>5, <4>1, <4>2 DEF Apart, Holds
    <3>2. Once(s) /\ Once(t)
      BY <1>3, <1>6, <2>1, <2>2, <2>5 DEF FlatUpTo
    <3> QED
      BY <2>3, <3>1, <3>2
  <2>6. f[n] = s \o t
    BY <1>1, <1>6, <2>1, <2>2
  <2>7. \A x : Holds(f[n], x) <=> HoldsUpTo(ss, n, x)
    BY <1>4, <1>6, <2>2, <2>3, <2>4, <2>6
  <2> QED
    BY <2>3, <2>5, <2>6, <2>7 DEF FlatUpTo
<1> QED
  BY <1>5, <1>6

LEMMA Flattened ==
  ASSUME NEW T, NEW ss \in Seq(Seq(T))
  PROVE  /\ FlattenSeq(ss) \in Seq(T)
         /\ \A x : Holds(FlattenSeq(ss), x) <=> HoldsUpTo(ss, Len(ss), x)
         /\ Apart(ss) => Once(FlattenSeq(ss))
<1>1. CASE Len(ss) = 0
  <2>1. FlattenSeq(ss) = <<>>
    BY <1>1 DEF FlattenSeq
  <2> QED
    BY <1>1, <2>1 DEF Holds, HoldsUpTo, Once
<1>2. CASE Len(ss) # 0
  <2> DEFINE f == CHOOSE g : g = [i \in 1..Len(ss) |-> IF i = 1 THEN ss[i] ELSE g[i - 1] \o ss[i]]
  <2>1. FlatTo(f, ss, Len(ss))
    <3>1. Len(ss) \in Nat
      OBVIOUS
    <3> QED
      BY <3>1, FlatExists DEF FlatTo
  <2>2. FlattenSeq(ss) = f[Len(ss)]
    BY <1>2 DEF FlattenSeq
  <2> HIDE DEF f
  <2> DEFINE S == {n \in 1..Len(ss) : ~FlatUpTo(f, ss, T, n)}
  <2>3. SUFFICES ASSUME S # {} PROVE FALSE
    <3>1. Len(ss) \in 1..Len(ss)
      BY <1>2
    <3> QED
      BY <2>2, <3>1 DEF FlatUpTo
  <2>4. PICK n \in S : \A p \in S : n <= p
    <3>1. S \in SUBSET (1..Len(ss)) /\ Len(ss) \in Nat
      OBVIOUS
    <3> HIDE DEF S
    <3> QED
      BY <2>3, <3>1, FirstPosition
  <2>5. n \in 1..Len(ss) /\ ~FlatUpTo(f, ss, T, n)
    OBVIOUS
  <2>6. n # 1 => FlatUpTo(f, ss, T, n - 1)
    <3>1. n # 1 => n - 1 \in 1..Len(ss) /\ ~(n <= n - 1)
      BY <2>5
    <3> QED
      BY <2>4, <3>1
  <2> HIDE DEF S
  <2> QED
    BY <2>1, <2>5, <2>6, FlatStep
<1> QED
  BY <1>1, <1>2

(***************************************************************************)
(* Slots of a grid.                                                        *)
(***************************************************************************)
Slot(cols, r, c) == r * cols + c

LEMMA SlotUnique ==
  ASSUME NEW cols \in Nat, NEW q \in Nat, NEW r \in Nat,
         NEW c \in 0..(cols - 1), NEW d \in 0..(cols - 1),
         Slot(cols, q, c) = Slot(cols, r, d)
  PROVE  q = r /\ c = d
<1>1. ASSUME NEW k \in Nat, NEW a \in 0..(cols - 1), NEW b \in 0..(cols - 1), NEW p \in Nat,
             Slot(cols, p, a) = Slot(cols, p + 1 + k, b)
      PROVE  FALSE
  <2>1. (p + 1 + k) * cols = p * cols + cols + k * cols
    OBVIOUS
  <2>2. k * cols \in Nat /\ p * cols \in Nat
    OBVIOUS
  <2> QED
    BY <1>1, <2>1, <2>2 DEF Slot
<1>2. ~(q < r)
  <2>1. SUFFICES ASSUME q < r PROVE FALSE
    OBVIOUS
  <2>2. r - q - 1 \in Nat /\ r = q + 1 + (r - q - 1)
    BY <2>1
  <2> QED
    BY <1>1, <2>2
<1>3. ~(r < q)
  <2>1. SUFFICES ASSUME r < q PROVE FALSE
    OBVIOUS
  <2>2. q - r - 1 \in Nat /\ q = r + 1 + (q - r - 1)
    BY <2>1
  <2> QED
    BY <1>1, <2>2
<1>4. q = r
  BY <1>2, <1>3
<1>5. q * cols \in Nat
  OBVIOUS
<1> QED
  BY <1>4, <1>5 DEF Slot

LEMMA SlotsAre ==
  ASSUME NEW rows \in Nat \ {0}, NEW cols \in Nat \ {0}
  PROVE  /\ \A r \in 0..(rows - 1), c \in 0..(cols - 1) : Slot(cols, r, c) \in 0..(rows * cols - 1)
         /\ \A x \in 0..(rows * cols - 1) :
              \E r \in 0..(rows - 1), c \in 0..(cols - 1) : x = Slot(cols, r, c)
<1>1. ASSUME NEW r \in 0..(rows - 1), NEW c \in 0..(cols - 1)
      PROVE  Slot(cols, r, c) \in 0..(rows * cols - 1)
  <2>1. PICK k \in Nat : rows = r + 1 + k
    <3>1. rows - r - 1 \in Nat /\ rows = r + 1 + (rows - r - 1)
      OBVIOUS
    <3> QED
      BY <3>1
  <2>2. (r + 1 + k) * cols = r * cols + cols + k * cols
    OBVIOUS
  <2>3. k * cols \in Nat /\ r * cols \in Nat
    OBVIOUS
  <2>4. rows * cols = r * cols + cols + k * cols
    BY <2>1, <2>2
  <2> QED
    BY <2>3, <2>4 DEF Slot
<1>2. ASSUME NEW x \in 0..(rows * cols - 1)
      PROVE  \E r \in 0..(rows - 1), c \in 0..(cols - 1) : x = Slot(cols, r, c)
  <2>1. PICK r \in Nat, c \in 0..(cols - 1) : x = r * cols + c
    <3>1. x \in Nat
      <4>1. rows * cols \in Nat
        OBVIOUS
      <4> QED
        BY <4>1
    <3> HIDE <1>2
    <3>2. x = (x \div cols) * cols + (x % cols) /\ x \div cols \in Nat /\ x % cols \in 0..(cols - 1)
      BY <3>1
    <3> QED
      BY <3>2
  <2>2. ~(r >= rows)
    <3>1. SUFFICES ASSUME NEW k \in Nat, r = rows + k PROVE FALSE
      <4>1. r >= rows => r - rows \in Nat /\ r = rows + (r - rows)
        OBVIOUS
      <4> QED
        BY <4>1
    <3>2. r * cols = rows * cols + k * cols /\ k * cols \in Nat /\ rows * cols \in Nat
      BY <3>1
    <3> QED
      BY <2>1, <3>2
  <2> QED
    BY <2>1, <2>2 DEF Slot
<1> QED
  BY <1>1, <1>2

(***************************************************************************)
(* Sequences that visit every member of a set once.                        *)
(***************************************************************************)
Visits(s, S) == s \in Seq(Nat) /\ Once(s) /\ \A x : Holds(s, x) <=> x \in S

OnRow(cols, r, a, b) == {Slot(cols, r, c) : c \in a..b}
OnColumn(cols, a, b, c) == {Slot(cols, r, c) : r \in a..b}

LineOf(line, rows, cols, k) ==
  {x \in 0..(rows * cols - 1) :
     \E r \in 0..(rows - 1), c \in 0..(cols - 1) : x = Slot(cols, r, c) /\ line[r][c] = k}

LEMMA Reversed ==
  ASSUME NEW T, NEW s \in Seq(T)
  PROVE  /\ Reverse(s) \in Seq(T)
         /\ Once(s) => Once(Reverse(s))
         /\ \A x : Holds(Reverse(s), x) <=> Holds(s, x)
<1> DEFINE t == Reverse(s)
           n == Len(s)
<1>1. /\ n \in Nat /\ DOMAIN s = 1..n /\ t = [i \in 1..n |-> s[n - i + 1]]
      /\ \A i \in 1..n : s[i] \in T
  BY DEF Reverse
<1> HIDE DEF t, n
<1>2. DOMAIN t = 1..n /\ \A i \in 1..n : t[i] = s[n - i + 1] /\ n - i + 1 \in 1..n
  BY <1>1
<1>3. t \in Seq(T)
  <2>1. t \in [1..n -> T]
    BY <1>1, <1>2
  <2> QED
    BY <1>1, <2>1
<1>4. ASSUME Once(s) PROVE Once(t)
  <2>1. ASSUME NEW i \in 1..n, NEW j \in 1..n, t[i] = t[j] PROVE i = j
    <3>1. n - i + 1 = n - j + 1
      <4>1. n - i + 1 \in DOMAIN s /\ n - j + 1 \in DOMAIN s
        BY <1>1, <1>2
      <4>2. s[n - i + 1] = s[n - j + 1]
        BY <1>2, <2>1
      <4> QED
        BY <1>4, <4>1, <4>2, Zenon DEF Once
    <3> QED
      BY <1>1, <3>1
  <2> QED
    BY <1>2, <2>1 DEF Once
<1>5. ASSUME NEW x PROVE Holds(t, x) <=> Holds(s, x)
  <2>1. ASSUME NEW i \in 1..n, t[i] = x PROVE Holds(s, x)
    BY <1>1, <1>2, <2>1 DEF Holds
  <2>2. ASSUME NEW i \in 1..n, s[i] = x PROVE Holds(t, x)
    <3>1. n - i + 1 \in 1..n /\ n - (n - i + 1) + 1 = i
      BY <1>1
    <3>2. t[n - i + 1] = x
      BY <1>2, <2>2, <3>1
    <3> QED
      BY <1>2, <3>1, <3>2 DEF Holds
  <2> QED
    BY <1>1, <1>2, <2>1, <2>2 DEF Holds
<1> QED
  BY <1>3, <1>4, <1>5 DEF t

RunOf(s, a, b) == s \in Seq(Int) /\ Once(s) /\ \A x : Holds(s, x) <=> x \in a..b

LEMMA RunsUp ==
  ASSUME NEW a \in Int, NEW b \in Int
  PROVE  RunOf(Up(a, b), a, b)
<1> DEFINE s == Up(a, b)
<1>1. CASE a > b
  <2>1. s = <<>>
    BY <1>1 DEF Up
  <2>2. a..b = {}
    BY <1>1
  <2> HIDE DEF s
  <2> QED
    BY <2>1, <2>2 DEF RunOf, Once, Holds, s
<1>2. CASE a <= b
  <2>1. s = [i \in 1..(b - a + 1) |-> a + i - 1] /\ b - a + 1 \in Nat
    BY <1>2 DEF Up
  <2> HIDE DEF s
  <2>2. DOMAIN s = 1..(b - a + 1) /\ \A i \in 1..(b - a + 1) : s[i] = a + i - 1
    BY <2>1
  <2>3. s \in Seq(Int)
    <3>1. s \in [1..(b - a + 1) -> Int]
      BY <2>1
    <3> QED
      BY <2>1, <3>1
  <2>4. Once(s)
    BY <2>2 DEF Once
  <2>5. ASSUME NEW x PROVE Holds(s, x) <=> x \in a..b
    <3>1. ASSUME x \in a..b PROVE Holds(s, x)
      <4>1. x - a + 1 \in 1..(b - a + 1) /\ a + (x - a + 1) - 1 = x
        BY <3>1
      <4> QED
        BY <2>2, <4>1 DEF Holds
    <3>2. ASSUME NEW i \in 1..(b - a + 1), s[i] = x PROVE x \in a..b
      BY <2>2, <3>2
    <3> QED
      BY <2>2, <3>1, <3>2 DEF Holds
  <2> QED
    BY <2>3, <2>4, <2>5 DEF RunOf, s
<1> QED
  BY <1>1, <1>2

LEMMA RunsDown ==
  ASSUME NEW a \in Int, NEW b \in Int
  PROVE  RunOf(Down(b, a), a, b)
<1>1. PICK s \in Seq(Int) : s = Up(a, b)
  BY RunsUp DEF RunOf
<1>2. Down(b, a) = Reverse(s)
  BY <1>1 DEF Down
<1>3. RunOf(s, a, b)
  BY <1>1, RunsUp
<1>4. /\ Reverse(s) \in Seq(Int)
      /\ Once(s) => Once(Reverse(s))
      /\ \A x : Holds(Reverse(s), x) <=> Holds(s, x)
  BY Reversed
<1> QED
  BY <1>2, <1>3, <1>4 DEF RunOf

LEMMA RowVisited ==
  ASSUME NEW cols \in Nat, NEW r \in Nat, NEW a \in Nat, NEW b \in Int, b < cols,
         NEW cs, RunOf(cs, a, b)
  PROVE  Visits(AlongRow(cols, r, cs), OnRow(cols, r, a, b))
<1> DEFINE s == AlongRow(cols, r, cs)
<1>1. /\ cs \in Seq(Int) /\ Len(cs) \in Nat /\ DOMAIN cs = 1..Len(cs)
      /\ s = [i \in 1..Len(cs) |-> Slot(cols, r, cs[i])]
  BY DEF AlongRow, Slot, RunOf
<1> HIDE DEF s
<1>2. \A i \in 1..Len(cs) : cs[i] \in a..b /\ cs[i] \in 0..(cols - 1)
  BY <1>1 DEF RunOf, Holds
<1>3. DOMAIN s = 1..Len(cs) /\ \A i \in 1..Len(cs) : s[i] = Slot(cols, r, cs[i])
  BY <1>1
<1>4. s \in Seq(Nat)
  <2>1. ASSUME NEW i \in 1..Len(cs) PROVE s[i] \in Nat
    <3>1. PICK c \in 0..(cols - 1) : c = cs[i]
      BY <1>2
    <3>2. Slot(cols, r, c) \in Nat
      BY DEF Slot
    <3> QED
      BY <1>3, <3>1, <3>2
  <2>2. s \in [1..Len(cs) -> Nat]
    BY <1>1, <1>3, <2>1
  <2> QED
    BY <1>1, <2>2
<1>5. Once(s)
  <2>1. ASSUME NEW i \in 1..Len(cs), NEW j \in 1..Len(cs), s[i] = s[j] PROVE i = j
    <3>1. PICK c \in 0..(cols - 1) : c = cs[i]
      BY <1>2
    <3>2. PICK d \in 0..(cols - 1) : d = cs[j]
      BY <1>2
    <3>3. c = d
      BY <1>3, <2>1, <3>1, <3>2, SlotUnique
    <3> QED
      BY <1>1, <3>1, <3>2, <3>3 DEF RunOf, Once
  <2> QED
    BY <1>3, <2>1 DEF Once
<1>6. ASSUME NEW x PROVE Holds(s, x) <=> x \in OnRow(cols, r, a, b)
  <2>1. Holds(s, x) <=> \E i \in 1..Len(cs) : Slot(cols, r, cs[i]) = x
    BY <1>3 DEF Holds
  <2>2. \A c : c \in a..b <=> \E i \in 1..Len(cs) : cs[i] = c
    BY <1>1 DEF RunOf, Holds
  <2> QED
    BY <2>1, <2>2, Zenon DEF OnRow
<1> QED
  BY <1>4, <1>5, <1>6 DEF Visits, s

LEMMA ColumnVisited ==
  ASSUME NEW cols \in Nat, NEW c \in 0..(cols - 1), NEW a \in Nat, NEW b \in Int,
         NEW rs, RunOf(rs, a, b)
  PROVE  Visits(AlongColumn(cols, rs, c), OnColumn(cols, a, b, c))
<1> DEFINE s == AlongColumn(cols, rs, c)
<1>1. /\ rs \in Seq(Int) /\ Len(rs) \in Nat /\ DOMAIN rs = 1..Len(rs)
      /\ s = [i \in 1..Len(rs) |-> Slot(cols, rs[i], c)]
  BY DEF AlongColumn, Slot, RunOf
<1> HIDE DEF s
<1>2. \A i \in 1..Len(rs) : rs[i] \in a..b /\ rs[i] \in Nat
  <2>1. \A i \in 1..Len(rs) : rs[i] \in a..b
    BY <1>1 DEF RunOf, Holds
  <2>2. a..b \subseteq Nat
    OBVIOUS
  <2> QED
    BY <2>1, <2>2
<1>3. DOMAIN s = 1..Len(rs) /\ \A i \in 1..Len(rs) : s[i] = Slot(cols, rs[i], c)
  BY <1>1
<1>4. s \in Seq(Nat)
  <2>1. ASSUME NEW i \in 1..Len(rs) PROVE s[i] \in Nat
    <3>1. PICK r \in Nat : r = rs[i]
      BY <1>2
    <3>2. Slot(cols, r, c) \in Nat
      BY DEF Slot
    <3> QED
      BY <1>3, <3>1, <3>2
  <2>2. s \in [1..Len(rs) -> Nat]
    BY <1>1, <1>3, <2>1
  <2> QED
    BY <1>1, <2>2
<1>5. Once(s)
  <2>1. ASSUME NEW i \in 1..Len(rs), NEW j \in 1..Len(rs), s[i] = s[j] PROVE i = j
    <3>1. PICK q \in Nat : q = rs[i]
      BY <1>2
    <3>2. PICK r \in Nat : r = rs[j]
      BY <1>2
    <3>3. q = r
      BY <1>3, <2>1, <3>1, <3>2, SlotUnique
    <3> QED
      BY <1>1, <3>1, <3>2, <3>3 DEF RunOf, Once
  <2> QED
    BY <1>3, <2>1 DEF Once
<1>6. ASSUME NEW x PROVE Holds(s, x) <=> x \in OnColumn(cols, a, b, c)
  <2>1. Holds(s, x) <=> \E i \in 1..Len(rs) : Slot(cols, rs[i], c) = x
    BY <1>3 DEF Holds
  <2>2. \A r : r \in a..b <=> \E i \in 1..Len(rs) : rs[i] = r
    BY <1>1 DEF RunOf, Holds
  <2> QED
    BY <2>1, <2>2, Zenon DEF OnColumn
<1> QED
  BY <1>4, <1>5, <1>6 DEF Visits, s

LEMMA VisitsJoined ==
  ASSUME NEW s, NEW t, NEW S, NEW T, Visits(s, S), Visits(t, T), S \cap T = {}
  PROVE  Visits(s \o t, S \cup T)
<1>1. s \in Seq(Nat) /\ t \in Seq(Nat)
  BY DEF Visits
<1>2. /\ s \o t \in Seq(Nat)
      /\ \A x : Holds(s \o t, x) <=> Holds(s, x) \/ Holds(t, x)
      /\ Once(s) /\ Once(t) /\ (\A x : ~(Holds(s, x) /\ Holds(t, x))) => Once(s \o t)
  BY <1>1, Joined
<1> QED
  BY <1>2 DEF Visits

LEMMA LinesVisited ==
  ASSUME NEW rows \in Nat \ {0}, NEW cols \in Nat \ {0}, NEW ss, NEW n \in Nat,
         ss = [k \in 1..n |-> ss[k]],
         NEW line, \A r \in 0..(rows - 1), c \in 0..(cols - 1) : line[r][c] \in 1..n,
         \A k \in 1..n : Visits(ss[k], LineOf(line, rows, cols, k))
  PROVE  Visits(FlattenSeq(ss), 0..(rows * cols - 1))
<1>1. ss \in Seq(Seq(Nat)) /\ Len(ss) = n /\ DOMAIN ss = 1..n
  <2>1. \A k \in 1..n : ss[k] \in Seq(Nat)
    BY DEF Visits
  <2>2. ss \in [1..n -> Seq(Nat)]
    BY <2>1
  <2> QED
    BY <2>2
<1>2. /\ FlattenSeq(ss) \in Seq(Nat)
      /\ \A x : Holds(FlattenSeq(ss), x) <=> HoldsUpTo(ss, Len(ss), x)
      /\ Apart(ss) => Once(FlattenSeq(ss))
  BY <1>1, Flattened
<1>3. Apart(ss)
  <2>1. ASSUME NEW k \in 1..n, NEW l \in 1..n, NEW i \in DOMAIN ss[k], NEW j \in DOMAIN ss[l],
               ss[k][i] = ss[l][j]
        PROVE  k = l /\ i = j
    <3>1. ss[k][i] \in LineOf(line, rows, cols, k) /\ ss[k][i] \in LineOf(line, rows, cols, l)
      BY <2>1 DEF Visits, Holds
    <3>2. PICK q \in 0..(rows - 1), c \in 0..(cols - 1) : ss[k][i] = Slot(cols, q, c) /\ line[q][c] = k
      BY <3>1 DEF LineOf
    <3>3. PICK r \in 0..(rows - 1), d \in 0..(cols - 1) : ss[k][i] = Slot(cols, r, d) /\ line[r][d] = l
      BY <3>1 DEF LineOf
    <3>4. q = r /\ c = d
      <4>1. q \in Nat /\ r \in Nat /\ cols \in Nat
        OBVIOUS
      <4>2. Slot(cols, q, c) = Slot(cols, r, d)
        BY <3>2, <3>3
      <4>3. c \in 0..(cols - 1) /\ d \in 0..(cols - 1)
        OBVIOUS
      <4> HIDE <1>1, <1>2
      <4> QED
        BY ONLY <4>1, <4>2, <4>3, SlotUnique
    <3>5. k = l
      BY <3>2, <3>3, <3>4
    <3> QED
      BY <2>1, <3>5 DEF Visits, Once
  <2> QED
    BY <1>1, <2>1 DEF Apart
<1>4. ASSUME NEW x PROVE HoldsUpTo(ss, n, x) <=> x \in 0..(rows * cols - 1)
  <2>1. HoldsUpTo(ss, n, x) <=> \E k \in 1..n : x \in LineOf(line, rows, cols, k)
    BY DEF HoldsUpTo, Visits
  <2>2. ASSUME x \in 0..(rows * cols - 1)
        PROVE  \E k \in 1..n : x \in LineOf(line, rows, cols, k)
    <3>1. PICK r \in 0..(rows - 1), c \in 0..(cols - 1) : x = Slot(cols, r, c)
      BY <2>2, SlotsAre
    <3> QED
      BY <2>2, <3>1 DEF LineOf
  <2>3. \A k : LineOf(line, rows, cols, k) \subseteq 0..(rows * cols - 1)
    BY DEF LineOf
  <2> QED
    BY <2>1, <2>2, <2>3
<1> QED
  BY <1>1, <1>2, <1>3, <1>4 DEF Visits

(***************************************************************************)
(* A line that runs along a row or a column of the grid.                   *)
(***************************************************************************)
LEMMA RowIs ==
  ASSUME NEW rows \in Nat \ {0}, NEW cols \in Nat \ {0}, NEW line, NEW k,
         NEW q \in 0..(rows - 1),
         \A r \in 0..(rows - 1), c \in 0..(cols - 1) : line[r][c] = k <=> r = q
  PROVE  LineOf(line, rows, cols, k) = OnRow(cols, q, 0, cols - 1)
<1>1. \A r \in 0..(rows - 1), c \in 0..(cols - 1) : Slot(cols, r, c) \in 0..(rows * cols - 1)
  BY SlotsAre
<1>2. \A x : x \in LineOf(line, rows, cols, k) <=>
               \E c \in 0..(cols - 1) : x = Slot(cols, q, c)
  BY <1>1, Zenon DEF LineOf
<1> QED
  BY <1>2, Zenon DEF OnRow

LEMMA ColumnIs ==
  ASSUME NEW rows \in Nat \ {0}, NEW cols \in Nat \ {0}, NEW line, NEW k,
         NEW d \in 0..(cols - 1),
         \A r \in 0..(rows - 1), c \in 0..(cols - 1) : line[r][c] = k <=> c = d
  PROVE  LineOf(line, rows, cols, k) = OnColumn(cols, 0, rows - 1, d)
<1>1. \A r \in 0..(rows - 1), c \in 0..(cols - 1) : Slot(cols, r, c) \in 0..(rows * cols - 1)
  BY SlotsAre
<1>2. \A x : x \in LineOf(line, rows, cols, k) <=>
               \E r \in 0..(rows - 1) : x = Slot(cols, r, d)
  <2>1. ASSUME NEW x \in LineOf(line, rows, cols, k)
        PROVE  \E r \in 0..(rows - 1) : x = Slot(cols, r, d)
    BY Zenon DEF LineOf
  <2>2. ASSUME NEW r \in 0..(rows - 1)
        PROVE  Slot(cols, r, d) \in LineOf(line, rows, cols, k)
    BY <1>1, Zenon DEF LineOf
  <2> QED
    BY <2>1, <2>2
<1> QED
  BY <1>2, Zenon DEF OnColumn

-----------------------------------------------------------------------------
(***************************************************************************)
(* Back and forth: row after row.                                          *)
(***************************************************************************)
LEMMA BackAndForth ==
  ASSUME NEW rows \in Nat \ {0}, NEW cols \in Nat \ {0}, NEW ltr \in BOOLEAN
  PROVE  Visits(Boustrophedon(rows, cols, ltr), 0..(rows * cols - 1))
<1> DEFINE cs(k) == IF ((k - 1) % 2 = 0) = ltr THEN Up(0, cols - 1) ELSE Down(cols - 1, 0)
           ss == [k \in 1..rows |-> AlongRow(cols, k - 1, cs(k))]
           line == [r \in 0..(rows - 1) |-> [c \in 0..(cols - 1) |-> r + 1]]
<1>1. Boustrophedon(rows, cols, ltr) = FlattenSeq(ss)
  BY DEF Boustrophedon
<1>2. \A r \in 0..(rows - 1), c \in 0..(cols - 1) : line[r][c] = r + 1
  OBVIOUS
<1>3. ASSUME NEW k \in 1..rows
      PROVE  Visits(ss[k], LineOf(line, rows, cols, k))
  <2>1. RunOf(Up(0, cols - 1), 0, cols - 1) /\ RunOf(Down(cols - 1, 0), 0, cols - 1)
    BY RunsUp, RunsDown
  <2>2. RunOf(cs(k), 0, cols - 1)
    BY <2>1
  <2>3. ss[k] = AlongRow(cols, k - 1, cs(k))
    OBVIOUS
  <2> HIDE DEF cs, ss
  <2>4. Visits(ss[k], OnRow(cols, k - 1, 0, cols - 1))
    <3>1. PICK q \in Nat : q = k - 1
      OBVIOUS
    <3>2. cols - 1 \in Int /\ cols - 1 < cols /\ 0 \in Nat /\ cols \in Nat
      OBVIOUS
    <3> QED
      BY <2>2, <2>3, <3>1, <3>2, RowVisited
  <2> HIDE DEF line
  <2>5. LineOf(line, rows, cols, k) = OnRow(cols, k - 1, 0, cols - 1)
    <3>1. k - 1 \in 0..(rows - 1)
      OBVIOUS
    <3>2. \A r \in 0..(rows - 1), c \in 0..(cols - 1) : line[r][c] = k <=> r = k - 1
      BY <1>2
    <3> QED
      BY <3>1, <3>2, RowIs
  <2> QED
    BY <2>4, <2>5
<1>4. ss = [k \in 1..rows |-> ss[k]]
  OBVIOUS
<1> HIDE DEF ss, line
<1>5. \A r \in 0..(rows - 1), c \in 0..(cols - 1) : line[r][c] \in 1..rows
  BY <1>2
<1> QED
  BY <1>1, <1>3, <1>4, <1>5, LinesVisited

-----------------------------------------------------------------------------
(***************************************************************************)
(* Along the diagonals: on each of them one slot in each row that it cuts. *)
(***************************************************************************)
OnSlant(cols, a, b, col) == {Slot(cols, r, col[r]) : r \in a..b}

LEMMA SlantVisited ==
  ASSUME NEW cols \in Nat, NEW a \in Nat, NEW b \in Int, NEW col \in [a..b -> 0..(cols - 1)],
         NEW rs, RunOf(rs, a, b), NEW s,
         s = [i \in DOMAIN rs |-> Slot(cols, rs[i], col[rs[i]])]
  PROVE  Visits(s, OnSlant(cols, a, b, col))
<1>1. /\ rs \in Seq(Int) /\ Len(rs) \in Nat /\ DOMAIN rs = 1..Len(rs)
      /\ s = [i \in 1..Len(rs) |-> Slot(cols, rs[i], col[rs[i]])]
  BY DEF RunOf
<1>2. \A i \in 1..Len(rs) : rs[i] \in a..b /\ rs[i] \in Nat
  <2>1. \A i \in 1..Len(rs) : rs[i] \in a..b
    BY <1>1 DEF RunOf, Holds
  <2>2. a..b \subseteq Nat
    OBVIOUS
  <2> QED
    BY <2>1, <2>2
<1>3. DOMAIN s = 1..Len(rs) /\ \A i \in 1..Len(rs) : s[i] = Slot(cols, rs[i], col[rs[i]])
  BY <1>1
<1>4. s \in Seq(Nat)
  <2>1. ASSUME NEW i \in 1..Len(rs) PROVE s[i] \in Nat
    <3>1. PICK r \in Nat : r = rs[i]
      BY <1>2
    <3>2. PICK c \in 0..(cols - 1) : c = col[rs[i]]
      BY <1>2
    <3>3. Slot(cols, r, c) \in Nat
      BY DEF Slot
    <3> QED
      BY <1>3, <3>1, <3>2, <3>3
  <2>2. s \in [1..Len(rs) -> Nat]
    BY <1>1, <1>3, <2>1
  <2> QED
    BY <1>1, <2>2
<1>5. Once(s)
  <2>1. ASSUME NEW i \in 1..Len(rs), NEW j \in 1..Len(rs), s[i] = s[j] PROVE i = j
    <3>1. PICK q \in Nat : q = rs[i]
      BY <1>2
    <3>2. PICK r \in Nat : r = rs[j]
      BY <1>2
    <3>3. PICK c \in 0..(cols - 1) : c = col[q]
      BY <1>2, <3>1
    <3>4. PICK d \in 0..(cols - 1) : d = col[r]
      BY <1>2, <3>2
    <3>5. q = r
      <4>1. Slot(cols, q, c) = Slot(cols, r, d)
        BY <1>3, <2>1, <3>1, <3>2, <3>3, <3>4
      <4> QED
        BY <4>1, SlotUnique
    <3> QED
      BY <1>1, <3>1, <3>2, <3>5 DEF RunOf, Once
  <2> QED
    BY <1>3, <2>1 DEF Once
<1>6. ASSUME NEW x PROVE Holds(s, x) <=> x \in OnSlant(cols, a, b, col)
  <2>1. Holds(s, x) <=> \E i \in 1..Len(rs) : Slot(cols, rs[i], col[rs[i]]) = x
    BY <1>3 DEF Holds
  <2>2. \A r : r \in a..b <=> \E i \in 1..Len(rs) : rs[i] = r
    BY <1>1 DEF RunOf, Holds
  <2> QED
    BY <2>1, <2>2, Zenon DEF OnSlant
<1> QED
  BY <1>4, <1>5, <1>6 DEF Visits

LEMMA AlongDiagonals ==
  ASSUME NEW rows \in Nat \ {0}, NEW cols \in Nat \ {0}, NEW anti \in BOOLEAN
  PROVE  Visits(Diagonal(rows, cols, anti), 0..(rows * cols - 1))
<1> DEFINE first(diag) == IF diag >= cols THEN diag - cols + 1 ELSE 0
           final(diag) == IF diag < rows THEN diag ELSE rows - 1
           rs(diag) == Up(first(diag), final(diag))
           at(diag, r) == IF anti THEN cols - 1 - (diag - r) ELSE diag - r
           ss == [d \in 1..(rows + cols - 1) |->
                    [i \in DOMAIN rs(d - 1) |-> rs(d - 1)[i] * cols + at(d - 1, rs(d - 1)[i])]]
           line == [r \in 0..(rows - 1) |-> [c \in 0..(cols - 1) |->
                      IF anti THEN r + (cols - 1 - c) + 1 ELSE r + c + 1]]
<1>1. Diagonal(rows, cols, anti) = FlattenSeq(ss)
  BY DEF Diagonal
<1>2. \A r \in 0..(rows - 1), c \in 0..(cols - 1) :
        line[r][c] = IF anti THEN r + (cols - 1 - c) + 1 ELSE r + c + 1
  OBVIOUS
<1>3. \A r \in 0..(rows - 1), c \in 0..(cols - 1) : Slot(cols, r, c) \in 0..(rows * cols - 1)
  BY SlotsAre
<1>4. ASSUME NEW d \in 1..(rows + cols - 1)
      PROVE  Visits(ss[d], LineOf(line, rows, cols, d))
  <2>1. PICK a \in Nat : a = first(d - 1)
    <3>1. first(d - 1) \in Nat
      OBVIOUS
    <3> HIDE DEF first
    <3> QED
      BY <3>1
  <2>2. PICK b \in Nat : b = final(d - 1)
    OBVIOUS
  <2>3. PICK run : run = rs(d - 1) /\ RunOf(run, a, b)
    BY <2>1, <2>2, RunsUp
  <2> DEFINE col == [r \in a..b |-> at(d - 1, r)]
  <2>4. b < rows /\ \A r \in a..b : at(d - 1, r) \in 0..(cols - 1)
    BY <2>1, <2>2
  <2>5. col \in [a..b -> 0..(cols - 1)]
    BY <2>4
  <2>6. ss[d] = [i \in DOMAIN run |-> Slot(cols, run[i], col[run[i]])]
    <3>1. ss[d] = [i \in DOMAIN run |-> run[i] * cols + at(d - 1, run[i])]
      BY <2>3
    <3>2. \A i \in DOMAIN run : run[i] \in a..b
      BY <2>3 DEF RunOf, Holds
    <3>3. \A i \in DOMAIN run : Slot(cols, run[i], col[run[i]]) = run[i] * cols + at(d - 1, run[i])
      BY <3>2 DEF Slot
    <3> HIDE DEF ss, col, at
    <3> QED
      BY <3>1, <3>3, Zenon
  <2>7. \A r \in 0..(rows - 1), c \in 0..(cols - 1) :
          line[r][c] = d <=> r \in a..b /\ c = at(d - 1, r)
    BY <1>2, <2>1, <2>2
  <2> HIDE DEF ss, line, at, first, final, rs
  <2>8. LineOf(line, rows, cols, d) = OnSlant(cols, a, b, col)
    <3>1. a..b \subseteq 0..(rows - 1)
      BY <2>4
    <3>2. \A r \in a..b : col[r] = at(d - 1, r)
      OBVIOUS
    <3>3. ASSUME NEW x \in LineOf(line, rows, cols, d)
          PROVE  x \in OnSlant(cols, a, b, col)
      <4>1. PICK r \in 0..(rows - 1), c \in 0..(cols - 1) : x = Slot(cols, r, c) /\ line[r][c] = d
        BY DEF LineOf
      <4>2. r \in a..b /\ c = col[r]
        BY <2>7, <3>2, <4>1
      <4> QED
        BY <4>1, <4>2, Zenon DEF OnSlant
    <3>4. ASSUME NEW r \in a..b
          PROVE  Slot(cols, r, col[r]) \in LineOf(line, rows, cols, d)
      <4>1. r \in 0..(rows - 1) /\ col[r] \in 0..(cols - 1) /\ line[r][col[r]] = d
        BY <2>4, <2>7, <3>1, <3>2
      <4> QED
        BY <1>3, <4>1, Zenon DEF LineOf
    <3> HIDE DEF col
    <3> QED
      BY <3>3, <3>4, Zenon DEF OnSlant
  <2> HIDE DEF col
  <2>9. Visits(ss[d], OnSlant(cols, a, b, col))
    <3>1. cols \in Nat /\ b \in Int
      OBVIOUS
    <3> QED
      BY <2>3, <2>5, <2>6, <3>1, SlantVisited
  <2> QED
    BY <2>8, <2>9
<1>5. ss = [d \in 1..(rows + cols - 1) |-> ss[d]]
  OBVIOUS
<1> HIDE DEF ss, line
<1>6. rows + cols - 1 \in Nat
      /\ \A r \in 0..(rows - 1), c \in 0..(cols - 1) : line[r][c] \in 1..(rows + cols - 1)
  BY <1>2
<1> QED
  BY <1>1, <1>4, <1>5, <1>6, LinesVisited

-----------------------------------------------------------------------------
(***************************************************************************)
(* The spiral: ring after ring, each along four legs.                      *)
(***************************************************************************)
Within(x, cols, R, C) == \E r \in R, c \in C : x = Slot(cols, r, c)

LEMMA WithinBoth ==
  ASSUME NEW cols \in Nat, NEW Q \in SUBSET Nat, NEW R \in SUBSET Nat,
         NEW C \in SUBSET (0..(cols - 1)), NEW D \in SUBSET (0..(cols - 1)),
         Q \cap R = {} \/ C \cap D = {},
         NEW x
  PROVE  ~(Within(x, cols, Q, C) /\ Within(x, cols, R, D))
<1>1. SUFFICES ASSUME Within(x, cols, Q, C), Within(x, cols, R, D) PROVE FALSE
  OBVIOUS
<1>2. PICK q \in Q, c \in C : x = Slot(cols, q, c)
  BY <1>1, Zenon DEF Within
<1>3. PICK r \in R, d \in D : x = Slot(cols, r, d)
  BY <1>1, Zenon DEF Within
<1>4. q \in Nat /\ r \in Nat /\ c \in 0..(cols - 1) /\ d \in 0..(cols - 1)
  OBVIOUS
<1>5. Slot(cols, q, c) = Slot(cols, r, d)
  BY <1>2, <1>3
<1>6. q = r /\ c = d
  BY ONLY <1>5, <1>4, cols \in Nat, SlotUnique
<1> QED
  BY <1>6

LEMMA LegsAreWithin ==
  ASSUME NEW cols, NEW n, NEW a, NEW b, NEW x
  PROVE  /\ x \in OnRow(cols, n, a, b) <=> Within(x, cols, {n}, a..b)
         /\ x \in OnColumn(cols, a, b, n) <=> Within(x, cols, a..b, {n})
<1>1. x \in OnRow(cols, n, a, b) <=> Within(x, cols, {n}, a..b)
  BY DEF OnRow, Within
<1>2. x \in OnColumn(cols, a, b, n) <=> Within(x, cols, a..b, {n})
  BY DEF OnColumn, Within
<1> QED
  BY <1>1, <1>2

LEMMA RingVisited ==
  ASSUME NEW rows \in Nat \ {0}, NEW cols \in Nat \ {0}, NEW top \in Nat,
         2 * top < rows, 2 * top < cols,
         NEW S, \A x : x \in S <=>
                  \/ x \in OnRow(cols, top, top, cols - 1 - top)
                  \/ x \in OnColumn(cols, top + 1, rows - 1 - top, cols - 1 - top)
                  \/ /\ top < rows - 1 - top
                     /\ x \in OnRow(cols, rows - 1 - top, top, cols - 2 - top)
                  \/ /\ top < cols - 1 - top
                     /\ x \in OnColumn(cols, top + 1, rows - 2 - top, top)
  PROVE  Visits(Turn(rows, cols, top), S)
<1> DEFINE bottom == rows - 1 - top
           right  == cols - 1 - top
           s1 == AlongRow(cols, top, Up(top, right))
           s2 == AlongColumn(cols, Up(top + 1, bottom), right)
           s3 == IF top < bottom THEN AlongRow(cols, bottom, Down(right - 1, top)) ELSE <<>>
           s4 == IF top < right THEN AlongColumn(cols, Down(bottom - 1, top + 1), top) ELSE <<>>
           S1 == OnRow(cols, top, top, right)
           S2 == OnColumn(cols, top + 1, bottom, right)
           S3 == IF top < bottom THEN OnRow(cols, bottom, top, right - 1) ELSE {}
           S4 == IF top < right THEN OnColumn(cols, top + 1, bottom - 1, top) ELSE {}
<1>1. Turn(rows, cols, top) = ((s1 \o s2) \o s3) \o s4
  BY DEF Turn
<1>2. /\ bottom \in Nat /\ right \in Nat /\ right \in 0..(cols - 1) /\ top \in 0..(cols - 1)
      /\ right < cols /\ right - 1 < cols /\ right - 1 \in Int /\ bottom - 1 \in Int
      /\ top + 1 \in Nat /\ cols \in Nat /\ top <= right /\ top <= bottom /\ bottom \in Int
      /\ right \in Int /\ right - 1 = cols - 2 - top /\ bottom - 1 = rows - 2 - top
  OBVIOUS
<1>3. Visits(<<>>, {})
  BY DEF Visits, Once, Holds
<1>4. Visits(s1, S1)
  <2>1. RunOf(Up(top, right), top, right)
    BY <1>2, RunsUp
  <2> HIDE DEF right
  <2> QED
    BY <1>2, <2>1, RowVisited
<1>5. Visits(s2, S2)
  <2>1. RunOf(Up(top + 1, bottom), top + 1, bottom)
    BY <1>2, RunsUp
  <2> HIDE DEF right, bottom
  <2> QED
    BY <1>2, <2>1, ColumnVisited
<1>6. Visits(s3, S3)
  <2>1. RunOf(Down(right - 1, top), top, right - 1)
    BY <1>2, RunsDown
  <2> HIDE DEF right, bottom
  <2>2. PICK b \in Int : b = right - 1
    BY <1>2
  <2>3. Visits(AlongRow(cols, bottom, Down(b, top)), OnRow(cols, bottom, top, b))
    BY <1>2, <2>1, <2>2, RowVisited
  <2> QED
    BY <1>3, <2>2, <2>3
<1>7. Visits(s4, S4)
  <2>1. RunOf(Down(bottom - 1, top + 1), top + 1, bottom - 1)
    BY <1>2, RunsDown
  <2> HIDE DEF right, bottom
  <2>2. PICK b \in Int : b = bottom - 1
    BY <1>2
  <2>3. PICK a \in Nat : a = top + 1
    BY <1>2
  <2>4. Visits(AlongColumn(cols, Down(b, a), top), OnColumn(cols, a, b, top))
    BY <1>2, <2>1, <2>2, <2>3, ColumnVisited
  <2> QED
    BY <1>3, <2>2, <2>3, <2>4
<1> HIDE DEF s1, s2, s3, s4
<1>8. /\ S1 \cap S2 = {} /\ S1 \cap S3 = {} /\ S2 \cap S3 = {}
      /\ S1 \cap S4 = {} /\ S2 \cap S4 = {} /\ S3 \cap S4 = {}
  <2>1. /\ {top} \in SUBSET Nat /\ {bottom} \in SUBSET Nat
        /\ (top + 1)..bottom \in SUBSET Nat /\ (top + 1)..(bottom - 1) \in SUBSET Nat
        /\ top..right \in SUBSET (0..(cols - 1)) /\ top..(right - 1) \in SUBSET (0..(cols - 1))
        /\ {right} \in SUBSET (0..(cols - 1)) /\ {top} \in SUBSET (0..(cols - 1))
    BY <1>2
  <2>2. /\ {top} \cap ((top + 1)..bottom) = {}
        /\ top < bottom => {top} \cap {bottom} = {}
        /\ (top..(right - 1)) \cap {right} = {}
        /\ {top} \cap ((top + 1)..(bottom - 1)) = {}
        /\ top < right => {right} \cap {top} = {}
        /\ {bottom} \cap ((top + 1)..(bottom - 1)) = {}
    BY <1>2
  <2> SUFFICES ASSUME NEW x
               PROVE  /\ ~(x \in S1 /\ x \in S2) /\ ~(x \in S1 /\ x \in S3)
                      /\ ~(x \in S2 /\ x \in S3) /\ ~(x \in S1 /\ x \in S4)
                      /\ ~(x \in S2 /\ x \in S4) /\ ~(x \in S3 /\ x \in S4)
    OBVIOUS
  <2> DEFINE T1 == Within(x, cols, {top}, top..right)
             T2 == Within(x, cols, (top + 1)..bottom, {right})
             T3 == Within(x, cols, {bottom}, top..(right - 1))
             T4 == Within(x, cols, (top + 1)..(bottom - 1), {top})
  <2>3. /\ x \in S1 => T1 
        /\ x \in S2 => T2
        /\ x \in S3 => top < bottom /\ T3
        /\ x \in S4 => top < right /\ T4
    <3> HIDE DEF right, bottom
    <3> QED
      BY LegsAreWithin
  <2> HIDE DEF S1, S2, S3, S4, right, bottom
  <2>4. ~(T1 /\ T2)
    BY <1>2, <2>1, <2>2, WithinBoth
  <2>5. top < bottom => ~(T1 /\ T3)
    BY <1>2, <2>1, <2>2, WithinBoth
  <2>6. ~(T2 /\ T3)
    BY <1>2, <2>1, <2>2, WithinBoth
  <2>7. ~(T1 /\ T4)
    BY <1>2, <2>1, <2>2, WithinBoth
  <2>8. top < right => ~(T2 /\ T4)
    BY <1>2, <2>1, <2>2, WithinBoth
  <2>9. ~(T3 /\ T4)
    BY <1>2, <2>1, <2>2, WithinBoth
  <2> HIDE DEF T1, T2, T3, T4
  <2> QED
    BY <2>3, <2>4, <2>5, <2>6, <2>7, <2>8, <2>9
<1> HIDE DEF S1, S2, S3, S4
<1>9. Visits(s1 \o s2, S1 \cup S2)
  BY <1>4, <1>5, <1>8, VisitsJoined
<1>10. Visits((s1 \o s2) \o s3, (S1 \cup S2) \cup S3)
  <2>1. (S1 \cup S2) \cap S3 = {}
    BY <1>8
  <2> QED
    BY <1>6, <1>9, <2>1, VisitsJoined
<1>11. Visits(((s1 \o s2) \o s3) \o s4, ((S1 \cup S2) \cup S3) \cup S4)
  <2>1. ((S1 \cup S2) \cup S3) \cap S4 = {}
    BY <1>8
  <2> QED
    BY <1>7, <1>10, <2>1, VisitsJoined
<1>12. S = ((S1 \cup S2) \cup S3) \cup S4
  <2>1. \A x : /\ x \in S1 <=> x \in OnRow(cols, top, top, cols - 1 - top)
               /\ x \in S2 <=> x \in OnColumn(cols, top + 1, rows - 1 - top, cols - 1 - top)
               /\ x \in S3 <=> /\ top < rows - 1 - top
                               /\ x \in OnRow(cols, rows - 1 - top, top, cols - 2 - top)
               /\ x \in S4 <=> /\ top < cols - 1 - top
                               /\ x \in OnColumn(cols, top + 1, rows - 2 - top, top)
    BY <1>2 DEF S1, S2, S3, S4
  <2> QED
    BY <2>1
<1> QED
  BY <1>1, <1>11, <1>12

LEMMA SpiralsIn ==
  ASSUME NEW rows \in Nat \ {0}, NEW cols \in Nat \ {0}
  PROVE  Visits(SpiralInward(rows, cols), 0..(rows * cols - 1))
<1> DEFINE low(a, b) == IF a < b THEN a ELSE b
           ring(r, c) == low(low(r, rows - 1 - r), low(c, cols - 1 - c))
           line == [r \in 0..(rows - 1) |-> [c \in 0..(cols - 1) |-> ring(r, c) + 1]]
           ss == [n \in 1..Turns(rows, cols) |-> Turn(rows, cols, n - 1)]
<1>1. SpiralInward(rows, cols) = FlattenSeq(ss)
  BY DEF SpiralInward
<1>2. \A r \in 0..(rows - 1), c \in 0..(cols - 1) : line[r][c] = ring(r, c) + 1
  OBVIOUS
<1>3. PICK n \in Nat : n = Turns(rows, cols)
  BY DEF Turns
<1>4. /\ \A r \in 0..(rows - 1), c \in 0..(cols - 1) : ring(r, c) + 1 \in 1..n
      /\ \A k \in 1..n : k - 1 \in Nat /\ 2 * (k - 1) < rows /\ 2 * (k - 1) < cols
  BY <1>3 DEF Turns
<1>5. \A r \in 0..(rows - 1), c \in 0..(cols - 1) : Slot(cols, r, c) \in 0..(rows * cols - 1)
  BY SlotsAre
<1>6. ASSUME NEW k \in 1..n
      PROVE  Visits(ss[k], LineOf(line, rows, cols, k))
  <2>1. PICK top \in Nat : top = k - 1
    BY <1>4
  <2>2. ss[k] = Turn(rows, cols, top) /\ 2 * top < rows /\ 2 * top < cols
    BY <1>3, <1>4, <2>1
  <2>3. \A r \in 0..(rows - 1), c \in 0..(cols - 1) :
          line[r][c] = k <=>
            \/ r = top /\ c \in top..(cols - 1 - top)
            \/ c = cols - 1 - top /\ r \in (top + 1)..(rows - 1 - top)
            \/ top < rows - 1 - top /\ r = rows - 1 - top /\ c \in top..(cols - 2 - top)
            \/ top < cols - 1 - top /\ c = top /\ r \in (top + 1)..(rows - 2 - top)
    BY <1>2, <2>1, <2>2
  <2> HIDE DEF line, ss, ring
  <2> DEFINE S == LineOf(line, rows, cols, k)
             T(x) == \/ x \in OnRow(cols, top, top, cols - 1 - top)
                     \/ x \in OnColumn(cols, top + 1, rows - 1 - top, cols - 1 - top)
                     \/ /\ top < rows - 1 - top
                        /\ x \in OnRow(cols, rows - 1 - top, top, cols - 2 - top)
                     \/ /\ top < cols - 1 - top
                        /\ x \in OnColumn(cols, top + 1, rows - 2 - top, top)
  <2>4. ASSUME NEW x \in S PROVE T(x)
    <3>1. PICK r \in 0..(rows - 1), c \in 0..(cols - 1) : x = Slot(cols, r, c) /\ line[r][c] = k
      BY DEF LineOf
    <3>2. CASE r = top /\ c \in top..(cols - 1 - top)
      BY <3>1, <3>2, Zenon DEF OnRow
    <3>3. CASE c = cols - 1 - top /\ r \in (top + 1)..(rows - 1 - top)
      BY <3>1, <3>3, Zenon DEF OnColumn
    <3>4. CASE top < rows - 1 - top /\ r = rows - 1 - top /\ c \in top..(cols - 2 - top)
      BY <3>1, <3>4, Zenon DEF OnRow
    <3>5. CASE top < cols - 1 - top /\ c = top /\ r \in (top + 1)..(rows - 2 - top)
      BY <3>1, <3>5, Zenon DEF OnColumn
    <3> QED
      BY <2>3, <3>1, <3>2, <3>3, <3>4, <3>5
  <2>5. ASSUME NEW r \in 0..(rows - 1), NEW c \in 0..(cols - 1), line[r][c] = k
        PROVE  Slot(cols, r, c) \in S
    BY <1>5, <2>5, Zenon DEF LineOf
  <2>6. ASSUME NEW x, T(x) PROVE x \in S
    <3>1. CASE x \in OnRow(cols, top, top, cols - 1 - top)
      <4>1. PICK c \in top..(cols - 1 - top) : x = Slot(cols, top, c)
        BY <3>1 DEF OnRow
      <4>2. top \in 0..(rows - 1) /\ c \in 0..(cols - 1)
        BY <2>2
      <4>3. line[top][c] = k
        BY <2>3, <4>2
      <4> HIDE DEF S
      <4> QED
        BY <2>5, <4>1, <4>2, <4>3
    <3>2. CASE x \in OnColumn(cols, top + 1, rows - 1 - top, cols - 1 - top)
      <4>1. PICK r \in (top + 1)..(rows - 1 - top) : x = Slot(cols, r, cols - 1 - top)
        BY <3>2 DEF OnColumn
      <4>2. r \in 0..(rows - 1) /\ cols - 1 - top \in 0..(cols - 1)
        BY <2>2
      <4>3. line[r][cols - 1 - top] = k
        BY <2>3, <4>2
      <4> HIDE DEF S
      <4> QED
        BY <2>5, <4>1, <4>2, <4>3
    <3>3. CASE top < rows - 1 - top /\ x \in OnRow(cols, rows - 1 - top, top, cols - 2 - top)
      <4>1. PICK c \in top..(cols - 2 - top) : x = Slot(cols, rows - 1 - top, c)
        BY <3>3 DEF OnRow
      <4>2. rows - 1 - top \in 0..(rows - 1) /\ c \in 0..(cols - 1)
        BY <2>2
      <4>3. line[rows - 1 - top][c] = k
        BY <2>3, <3>3, <4>2
      <4> HIDE DEF S
      <4> QED
        BY <2>5, <4>1, <4>2, <4>3
    <3>4. CASE top < cols - 1 - top /\ x \in OnColumn(cols, top + 1, rows - 2 - top, top)
      <4>1. PICK r \in (top + 1)..(rows - 2 - top) : x = Slot(cols, r, top)
        BY <3>4 DEF OnColumn
      <4>2. r \in 0..(rows - 1) /\ top \in 0..(cols - 1)
        BY <2>2
      <4>3. line[r][top] = k
        BY <2>3, <3>4, <4>2
      <4> HIDE DEF S
      <4> QED
        BY <2>5, <4>1, <4>2, <4>3
    <3> QED
      BY <2>6, <3>1, <3>2, <3>3, <3>4
  <2>7. Visits(Turn(rows, cols, top), S)
    <3> HIDE DEF S
    <3>1. \A x : x \in S <=> T(x)
      BY <2>4, <2>6
    <3> QED
      BY <2>2, <3>1, RingVisited
  <2> QED
    BY <2>2, <2>7
<1>7. ss = [k \in 1..n |-> ss[k]]
  BY <1>3
<1>8. \A r \in 0..(rows - 1), c \in 0..(cols - 1) : line[r][c] \in 1..n
  BY <1>2, <1>4
<1> HIDE DEF ss, line
<1> QED
  BY <1>1, <1>6, <1>7, <1>8, LinesVisited

LEMMA VisitsReversed ==
  ASSUME NEW s, NEW S, Visits(s, S)
  PROVE  Visits(Reverse(s), S)
<1>1. s \in Seq(Nat)
  BY DEF Visits
<1> QED
  BY <1>1, Reversed DEF Visits

-----------------------------------------------------------------------------
(***************************************************************************)
(* By the columns in the order of a key: each column has its own rank.     *)
(***************************************************************************)
Before(key, a, b) == key[a + 1] < key[b + 1] \/ (key[a + 1] = key[b + 1] /\ a < b)
Ahead(key, cols, a) == {b \in 0..(cols - 1) : Before(key, b, a)}
Rank(key, cols, a) == Cardinality(Ahead(key, cols, a))

LEMMA RanksDiffer ==
  ASSUME NEW key \in Seq(Int), NEW cols \in Nat \ {0}, Len(key) = cols,
         NEW a \in 0..(cols - 1), NEW b \in 0..(cols - 1), Before(key, a, b)
  PROVE  Rank(key, cols, a) < Rank(key, cols, b)
<1> DEFINE A == Ahead(key, cols, a)
           B == Ahead(key, cols, b)
<1>1. \A i \in 0..(cols - 1) : key[i + 1] \in Int
  OBVIOUS
<1>2. IsFiniteSet(A) /\ IsFiniteSet(B)
  <2>1. IsFiniteSet(0..(cols - 1))
    BY FS_Interval
  <2> QED
    BY <2>1, FS_Subset DEF Ahead
<1>3. a \notin A /\ a \in B
  BY <1>1 DEF Ahead, Before
<1>4. A \subseteq B
  BY <1>1 DEF Ahead, Before
<1> HIDE DEF A, B
<1>5. A # B
  BY <1>3
<1>6. Cardinality(A) \in Nat /\ Cardinality(B) \in Nat
  BY <1>2, FS_CardinalityType
<1>7. Cardinality(A) <= Cardinality(B) /\ Cardinality(A) # Cardinality(B)
  BY <1>2, <1>4, <1>5, FS_Subset
<1> QED
  BY <1>6, <1>7 DEF Rank, A, B

LEMMA RankIn ==
  ASSUME NEW key \in Seq(Int), NEW cols \in Nat \ {0}, Len(key) = cols,
         NEW a \in 0..(cols - 1)
  PROVE  Rank(key, cols, a) \in 0..(cols - 1)
<1> DEFINE A == Ahead(key, cols, a)
           S == 0..(cols - 1)
<1>1. IsFiniteSet(S) /\ Cardinality(S) = cols
  BY FS_Interval
<1>2. A \subseteq S /\ a \notin A
  <2>1. key[a + 1] \in Int
    OBVIOUS
  <2> QED
    BY <2>1 DEF Ahead, Before
<1>3. a \in S
  OBVIOUS
<1> HIDE DEF A, S
<1>4. IsFiniteSet(A) /\ Cardinality(A) <= cols /\ Cardinality(A) # cols
  BY <1>1, <1>2, <1>3, FS_Subset
<1>5. Cardinality(A) \in Nat
  BY <1>4, FS_CardinalityType
<1> QED
  BY <1>4, <1>5 DEF Rank, A

LEMMA RankOf ==
  ASSUME NEW key \in Seq(Int), NEW cols \in Nat \ {0}, Len(key) = cols
  PROVE  /\ \A a, b \in 0..(cols - 1) : Rank(key, cols, a) = Rank(key, cols, b) => a = b
         /\ \A n \in 0..(cols - 1) : \E a \in 0..(cols - 1) : Rank(key, cols, a) = n
<1> DEFINE S == 0..(cols - 1)
           f == [a \in S |-> Rank(key, cols, a)]
<1>1. \A a \in S : Rank(key, cols, a) \in S /\ f[a] = Rank(key, cols, a)
  BY RankIn
<1>2. ASSUME NEW a \in S, NEW b \in S, a # b
      PROVE  Rank(key, cols, a) # Rank(key, cols, b)
  <2>1. Before(key, a, b) \/ Before(key, b, a)
    <3>1. key[a + 1] \in Int /\ key[b + 1] \in Int
      OBVIOUS
    <3> QED
      BY <1>2, <3>1 DEF Before
  <2>2. Rank(key, cols, a) \in Int /\ Rank(key, cols, b) \in Int
    BY <1>1
  <2>3. Rank(key, cols, a) < Rank(key, cols, b) \/ Rank(key, cols, b) < Rank(key, cols, a)
    BY <2>1, RanksDiffer
  <2> QED
    BY <2>2, <2>3
<1>3. f \in Injection(S, S)
  <2>1. f \in [S -> S]
    BY <1>1
  <2>2. \A a, b \in S : f[a] = f[b] => a = b
    BY <1>1, <1>2
  <2> HIDE DEF f, S
  <2> QED
    BY <2>1, <2>2 DEF Injection, IsInjective
<1>4. IsFiniteSet(S)
  BY FS_Interval
<1>5. f \in Surjection(S, S)
  <2> HIDE DEF f, S
  <2> QED
    BY <1>3, <1>4, FS_Surjection, FS_Injection
<1> QED
  BY <1>1, <1>2, <1>5 DEF Surjection

LEMMA ByColumns ==
  ASSUME NEW rows \in Nat \ {0}, NEW key \in Seq(Int), Len(key) # 0
  PROVE  Visits(Columnar(rows, key), 0..(rows * Len(key) - 1))
<1>1. PICK cols \in Nat \ {0} : cols = Len(key)
  OBVIOUS
<1> DEFINE order(i) == CHOOSE a \in 0..(cols - 1) : Rank(key, cols, a) = i - 1
           ss == [i \in 1..cols |-> AlongColumn(cols, Up(0, rows - 1), order(i))]
           line == [r \in 0..(rows - 1) |-> [c \in 0..(cols - 1) |-> Rank(key, cols, c) + 1]]
<1>2. Columnar(rows, key) = FlattenSeq(ss)
  BY <1>1 DEF Columnar, Rank, Ahead, Before
<1>3. \A r \in 0..(rows - 1), c \in 0..(cols - 1) : line[r][c] = Rank(key, cols, c) + 1
  OBVIOUS
<1>4. \A c \in 0..(cols - 1) : Rank(key, cols, c) \in 0..(cols - 1)
  BY <1>1, RankIn
<1>5. ASSUME NEW i \in 1..cols
      PROVE  Visits(ss[i], LineOf(line, rows, cols, i))
  <2>1. /\ \A a, b \in 0..(cols - 1) : Rank(key, cols, a) = Rank(key, cols, b) => a = b
        /\ \A n \in 0..(cols - 1) : \E a \in 0..(cols - 1) : Rank(key, cols, a) = n
    BY <1>1, RankOf
  <2>2. i - 1 \in 0..(cols - 1)
    OBVIOUS
  <2>3. order(i) \in 0..(cols - 1) /\ Rank(key, cols, order(i)) = i - 1
    BY <2>1, <2>2
  <2>4. PICK d \in 0..(cols - 1) : d = order(i) /\ Rank(key, cols, d) = i - 1
    BY <2>3
  <2>5. ss[i] = AlongColumn(cols, Up(0, rows - 1), d)
    BY <2>4
  <2> HIDE DEF ss, order
  <2>6. Visits(ss[i], OnColumn(cols, 0, rows - 1, d))
    <3>1. RunOf(Up(0, rows - 1), 0, rows - 1)
      BY RunsUp
    <3>2. cols \in Nat /\ 0 \in Nat /\ rows - 1 \in Int
      OBVIOUS
    <3> QED
      BY <2>5, <3>1, <3>2, ColumnVisited
  <2>7. LineOf(line, rows, cols, i) = OnColumn(cols, 0, rows - 1, d)
    <3>1. ASSUME NEW r \in 0..(rows - 1), NEW c \in 0..(cols - 1)
          PROVE  line[r][c] = i <=> c = d
      <4>1. line[r][c] = i <=> Rank(key, cols, c) = i - 1
        <5>1. PICK m \in 0..(cols - 1) : m = Rank(key, cols, c)
          BY <1>4
        <5>2. line[r][c] = m + 1
          BY <1>3, <5>1
        <5> HIDE DEF line
        <5> QED
          BY <5>1, <5>2
      <4> QED
        BY <2>1, <2>4, <4>1
    <3> HIDE DEF line
    <3> QED
      BY <3>1, ColumnIs
  <2> QED
    BY <2>6, <2>7
<1>6. ss = [i \in 1..cols |-> ss[i]]
  OBVIOUS
<1>7. \A r \in 0..(rows - 1), c \in 0..(cols - 1) : line[r][c] \in 1..cols
  BY <1>3, <1>4
<1> HIDE DEF ss, line
<1>8. Visits(FlattenSeq(ss), 0..(rows * cols - 1))
  BY <1>5, <1>6, <1>7, LinesVisited
<1> QED
  BY <1>1, <1>2, <1>8

-----------------------------------------------------------------------------
(***************************************************************************)
(* Whatever the order, gathering and scattering undo each other.           *)
(***************************************************************************)
Grids ==
  [read : {"spiral", "spiral_outward", "ltr", "rtl", "diagonal", "anti", "columnar"},
   rows : Nat, cols : Nat, key : Seq(Index29)]

LEMMA Gathered ==
  ASSUME NEW g \in Grids, NEW text, GridAccepts(g, text)
  PROVE  Visits(Gather(g), 0..(g.rows * g.cols - 1))
<1>1. /\ g.rows \in Nat \ {0} /\ g.cols \in Nat \ {0} /\ g.key \in Seq(Int)
      /\ g.read = "columnar" => Len(g.key) = g.cols
      /\ g.read \in {"spiral", "spiral_outward", "ltr", "rtl", "diagonal", "anti", "columnar"}
  <2>1. Index29 \subseteq Int
    BY DEF Index29
  <2>2. ASSUME NEW k \in Seq(Index29) PROVE k \in Seq(Int)
    <3>1. Len(k) \in Nat /\ k = [i \in 1..Len(k) |-> k[i]] /\ \A i \in 1..Len(k) : k[i] \in Index29
      OBVIOUS
    <3>2. k \in [1..Len(k) -> Int]
      BY <2>1, <3>1
    <3> QED
      BY <3>1, <3>2
  <2>3. g.rows \in Nat /\ g.cols \in Nat /\ g.key \in Seq(Index29)
    BY DEF Grids
  <2>4. g.rows >= 1 /\ g.cols >= 1 /\ (g.read = "columnar" => Len(g.key) = g.cols)
    BY DEF GridAccepts
  <2>5. g.read \in {"spiral", "spiral_outward", "ltr", "rtl", "diagonal", "anti", "columnar"}
    BY DEF Grids
  <2> QED
    BY <2>2, <2>3, <2>4, <2>5
<1>2. PICK rows \in Nat \ {0}, cols \in Nat \ {0} : rows = g.rows /\ cols = g.cols
  BY <1>1
<1>3. PICK key \in Seq(Int) : key = g.key
  BY <1>1
<1>4. CASE g.read = "spiral"
  BY <1>2, <1>4, SpiralsIn DEF Gather
<1>5. CASE g.read = "spiral_outward"
  <2>1. Visits(Reverse(SpiralInward(rows, cols)), 0..(rows * cols - 1))
    BY SpiralsIn, VisitsReversed
  <2> QED
    BY <1>2, <1>5, <2>1 DEF Gather, SpiralOutward
<1>6. CASE g.read = "ltr"
  BY <1>2, <1>6, BackAndForth DEF Gather
<1>7. CASE g.read = "rtl"
  BY <1>2, <1>7, BackAndForth DEF Gather
<1>8. CASE g.read = "diagonal"
  BY <1>2, <1>8, AlongDiagonals DEF Gather
<1>9. CASE g.read = "anti"
  BY <1>2, <1>9, AlongDiagonals DEF Gather
<1>10. CASE g.read = "columnar"
  <2>1. Len(key) = cols
    BY <1>1, <1>2, <1>3, <1>10
  <2>2. Visits(Columnar(rows, key), 0..(rows * Len(key) - 1))
    BY <2>1, ByColumns
  <2> QED
    BY <1>2, <1>3, <1>10, <2>1, <2>2 DEF Gather
<1> QED
  BY <1>1, <1>4, <1>5, <1>6, <1>7, <1>8, <1>9, <1>10

LEMMA VisitsLength ==
  ASSUME NEW n \in Nat, NEW s, Visits(s, 0..(n - 1))
  PROVE  Len(s) = n /\ s \in [1..n -> 0..(n - 1)]
<1>1. s \in Seq(Nat) /\ Len(s) \in Nat /\ DOMAIN s = 1..Len(s) /\ s = [i \in 1..Len(s) |-> s[i]]
  BY DEF Visits
<1>2. \A i \in 1..Len(s) : s[i] \in 0..(n - 1)
  BY <1>1 DEF Visits, Holds
<1>3. \A x \in 0..(n - 1) : \E i \in 1..Len(s) : s[i] = x
  BY <1>1 DEF Visits, Holds
<1>4. \A i, j \in 1..Len(s) : s[i] = s[j] => i = j
  BY <1>1 DEF Visits, Once
<1> DEFINE S == 1..Len(s)
           T == 0..(n - 1)
<1>5. IsFiniteSet(S) /\ IsFiniteSet(T) /\ Cardinality(S) = Len(s) /\ Cardinality(T) = n
  <2>1. PICK m \in Nat : m = Len(s)
    BY <1>1
  <2>2. IsFiniteSet(1..m) /\ Cardinality(1..m) = m
    <3>1. IsFiniteSet(1..m) /\ Cardinality(1..m) = IF 1 > m THEN 0 ELSE m - 1 + 1
      BY FS_Interval
    <3> QED
      BY <3>1
  <2>3. IsFiniteSet(0..(n - 1)) /\ Cardinality(0..(n - 1)) = n
    <3>1. IsFiniteSet(0..(n - 1)) /\ Cardinality(0..(n - 1)) = IF 0 > n - 1 THEN 0 ELSE n - 1 - 0 + 1
      BY FS_Interval
    <3> QED
      BY <3>1
  <2> QED
    BY <2>1, <2>2, <2>3
<1>6. s \in [S -> T]
  BY <1>1, <1>2
<1>7. s \in Bijection(S, T)
  <2> HIDE DEF S, T
  <2>1. s \in Injection(S, T)
    BY <1>4, <1>6 DEF S, T, Injection, IsInjective
  <2>2. s \in Surjection(S, T)
    BY <1>3, <1>6 DEF S, T, Surjection
  <2> QED
    BY <2>1, <2>2 DEF Bijection
<1>8. Cardinality(S) = Cardinality(T)
  <2> HIDE DEF S, T
  <2> QED
    BY <1>5, <1>7, FS_Surjection DEF Bijection
<1> QED
  BY <1>5, <1>6, <1>8

Scattered(gather, text) ==
  [p \in DOMAIN text |-> text[CHOOSE i \in DOMAIN text : gather[i] = p - 1]]
GatheredText(gather, text) == [i \in DOMAIN text |-> text[gather[i] + 1]]

LEMMA GatherScatter ==
  ASSUME NEW n \in Nat, NEW gather, Visits(gather, 0..(n - 1)),
         NEW text \in [1..n -> Index29]
  PROVE  /\ GatheredText(gather, text) \in [1..n -> Index29]
         /\ Scattered(gather, text) \in [1..n -> Index29]
         /\ Scattered(gather, GatheredText(gather, text)) = text
         /\ GatheredText(gather, Scattered(gather, text)) = text
<1>1. Len(gather) = n /\ gather \in [1..n -> 0..(n - 1)] /\ DOMAIN gather = 1..n
  BY VisitsLength
<1>2. \A i \in 1..n : gather[i] + 1 \in 1..n
  BY <1>1
<1>3. \A i, j \in 1..n : gather[i] = gather[j] => i = j
  BY <1>1 DEF Visits, Once
<1> DEFINE at(p) == CHOOSE i \in 1..n : gather[i] = p - 1
<1>4. ASSUME NEW p \in 1..n PROVE at(p) \in 1..n /\ gather[at(p)] = p - 1
  <2>1. p - 1 \in 0..(n - 1)
    OBVIOUS
  <2>2. \E i \in 1..n : gather[i] = p - 1
    BY <1>1, <2>1 DEF Visits, Holds
  <2> QED
    BY <2>2
<1>5. DOMAIN text = 1..n
  OBVIOUS
<1> DEFINE t == GatheredText(gather, text)
           u == Scattered(gather, text)
<1>6. t = [i \in 1..n |-> text[gather[i] + 1]] /\ u = [p \in 1..n |-> text[at(p)]]
  BY <1>5 DEF GatheredText, Scattered
<1> HIDE DEF at, t, u
<1>7. t \in [1..n -> Index29] /\ u \in [1..n -> Index29]
  BY <1>2, <1>4, <1>6
<1>8. Scattered(gather, t) = text
  <2>1. Scattered(gather, t) = [p \in 1..n |-> t[at(p)]]
    BY <1>7 DEF Scattered, at
  <2>2. \A p \in 1..n : t[at(p)] = text[p]
    <3>1. ASSUME NEW p \in 1..n PROVE t[at(p)] = text[p]
      <4>1. gather[at(p)] + 1 = p
        <5>1. gather[at(p)] = p - 1
          BY <1>4
        <5>2. p - 1 + 1 = p
          OBVIOUS
        <5> QED
          BY ONLY <5>1, <5>2
      <4> QED
        BY <1>4, <1>6, <4>1
    <3> QED
      BY <3>1
  <2> QED
    BY <2>1, <2>2
<1>9. GatheredText(gather, u) = text
  <2>1. GatheredText(gather, u) = [i \in 1..n |-> u[gather[i] + 1]]
    BY <1>7 DEF GatheredText
  <2>2. ASSUME NEW i \in 1..n PROVE u[gather[i] + 1] = text[i]
    <3>1. PICK p \in 1..n : p = gather[i] + 1
      BY <1>2
    <3>2. gather[at(p)] = gather[i]
      <4>1. gather[i] \in Int
        BY <1>1
      <4>2. p - 1 = gather[i]
        <5>1. PICK v \in Int : v = gather[i]
          BY <4>1
        <5>2. p = v + 1
          BY <3>1, <5>1
        <5>3. p - 1 = v
          BY <5>2
        <5> QED
          BY <5>1, <5>3
      <4>3. gather[at(p)] = p - 1
        BY <1>4
      <4> QED
        BY ONLY <4>2, <4>3
    <3>3. at(p) = i
      BY <1>3, <1>4, <3>2
    <3> QED
      BY <1>6, <3>1, <3>3
  <2> QED
    BY <2>1, <2>2
<1> QED
  BY <1>7, <1>8, <1>9 DEF t, u

LEMMA GridUndone ==
  ASSUME NEW g \in Grids, NEW length \in Nat, NEW text \in [1..length -> Index29],
         GridAccepts(g, text),
         NEW dir \in {"encrypt", "decrypt"}, NEW back \in {"encrypt", "decrypt"}, dir # back
  PROVE  /\ GridOutput(g, dir, text) \in [1..length -> Index29]
         /\ GridOutput(g, back, GridOutput(g, dir, text)) = text
<1>1. Len(text) = length
  OBVIOUS
<1>2. Visits(Gather(g), 0..(length - 1))
  BY <1>1, Gathered DEF GridAccepts
<1>3. PICK gather : gather = Gather(g)
  OBVIOUS
<1> DEFINE gathers(d) == (d = "decrypt") = (g.read # "columnar")
<1>4. \A s, d : GridOutput(g, d, s) = IF gathers(d) THEN GatheredText(gather, s) ELSE Scattered(gather, s)
  BY <1>3 DEF GridOutput, GatheredText, Scattered
<1>5. gathers(dir) <=> ~gathers(back)
  OBVIOUS
<1> HIDE DEF gathers
<1>6. /\ GatheredText(gather, text) \in [1..length -> Index29]
      /\ Scattered(gather, text) \in [1..length -> Index29]
      /\ Scattered(gather, GatheredText(gather, text)) = text
      /\ GatheredText(gather, Scattered(gather, text)) = text
  BY <1>2, <1>3, GatherScatter
<1> QED
  BY <1>4, <1>5, <1>6

-----------------------------------------------------------------------------
(***************************************************************************)
(* A whole call of a stream kernel, without the state of StreamCipher: in  *)
(* is what it reads, out what it has written when it is through.           *)
(***************************************************************************)
PlainOf(dir, in, out) == IF dir = "encrypt" THEN in ELSE out
CodedOf(dir, in, out) == IF dir = "encrypt" THEN out ELSE in

\* A kernel that has done n symbols, writing what out has.
DoneTo(k, c, in, out, n) ==
  /\ k = [input |-> in, output |-> k.output, pos |-> n + 1,
          cursor |-> Consumed(c, n + 1), feedback |-> k.feedback]
  /\ k.output \in [1..Len(in) -> Index29]
  /\ k.feedback \in Seq(Index29)
  /\ \A p \in 1..n : k.output[p] = out[p]

\* The symbol that the step after n writes.
SymbolFor(c, dir, in, out, feedback, n) ==
  IF n \in Skips(c) THEN in[n + 1]
  ELSE Mixed(c, dir, in[n + 1],
             SymbolAt(c, n + 1, PlainOf(dir, in, out), CodedOf(dir, in, out), feedback))

NextFeedback(c, dir, in, out, feedback, n) ==
  IF n \in Skips(c) \/ c.skips = {} THEN feedback
  ELSE Append(feedback, Looked(c, n + 1, PlainOf(dir, in, out), CodedOf(dir, in, out)))

LEMMA CallKey ==
  ASSUME NEW c \in Cipher, NEW dir \in {"encrypt", "decrypt"}, NEW length \in Nat,
         NEW in \in [1..length -> Index29], NEW out \in [1..length -> Index29],
         NEW n \in 0..(length - 1), n \notin Skips(c), Accepts(c, in),
         NEW k, DoneTo(k, c, in, out, n)
  PROVE  KeySymbol(c, dir, k)
           = SymbolAt(c, n + 1, PlainOf(dir, in, out), CodedOf(dir, in, out), k.feedback)
<1> DEFINE p == n + 1
           plainOf == PlainOf(dir, in, out)
           codedOf == CodedOf(dir, in, out)
<1>1. /\ c.family \in Families /\ c.lag \in Nat /\ c.key \in Seq(Index29)
      /\ p \in 1..length /\ k.pos = p /\ k.input = in
      /\ k.cursor = Consumed(c, p) /\ \A q \in 1..n : k.output[q] = out[q]
  BY DEF DoneTo, Cipher
<1>2. CASE c.family \in Elementwise
  BY <1>2 DEF KeySymbol, SymbolAt, Elementwise, Periodic, Feedback
<1>3. CASE c.family \in Periodic \cup {"totient_prime_stream"}
  BY <1>1, <1>3 DEF KeySymbol, SymbolAt, Periodic, Feedback
<1>4. CASE c.family \in Feedback /\ c.skips # {}
  BY <1>4 DEF KeySymbol, SymbolAt, Periodic, Feedback, SparseKey
<1>5. CASE c.family \in Feedback /\ c.skips = {}
  <2>1. c.lag > 0
    BY <1>1, <1>5 DEF Accepts, IsPrime
  <2>2. KeySymbol(c, dir, k) = DenseKey(c, dir, k)
    BY <1>5 DEF KeySymbol, Periodic, Feedback
  <2>3. SymbolAt(c, p, plainOf, codedOf, k.feedback) =
          IF p - 1 < c.lag THEN KeyAt(c, p - 1) ELSE Looked(c, p - c.lag, plainOf, codedOf)
    BY <1>5 DEF SymbolAt, Periodic, Feedback
  <2>4. ASSUME ~(p - 1 < c.lag)
        PROVE  (IF FromInput(c, dir) THEN k.input[p - c.lag] ELSE k.output[p - c.lag])
                 = Looked(c, p - c.lag, plainOf, codedOf)
    <3>1. p - c.lag \in 1..n
      BY <1>1, <2>1, <2>4
    <3>2. CASE dir = "encrypt"
      BY <1>1, <1>5, <3>1, <3>2 DEF FromInput, Looked, PlainOf, CodedOf
    <3>3. CASE dir = "decrypt"
      BY <1>1, <1>5, <3>1, <3>3 DEF FromInput, Looked, PlainOf, CodedOf
    <3> QED
      BY <3>2, <3>3
  <2> QED
    BY <1>1, <2>2, <2>3, <2>4 DEF DenseKey
<1> QED
  BY <1>1, <1>2, <1>3, <1>4, <1>5 DEF Families

LEMMA CallStep ==
  ASSUME ~InPlace,
         NEW c \in Cipher, NEW dir \in {"encrypt", "decrypt"}, NEW length \in Nat,
         NEW in \in [1..length -> Index29], NEW out \in [1..length -> Index29],
         NEW n \in 0..(length - 1), Accepts(c, in),
         NEW k, DoneTo(k, c, in, out, n),
         NEW y, y = SymbolFor(c, dir, in, out, k.feedback, n), out[n + 1] = y,
         NEW k2, k2 = KernelStep(c, dir, k)
  PROVE  /\ DoneTo(k2, c, in, out, n + 1)
         /\ k2.output = [k.output EXCEPT ![n + 1] = y]
         /\ k2.feedback = NextFeedback(c, dir, in, out, k.feedback, n)
<1> DEFINE p == n + 1
           fb == k.feedback
<1>1. /\ k = [input |-> in, output |-> k.output, pos |-> p, cursor |-> Consumed(c, p), feedback |-> fb]
      /\ k.output \in [1..length -> Index29] /\ fb \in Seq(Index29)
      /\ p \in 1..length /\ p - 1 = n /\ \A q \in 1..n : k.output[q] = out[q]
  BY DEF DoneTo
<1>2. y \in Index29
  BY <1>1
<1> DEFINE o == [k.output EXCEPT ![p] = y]
<1>3. /\ o \in [1..length -> Index29] /\ o[p] = y /\ \A q \in 1..n : o[q] = out[q]
      /\ \A q \in 1..p : o[q] = out[q]
  <2>1. o \in [1..length -> Index29] /\ o[p] = y
    BY <1>1, <1>2
  <2>2. \A q \in 1..n : q # p /\ q \in 1..length
    BY <1>1
  <2>3. \A q \in 1..n : o[q] = out[q]
    BY <1>1, <2>2
  <2>4. \A q \in 1..p : q \in 1..n \/ q = p
    BY <1>1
  <2> HIDE DEF o
  <2> QED
    BY <2>1, <2>3, <2>4
<1>4. Consumed(c, p + 1) = Consumed(c, p) + (IF n \in Skips(c) THEN 0 ELSE 1)
  BY <1>1, ConsumedSteps
<1> DEFINE w == [input |-> in, output |-> o, pos |-> p + 1, cursor |-> Consumed(c, p), feedback |-> fb]
<1>5. Stored(k, y) = w
  <2>1. Stored(k, y) = [k EXCEPT !.output = [k.output EXCEPT ![k.pos] = y],
                                  !.input = k.input, !.pos = k.pos + 1]
    BY DEF Stored
  <2>2. k.pos = p /\ k.input = in
    BY <1>1
  <2>3. Stored(k, y) = [k EXCEPT !.output = o, !.input = in, !.pos = p + 1]
    BY <2>1, <2>2
  <2> HIDE DEF o
  <2>4. k = [input |-> in, output |-> k.output, pos |-> p, cursor |-> Consumed(c, p), feedback |-> fb]
    BY <1>1
  <2>5. DOMAIN k = {"input", "output", "pos", "cursor", "feedback"}
    BY <2>4
  <2>6. k.cursor = Consumed(c, p)
    BY <2>4
  <2> DEFINE m == [k EXCEPT !.output = o, !.input = in, !.pos = p + 1]
  <2>7. DOMAIN m = DOMAIN k
    OBVIOUS
  <2>8. m.output = o /\ m.input = in /\ m.pos = p + 1 /\ m.cursor = Consumed(c, p) /\ m.feedback = fb
    BY <2>5, <2>6
  <2>9. m = [x \in {"input", "output", "pos", "cursor", "feedback"} |-> m[x]]
    BY <2>5
  <2> HIDE DEF m
  <2>10. m = w
    BY <2>8, <2>9
  <2> USE DEF m
  <2> HIDE DEF w
  <2> QED
    BY <2>3, <2>10
<1> HIDE DEF o
<1> DEFINE gb == NextFeedback(c, dir, in, out, fb, n)
<1>6. gb \in Seq(Index29)
  <2>1. Looked(c, p, PlainOf(dir, in, out), CodedOf(dir, in, out)) \in Index29
    BY <1>1 DEF Looked, PlainOf, CodedOf
  <2> QED
    BY <1>1, <2>1 DEF NextFeedback
<1>7. k2 = [input |-> in, output |-> o, pos |-> p + 1, cursor |-> Consumed(c, p + 1), feedback |-> gb]
  <2>1. CASE n \in Skips(c)
    <3>1. k2 = Stored(k, in[p]) /\ y = in[p]
      <4>1. KernelStep(c, dir, k) = Passed(k)
        BY <1>1, <2>1 DEF KernelStep
      <4> QED
        BY <1>1, <2>1, <4>1 DEF Passed, SymbolFor
    <3>2. Consumed(c, p + 1) = Consumed(c, p) /\ gb = fb
      <4>1. Consumed(c, p) \in Nat
        BY <1>1, ConsumedSteps
      <4> QED
        BY <1>4, <2>1, <4>1 DEF NextFeedback
    <3> HIDE DEF gb
    <3> QED
      BY <1>5, <3>1, <3>2
  <2>2. CASE n \notin Skips(c)
    <3>1. y = Mixed(c, dir, in[p], KeySymbol(c, dir, k))
      BY <2>2, CallKey DEF SymbolFor
    <3>2. k2 = Transformed(c, dir, k)
      BY <1>1, <2>2 DEF KernelStep
    <3>3. Stored(k, Mixed(c, dir, k.input[k.pos], KeySymbol(c, dir, k))) = w
      BY <1>1, <1>5, <3>1
    <3> HIDE DEF w
    <3>4. k2 = [w EXCEPT !.cursor = w.cursor + 1,
                  !.feedback = IF c.skips = {} THEN w.feedback
                               ELSE Append(w.feedback, IF FromInput(c, dir) THEN w.input[k.pos]
                                                                            ELSE w.output[k.pos])]
      BY <3>2, <3>3 DEF Transformed
    <3> USE DEF w
    <3>5. gb = IF c.skips = {} THEN fb
               ELSE Append(fb, IF FromInput(c, dir) THEN in[p] ELSE y)
      BY <2>2 DEF NextFeedback, Looked, FromInput, PlainOf, CodedOf
    <3>6. k.pos = p /\ w.input = in /\ w.output[p] = y /\ w.feedback = fb /\ w.cursor = Consumed(c, p)
      BY <1>1, <1>3
    <3>7. Consumed(c, p + 1) = Consumed(c, p) + 1
      BY <1>4, <2>2
    <3> HIDE DEF gb
    <3>8. k2 = [w EXCEPT !.cursor = Consumed(c, p + 1), !.feedback = gb]
      BY <3>4, <3>5, <3>6, <3>7
    <3> QED
      BY <3>8
  <2> QED
    BY <2>1, <2>2
<1> HIDE DEF gb
<1>8. Len(in) = length /\ n + 1 + 1 = p + 1
  OBVIOUS
<1> QED
  BY <1>3, <1>6, <1>7, <1>8 DEF DoneTo, gb, o

(***************************************************************************)
(* A key symbol is a rune index, and in the other direction it undoes      *)
(* what it did.                                                            *)
(***************************************************************************)
LEMMA MixedUndone ==
  ASSUME NEW c \in Cipher, NEW dir \in {"encrypt", "decrypt"}, NEW x \in Index29,
         NEW s \in Index29,
         c.family = "affine" => c.key[1] \in Index29 \ {0} /\ c.key[2] \in Index29 /\ s = c.key[1]
  PROVE  Mixed(c, dir, x, s) \in Index29 /\ Mixed(c, Opposite(dir), Mixed(c, dir, x, s), s) = x
<1>1. CASE dir = "encrypt"
  <2>1. Encrypted(c, x, s) \in Index29 /\ Decrypted(c, Encrypted(c, x, s), s) = x
    BY SymbolUndone
  <2> QED
    BY <1>1, <2>1 DEF Mixed, Opposite
<1>2. CASE dir = "decrypt"
  <2>1. Decrypted(c, x, s) \in Index29 /\ Encrypted(c, Decrypted(c, x, s), s) = x
    <3>1. Decrypted(c, x, s) \in Index29
      BY SymbolUndone
    <3>2. CASE c.family = "affine"
      <4>1. PICK b \in Index29 : b = c.key[2]
        BY <3>2
      <4>2. s \in Index29 \ {0}
        BY <3>2
      <4>3. PICK z \in Index29 : z = Sub(x, b)
        BY Residues
      <4>4. Mul(s, Mul(Inv(s), z)) = z
        BY <4>2, Inverses
      <4>5. Add(z, b) = x
        BY <4>3 DEF Sub, Add, Neg, Index29
      <4>6. Encrypted(c, Decrypted(c, x, s), s) = Add(Mul(s, Mul(Inv(s), z)), b)
        BY <3>2, <4>1, <4>3 DEF Encrypted, Decrypted
      <4> QED
        BY <3>1, <4>4, <4>5, <4>6
    <3>3. CASE c.family # "affine"
      <4>1. Add(Sub(x, s), s) = x
        BY DEF Sub, Add, Neg, Index29
      <4> QED
        BY <3>1, <3>3, <4>1, Residues DEF Encrypted, Decrypted
    <3> QED
      BY <3>2, <3>3
  <2> QED
    BY <1>2, <2>1 DEF Mixed, Opposite
<1> QED
  BY <1>1, <1>2

LEMMA SymbolTyped ==
  ASSUME NEW c \in Cipher, NEW dir \in {"encrypt", "decrypt"}, NEW length \in Nat,
         NEW in \in [1..length -> Index29], NEW out \in [1..length -> Index29],
         NEW fb \in Seq(Index29), NEW n \in 0..(length - 1), Accepts(c, in)
  PROVE  SymbolFor(c, dir, in, out, fb, n) \in Index29
<1>1. n + 1 \in 1..length /\ n + 1 - 1 = n /\ in[n + 1] \in Index29
  OBVIOUS
<1>2. CASE n \in Skips(c)
  BY <1>1, <1>2 DEF SymbolFor
<1>3. CASE n \notin Skips(c)
  <2>1. PICK P \in [1..length -> Index29] : P = PlainOf(dir, in, out)
    BY DEF PlainOf
  <2>2. PICK C \in [1..length -> Index29] : C = CodedOf(dir, in, out)
    BY DEF CodedOf
  <2>3. PICK p \in 1..length : p = n + 1 /\ p - 1 = n
    BY <1>1
  <2>4. Accepts(c, P)
    <3>1. Len(P) = length /\ Len(in) = length
      OBVIOUS
    <3> QED
      BY <3>1 DEF Accepts
  <2>5. /\ SymbolAt(c, p, P, C, fb) \in Index29
        /\ c.family = "affine" => c.key[1] \in Index29 \ {0} /\ c.key[2] \in Index29
    BY <1>3, <2>3, <2>4, KeyType
  <2>6. c.family = "affine" => SymbolAt(c, p, P, C, fb) = c.key[1]
    BY DEF SymbolAt, Periodic, Feedback
  <2>7. PICK s \in Index29 : s = SymbolAt(c, p, P, C, fb)
    BY <2>5
  <2>8. Mixed(c, dir, in[n + 1], s) \in Index29
    BY <1>1, <2>5, <2>6, <2>7, MixedUndone
  <2> QED
    BY <1>3, <2>1, <2>2, <2>3, <2>7, <2>8 DEF SymbolFor
<1> QED
  BY <1>2, <1>3

LEMMA SymbolBack ==
  ASSUME NEW c \in Cipher, NEW dir \in {"encrypt", "decrypt"}, NEW length \in Nat,
         NEW in \in [1..length -> Index29], NEW out \in [1..length -> Index29],
         NEW fb \in Seq(Index29), NEW n \in 0..(length - 1), Accepts(c, in),
         out[n + 1] = SymbolFor(c, dir, in, out, fb, n)
  PROVE  /\ SymbolFor(c, Opposite(dir), out, in, fb, n) = in[n + 1]
         /\ NextFeedback(c, Opposite(dir), out, in, fb, n) = NextFeedback(c, dir, in, out, fb, n)
<1>1. n + 1 \in 1..length /\ n + 1 - 1 = n /\ in[n + 1] \in Index29
  OBVIOUS
<1>2. PICK P \in [1..length -> Index29] : P = PlainOf(dir, in, out)
  BY DEF PlainOf
<1>3. PICK C \in [1..length -> Index29] : C = CodedOf(dir, in, out)
  BY DEF CodedOf
<1>4. PlainOf(Opposite(dir), out, in) = P /\ CodedOf(Opposite(dir), out, in) = C
  BY <1>2, <1>3 DEF PlainOf, CodedOf, Opposite
<1>5. NextFeedback(c, Opposite(dir), out, in, fb, n) = NextFeedback(c, dir, in, out, fb, n)
  BY <1>2, <1>3, <1>4 DEF NextFeedback
<1>6. CASE n \in Skips(c)
  BY <1>5, <1>6 DEF SymbolFor
<1>7. CASE n \notin Skips(c)
  <2>1. PICK p \in 1..length : p = n + 1 /\ p - 1 = n
    BY <1>1
  <2>2. Accepts(c, P)
    <3>1. Len(P) = length /\ Len(in) = length
      OBVIOUS
    <3> QED
      BY <3>1 DEF Accepts
  <2>3. /\ SymbolAt(c, p, P, C, fb) \in Index29
        /\ c.family = "affine" => c.key[1] \in Index29 \ {0} /\ c.key[2] \in Index29
    BY <1>7, <2>1, <2>2, KeyType
  <2>4. c.family = "affine" => SymbolAt(c, p, P, C, fb) = c.key[1]
    BY DEF SymbolAt, Periodic, Feedback
  <2>5. PICK s \in Index29 : s = SymbolAt(c, p, P, C, fb)
    BY <2>3
  <2>6. Mixed(c, Opposite(dir), Mixed(c, dir, in[n + 1], s), s) = in[n + 1]
    BY <1>1, <2>3, <2>4, <2>5, MixedUndone
  <2>7. out[n + 1] = Mixed(c, dir, in[n + 1], s)
    BY <1>2, <1>3, <1>7, <2>1, <2>5 DEF SymbolFor
  <2>8. SymbolFor(c, Opposite(dir), out, in, fb, n) = Mixed(c, Opposite(dir), out[n + 1], s)
    BY <1>4, <1>7, <2>1, <2>5 DEF SymbolFor
  <2> QED
    BY <1>5, <2>6, <2>7, <2>8
<1> QED
  BY <1>6, <1>7

(***************************************************************************)
(* One step of a call, from what it has written itself.                    *)
(***************************************************************************)
LEMMA SymbolLocal ==
  ASSUME NEW c \in Cipher, NEW dir \in {"encrypt", "decrypt"}, NEW length \in Nat,
         NEW in \in [1..length -> Index29], NEW out \in [1..length -> Index29],
         NEW out2 \in [1..length -> Index29],
         NEW n \in 0..(length - 1), Accepts(c, in),
         NEW k, DoneTo(k, c, in, out, n), DoneTo(k, c, in, out2, n)
  PROVE  SymbolFor(c, dir, in, out, k.feedback, n) = SymbolFor(c, dir, in, out2, k.feedback, n)
<1>1. CASE n \in Skips(c)
  BY <1>1 DEF SymbolFor
<1>2. CASE n \notin Skips(c)
  <2>1. KeySymbol(c, dir, k)
          = SymbolAt(c, n + 1, PlainOf(dir, in, out), CodedOf(dir, in, out), k.feedback)
    BY <1>2, CallKey
  <2>2. KeySymbol(c, dir, k)
          = SymbolAt(c, n + 1, PlainOf(dir, in, out2), CodedOf(dir, in, out2), k.feedback)
    BY <1>2, CallKey
  <2> QED
    BY <1>2, <2>1, <2>2 DEF SymbolFor
<1> QED
  BY <1>1, <1>2

LEMMA StepAlong ==
  ASSUME ~InPlace,
         NEW c \in Cipher, NEW dir \in {"encrypt", "decrypt"}, NEW length \in Nat,
         NEW in \in [1..length -> Index29], NEW n \in 0..(length - 1), Accepts(c, in),
         NEW k, DoneTo(k, c, in, k.output, n),
         NEW k2, k2 = KernelStep(c, dir, k)
  PROVE  /\ DoneTo(k2, c, in, k2.output, n + 1)
         /\ \A p \in 1..n : k2.output[p] = k.output[p]
         /\ k2.output[n + 1] = SymbolFor(c, dir, in, k2.output, k.feedback, n)
         /\ k2.feedback = NextFeedback(c, dir, in, k2.output, k.feedback, n)
<1>1. k.output \in [1..length -> Index29] /\ k.feedback \in Seq(Index29) /\ n + 1 \in 1..length
  BY DEF DoneTo
<1>2. PICK y \in Index29 : y = SymbolFor(c, dir, in, k.output, k.feedback, n)
  BY <1>1, SymbolTyped
<1>3. PICK out \in [1..length -> Index29] : out = [k.output EXCEPT ![n + 1] = y]
  BY <1>1
<1>4. out[n + 1] = y /\ \A p \in 1..n : p \in 1..length /\ out[p] = k.output[p]
  <2>1. \A p \in 1..n : p \in 1..length /\ p # n + 1
    OBVIOUS
  <2> QED
    BY <1>1, <1>3, <2>1
<1>5. DoneTo(k, c, in, out, n)
  BY <1>4 DEF DoneTo
<1>6. SymbolFor(c, dir, in, out, k.feedback, n) = y
  <2>1. PICK old \in [1..length -> Index29] : old = k.output
    BY <1>1
  <2>2. DoneTo(k, c, in, old, n)
    BY <2>1
  <2>3. SymbolFor(c, dir, in, old, k.feedback, n) = SymbolFor(c, dir, in, out, k.feedback, n)
    BY <1>5, <2>2, SymbolLocal
  <2> QED
    BY <1>2, <2>1, <2>3
<1>7. /\ DoneTo(k2, c, in, out, n + 1)
      /\ k2.output = [k.output EXCEPT ![n + 1] = y]
      /\ k2.feedback = NextFeedback(c, dir, in, out, k.feedback, n)
  BY <1>4, <1>5, <1>6, CallStep
<1>8. k2.output = out
  BY <1>3, <1>7
<1> QED
  BY <1>4, <1>6, <1>7, <1>8

LEMMA FeedbackLocal ==
  ASSUME NEW c \in Cipher, NEW dir, NEW in, NEW out, NEW out2, NEW n \in Nat, NEW fb,
         out[n + 1] = out2[n + 1]
  PROVE  NextFeedback(c, dir, in, out, fb, n) = NextFeedback(c, dir, in, out2, fb, n)
BY DEF NextFeedback, Looked, PlainOf, CodedOf

\* A step from k to k2, after which out has what the step writes.
StepTo(c, dir, in, out, n, k, k2) ==
  k2 = KernelStep(c, dir, k) /\ out[n + 1] = SymbolFor(c, dir, in, out, k.feedback, n)

LEMMA StepWrites ==
  ASSUME ~InPlace,
         NEW c \in Cipher, NEW dir \in {"encrypt", "decrypt"}, NEW length \in Nat,
         NEW in \in [1..length -> Index29], NEW out \in [1..length -> Index29],
         NEW n \in 0..(length - 1), Accepts(c, in),
         NEW k, DoneTo(k, c, in, out, n), NEW k2, StepTo(c, dir, in, out, n, k, k2)
  PROVE  /\ DoneTo(k2, c, in, out, n + 1)
         /\ k2.feedback = NextFeedback(c, dir, in, out, k.feedback, n)
<1> DEFINE fb == k.feedback
<1>0. k2 = KernelStep(c, dir, k) /\ out[n + 1] = SymbolFor(c, dir, in, out, fb, n)
  BY DEF StepTo
<1>1. DoneTo(k, c, in, k.output, n)
  BY DEF DoneTo
<1>2. /\ DoneTo(k2, c, in, k2.output, n + 1)
      /\ \A p \in 1..n : k2.output[p] = k.output[p]
      /\ k2.output[n + 1] = SymbolFor(c, dir, in, k2.output, k.feedback, n)
      /\ k2.feedback = NextFeedback(c, dir, in, k2.output, k.feedback, n)
  BY <1>0, <1>1, StepAlong
<1>3. PICK o \in [1..length -> Index29] : o = k2.output
  <2>1. Len(in) = length
    OBVIOUS
  <2> QED
    BY <1>2, <2>1 DEF DoneTo
<1>4. DoneTo(k, c, in, o, n)
  BY <1>1, <1>2, <1>3 DEF DoneTo
<1>5. SymbolFor(c, dir, in, o, k.feedback, n) = SymbolFor(c, dir, in, out, k.feedback, n)
  BY <1>4, SymbolLocal
<1>6. o[n + 1] = out[n + 1]
  BY <1>0, <1>2, <1>3, <1>5
<1>7. NextFeedback(c, dir, in, o, fb, n) = NextFeedback(c, dir, in, out, fb, n)
  <2>1. n \in Nat
    OBVIOUS
  <2> QED
    BY <1>6, <2>1, FeedbackLocal
<1>8. \A p \in 1..(n + 1) : o[p] = out[p]
  <2>1. \A p \in 1..n : k.output[p] = out[p] /\ k.output[p] = o[p]
    BY <1>4 DEF DoneTo
  <2>2. \A p \in 1..(n + 1) : p \in 1..n \/ p = n + 1
    OBVIOUS
  <2> QED
    BY <1>6, <2>1, <2>2
<1>9. DoneTo(k2, c, in, out, n + 1)
  BY <1>2, <1>3, <1>8 DEF DoneTo
<1> QED
  BY <1>2, <1>3, <1>7, <1>9

-----------------------------------------------------------------------------
(***************************************************************************)
(* A call from its first symbol to its last.                               *)
(***************************************************************************)
RunTo(r, c, dir, text, m) ==
  r = [n \in 0..m |-> IF n = 0 THEN Called(text, Zeros(Len(text))) ELSE KernelStep(c, dir, r[n - 1])]

LEMMA RunExists ==
  ASSUME NEW c, NEW dir, NEW text, NEW k \in Nat
  PROVE  \E r : RunTo(r, c, dir, text, k)
<1>1. \E r : RunTo(r, c, dir, text, 0)
  <2>1. RunTo([n \in 0..0 |-> Called(text, Zeros(Len(text)))], c, dir, text, 0)
    BY DEF RunTo
  <2> QED
    BY <2>1
<1>2. ASSUME NEW m \in Nat, \E r : RunTo(r, c, dir, text, m)
      PROVE  \E r : RunTo(r, c, dir, text, m + 1)
  <2>1. PICK r : RunTo(r, c, dir, text, m)
    BY <1>2
  <2> DEFINE g == [n \in 0..(m + 1) |-> IF n <= m THEN r[n] ELSE KernelStep(c, dir, r[m])]
  <2>2. \A n \in 0..m : g[n] = r[n]
    OBVIOUS
  <2>3. \A n \in 0..m :
          r[n] = IF n = 0 THEN Called(text, Zeros(Len(text))) ELSE KernelStep(c, dir, r[n - 1])
    BY <2>1, Zenon DEF RunTo
  <2>4. g[m + 1] = KernelStep(c, dir, g[m])
    BY <2>2
  <2>5. ASSUME NEW n \in 0..(m + 1)
        PROVE  g[n] = IF n = 0 THEN Called(text, Zeros(Len(text))) ELSE KernelStep(c, dir, g[n - 1])
    <3>1. CASE n = m + 1
      BY <2>4, <3>1
    <3>2. CASE n \in 0..m
      <4>1. n # 0 => n - 1 \in 0..m
        BY <3>2
      <4> HIDE DEF g
      <4> QED
        BY <2>2, <2>3, <3>2, <4>1
    <3> QED
      BY <3>1, <3>2
  <2>6. g = [n \in 0..(m + 1) |-> g[n]]
    OBVIOUS
  <2> HIDE DEF g
  <2>7. RunTo(g, c, dir, text, m + 1)
    BY <2>5, <2>6 DEF RunTo
  <2> QED
    BY <2>7
<1>3. SUFFICES ASSUME ~\E r : RunTo(r, c, dir, text, k) PROVE FALSE
  OBVIOUS
<1> DEFINE S == {m \in 1..k : ~\E r : RunTo(r, c, dir, text, m)}
<1>4. S \in SUBSET (1..k) /\ S # {}
  <2>1. k # 0
    BY <1>1, <1>3
  <2>2. k \in S
    BY <1>3, <2>1
  <2> QED
    BY <2>2
<1>5. PICK m \in S : \A p \in S : m <= p
  <2> HIDE DEF S
  <2> QED
    BY <1>4, FirstPosition
<1>6. m \in 1..k /\ ~(\E r : RunTo(r, c, dir, text, m)) /\ m - 1 \in Nat /\ (m - 1) + 1 = m
  BY <1>5
<1>7. \E r : RunTo(r, c, dir, text, m - 1)
  <2>1. CASE m = 1
    BY <1>1, <2>1
  <2>2. CASE m # 1
    <3>1. m - 1 \in 1..k /\ ~(m <= m - 1)
      BY <1>6, <2>2
    <3>2. m - 1 \notin S
      BY <1>5, <3>1
    <3> QED
      BY <3>1, <3>2
  <2> QED
    BY <2>1, <2>2
<1> HIDE DEF S
<1> QED
  BY <1>2, <1>6, <1>7

LEMMA StreamRuns ==
  ASSUME NEW c, NEW dir, NEW length \in Nat, NEW text \in [1..length -> Index29]
  PROVE  \E r : RunTo(r, c, dir, text, length) /\ StreamOutput(c, dir, text) = r[length].output
<1> DEFINE r == CHOOSE run : run = [n \in 0..Len(text) |->
                  IF n = 0 THEN Called(text, Zeros(Len(text))) ELSE KernelStep(c, dir, run[n - 1])]
<1>1. Len(text) = length
  OBVIOUS
<1>2. RunTo(r, c, dir, text, length)
  BY <1>1, RunExists DEF RunTo
<1>3. StreamOutput(c, dir, text) = r[length].output
  BY <1>1 DEF StreamOutput
<1> QED
  BY <1>2, <1>3

(***************************************************************************)
(* What a call writes it leaves as it is, so that all along it has written *)
(* what it has in the end.                                                 *)
(***************************************************************************)
Along(r, c, text, m) ==
  /\ DoneTo(r[m], c, text, r[m].output, m)
  /\ \A n \in 0..m : \A p \in 1..n : r[m].output[p] = r[n].output[p]

LEMMA RunsAlong ==
  ASSUME ~InPlace,
         NEW c \in Cipher, NEW dir \in {"encrypt", "decrypt"}, NEW length \in Nat,
         NEW text \in [1..length -> Index29], Accepts(c, text),
         NEW r, RunTo(r, c, dir, text, length)
  PROVE  \A m \in 0..length : Along(r, c, text, m)
<1>1. /\ r[0] = Called(text, Zeros(length))
      /\ \A m \in 1..length : r[m] = KernelStep(c, dir, r[m - 1])
  <2>1. Len(text) = length
    OBVIOUS
  <2>2. \A n \in 0..length :
          r[n] = IF n = 0 THEN Called(text, Zeros(Len(text))) ELSE KernelStep(c, dir, r[n - 1])
    BY Zenon DEF RunTo
  <2> QED
    BY <2>1, <2>2
<1>2. Along(r, c, text, 0)
  <2>1. Consumed(c, 1) = 0
    <3>1. 1 \in Nat \ {0}
      OBVIOUS
    <3> QED
      BY <3>1, ConsumedSteps
  <2>2. Zeros(length) \in [1..length -> Index29] /\ Len(text) = length
    BY DEF Zeros, Index29
  <2>3. DoneTo(r[0], c, text, r[0].output, 0)
    BY <1>1, <2>1, <2>2 DEF DoneTo, Called
  <2> QED
    BY <2>3 DEF Along
<1>3. ASSUME NEW m \in 1..length, Along(r, c, text, m - 1)
      PROVE  Along(r, c, text, m)
  <2>1. PICK n \in 0..(length - 1) : n = m - 1 /\ m = n + 1
    OBVIOUS
  <2>2. PICK k : k = r[n]
    OBVIOUS
  <2>3. PICK k2 : k2 = r[m] /\ k2 = KernelStep(c, dir, k)
    BY <1>1, <2>1, <2>2
  <2>4. DoneTo(k, c, text, k.output, n)
    BY <1>3, <2>1, <2>2 DEF Along
  <2>5. /\ DoneTo(k2, c, text, k2.output, n + 1)
        /\ \A p \in 1..n : k2.output[p] = k.output[p]
    BY <2>3, <2>4, StepAlong
  <2>6. ASSUME NEW l \in 0..m, NEW p \in 1..l
        PROVE  r[m].output[p] = r[l].output[p]
    <3>1. CASE l = m
      BY <3>1
    <3>2. CASE l # m
      <4>1. l \in 0..n /\ p \in 1..n
        BY <2>1, <3>2
      <4>2. r[n].output[p] = r[l].output[p]
        BY <1>3, <2>1, <4>1 DEF Along
      <4> QED
        BY <2>2, <2>3, <2>5, <4>1, <4>2
    <3> QED
      BY <3>1, <3>2
  <2> QED
    BY <2>1, <2>3, <2>5, <2>6 DEF Along
<1>4. SUFFICES ASSUME NEW b \in 0..length, ~Along(r, c, text, b) PROVE FALSE
  OBVIOUS
<1> DEFINE S == {m \in 1..length : ~Along(r, c, text, m)}
<1>5. S \in SUBSET (1..length) /\ S # {}
  <2>1. b # 0
    BY <1>2, <1>4
  <2> QED
    BY <1>4, <2>1
<1>6. PICK m \in S : \A p \in S : m <= p
  <2> HIDE DEF S
  <2> QED
    BY <1>5, FirstPosition
<1>7. m \in 1..length /\ ~Along(r, c, text, m)
  OBVIOUS
<1>8. Along(r, c, text, m - 1)
  <2>1. CASE m = 1
    BY <1>2, <2>1
  <2>2. CASE m # 1
    <3>1. m - 1 \in 1..length /\ ~(m <= m - 1)
      BY <1>7, <2>2
    <3>2. m - 1 \notin S
      BY <1>6, <3>1
    <3> QED
      BY <3>1, <3>2
  <2> QED
    BY <2>1, <2>2
<1> HIDE DEF S
<1> QED
  BY <1>3, <1>7, <1>8

RunWrites(r, c, dir, text, out, length) ==
  /\ \A n \in 0..length : DoneTo(r[n], c, text, out, n)
  /\ \A n \in 0..(length - 1) :
       /\ out[n + 1] = SymbolFor(c, dir, text, out, r[n].feedback, n)
       /\ r[n + 1].feedback = NextFeedback(c, dir, text, out, r[n].feedback, n)

LEMMA RunWritten ==
  ASSUME ~InPlace,
         NEW c \in Cipher, NEW dir \in {"encrypt", "decrypt"}, NEW length \in Nat,
         NEW text \in [1..length -> Index29], Accepts(c, text),
         NEW r, RunTo(r, c, dir, text, length),
         NEW out, out = r[length].output
  PROVE  out \in [1..length -> Index29] /\ RunWrites(r, c, dir, text, out, length)
<1>1. \A m \in 0..length : Along(r, c, text, m)
  BY RunsAlong
<1>2. \A m \in 1..length : r[m] = KernelStep(c, dir, r[m - 1])
  <2>1. Len(text) = length
    OBVIOUS
  <2>2. \A n \in 0..length :
          r[n] = IF n = 0 THEN Called(text, Zeros(Len(text))) ELSE KernelStep(c, dir, r[n - 1])
    BY Zenon DEF RunTo
  <2> QED
    BY <2>1, <2>2
<1>3. Along(r, c, text, length)
  BY <1>1
<1>4. out \in [1..length -> Index29]
  <2>1. Len(text) = length
    OBVIOUS
  <2> QED
    BY <1>3, <2>1 DEF Along, DoneTo
<1>5. ASSUME NEW n \in 0..length PROVE DoneTo(r[n], c, text, out, n)
  <2>1. DoneTo(r[n], c, text, r[n].output, n)
    BY <1>1 DEF Along
  <2>2. \A p \in 1..n : r[n].output[p] = out[p]
    BY <1>3 DEF Along
  <2> QED
    BY <2>1, <2>2 DEF DoneTo
<1>6. ASSUME NEW n \in 0..(length - 1)
      PROVE  /\ out[n + 1] = SymbolFor(c, dir, text, out, r[n].feedback, n)
             /\ r[n + 1].feedback = NextFeedback(c, dir, text, out, r[n].feedback, n)
  <2>1. n + 1 \in 0..length /\ n \in 0..length /\ n + 1 \in 1..length /\ n + 1 - 1 = n
    OBVIOUS
  <2>2. PICK k : k = r[n]
    OBVIOUS
  <2>3. PICK k2 : k2 = r[n + 1] /\ k2 = KernelStep(c, dir, k)
    BY <1>2, <2>1, <2>2
  <2>4. DoneTo(k, c, text, k.output, n) /\ DoneTo(k, c, text, out, n)
    BY <1>1, <1>5, <2>1, <2>2 DEF Along
  <2>5. k2.output[n + 1] = SymbolFor(c, dir, text, k2.output, k.feedback, n)
    BY <2>3, <2>4, StepAlong
  <2>6. \A p \in 1..(n + 1) : k2.output[p] = out[p]
    BY <1>5, <2>1, <2>3 DEF DoneTo
  <2>7. PICK o \in [1..length -> Index29] : o = k2.output
    <3>1. Len(text) = length
      OBVIOUS
    <3> QED
      BY <1>5, <2>1, <2>3, <3>1 DEF DoneTo
  <2>8. DoneTo(k, c, text, o, n)
    <3>1. \A p \in 1..n : k.output[p] = out[p]
      BY <2>4 DEF DoneTo
    <3>2. \A p \in 1..n : p \in 1..(n + 1)
      OBVIOUS
    <3>3. \A p \in 1..n : k.output[p] = o[p]
      BY <2>6, <2>7, <3>1, <3>2
    <3> QED
      BY <2>4, <3>3 DEF DoneTo
  <2>9. SymbolFor(c, dir, text, o, k.feedback, n) = SymbolFor(c, dir, text, out, k.feedback, n)
    BY <1>4, <2>4, <2>8, SymbolLocal
  <2>10. n + 1 \in 1..(n + 1)
    OBVIOUS
  <2>11. out[n + 1] = SymbolFor(c, dir, text, out, k.feedback, n)
    BY <2>5, <2>6, <2>7, <2>9, <2>10
  <2>12. k2.feedback = NextFeedback(c, dir, text, out, k.feedback, n)
    <3>1. k2.feedback = NextFeedback(c, dir, text, o, k.feedback, n)
      BY <2>3, <2>4, <2>7, StepAlong
    <3>2. o[n + 1] = out[n + 1] /\ n \in Nat
      BY <2>6, <2>7, <2>10
    <3>3. NextFeedback(c, dir, text, o, k.feedback, n) = NextFeedback(c, dir, text, out, k.feedback, n)
      BY <3>2, FeedbackLocal
    <3> QED
      BY <3>1, <3>3
  <2> QED
    BY <2>2, <2>3, <2>11, <2>12
<1> QED
  BY <1>4, <1>5, <1>6 DEF RunWrites

(***************************************************************************)
(* The call in the other direction finds the same feedback at every        *)
(* symbol, and writes the text.                                            *)
(***************************************************************************)
LEMMA RunUndone ==
  ASSUME ~InPlace,
         NEW c \in Cipher, NEW dir \in {"encrypt", "decrypt"}, NEW length \in Nat,
         NEW text \in [1..length -> Index29], Accepts(c, text),
         NEW out \in [1..length -> Index29],
         NEW r, RunTo(r, c, dir, text, length), RunWrites(r, c, dir, text, out, length),
         NEW q, RunTo(q, c, Opposite(dir), out, length)
  PROVE  \A m \in 0..length : DoneTo(q[m], c, out, text, m) /\ q[m].feedback = r[m].feedback
<1>1. Len(text) = length /\ Len(out) = length /\ Opposite(dir) \in {"encrypt", "decrypt"}
  BY DEF Opposite
<1>2. /\ q[0] = Called(out, Zeros(length)) /\ r[0] = Called(text, Zeros(length))
      /\ \A m \in 1..length : q[m] = KernelStep(c, Opposite(dir), q[m - 1])
  <2>1. \A n \in 0..length :
          q[n] = IF n = 0 THEN Called(out, Zeros(Len(out))) ELSE KernelStep(c, Opposite(dir), q[n - 1])
    BY Zenon DEF RunTo
  <2>2. \A n \in 0..length :
          r[n] = IF n = 0 THEN Called(text, Zeros(Len(text))) ELSE KernelStep(c, dir, r[n - 1])
    BY Zenon DEF RunTo
  <2> QED
    BY <1>1, <2>1, <2>2
<1> DEFINE Same(m) == DoneTo(q[m], c, out, text, m) /\ q[m].feedback = r[m].feedback
<1>3. Accepts(c, out)
  BY <1>1 DEF Accepts
<1>4. Same(0)
  <2>1. Consumed(c, 1) = 0
    <3>1. 1 \in Nat \ {0}
      OBVIOUS
    <3> QED
      BY <3>1, ConsumedSteps
  <2>2. Zeros(length) \in [1..length -> Index29]
    BY DEF Zeros, Index29
  <2> QED
    BY <1>1, <1>2, <2>1, <2>2 DEF DoneTo, Called
<1>5. ASSUME NEW m \in 1..length, Same(m - 1) PROVE Same(m)
  <2>1. PICK n \in 0..(length - 1) : n = m - 1 /\ m = n + 1
    OBVIOUS
  <2>2. PICK k : k = q[n]
    OBVIOUS
  <2>3. PICK k2 : k2 = q[m] /\ k2 = KernelStep(c, Opposite(dir), k)
    BY <1>2, <2>1, <2>2
  <2>4. DoneTo(k, c, out, text, n) /\ k.feedback = r[n].feedback
    BY <1>5, <2>1, <2>2
  <2>5. PICK fb \in Seq(Index29) : fb = k.feedback
    BY <2>4 DEF DoneTo
  <2>6. /\ out[n + 1] = SymbolFor(c, dir, text, out, fb, n)
        /\ r[n + 1].feedback = NextFeedback(c, dir, text, out, fb, n)
    BY <2>4, <2>5 DEF RunWrites
  <2>7. /\ SymbolFor(c, Opposite(dir), out, text, fb, n) = text[n + 1]
        /\ NextFeedback(c, Opposite(dir), out, text, fb, n) = NextFeedback(c, dir, text, out, fb, n)
    BY <2>6, SymbolBack
  <2>8. PICK e \in {"encrypt", "decrypt"} : e = Opposite(dir)
    BY <1>1
  <2>9. StepTo(c, e, out, text, n, k, k2)
    BY <2>3, <2>5, <2>7, <2>8 DEF StepTo
  <2>10. DoneTo(k, c, out, text, n)
    BY <2>4
  <2>11. /\ DoneTo(k2, c, out, text, n + 1)
         /\ k2.feedback = NextFeedback(c, e, out, text, k.feedback, n)
    BY <1>3, <2>9, <2>10, StepWrites
  <2> QED
    BY <2>1, <2>3, <2>5, <2>6, <2>7, <2>8, <2>11
<1>6. SUFFICES ASSUME NEW b \in 0..length, ~Same(b) PROVE FALSE
  OBVIOUS
<1> HIDE DEF Same
<1> DEFINE S == {m \in 1..length : ~Same(m)}
<1>7. S \in SUBSET (1..length) /\ S # {}
  <2>1. b # 0
    BY <1>4, <1>6
  <2> QED
    BY <1>6, <2>1
<1>8. PICK m \in S : \A p \in S : m <= p
  <2> HIDE DEF S
  <2> QED
    BY <1>7, FirstPosition
<1>9. m \in 1..length /\ ~Same(m)
  OBVIOUS
<1>10. Same(m - 1)
  <2>1. CASE m = 1
    BY <1>4, <2>1
  <2>2. CASE m # 1
    <3>1. m - 1 \in 1..length /\ ~(m <= m - 1)
      BY <1>9, <2>2
    <3>2. m - 1 \notin S
      BY <1>8, <3>1
    <3> QED
      BY <3>1, <3>2
  <2> QED
    BY <2>1, <2>2
<1> HIDE DEF S
<1> QED
  BY <1>5, <1>9, <1>10

LEMMA StreamUndone ==
  ASSUME ~InPlace,
         NEW c \in Cipher, NEW dir \in {"encrypt", "decrypt"}, NEW length \in Nat,
         NEW text \in [1..length -> Index29], Accepts(c, text)
  PROVE  /\ StreamOutput(c, dir, text) \in [1..length -> Index29]
         /\ StreamOutput(c, Opposite(dir), StreamOutput(c, dir, text)) = text
<1>1. PICK r : RunTo(r, c, dir, text, length) /\ StreamOutput(c, dir, text) = r[length].output
  BY StreamRuns
<1>2. PICK out : out = r[length].output
  OBVIOUS
<1>3. out \in [1..length -> Index29] /\ RunWrites(r, c, dir, text, out, length)
  BY <1>1, <1>2, RunWritten
<1>4. PICK q : RunTo(q, c, Opposite(dir), out, length)
               /\ StreamOutput(c, Opposite(dir), out) = q[length].output
  BY <1>3, StreamRuns
<1>5. DoneTo(q[length], c, out, text, length)
  BY <1>1, <1>3, <1>4, RunUndone
<1>6. q[length].output = text
  <2>1. Len(out) = length
    BY <1>3
  <2>2. q[length].output \in [1..length -> Index29] /\ \A p \in 1..length : q[length].output[p] = text[p]
    BY <1>5, <2>1 DEF DoneTo
  <2> QED
    BY <2>2
<1> QED
  BY <1>1, <1>2, <1>3, <1>4, <1>6

-----------------------------------------------------------------------------
(***************************************************************************)
(* Any one stage of a recipe, with the parameters its kind takes.          *)
(***************************************************************************)
StreamParams == [family : Families, key : Seq(Index29), lag : Nat]

Parametrised(stage) ==
  \/ stage.kind = "stream" /\ stage.params \in StreamParams
  \/ stage.kind = "hill" /\ stage.params \in Matrices
  \/ stage.kind = "grid" /\ stage.params \in Grids

\* Whatever is asked of it, the totient stream has shifts that are rune indices.
LEMMA ShiftsAreIndices ==
  ASSUME NEW start \in Nat, NEW count \in Nat
  PROVE  TotientShifts(start, count) \in Seq(Index29)
<1>1. CASE \A j \in 1..count : Sieved(start + j - 1)
  <2>1. ASSUME NEW j \in 1..count PROVE (NthPrime(start + j - 1) - 1) % 29 \in Index29
    <3>1. PICK index \in Nat : index = start + j - 1
      OBVIOUS
    <3>2. \E p \in 2..UpperBoundForNth(index) : IsNth(p, index)
      BY <1>1, <3>1 DEF Sieved
    <3>3. NthPrime(index) \in 2..UpperBoundForNth(index)
      BY <3>2 DEF NthPrime
    <3>4. UpperBoundForNth(index) \in Int
      BY <3>1 DEF UpperBoundForNth
    <3>5. PICK p \in Int : p = NthPrime(index)
      BY <3>3, <3>4
    <3>6. (p - 1) % 29 \in 0..28
      BY <3>5
    <3> QED
      BY <3>1, <3>5, <3>6 DEF Index29
  <2>2. TotientShifts(start, count) = [j \in 1..count |-> (NthPrime(start + j - 1) - 1) % 29]
    BY <1>1 DEF TotientShifts
  <2> QED
    BY <2>1, <2>2
<1>2. CASE ~(\A j \in 1..count : Sieved(start + j - 1))
  BY <1>2 DEF TotientShifts
<1> QED
  BY <1>1, <1>2

LEMMA StreamOfIsCipher ==
  ASSUME NEW stage, stage.params \in StreamParams, NEW skips \in SUBSET Nat,
         NEW length \in Nat, NEW text, Len(text) = length
  PROVE  StreamOf(stage, skips, text) \in Cipher
<1> DEFINE c == [family |-> stage.params.family, key |-> stage.params.key,
                 lag |-> stage.params.lag, skips |-> skips]
<1>1. c \in Cipher
  BY DEF StreamParams, Cipher
<1>2. StreamOf(stage, skips, text)
        = IF c.family = "totient_prime_stream"
            THEN [c EXCEPT !.key = TotientShifts(c.lag, Cardinality(Taken(c, Len(text))))] ELSE c
  BY DEF StreamOf
<1>3. Cardinality(Taken(c, length)) \in Nat
  <2>1. Taken(c, length) \in SUBSET (1..length)
    BY DEF Taken
  <2>2. IsFiniteSet(1..length)
    BY FS_Interval
  <2>3. IsFiniteSet(Taken(c, length))
    BY <2>1, <2>2, FS_Subset
  <2> QED
    BY <2>3, FS_CardinalityType
<1> HIDE DEF c
<1>4. TotientShifts(c.lag, Cardinality(Taken(c, length))) \in Seq(Index29)
  <2>1. c.lag \in Nat
    BY <1>1 DEF Cipher
  <2> QED
    BY <1>3, <2>1, ShiftsAreIndices
<1> QED
  BY <1>1, <1>2, <1>4 DEF Cipher

(***************************************************************************)
(* A stage that accepts a text makes another of the same length of it, and *)
(* the stage the other way round makes the text of that again: for every   *)
(* transform of the catalog, whatever its parameters and interrupts.       *)
(***************************************************************************)
THEOREM StageUndone ==
  ASSUME ~InPlace, NEW stage, Parametrised(stage), NEW skips \in SUBSET Nat,
         NEW dir \in {"encrypt", "decrypt"}, NEW length \in Nat,
         NEW text \in [1..length -> Index29], StageAccepts(stage, skips, text)
  PROVE  /\ StageOutput(stage, dir, skips, text) \in [1..length -> Index29]
         /\ StageOutput(stage, Opposite(dir), skips, StageOutput(stage, dir, skips, text)) = text
<1>1. PICK back \in {"encrypt", "decrypt"} : back = Opposite(dir) /\ dir # back
  BY DEF Opposite
<1>2. CASE stage.kind = "stream"
  <2>1. stage.params \in StreamParams /\ Len(text) = length
    BY <1>2 DEF Parametrised
  <2>2. PICK c \in Cipher : c = StreamOf(stage, skips, text)
    BY <2>1, StreamOfIsCipher
  <2>3. Accepts(c, text)
    BY <1>2, <2>2 DEF StageAccepts
  <2>4. PICK out : out = StreamOutput(c, dir, text)
    OBVIOUS
  <2>5. out \in [1..length -> Index29] /\ StreamOutput(c, back, out) = text
    BY <1>1, <2>3, <2>4, StreamUndone
  <2>6. StreamOf(stage, skips, out) = c
    <3>1. Len(out) = Len(text)
      BY <2>5
    <3> QED
      BY <2>2, <3>1 DEF StreamOf
  <2>7. StageOutput(stage, dir, skips, text) = out
    BY <1>2, <2>2, <2>4 DEF StageOutput
  <2>8. StageOutput(stage, back, skips, out) = StreamOutput(c, back, out)
    BY <1>2, <2>6 DEF StageOutput
  <2> QED
    BY <1>1, <2>5, <2>7, <2>8
<1>3. CASE stage.kind = "hill"
  <2>1. PICK m \in Matrices : m = stage.params
    BY <1>3 DEF Parametrised
  <2>2. HillAccepts(m, text)
    BY <1>3, <2>1 DEF StageAccepts
  <2>3. /\ HillOutput(m, dir, text) \in [1..length -> Index29]
        /\ HillOutput(m, back, HillOutput(m, dir, text)) = text
    BY <1>1, <2>2, HillUndone
  <2>4. \A d, t : StageOutput(stage, d, skips, t) = HillOutput(m, d, t)
    BY <1>3, <2>1 DEF StageOutput
  <2> QED
    BY <1>1, <2>3, <2>4
<1>4. CASE stage.kind = "grid"
  <2>1. PICK g \in Grids : g = stage.params
    BY <1>4 DEF Parametrised
  <2>2. GridAccepts(g, text)
    BY <1>4, <2>1 DEF StageAccepts
  <2>3. /\ GridOutput(g, dir, text) \in [1..length -> Index29]
        /\ GridOutput(g, back, GridOutput(g, dir, text)) = text
    BY <1>1, <2>2, GridUndone
  <2>4. \A d, t : StageOutput(stage, d, skips, t) = GridOutput(g, d, t)
    BY <1>4, <2>1 DEF StageOutput
  <2> QED
    BY <1>1, <2>3, <2>4
<1> QED
  BY <1>2, <1>3, <1>4 DEF Parametrised
=============================================================================
