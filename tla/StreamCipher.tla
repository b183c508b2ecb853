---------------------------- MODULE StreamCipher ----------------------------
(***************************************************************************)
(* A text is encrypted with one of the stream kernels, one symbol at a     *)
(* time, and what came out is decrypted again by a second call.            *)
(***************************************************************************)
EXTENDS StreamKernels, HistKernels

CONSTANTS
  Plains,      \* the texts, sequences of Index29
  Ciphers      \* the families with their parameters

ASSUME StreamAssumption ==
  /\ Plains \subseteq Seq(Index29)
  /\ Ciphers \subseteq Cipher
  /\ InPlace \in BOOLEAN

VARIABLES
  cipher,      \* the family in use
  plain,       \* the text
  secret,      \* what the encryption made of it
  pass,        \* "start", "encrypt", "decrypt", "done" or "refused"
  kernel,      \* the spans and the locals of the running kernel
  trace        \* trace[p]: the key symbol and the feedback when p was encrypted

streamVars == <<cipher, plain, secret, pass, kernel, trace>>

-----------------------------------------------------------------------------
StreamInit ==
  /\ cipher \in Ciphers /\ plain \in Plains
  /\ pass = "start" /\ secret = <<>> /\ trace = <<>>
  /\ kernel = Called(plain, IF InPlace THEN plain ELSE Zeros(Len(plain)))

Start ==
  /\ pass = "start"
  /\ pass' = IF Accepts(cipher, plain) THEN "encrypt" ELSE "refused"
  /\ UNCHANGED <<cipher, plain, secret, kernel, trace>>

Symbol ==
  /\ pass \in {"encrypt", "decrypt"} /\ kernel.pos <= Len(plain)
  /\ kernel' = KernelStep(cipher, pass, kernel)
  /\ trace' = IF pass = "encrypt"
                THEN Append(trace, [key      |-> IF kernel.pos - 1 \in Skips(cipher) THEN 0
                                                 ELSE KeySymbol(cipher, pass, kernel),
                                    feedback |-> kernel.feedback])
                ELSE trace
  /\ UNCHANGED <<cipher, plain, secret, pass>>

(***************************************************************************)
(* The ciphertext is handed to a second call, which decrypts it.           *)
(***************************************************************************)
TurnRound ==
  /\ pass = "encrypt" /\ kernel.pos > Len(plain)
  /\ pass' = "decrypt" /\ secret' = kernel.output
  /\ kernel' = Called(kernel.output, IF InPlace THEN kernel.output ELSE Zeros(Len(plain)))
  /\ UNCHANGED <<cipher, plain, trace>>

Finish ==
  /\ pass = "decrypt" /\ kernel.pos > Len(plain)
  /\ pass' = "done"
  /\ UNCHANGED <<cipher, plain, secret, kernel, trace>>

StreamNext == Start \/ Symbol \/ TurnRound \/ Finish

StreamSpec == StreamInit /\ [][StreamNext]_streamVars

-----------------------------------------------------------------------------
Texts == [1..Len(plain) -> Index29]

(***************************************************************************)
(* The spans keep the length of the text and hold rune indices, and the    *)
(* key cursor counts no more symbols than have gone by.                    *)
(***************************************************************************)
StreamTypeOK ==
  /\ cipher \in Cipher /\ plain \in Seq(Index29)
  /\ pass \in {"start", "encrypt", "decrypt", "done", "refused"}
  /\ kernel \in [input : Texts, output : Texts, pos : 1..(Len(plain) + 1),
                 cursor : Nat, feedback : Seq(Index29)]
  /\ kernel.cursor < kernel.pos
  /\ trace \in Seq([key : Index29, feedback : Seq(Index29)])

(***************************************************************************)
(* Decrypting what was encrypted under the same parameters and interrupts  *)
(* gives the text back, symbol by symbol, and interrupts leave a symbol in *)
(* the clear on both sides.                                                *)
(***************************************************************************)
RoundTrip ==
  /\ pass \in {"decrypt", "done"} =>
       /\ \A p \in 1..(kernel.pos - 1) : kernel.output[p] = plain[p]
       /\ \A s \in Skips(cipher) : secret[s + 1] = plain[s + 1]
  /\ pass = "done" => kernel.output = plain

(***************************************************************************)
(* The key stream is the one the autokeys are documented to have: counting *)
(* only the symbols that are not skipped, the primer (repeated up to the   *)
(* lag) comes first and then the text or the ciphertext itself, the lag    *)
(* earlier; the loop without interrupts and the one with them agree on it. *)
(***************************************************************************)
KeyAsSpecified ==
  (cipher.family \in Feedback /\ pass \in {"decrypt", "done"}) =>
    LET stream == IF cipher.family = "ciphertext_autokey" THEN secret ELSE plain
        took   == Taken(cipher, Len(plain)) IN
      \A p \in took :
        IF Consumed(cipher, p) < cipher.lag
          THEN trace[p].key = KeyAt(cipher, Consumed(cipher, p))
          ELSE \E q \in took : Consumed(cipher, q) = Consumed(cipher, p) - cipher.lag
                                 /\ trace[p].key = stream[q]

-----------------------------------------------------------------------------
(***************************************************************************)
(* The kernels of the alphabet search, which know nothing of interrupts:   *)
(* the counts of one candidate for a text s.                               *)
(***************************************************************************)
Countable(c) ==
  Skips(c) = {} /\ c.family \in (Elementwise \cup Periodic) \ {"identity"}

CatalogCounts(c, s) ==
  CASE c.family = "atbash"       -> AtbashRemap(CipherHist(s))
    [] c.family = "caesar"       -> CaesarRemap(CipherHist(s), c.key[1])
    [] c.family = "affine"       -> AffineRemap(CipherHist(s), c.key[1], c.key[2])
    [] c.family = "vigenere_key" -> VigenereRemap(ColumnHists(s, Len(c.key)), c.key)
    [] c.family = "beaufort_key" -> BeaufortRemap(ColumnHists(s, Len(c.key)), c.key)

(***************************************************************************)
(* What the alphabet search counts for a candidate, without decoding, are  *)
(* the symbols of the text that the candidate decrypts to.                 *)
(***************************************************************************)
CatalogAsDecoded ==
  pass = "done" /\ Countable(cipher) =>
    CatalogCounts(cipher, secret) = CipherHist(kernel.output)
=============================================================================
