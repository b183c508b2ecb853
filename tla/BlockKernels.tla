---------------------------- MODULE BlockKernels ----------------------------
(***************************************************************************)
(* The kernels that work on a text as a whole: the Hill ciphers on blocks  *)
(* of two and three, and the transpositions that read a text laid out in a *)
(* grid of rows along a spiral, back and forth, along the diagonals or by  *)
(* the columns in the order of a key.  All of them ignore interrupts.      *)
(***************************************************************************)
EXTENDS Z29, FiniteSets, SequencesExt

Up(a, b) == IF a > b THEN <<>> ELSE [i \in 1..(b - a + 1) |-> a + i - 1]
Down(b, a) == Reverse(Up(a, b))

-----------------------------------------------------------------------------
(***************************************************************************)
(* Matrices over Z29, as sequences of rows.                                *)
(***************************************************************************)
Minor2(p, q, r, s) == Sub(Mul(p, s), Mul(q, r))

Others(i) == CASE i = 1 -> <<2, 3>> [] i = 2 -> <<1, 3>> [] i = 3 -> <<1, 2>>

Minor3(m, row, col) ==
  LET r == Others(row)  c == Others(col) IN
    Minor2(m[r[1]][c[1]], m[r[1]][c[2]], m[r[2]][c[1]], m[r[2]][c[2]])

Det(m) ==
  IF Len(m) = 2 THEN Minor2(m[1][1], m[1][2], m[2][1], m[2][2])
  ELSE Add(Sub(Mul(m[1][1], Minor3(m, 1, 1)), Mul(m[1][2], Minor3(m, 1, 2))),
           Mul(m[1][3], Minor3(m, 1, 3)))

\* Faulty variant: the cofactors are not transposed.
AdjugateUntransposed(m) ==
  IF Len(m) = 2
  THEN << <<m[2][2], Neg(m[2][1])>>, <<Neg(m[1][2]), m[1][1]>> >>
  ELSE [i \in 1..3 |-> [j \in 1..3 |->
          IF (i + j) % 2 = 0 THEN Minor3(m, i, j) ELSE Neg(Minor3(m, i, j))]]

Adjugate(m) ==
  IF Len(m) = 2
  THEN << <<m[2][2], Neg(m[1][2])>>, <<Neg(m[2][1]), m[1][1]>> >>
  ELSE [i \in 1..3 |-> [j \in 1..3 |->
          IF (i + j) % 2 = 0 THEN Minor3(m, j, i) ELSE Neg(Minor3(m, j, i))]]

Inverted(m) ==
  [i \in DOMAIN m |-> [j \in DOMAIN m |-> Mul(Inv(Det(m)), Adjugate(m)[i][j])]]

MulVec(m, v) ==
  [i \in DOMAIN m |->
     IF Len(m) = 2 THEN Add(Mul(m[i][1], v[1]), Mul(m[i][2], v[2]))
     ELSE Add(Add(Mul(m[i][1], v[1]), Mul(m[i][2], v[2])), Mul(m[i][3], v[3]))]

HillAccepts(m, text) == Det(m) # 0 /\ Len(text) % Len(m) = 0

HillBlock(a, text, b) == MulVec(a, [j \in DOMAIN a |-> text[b * Len(a) + j]])

HillBlocks(a, text) ==
  [p \in DOMAIN text |-> HillBlock(a, text, (p - 1) \div Len(a))[((p - 1) % Len(a)) + 1]]

HillOutput(m, dir, text) == HillBlocks(IF dir = "decrypt" THEN Inverted(m) ELSE m, text)

-----------------------------------------------------------------------------
(***************************************************************************)
(* The orders in which the slots of a grid are visited; the slot of row r  *)
(* and column c, both counted from 0, is r * cols + c.                     *)
(***************************************************************************)
AlongRow(cols, r, cs) == [i \in DOMAIN cs |-> r * cols + cs[i]]
AlongColumn(cols, rs, c) == [i \in DOMAIN rs |-> rs[i] * cols + c]

\* One turn of the spiral, clockwise from its upper left corner.
Turn(rows, cols, top) ==
  LET bottom == rows - 1 - top  left == top  right == cols - 1 - top IN
    AlongRow(cols, top, Up(left, right))
      \o AlongColumn(cols, Up(top + 1, bottom), right)
      \o (IF top < bottom THEN AlongRow(cols, bottom, Down(right - 1, left)) ELSE <<>>)
      \o (IF left < right THEN AlongColumn(cols, Down(bottom - 1, top + 1), left) ELSE <<>>)

Turns(rows, cols) == ((IF rows < cols THEN rows ELSE cols) + 1) \div 2

SpiralInward(rows, cols) ==
  FlattenSeq([n \in 1..Turns(rows, cols) |-> Turn(rows, cols, n - 1)])

SpiralOutward(rows, cols) == Reverse(SpiralInward(rows, cols))

Boustrophedon(rows, cols, firstLtr) ==
  FlattenSeq([r \in 1..rows |->
    AlongRow(cols, r - 1, IF ((r - 1) % 2 = 0) = firstLtr THEN Up(0, cols - 1)
                                                        ELSE Down(cols - 1, 0))])

Diagonal(rows, cols, anti) ==
  FlattenSeq([d \in 1..(rows + cols - 1) |->
    LET diag  == d - 1
        first == IF diag >= cols THEN diag - cols + 1 ELSE 0
        final == IF diag < rows THEN diag ELSE rows - 1
        rs    == Up(first, final) IN
      [i \in DOMAIN rs |-> rs[i] * cols + (IF anti THEN cols - 1 - (diag - rs[i])
                                                   ELSE diag - rs[i])]])

Columnar(rows, key) ==
  LET cols == Len(key)
      before(a, b) == key[a + 1] < key[b + 1] \/ (key[a + 1] = key[b + 1] /\ a < b)
      order(i) == CHOOSE a \in 0..(cols - 1) :
                    Cardinality({b \in 0..(cols - 1) : before(b, a)}) = i - 1 IN
    FlattenSeq([i \in 1..cols |-> AlongColumn(cols, Up(0, rows - 1), order(i))])

Gather(g) ==
  CASE g.read = "spiral"         -> SpiralInward(g.rows, g.cols)
    [] g.read = "spiral_outward" -> SpiralOutward(g.rows, g.cols)
    [] g.read = "ltr"            -> Boustrophedon(g.rows, g.cols, TRUE)
    [] g.read = "rtl"            -> Boustrophedon(g.rows, g.cols, FALSE)
    [] g.read = "diagonal"       -> Diagonal(g.rows, g.cols, FALSE)
    [] g.read = "anti"           -> Diagonal(g.rows, g.cols, TRUE)
    [] g.read = "columnar"       -> Columnar(g.rows, g.key)

GridAccepts(g, text) ==
  /\ g.rows >= 1 /\ g.cols >= 1
  /\ Len(text) = g.rows * g.cols
  /\ g.read = "columnar" => Len(g.key) = g.cols

(***************************************************************************)
(* Decrypting gathers and encrypting scatters; a columnar transposition    *)
(* has it the other way round.                                             *)
(***************************************************************************)
GridOutput(g, dir, text) ==
  LET gather == Gather(g)
      gathers == (dir = "decrypt") = (g.read # "columnar") IN
    IF gathers THEN [i \in DOMAIN text |-> text[gather[i] + 1]]
    ELSE [p \in DOMAIN text |-> text[CHOOSE i \in DOMAIN text : gather[i] = p - 1]]
=============================================================================
