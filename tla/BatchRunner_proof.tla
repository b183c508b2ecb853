------------------------- MODULE BatchRunner_proof -------------------------
(***************************************************************************)
(* Proofs about BatchRunner, for any number of candidates and cores.       *)
(***************************************************************************)
EXTENDS BatchRunner, FiniteSetTheorems, TLAPS

-----------------------------------------------------------------------------
(***************************************************************************)
(* The chunks.  Their number times their size reaches N, so that every     *)
(* candidate belongs to a launched worker, and no candidate to two.        *)
(***************************************************************************)
LEMMA ChunkSize ==
  ASSUME N > 0
  PROVE  /\ Workers \in 1 .. N
         /\ Chunk \in Nat \ {0}
         /\ Workers * Chunk >= N
<1>1. Workers \in 1 .. N
  BY RunnerAssumption DEF Workers, Least, Most
<1>2. \A a \in Nat, b \in Nat \ {0} :
        /\ a \div b \in Nat
        /\ b * (a \div b) <= a
        /\ a < b * (a \div b) + b
  BY Z3
<1> DEFINE a == N + Workers - 1
<1>3. a \in Nat /\ Workers \in Nat \ {0} /\ N \in Nat
  BY <1>1, RunnerAssumption
<1>4. Chunk = a \div Workers
  BY DEF Chunk
<1> HIDE DEF a
<1>5. Chunk \in Nat /\ a < Workers * Chunk + Workers
  BY <1>2, <1>3, <1>4
<1>6. Workers * Chunk \in Nat
  BY <1>3, <1>5
<1>7. Workers * Chunk >= N
  BY <1>3, <1>5, <1>6 DEF a
<1>8. Chunk # 0
  BY <1>3, <1>5, <1>7
<1> QED BY <1>1, <1>5, <1>7, <1>8

LEMMA RangesCover ==
  ASSUME NEW i \in Index
  PROVE  \E w \in Launched : Begin(w) <= i /\ i < End(w)
<1>1. N \in Nat /\ i \in Nat /\ i < N /\ N > 0
  BY RunnerAssumption DEF Index, Contract!Index
<1>2. Workers \in Nat /\ Chunk \in Nat \ {0} /\ Workers * Chunk >= N
  BY <1>1, ChunkSize
<1> DEFINE w == i \div Chunk
<1>3. w \in Nat /\ Chunk * w <= i /\ i < Chunk * w + Chunk
  BY <1>1, <1>2, Z3
<1> HIDE DEF w
<1>4. w < Workers
  <2> SUFFICES ASSUME w >= Workers PROVE FALSE
    BY <1>2, <1>3
  <2>1. PICK d \in Nat : w = Workers + d
    BY <1>2, <1>3
  <2>2. Chunk * w = Workers * Chunk + d * Chunk /\ d * Chunk >= 0 /\ Workers * Chunk \in Nat
    BY <1>2, <2>1
  <2> QED BY <1>1, <1>2, <1>3, <2>2
<1>5. Begin(w) = Chunk * w /\ Begin(w) \in Nat
  BY <1>2, <1>3 DEF Begin
<1> QED BY <1>1, <1>2, <1>3, <1>4, <1>5 DEF End, Least, Launched

LEMMA RangesDisjoint ==
  ASSUME NEW v \in Launched, NEW w \in Launched, NEW i \in Index,
         Begin(v) <= i, i < End(v), Begin(w) <= i, i < End(w)
  PROVE  v = w
<1>1. N \in Nat /\ i \in Nat /\ N > 0
  BY RunnerAssumption DEF Index, Contract!Index
<1>2. v \in Nat /\ w \in Nat /\ Chunk \in Nat \ {0}
  BY <1>1, ChunkSize DEF Launched
<1>3. \A u \in Nat : Begin(u) = u * Chunk /\ Begin(u) \in Nat
  BY <1>2 DEF Begin
<1>4. \A u, t \in Nat : u < t => Begin(u) + Chunk <= Begin(t)
  <2> SUFFICES ASSUME NEW u \in Nat, NEW t \in Nat, u < t
               PROVE  Begin(u) + Chunk <= Begin(t)
    OBVIOUS
  <2>1. PICK d \in Nat : t = u + 1 + d
    BY Z3
  <2>2. t * Chunk = u * Chunk + Chunk + d * Chunk /\ d * Chunk >= 0
    BY <1>2, <2>1
  <2> QED BY <1>2, <1>3, <2>2
<1>5. i < Begin(v) + Chunk /\ i < Begin(w) + Chunk
  BY <1>1, <1>2, <1>3 DEF End, Least
<1>6. ~(v < w)
  <2> SUFFICES ASSUME v < w PROVE FALSE
    OBVIOUS
  <2>1. Begin(v) + Chunk <= Begin(w)
    BY <1>2, <1>4
  <2> QED BY <1>1, <1>2, <1>3, <1>5, <2>1
<1>7. ~(w < v)
  <2> SUFFICES ASSUME w < v PROVE FALSE
    OBVIOUS
  <2>1. Begin(w) + Chunk <= Begin(v)
    BY <1>2, <1>4
  <2> QED BY <1>1, <1>2, <1>3, <1>5, <2>1
<1> QED BY <1>2, <1>6, <1>7

-----------------------------------------------------------------------------
(***************************************************************************)
(* BatchOrdering::better is a strict total order of the candidates, which  *)
(* is what std::sort needs of its comparator: no ties are left to it.      *)
(***************************************************************************)
THEOREM BetterIsStrictTotal ==
  ASSUME NEW in \in Contract!Input, \A i \in Index : in.value[i] \in Values
  PROVE  /\ \A i \in Index : ~Contract!Better(in, i, i)
         /\ \A i, j \in Index :
              i # j => Contract!Better(in, i, j) \/ Contract!Better(in, j, i)
         /\ \A i, j, k \in Index :
              Contract!Better(in, i, j) /\ Contract!Better(in, j, k)
                => Contract!Better(in, i, k)
<1>0. \A i \in Index : i \in Int
  BY RunnerAssumption DEF Index, Contract!Index
<1>1. \A i \in Index : in.value[i] \in Int /\ in.id[i] \in Int
  <2>1. in.id \in [Index -> Ids]
    BY DEF Contract!Input, Index
  <2> QED BY <2>1, RunnerAssumption
<1>2. \A i \in Index : ~Contract!Better(in, i, i)
  BY <1>0, <1>1 DEF Contract!Better
<1>3. \A i, j \in Index :
        i # j => Contract!Better(in, i, j) \/ Contract!Better(in, j, i)
  BY <1>0, <1>1 DEF Contract!Better
<1>4. ASSUME NEW i \in Index, NEW j \in Index, NEW k \in Index,
             Contract!Better(in, i, j), Contract!Better(in, j, k)
      PROVE  Contract!Better(in, i, k)
  <2>1. CASE in.order = "desc"
    BY <1>0, <1>1, <1>4, <2>1 DEF Contract!Better
  <2>2. CASE in.order # "desc"
    BY <1>0, <1>1, <1>4, <2>2 DEF Contract!Better
  <2> QED BY <2>1, <2>2
<1> QED BY <1>2, <1>3, <1>4

-----------------------------------------------------------------------------
LEMMA RangeType ==
  ASSUME NEW w \in Launched
  PROVE  Begin(w) \in 0 .. N /\ End(w) \in 0 .. N /\ Begin(w) < End(w)
<1>1. N \in Nat /\ N > 0
  BY RunnerAssumption DEF Launched, Workers, Least, Most
<1>2. w \in Nat /\ Chunk \in Nat \ {0}
  BY <1>1, ChunkSize DEF Launched
<1>3. Begin(w) \in Nat
  BY <1>2 DEF Begin
<1> QED BY <1>1, <1>2, <1>3 DEF Launched, End, Least

LEMMA ConsideredType ==
  ASSUME TypeOK, NEW i \in Index, input.value[i] # Failed
  PROVE  /\ Considered(best, i) \in Tracker
         /\ input.value[i] \in Values
<1>1. input.value[i] \in Values /\ input.id[i] \in Ids
  BY DEF TypeOK, Contract!Input, Index
<1> QED BY <1>1 DEF Considered, Tracker, TypeOK

(***************************************************************************)
(* The inductive invariant.  Types alone are not inductive: that the score *)
(* a worker considers is a score at all is because its slot is ok.         *)
(***************************************************************************)
IInv == TypeOK /\ SlotsFinal

LEMMA ReportsScored ==
  ASSUME IInv, NEW w \in Launched, phase[w] \in Reporting
  PROVE  /\ at[w] \in Index /\ at[w] < End(w) /\ Final(at[w])
         /\ input.value[at[w]] # Failed /\ input.value[at[w]] \in Values
<1>1. at[w] \in Index /\ Final(at[w]) /\ ok[at[w]] /\ at[w] < End(w)
  BY RunnerAssumption, RangeType DEF IInv, SlotsFinal, TypeOK, Index, Contract!Index
<1> QED BY <1>1, ConsideredType DEF IInv, Final

LEMMA InitIInv == ASSUME Init PROVE IInv
<1>1. TypeOK
  BY RunnerAssumption, RangeType
  DEF Init, TypeOK, NoBest, NoSnap, Tracker, Snapshot, Index
<1>2. SlotsFinal
  <2>1. \A w \in Launched : Begin(w) \in Int /\ at[w] = Begin(w) /\ Begin(w) <= End(w)
    BY RangeType DEF Init
  <2>2. \A i \in Index : i \in Int
    BY RunnerAssumption DEF Index, Contract!Index
  <2> QED BY <2>1, <2>2 DEF Init, SlotsFinal, Reporting
<1> QED BY <1>1, <1>2 DEF IInv

LEMMA StepIInv == ASSUME IInv, [Next]_vars PROVE IInv'
<1> USE DEF IInv
<1>0. /\ N \in Nat
      /\ \A j : j \in Index <=> j \in Nat /\ j < N
      /\ \A v \in Launched : Begin(v) \in Nat /\ End(v) \in Nat /\ End(v) <= N
      /\ \A v \in Launched : at[v] \in Nat
      /\ scored \in Nat
  BY RunnerAssumption, RangeType DEF Index, Contract!Index, TypeOK
<1>1. CASE Start
  <2>1. TypeOK'
    BY <1>1 DEF Start, TypeOK
  <2>2. \A j \in Index : Final(j)' <=> Final(j)
    BY <1>1 DEF Start, Final
  <2>3. \A v \in Launched :
          /\ at'[v] = at[v]
          /\ phase'[v] \notin Reporting
          /\ pc' \in {"start", "serial"} => phase'[v] = "idle"
    BY <1>1 DEF Start, SlotsFinal, Reporting
  <2>4. pc' # "start" /\ scored' = 0
    BY <1>1 DEF Start, SlotsFinal
  <2>5. SlotsFinal'
    BY <1>0, <2>2, <2>3, <2>4 DEF SlotsFinal
  <2> QED BY <2>1, <2>5
<1>2. CASE ScoreSerially
  <2>1. PICK i \in Index : i = scored
    BY <1>0, <1>2 DEF ScoreSerially
  <2>2. CASE input.value[i] = Failed
    <3>1. TypeOK'
      BY <1>2, <2>1, <2>2 DEF ScoreSerially, TypeOK
    <3>2. SlotsFinal'
      BY <1>2, <2>1, <2>2 DEF ScoreSerially, SlotsFinal, Final, Reporting
    <3> QED BY <3>1, <3>2
  <2>3. CASE input.value[i] # Failed
    <3>1. Considered(best, i) \in Tracker /\ input.value[i] \in Values
      BY <2>3, ConsideredType
    <3>2. /\ ok' = [ok EXCEPT ![i] = TRUE]
          /\ scores' = [scores EXCEPT ![i] = input.value[i]]
          /\ best' = Considered(best, i)
          /\ scored' = i + 1
          /\ countedAs' = [countedAs EXCEPT ![i] = i + 1]
          /\ shown' = [done |-> i + 1, best |-> best']
          /\ UNCHANGED <<input, execution, pc, at, phase, snap>>
          /\ pc = "serial"
      BY <1>2, <2>1, <2>3 DEF ScoreSerially
    <3>3. TypeOK'
      <4>1. ok' \in [Index -> BOOLEAN] /\ scores' \in [Index -> Values]
        BY <3>1, <3>2 DEF TypeOK
      <4>2. i + 1 \in Nat
        BY <1>0
      <4>3. countedAs' \in [Index -> Nat] /\ scored' \in Nat
        BY <3>2, <4>2 DEF TypeOK
      <4>4. best' \in Tracker /\ shown' \in Snapshot
        BY <3>1, <3>2, <4>2 DEF Snapshot
      <4> QED BY <3>2, <4>1, <4>3, <4>4 DEF TypeOK
    <3>4. Final(i)' /\ ok'[i]
      BY <2>3, <3>2 DEF TypeOK, Final
    <3>5. \A j \in Index : j # i => (Final(j)' <=> Final(j)) /\ ok'[j] = ok[j]
      BY <3>2 DEF TypeOK, Final
    <3>6. \A j \in Index : j < scored' => j < scored \/ j = i
      BY <1>0, <2>1, <3>2
    <3>7. \A j \in Index : Final(j) => Final(j)'
      BY <3>4, <3>5
    <3>8. \A j \in Index : j < scored' => ok'[j] /\ Final(j)'
      BY <3>2, <3>4, <3>5, <3>6 DEF SlotsFinal
    <3>9. \A v \in Launched : phase'[v] = "idle" /\ at'[v] = at[v]
      BY <3>2 DEF SlotsFinal
    <3>10. SlotsFinal'
      BY <3>2, <3>7, <3>8, <3>9 DEF SlotsFinal, Reporting
    <3> QED BY <3>3, <3>10
  <2> QED BY <2>2, <2>3
<1>3. ASSUME NEW w \in Launched, Score(w) PROVE IInv'
  <2>1. PICK i \in Index : i = at[w] /\ Begin(w) <= i /\ i < End(w)
    BY <1>0, <1>3 DEF Score, Running, SlotsFinal
  <2>2. phase[w] = "score" /\ pc # "serial" /\ pc # "start"
    BY <1>3 DEF Score, SlotsFinal
  <2>3. \A v \in Launched : phase[v] \in Reporting => at[v] \in Index
    BY <1>0 DEF SlotsFinal
  <2>4. CASE input.value[i] = Failed
    <3>1. /\ ok' = [ok EXCEPT ![i] = FALSE]
          /\ at' = [at EXCEPT ![w] = i + 1]
          /\ UNCHANGED <<input, execution, pc, scores, phase, best, scored,
                         snap, shown, countedAs>>
      BY <1>3, <2>1, <2>4 DEF Score
    <3>2. TypeOK'
      <4>1. i + 1 \in 0 .. N
        BY <1>0
      <4>2. at' \in [Launched -> 0 .. N]
        BY <3>1, <4>1 DEF TypeOK
      <4>3. ok' \in [Index -> BOOLEAN]
        BY <3>1 DEF TypeOK
      <4> QED BY <3>1, <4>2, <4>3 DEF TypeOK
    <3>3. Final(i)'
      BY <2>4, <3>1 DEF TypeOK, Final
    <3>4. \A j \in Index : j # i => (Final(j)' <=> Final(j)) /\ ok'[j] = ok[j]
      BY <3>1 DEF TypeOK, Final
    <3>5. \A j \in Index : Final(j) /\ ok[j] => j # i
      BY <2>4 DEF Final
    <3>6. \A j \in Index : Final(j) => Final(j)'
      BY <3>3, <3>4
    <3>7. at'[w] = i + 1 /\ \A v \in Launched \ {w} : at'[v] = at[v]
      BY <3>1 DEF TypeOK
    <3>8. ASSUME NEW v \in Launched
          PROVE  /\ Begin(v) <= at'[v] /\ at'[v] <= End(v)
                 /\ \A j \in Index : Begin(v) <= j /\ j < at'[v] => Final(j)'
                 /\ phase'[v] \in Reporting => at'[v] < End(v) /\ ok'[at'[v]] /\ Final(at[v])'
      <4>1. CASE v = w
        <5>1. \A j \in Index : j < at'[w] => j < at[w] \/ j = i
          BY <1>0, <2>1, <3>7
        <5>2. Begin(w) <= at'[w] /\ at'[w] <= End(w)
          BY <1>0, <2>1, <3>7
        <5>3. phase'[w] \notin Reporting
          BY <2>2, <3>1 DEF Reporting
        <5>4. \A j \in Index : Begin(w) <= j /\ j < at'[w] => Final(j)'
          BY <3>3, <3>6, <5>1 DEF SlotsFinal
        <5> QED BY <4>1, <5>2, <5>3, <5>4
      <4>2. CASE v # w
        <5>1. phase'[v] = phase[v] /\ at'[v] = at[v]
          BY <3>1, <3>7, <4>2
        <5>2. \A j \in Index : Begin(v) <= j /\ j < at[v] => Final(j)'
          BY <3>6 DEF SlotsFinal
        <5>3. ASSUME phase[v] \in Reporting
              PROVE  at[v] < End(v) /\ ok'[at[v]] /\ Final(at[v])'
          <6>1. PICK j \in Index : j = at[v]
            BY <2>3, <5>3
          <6>2. j < End(v) /\ ok[j] /\ Final(j)
            BY <5>3, <6>1 DEF SlotsFinal
          <6>3. ok'[j] /\ Final(j)'
            BY <3>4, <3>5, <6>2
          <6> QED BY <5>1, <6>1, <6>2, <6>3 DEF Final
        <5> QED BY <5>1, <5>2, <5>3 DEF SlotsFinal
      <4> QED BY <4>1, <4>2
    <3>9. SlotsFinal'
      BY <2>2, <3>1, <3>8 DEF SlotsFinal
    <3> QED BY <3>2, <3>9
  <2>5. CASE input.value[i] # Failed
    <3>1. /\ ok' = [ok EXCEPT ![i] = TRUE]
          /\ scores' = [scores EXCEPT ![i] = input.value[i]]
          /\ phase' = [phase EXCEPT ![w] = "consider"]
          /\ UNCHANGED <<input, execution, pc, at, best, scored, snap, shown, countedAs>>
      BY <1>3, <2>1, <2>5 DEF Score
    <3>2. input.value[i] \in Values
      BY <2>5, ConsideredType
    <3>3. TypeOK'
      BY <3>1, <3>2 DEF TypeOK
    <3>4. Final(i)' /\ ok'[i]
      BY <2>5, <3>1 DEF TypeOK, Final
    <3>5. \A j \in Index : j # i => (Final(j)' <=> Final(j)) /\ ok'[j] = ok[j]
      BY <3>1 DEF TypeOK, Final
    <3>6. \A j \in Index : (Final(j) => Final(j)') /\ (ok[j] => ok'[j])
      BY <3>4, <3>5
    <3>7. \A v \in Launched \ {w} : phase'[v] = phase[v]
      BY <3>1 DEF TypeOK
    <3>8. ASSUME NEW v \in Launched, phase'[v] \in Reporting
          PROVE  at[v] < End(v) /\ ok'[at[v]] /\ Final(at[v])'
      <4>1. CASE v = w
        BY <2>1, <3>1, <3>4, <4>1 DEF Final
      <4>2. CASE v # w
        <5>1. PICK j \in Index : j = at[v]
          BY <2>3, <3>7, <3>8, <4>2
        <5>2. j < End(v) /\ ok[j] /\ Final(j)
          BY <3>7, <3>8, <4>2, <5>1 DEF SlotsFinal
        <5>3. ok'[j] /\ Final(j)'
          BY <3>6, <5>2
        <5> QED BY <3>1, <5>1, <5>2, <5>3 DEF Final
      <4> QED BY <4>1, <4>2
    <3>9. SlotsFinal'
      BY <2>2, <3>1, <3>6, <3>8 DEF SlotsFinal
    <3> QED BY <3>3, <3>9
  <2> QED BY <2>4, <2>5
<1>4. ASSUME NEW w \in Launched, Consider(w) PROVE IInv'
  <2>1. Considered(best, at[w]) \in Tracker
    BY <1>4, ReportsScored, ConsideredType DEF Consider, Reporting
  <2>2. TypeOK'
    BY <1>4, <2>1 DEF Consider, TypeOK
  <2>3. SlotsFinal'
    BY <1>4 DEF Consider, SlotsFinal, Final, Reporting, TypeOK
  <2> QED BY <2>2, <2>3
<1>5. ASSUME NEW w \in Launched, Count(w) PROVE IInv'
  <2>1. at[w] \in Index
    BY <1>5, ReportsScored DEF Count, Reporting
  <2>2. TypeOK'
    BY <1>5, <2>1 DEF Count, TypeOK, Snapshot
  <2>3. SlotsFinal'
    BY <1>5 DEF Count, SlotsFinal, Final, Reporting, TypeOK
  <2> QED BY <2>2, <2>3
<1>6. ASSUME NEW w \in Launched, ApplyBest(w) PROVE IInv'
  <2>1. TypeOK'
    BY <1>6 DEF ApplyBest, TypeOK, Snapshot
  <2>2. SlotsFinal'
    BY <1>6 DEF ApplyBest, SlotsFinal, Final, Reporting, TypeOK
  <2> QED BY <2>1, <2>2
<1>7. ASSUME NEW w \in Launched, Show(w) PROVE IInv'
  <2>1. at[w] \in Index /\ Final(at[w]) /\ at[w] < End(w)
    BY <1>7, ReportsScored DEF Show, Reporting
  <2>2. TypeOK'
    BY <1>0, <1>7, <2>1, RunnerAssumption
    DEF Show, TypeOK, Snapshot, NoSnap, NoBest, Tracker, Index, Contract!Index
  <2>4. UNCHANGED <<ok, scores, input, pc, scored>>
    BY <1>7 DEF Show
  <2>5. /\ at'[w] = at[w] + 1 /\ phase'[w] = "score" /\ phase[w] = "show"
        /\ \A v \in Launched \ {w} : at'[v] = at[v] /\ phase'[v] = phase[v]
    BY <1>7 DEF Show, TypeOK
  <2>6. SlotsFinal'
    BY <1>0, <2>1, <2>4, <2>5 DEF SlotsFinal, Final, Reporting
  <2> QED BY <2>2, <2>6
<1>8. CASE Reduce
  <2>1. TypeOK'
    BY <1>8 DEF Reduce, TypeOK
  <2>2. SlotsFinal'
    BY <1>8 DEF Reduce, SlotsFinal, Final
  <2> QED BY <2>1, <2>2
<1>9. CASE UNCHANGED vars
  BY <1>9 DEF vars, TypeOK, SlotsFinal, Final
<1> QED BY <1>1, <1>2, <1>3, <1>4, <1>5, <1>6, <1>7, <1>8, <1>9 DEF Next, Worker

(***************************************************************************)
(* The slots, counters and snapshots of a batch keep their types.          *)
(***************************************************************************)
THEOREM TypeCorrect == Spec => []TypeOK
BY InitIInv, StepIInv, PTL DEF Spec, IInv

(***************************************************************************)
(* Whatever the interleaving, a slot that a worker has passed is final and *)
(* right: chunks do not overlap, so nobody writes it again.                *)
(***************************************************************************)
THEOREM SlotsCorrect == Spec => []SlotsFinal
BY InitIInv, StepIInv, PTL DEF Spec, IInv

-----------------------------------------------------------------------------
(***************************************************************************)
(* When run() reduces the slots, all of them are final; so the outcome is  *)
(* the one the contract expects, and there is none before.                 *)
(***************************************************************************)
Undecided == pc # "done" => outcome = Contract!Pending

LEMMA AllFinal == ASSUME IInv, Reduce PROVE \A i \in Index : Final(i)
<1>1. CASE pc = "join" /\ Joined
  <2>1. ASSUME NEW i \in Index PROVE Final(i)
    <3>1. PICK w \in Launched : Begin(w) <= i /\ i < End(w)
      BY RangesCover
    <3>2. i \in Int /\ End(w) \in Int /\ at[w] \in Int /\ at[w] >= End(w)
      BY <1>1, RunnerAssumption, RangeType
      DEF Joined, IInv, TypeOK, Index, Contract!Index
    <3>3. i < at[w]
      BY <3>1, <3>2
    <3> QED BY <3>1, <3>3 DEF IInv, SlotsFinal
  <2> QED BY <2>1
<1>2. CASE pc = "serial" /\ scored = N
  BY <1>2, RunnerAssumption DEF IInv, SlotsFinal, Index, Contract!Index
<1> QED BY <1>1, <1>2 DEF Reduce

LEMMA ReducesRight ==
  ASSUME IInv, \A i \in Index : Final(i)
  PROVE  Reduced = Contract!Expected(input)
<1> DEFINE bad == {i \in Index : ~ok[i]}
<1>1. bad = Contract!Failing(input)
  BY DEF Final, Contract!Failing, Index
<1>2. CASE Contract!Failing(input) # {}
  <2>1. Reduced = Contract!Error(CHOOSE i \in bad : \A j \in bad : i <= j)
    BY <1>1, <1>2 DEF Reduced
  <2>2. Contract!Expected(input) =
          Contract!Error(CHOOSE i \in Contract!Failing(input) :
                           \A j \in Contract!Failing(input) : i <= j)
    BY <1>2 DEF Contract!Expected
  <2> HIDE DEF bad
  <2> QED BY <1>1, <2>1, <2>2
<1>3. CASE Contract!Failing(input) = {}
  <2>1. \A i \in Index : scores[i] = input.value[i]
    BY <1>1, <1>3 DEF Final
  <2>2. scores = input.value
    <3>1. input.value \in [Index -> Values \cup {Failed}] /\ scores \in [Index -> Values]
      BY DEF IInv, TypeOK, Contract!Input, Index
    <3> QED BY <2>1, <3>1
  <2>3. [input EXCEPT !.value = scores] = input
    BY <2>2 DEF IInv, TypeOK, Contract!Input
  <2> QED BY <1>1, <1>3, <2>3 DEF Reduced, Contract!Expected
<1> QED BY <1>2, <1>3

LEMMA SerialErrorIsFirst ==
  ASSUME IInv, pc = "serial", scored \in Index, input.value[scored] = Failed
  PROVE  Contract!Expected(input) = Contract!Error(scored)
<1>0. \A i \in Index : i \in Int
  BY RunnerAssumption DEF Index, Contract!Index
<1>1. scored \in Contract!Failing(input)
  BY DEF Contract!Failing, Index
<1>2. \A i \in Contract!Failing(input) : i \in Index /\ scored <= i
  BY <1>0 DEF Contract!Failing, Index, IInv, SlotsFinal, Final
<1>3. \A i \in Contract!Failing(input) :
        (\A j \in Contract!Failing(input) : i <= j) => i = scored
  BY <1>0, <1>1, <1>2
<1>4. (CHOOSE i \in Contract!Failing(input) :
         \A j \in Contract!Failing(input) : i <= j) = scored
  BY <1>1, <1>2, <1>3
<1> QED BY <1>1, <1>4 DEF Contract!Expected

LEMMA StepReturns ==
  ASSUME IInv, Undecided, [Next]_vars
  PROVE  Undecided' /\ [Contract!Return]_<<input, outcome>>
<1>1. CASE Start
  BY <1>1 DEF Start, Undecided
<1>2. CASE ScoreSerially
  <2>1. pc = "serial" /\ scored \in Index /\ outcome = Contract!Pending
    BY <1>2, RunnerAssumption
    DEF ScoreSerially, IInv, TypeOK, Index, Contract!Index, Undecided
  <2>2. CASE input.value[scored] = Failed
    BY <1>2, <2>1, <2>2, SerialErrorIsFirst DEF ScoreSerially, Contract!Return, Undecided
  <2>3. CASE input.value[scored] # Failed
    BY <1>2, <2>1, <2>3 DEF ScoreSerially, Undecided
  <2> QED BY <2>2, <2>3
<1>3. ASSUME NEW w \in Launched, Worker(w)
      PROVE  Undecided' /\ UNCHANGED <<input, outcome>>
  BY <1>3 DEF Worker, Score, Consider, Count, ApplyBest, Show, Undecided
<1>4. CASE Reduce
  <2>1. Reduced = Contract!Expected(input)
    BY <1>4, AllFinal, ReducesRight
  <2> QED BY <1>4, <2>1 DEF Reduce, Undecided, Contract!Return
<1>5. CASE UNCHANGED vars
  BY <1>5 DEF vars, Undecided
<1> QED BY <1>1, <1>2, <1>3, <1>4, <1>5 DEF Next

(***************************************************************************)
(* The safety part of ContractSpec, for any number of candidates, workers  *)
(* and scores: run() returns at most once, and what it returns is what the *)
(* candidates alone determine.  That it does return stays with TLC.        *)
(***************************************************************************)
THEOREM ReturnsExpected ==
  Spec => Contract!Init /\ [][Contract!Return]_<<input, outcome>>
<1>1. Init => Contract!Init /\ Undecided
  BY DEF Init, Contract!Init, Undecided
<1> QED BY <1>1, InitIInv, StepIInv, StepReturns, PTL DEF Spec

-----------------------------------------------------------------------------
(***************************************************************************)
(* Why the panel never undersells.  Counts are handed out in order, so a   *)
(* candidate counted later is above the "done" of a snapshot taken before; *)
(* and a worker counts a candidate only once the best covers it.           *)
(***************************************************************************)
Covered(x) == best.seen /\ ~Beats(x, best.score)

Counting ==
  /\ \A i \in Index : countedAs[i] # 0 => input.value[i] \in Values /\ Covered(input.value[i])
  /\ \A i \in Index : countedAs[i] <= scored
  /\ shown.done <= scored
  /\ \A w \in Launched :
       /\ snap[w].done <= scored
       /\ phase[w] = "count" => Covered(input.value[at[w]])

LEMMA ConsideredCovers ==
  ASSUME TypeOK, NEW i \in Index, input.value[i] \in Values,
         best' = Considered(best, i), UNCHANGED input
  PROVE  /\ Covered(input.value[i])'
         /\ \A x \in Values : Covered(x) => Covered(x)'
<1>1. input.value[i] \in Int /\ \A x \in Values : x \in Int
  BY RunnerAssumption
<1>2. best.score \in Int
  BY RunnerAssumption DEF TypeOK, Tracker
<1>3. CASE ~best.seen \/ Beats(input.value[i], best.score)
  <2>1. best'.seen /\ best'.score = input.value[i]
    BY <1>3 DEF Considered
  <2> QED BY <1>1, <1>2, <1>3, <2>1 DEF Covered, Beats
<1>4. CASE best.seen /\ ~Beats(input.value[i], best.score)
  BY <1>4 DEF Considered, Covered, Beats
<1> QED BY <1>3, <1>4

LEMMA InitCounting == ASSUME Init PROVE Counting /\ SnapshotsCoverDone
BY DEF Init, NoSnap, Counting, SnapshotsCoverDone, Covers

LEMMA StepCounting ==
  ASSUME IInv, Counting, SnapshotsCoverDone, [Next]_vars
  PROVE  Counting' /\ SnapshotsCoverDone'
<1>0. /\ \A i \in Index : countedAs[i] \in Nat
      /\ scored \in Nat /\ shown.done \in Nat
      /\ \A w \in Launched : snap[w].done \in Nat
  BY DEF IInv, TypeOK, Snapshot
<1>1. ASSUME UNCHANGED <<input, best, countedAs, scored, shown, snap>>,
             \A w \in Launched :
               /\ phase'[w] = "count" => phase[w] = "count" /\ at'[w] = at[w]
               /\ phase'[w] = "show" => phase[w] = "show"
      PROVE  Counting' /\ SnapshotsCoverDone'
  BY <1>1 DEF Counting, SnapshotsCoverDone, Covers, Covered, Beats
<1>2. CASE Start
  BY <1>1, <1>2 DEF Start
<1>3. CASE ScoreSerially
  <2>1. PICK i \in Index : i = scored
    BY <1>3, RunnerAssumption DEF ScoreSerially, IInv, TypeOK, Index, Contract!Index
  <2>2. CASE input.value[i] = Failed
    BY <1>1, <1>3, <2>1, <2>2 DEF ScoreSerially
  <2>3. CASE input.value[i] # Failed
    <3>1. input.value[i] \in Values
      BY <2>3, ConsideredType DEF IInv
    <3>2. /\ best' = Considered(best, i) /\ scored' = scored + 1
          /\ countedAs' = [countedAs EXCEPT ![i] = scored + 1]
          /\ shown' = [done |-> scored + 1, best |-> best']
          /\ UNCHANGED <<input, pc, phase, at, snap>> /\ pc = "serial"
      BY <1>3, <2>1, <2>3 DEF ScoreSerially
    <3>3. \A j \in Index : countedAs'[j] = IF j = i THEN scored + 1 ELSE countedAs[j]
      BY <3>2 DEF IInv, TypeOK
    <3>4. Covered(input.value[i])' /\ \A x \in Values : Covered(x) => Covered(x)'
      BY <3>1, <3>2, ConsideredCovers DEF IInv
    <3>5. \A j \in Index : countedAs'[j] # 0 =>
            input.value[j] \in Values /\ Covered(input.value[j])'
      BY <3>1, <3>2, <3>3, <3>4 DEF Counting
    <3>6. \A j \in Index : countedAs'[j] <= scored'
      BY <1>0, <3>2, <3>3 DEF Counting
    <3>7. \A w \in Launched : phase'[w] = "idle" /\ snap'[w] = snap[w]
      BY <3>2 DEF IInv, SlotsFinal
    <3>8. Counting'
      BY <1>0, <3>2, <3>5, <3>6, <3>7 DEF Counting
    <3>9. Covers(shown)'
      BY <3>2, <3>5 DEF Covers, Covered
    <3> QED BY <3>7, <3>8, <3>9 DEF SnapshotsCoverDone
  <2> QED BY <2>2, <2>3
<1>4. ASSUME NEW w \in Launched, Score(w) PROVE Counting' /\ SnapshotsCoverDone'
  <2>1. \A v \in Launched :
          /\ phase'[v] = "count" => phase[v] = "count" /\ at'[v] = at[v]
          /\ phase'[v] = "show" => phase[v] = "show"
    BY <1>4 DEF Score, IInv, TypeOK
  <2> QED BY <1>1, <1>4, <2>1 DEF Score
<1>5. ASSUME NEW w \in Launched, Consider(w) PROVE Counting' /\ SnapshotsCoverDone'
  <2>1. PICK i \in Index : i = at[w] /\ input.value[i] \in Values
    BY <1>5, ReportsScored DEF Consider, Reporting
  <2>2. /\ best' = Considered(best, i)
        /\ UNCHANGED <<input, at, countedAs, scored, snap, shown>>
    BY <1>5, <2>1 DEF Consider
  <2>3. /\ phase'[w] = "count"
        /\ \A v \in Launched \ {w} : phase'[v] = phase[v]
    BY <1>5 DEF Consider, IInv, TypeOK
  <2>4. Covered(input.value[i])' /\ \A x \in Values : Covered(x) => Covered(x)'
    BY <2>1, <2>2, ConsideredCovers DEF IInv
  <2>5. ASSUME NEW v \in Launched, phase'[v] = "count" PROVE Covered(input.value[at[v]])'
    <3>1. CASE v = w
      BY <2>1, <2>2, <2>4, <3>1
    <3>2. CASE v # w
      <4>1. phase[v] = "count"
        BY <2>3, <2>5, <3>2
      <4>2. PICK x \in Values : x = input.value[at[v]] /\ Covered(x)
        BY <4>1, ReportsScored DEF Reporting, Counting
      <4>3. Covered(x)'
        BY <2>4, <4>2
      <4> QED BY <2>2, <4>2, <4>3
    <3> QED BY <3>1, <3>2
  <2>6. Counting'
    BY <2>2, <2>4, <2>5 DEF Counting
  <2>7. SnapshotsCoverDone'
    BY <2>2, <2>3 DEF SnapshotsCoverDone, Covers, Beats
  <2> QED BY <2>6, <2>7
<1>6. ASSUME NEW w \in Launched, Count(w) PROVE Counting' /\ SnapshotsCoverDone'
  <2>1. PICK i \in Index : i = at[w] /\ input.value[i] \in Values /\ Covered(input.value[i])
    BY <1>6, ReportsScored DEF Count, Reporting, Counting
  <2>2. /\ scored' = scored + 1
        /\ countedAs' = [countedAs EXCEPT ![i] = scored + 1]
        /\ snap' = [snap EXCEPT ![w].done = scored + 1]
        /\ phase' = [phase EXCEPT ![w] = "apply"]
        /\ UNCHANGED <<input, at, best, shown>>
    BY <1>6, <2>1 DEF Count
  <2>3. \A j \in Index : countedAs'[j] = IF j = i THEN scored + 1 ELSE countedAs[j]
    BY <2>2 DEF IInv, TypeOK
  <2>4. /\ \A v \in Launched \ {w} : snap'[v] = snap[v] /\ phase'[v] = phase[v]
        /\ snap'[w].done = scored + 1 /\ phase'[w] = "apply"
    BY <2>2 DEF IInv, TypeOK, Snapshot
  <2>5. \A x : Covered(x)' <=> Covered(x)
    BY <2>2 DEF Covered, Beats
  <2>6. Counting'
    BY <1>0, <2>1, <2>2, <2>3, <2>4, <2>5 DEF Counting
  <2>7. \A s : s.done \in Nat /\ s.done <= scored /\ Covers(s) => Covers(s)'
    BY <1>0, <2>2, <2>3 DEF Covers, Beats
  <2>8. Covers(shown)'
    BY <1>0, <2>2, <2>7 DEF Counting, SnapshotsCoverDone
  <2>9. ASSUME NEW v \in Launched, phase'[v] = "show" PROVE Covers(snap[v])'
    <3>1. v # w /\ phase[v] = "show" /\ snap'[v] = snap[v]
      BY <2>4, <2>9
    <3>2. Covers(snap[v]) /\ snap[v].done <= scored
      BY <3>1 DEF Counting, SnapshotsCoverDone
    <3> QED BY <1>0, <2>2, <2>3, <3>1, <3>2 DEF Covers, Beats
  <2> QED BY <2>6, <2>8, <2>9 DEF SnapshotsCoverDone
<1>7. ASSUME NEW w \in Launched, ApplyBest(w) PROVE Counting' /\ SnapshotsCoverDone'
  <2>1. /\ snap' = [snap EXCEPT ![w].best = best]
        /\ phase' = [phase EXCEPT ![w] = "show"]
        /\ UNCHANGED <<input, at, best, countedAs, scored, shown>>
    BY <1>7 DEF ApplyBest
  <2>2. /\ \A v \in Launched \ {w} : snap'[v] = snap[v] /\ phase'[v] = phase[v]
        /\ snap'[w].done = snap[w].done /\ snap'[w].best = best
        /\ phase'[w] = "show"
    BY <2>1 DEF IInv, TypeOK, Snapshot
  <2>3. Counting'
    BY <2>1, <2>2 DEF Counting, Covered, Beats
  <2>4. \A i \in Index : countedAs[i] \in 1 .. snap[w].done => Covered(input.value[i])
    BY <1>0 DEF Counting
  <2>5. SnapshotsCoverDone'
    BY <2>1, <2>2, <2>4 DEF SnapshotsCoverDone, Covers, Covered, Beats
  <2> QED BY <2>3, <2>5
<1>8. ASSUME NEW w \in Launched, Show(w) PROVE Counting' /\ SnapshotsCoverDone'
  <2>1. /\ shown' = snap[w]
        /\ snap' = [snap EXCEPT ![w] = NoSnap]
        /\ UNCHANGED <<input, best, countedAs, scored>>
        /\ phase[w] = "show"
    BY <1>8 DEF Show
  <2>2. /\ \A v \in Launched \ {w} :
             snap'[v] = snap[v] /\ phase'[v] = phase[v] /\ at'[v] = at[v]
        /\ snap'[w].done = 0 /\ phase'[w] = "score"
    BY <1>8 DEF Show, NoSnap, IInv, TypeOK
  <2>3. Counting'
    BY <1>0, <2>1, <2>2 DEF Counting, Covered, Beats
  <2>4. SnapshotsCoverDone'
    BY <2>1, <2>2 DEF SnapshotsCoverDone, Covers, Beats
  <2> QED BY <2>3, <2>4
<1>9. CASE Reduce
  BY <1>1, <1>9 DEF Reduce
<1>10. CASE UNCHANGED vars
  BY <1>1, <1>10 DEF vars
<1> QED BY <1>2, <1>3, <1>4, <1>5, <1>6, <1>7, <1>8, <1>9, <1>10 DEF Next, Worker

(***************************************************************************)
(* A snapshot a worker shows, however late, has a best score at least as   *)
(* good as that of every candidate it counts as done.                      *)
(***************************************************************************)
THEOREM SnapshotsCover == Spec => []SnapshotsCoverDone
<1>1. Init => IInv /\ Counting /\ SnapshotsCoverDone
  BY InitIInv, InitCounting
<1>2. IInv /\ Counting /\ SnapshotsCoverDone /\ [Next]_vars
        => (IInv /\ Counting /\ SnapshotsCoverDone)'
  BY StepIInv, StepCounting
<1> QED BY <1>1, <1>2, PTL DEF Spec

-----------------------------------------------------------------------------
(***************************************************************************)
(* The first hit.  The candidates better than a given one are fewer than   *)
(* those better than any of them, so that going on from better to better   *)
(* ends: some candidate has none before it, and it is the hit of rank 0.   *)
(***************************************************************************)
LEMMA FirstIsBest ==
  ASSUME N > 0, NEW in \in Contract!Input, \A i \in Index : in.value[i] \in Values,
         NEW b, b = Contract!Top(in)[0]
  PROVE  b \in Index /\ \A j \in Index : ~Contract!Better(in, j, b)
<1> DEFINE Over(i) == {j \in Index : Contract!Better(in, j, i)}
           T == {Over(i) : i \in Index}
<1>1. Index = 0 .. N - 1 /\ N \in Nat /\ 0 \in Index
  BY RunnerAssumption DEF Index, Contract!Index
<1>2. IsFiniteSet(Index)
  BY <1>1, FS_Interval
<1>3. FiniteSubsetsOf(Index) = SUBSET Index
  BY <1>2, FS_FiniteSubsetsOfFinite
<1>4. T \subseteq FiniteSubsetsOf(Index) /\ T # {}
  <2>1. \A i \in Index : Over(i) \in SUBSET Index
    OBVIOUS
  <2>2. T # {}
    BY <1>1
  <2> QED BY <1>3, <2>1, <2>2
<1> HIDE DEF T
<1>5. \E x \in T : \A y \in T : ~(<<y, x>> \in StrictSubsetOrdering(Index))
  BY <1>4, FS_StrictSubsetOrderingWellFounded, WFMin
<1> USE DEF T
<1>6. PICK m \in Index : \A i \in Index : ~(<<Over(i), Over(m)>> \in StrictSubsetOrdering(Index))
  BY <1>5
<1>7. ASSUME NEW j \in Index, Contract!Better(in, j, m) PROVE FALSE
  <2>1. Over(j) \subseteq Over(m) /\ j \in Over(m) /\ j \notin Over(j)
    BY <1>7, BetterIsStrictTotal
  <2>2. <<Over(j), Over(m)>> \in StrictSubsetOrdering(Index)
    BY <2>1 DEF StrictSubsetOrdering
  <2> QED BY <1>6, <2>2
<1>8. \A i \in Index : Contract!Ahead(in, i) = 0 <=> \A j \in Index : ~Contract!Better(in, j, i)
  <2>1. ASSUME NEW i \in Index
        PROVE  Contract!Ahead(in, i) = 0 <=> \A j \in Index : ~Contract!Better(in, j, i)
    <3>1. Contract!Ahead(in, i) = Cardinality(Over(i))
      <4>1. Contract!Ahead(in, i) = Cardinality({j \in Contract!Index : Contract!Better(in, j, i)})
        BY DEF Contract!Ahead, Contract!Cardinality, Cardinality
      <4> QED BY <4>1 DEF Index
    <3>2. IsFiniteSet(Over(i))
      BY <1>2, FS_Subset
    <3>3. Cardinality(Over(i)) = 0 <=> Over(i) = {}
      BY <3>2, FS_EmptySet
    <3> QED BY <3>1, <3>3
  <2> QED BY <2>1
<1>9. b = CHOOSE i \in Index : Contract!Ahead(in, i) = 0
  <2>1. 0 \in {q \in Index : q < K}
    BY <1>1, RunnerAssumption
  <2> QED BY <2>1 DEF Contract!Top, Index
<1> QED BY <1>7, <1>8, <1>9

(***************************************************************************)
(* Why the counter ends at N.  A worker has counted what it has passed and *)
(* found ok, and the candidate it is showing; the counter is how many have *)
(* been counted, and the best score is that of a candidate.                *)
(***************************************************************************)
Counted == {i \in Index : countedAs[i] # 0}

Tallied ==
  /\ scored = Cardinality(Counted)
  /\ best.seen => \E i \in Index : input.value[i] \in Values /\ input.value[i] = best.score
  /\ pc = "start" => Counted = {} /\ \A w \in Launched : at[w] = Begin(w)
  /\ pc = "serial" => \A i \in Index : i \in Counted <=> i < scored
  /\ pc = "join" =>
       \A w \in Launched : \A i \in Index : (Begin(w) <= i /\ i < End(w)) =>
         (i \in Counted <=> \/ i < at[w] /\ ok[i]
                            \/ i = at[w] /\ phase[w] \in {"apply", "show"})
  /\ pc = "done" => \A w \in Launched :
                      phase[w] = "idle" \/ (phase[w] = "score" /\ at[w] >= End(w))

LEMMA TallyOne ==
  ASSUME TypeOK, scored = Cardinality(Counted), NEW i \in Index, i \notin Counted,
         scored' = scored + 1, countedAs' = [countedAs EXCEPT ![i] = scored + 1]
  PROVE  Counted' = Counted \cup {i} /\ scored' = Cardinality(Counted')
<1>1. scored \in Nat /\ scored + 1 # 0
  BY DEF TypeOK
<1>2. Counted' = Counted \cup {i}
  BY <1>1 DEF Counted, TypeOK
<1>3. IsFiniteSet(Index) /\ Counted \subseteq Index
  BY FS_Interval, RunnerAssumption DEF Index, Contract!Index, Counted
<1>4. IsFiniteSet(Counted)
  BY <1>3, FS_Subset
<1>5. Cardinality(Counted \cup {i}) = Cardinality(Counted) + 1
  BY <1>4, FS_AddElement
<1> QED BY <1>2, <1>5

LEMMA BestOfSome ==
  ASSUME TypeOK, NEW i \in Index, input.value[i] \in Values, best' = Considered(best, i),
         UNCHANGED input,
         best.seen => \E j \in Index : input.value[j] \in Values /\ input.value[j] = best.score
  PROVE  best'.seen => \E j \in Index : input'.value[j] \in Values /\ input'.value[j] = best'.score
<1>1. CASE best' = best
  BY <1>1
<1>2. CASE best'.score = input.value[i]
  BY <1>2
<1> QED BY <1>1, <1>2 DEF Considered

LEMMA StepTallied ==
  ASSUME IInv, Tallied, [Next]_vars
  PROVE  Tallied'
<1> USE DEF IInv
<1>0. /\ \A j \in Index : j \in Nat
      /\ \A w \in Launched : Begin(w) \in Nat /\ End(w) \in Nat /\ at[w] \in Nat /\ Begin(w) < End(w)
      /\ scored \in Nat
  BY RunnerAssumption, RangeType DEF Index, Contract!Index, TypeOK
<1>1. CASE Start
  <2>1. /\ UNCHANGED <<input, ok, at, best, scored, countedAs>> /\ Counted = {} /\ scored = 0
        /\ \A w \in Launched : at[w] = Begin(w)
        /\ \/ pc' = "serial"
           \/ pc' = "join" /\ \A w \in Launched : phase'[w] = "score"
    BY <1>1 DEF Start, Tallied, SlotsFinal
  <2>2. Counted' = Counted
    BY <2>1 DEF Counted
  <2>3. \A i \in Index : ~(i < 0)
    BY <1>0
  <2>4. \A w \in Launched : \A i \in Index : Begin(w) <= i => ~(i < Begin(w))
    BY <1>0
  <2> QED BY <2>1, <2>2, <2>3, <2>4 DEF Tallied
<1>2. CASE ScoreSerially
  <2>1. PICK i \in Index : i = scored
    BY <1>2, RunnerAssumption DEF ScoreSerially, TypeOK, Index, Contract!Index
  <2>2. pc = "serial" /\ UNCHANGED <<input, at, phase>> /\ i \notin Counted
        /\ \A w \in Launched : phase[w] = "idle"
    BY <1>0, <1>2, <2>1 DEF ScoreSerially, Tallied, SlotsFinal
  <2>3. CASE input.value[i] = Failed
    <3>1. UNCHANGED <<best, scored, countedAs>> /\ pc' = "done"
      BY <1>2, <2>1, <2>3 DEF ScoreSerially
    <3> QED BY <2>2, <3>1 DEF Tallied, Counted
  <2>4. CASE input.value[i] # Failed
    <3>1. /\ best' = Considered(best, i) /\ scored' = scored + 1 /\ pc' = "serial"
          /\ countedAs' = [countedAs EXCEPT ![i] = scored + 1]
          /\ input.value[i] \in Values
      BY <1>2, <2>1, <2>4, ConsideredType DEF ScoreSerially
    <3>2. Counted' = Counted \cup {i} /\ scored' = Cardinality(Counted')
      BY <2>2, <3>1, TallyOne DEF Tallied
    <3>3. best'.seen => \E j \in Index : input'.value[j] \in Values /\ input'.value[j] = best'.score
      BY <2>2, <3>1, BestOfSome DEF Tallied
    <3>4. \A j \in Index : j < scored' <=> j < scored \/ j = i
      BY <1>0, <2>1, <3>1
    <3> QED BY <2>2, <3>1, <3>2, <3>3, <3>4 DEF Tallied
  <2> QED BY <2>3, <2>4
<1>3. ASSUME NEW w \in Launched, Worker(w) PROVE Tallied'
  <2>1. /\ pc = "join" /\ pc' = "join" /\ input' = input /\ at[w] \in Index
        /\ Begin(w) <= at[w] /\ at[w] < End(w)
    <3>1. phase[w] \in Reporting \/ (phase[w] = "score" /\ at[w] < End(w))
      BY <1>3 DEF Worker, Score, Running, Consider, Count, ApplyBest, Show, Reporting
    <3>2. at[w] < End(w) /\ Begin(w) <= at[w]
      BY <3>1 DEF SlotsFinal
    <3>3. phase[w] # "idle" /\ ~(phase[w] = "score" /\ at[w] >= End(w))
      BY <1>0, <3>1, <3>2 DEF Reporting
    <3>4. pc # "done"
      BY <3>1, <3>3 DEF Tallied, Reporting
    <3>5. pc = "join"
      BY <3>3, <3>4 DEF TypeOK, SlotsFinal
    <3>6. at[w] \in Index
      BY <1>0, <3>2, RangeType, RunnerAssumption DEF Index, Contract!Index
    <3> QED BY <1>3, <3>2, <3>5, <3>6 DEF Worker, Score, Consider, Count, ApplyBest, Show
  <2> DEFINE c == at[w]
  <2>2. ASSUME NEW v \in Launched \ {w}, NEW j \in Index, Begin(v) <= j, j < End(v) PROVE j # c
    BY <2>1, <2>2, RangesDisjoint
  <2>3. /\ \A v \in Launched \ {w} : at'[v] = at[v] /\ phase'[v] = phase[v]
        /\ \A j \in Index : j # c => ok'[j] = ok[j]
    BY <1>3 DEF Worker, Score, Consider, Count, ApplyBest, Show, TypeOK
  <2>4. ASSUME \A j \in Index : j # c => (j \in Counted' <=> j \in Counted),
               \A j \in Index : (Begin(w) <= j /\ j < End(w)) =>
                 (j \in Counted' <=> \/ j < at'[w] /\ ok'[j]
                                     \/ j = at'[w] /\ phase'[w] \in {"apply", "show"}),
               scored' = Cardinality(Counted'),
               best'.seen => \E j \in Index : input'.value[j] \in Values /\ input'.value[j] = best'.score
        PROVE  Tallied'
    <3>1. ASSUME NEW v \in Launched, NEW j \in Index, Begin(v) <= j, j < End(v)
          PROVE  j \in Counted' <=> \/ j < at'[v] /\ ok'[j]
                                    \/ j = at'[v] /\ phase'[v] \in {"apply", "show"}
      <4>1. CASE v = w
        BY <2>4, <3>1, <4>1
      <4>2. CASE v # w
        <5>1. j # c
          BY <2>2, <3>1, <4>2
        <5>2. at'[v] = at[v] /\ phase'[v] = phase[v] /\ ok'[j] = ok[j]
              /\ (j \in Counted' <=> j \in Counted)
          BY <2>3, <2>4, <4>2, <5>1
        <5> QED BY <2>1, <3>1, <5>2 DEF Tallied
      <4> QED BY <4>1, <4>2
    <3> QED BY <2>1, <2>4, <3>1 DEF Tallied
  <2>5. ASSUME NEW j \in Index, Begin(w) <= j, j < End(w)
        PROVE  /\ j < c => (j \in Counted <=> ok[j])
               /\ j = c => (j \in Counted <=> phase[w] \in {"apply", "show"})
               /\ j > c => j \notin Counted
    BY <1>0, <2>1, <2>5 DEF Tallied
  <2>6. ASSUME UNCHANGED <<scored, countedAs>>, best' = best PROVE
          /\ Counted' = Counted /\ scored' = Cardinality(Counted')
          /\ best'.seen => \E j \in Index : input'.value[j] \in Values /\ input'.value[j] = best'.score
    BY <2>1, <2>6 DEF Tallied, Counted
  <2>7. CASE Score(w)
    <3>1. phase[w] = "score" /\ UNCHANGED <<best, scored, countedAs>>
      BY <2>7 DEF Score
    <3>2. \/ at'[w] = c + 1 /\ ~ok'[c] /\ phase'[w] = "score"
          \/ at'[w] = c /\ phase'[w] = "consider"
      BY <2>1, <2>7, <3>1 DEF Score, TypeOK
    <3>3. ASSUME NEW j \in Index, Begin(w) <= j, j < End(w)
          PROVE  j \in Counted' <=> \/ j < at'[w] /\ ok'[j]
                                    \/ j = at'[w] /\ phase'[w] \in {"apply", "show"}
      BY <1>0, <2>3, <2>5, <2>6, <3>1, <3>2, <3>3
    <3> QED BY <2>4, <2>6, <3>1, <3>3
  <2>8. CASE Consider(w)
    <3>1. /\ phase[w] = "consider" /\ phase'[w] = "count" /\ best' = Considered(best, c)
          /\ UNCHANGED <<at, ok, scored, countedAs>>
      BY <2>8 DEF Consider, TypeOK
    <3>2. input.value[c] \in Values
      BY <3>1, ReportsScored DEF Reporting
    <3>3. best'.seen => \E j \in Index : input'.value[j] \in Values /\ input'.value[j] = best'.score
      BY <2>1, <3>1, <3>2, BestOfSome DEF Tallied
    <3>4. Counted' = Counted /\ scored' = Cardinality(Counted')
      BY <3>1 DEF Tallied, Counted
    <3>5. ASSUME NEW j \in Index, Begin(w) <= j, j < End(w)
          PROVE  j \in Counted' <=> \/ j < at'[w] /\ ok'[j]
                                    \/ j = at'[w] /\ phase'[w] \in {"apply", "show"}
      BY <1>0, <2>5, <3>1, <3>4, <3>5
    <3> QED BY <2>4, <3>3, <3>4, <3>5
  <2>9. CASE Count(w)
    <3>1. /\ phase[w] = "count" /\ phase'[w] = "apply" /\ scored' = scored + 1
          /\ countedAs' = [countedAs EXCEPT ![c] = scored + 1]
          /\ UNCHANGED <<at, ok, best>>
      BY <2>9 DEF Count, TypeOK
    <3>2. c \notin Counted
      BY <2>1, <2>5, <3>1
    <3>3. Counted' = Counted \cup {c} /\ scored' = Cardinality(Counted')
      <4> HIDE DEF c
      <4>1. c \in Index
        BY <2>1 DEF c
      <4> QED BY <3>1, <3>2, <4>1, TallyOne DEF Tallied
    <3>4. ASSUME NEW j \in Index, Begin(w) <= j, j < End(w)
          PROVE  j \in Counted' <=> \/ j < at'[w] /\ ok'[j]
                                    \/ j = at'[w] /\ phase'[w] \in {"apply", "show"}
      BY <1>0, <2>5, <3>1, <3>3, <3>4
    <3>5. best'.seen => \E j \in Index : input'.value[j] \in Values /\ input'.value[j] = best'.score
      BY <2>1, <3>1 DEF Tallied
    <3> QED BY <2>4, <3>3, <3>4, <3>5
  <2>10. CASE ApplyBest(w)
    <3>1. /\ phase[w] = "apply" /\ phase'[w] = "show"
          /\ UNCHANGED <<at, ok, best, scored, countedAs>>
      BY <2>10 DEF ApplyBest, TypeOK
    <3>2. ASSUME NEW j \in Index, Begin(w) <= j, j < End(w)
          PROVE  j \in Counted' <=> \/ j < at'[w] /\ ok'[j]
                                    \/ j = at'[w] /\ phase'[w] \in {"apply", "show"}
      BY <1>0, <2>5, <2>6, <3>1, <3>2
    <3> QED BY <2>4, <2>6, <3>1, <3>2
  <2>11. CASE Show(w)
    <3>1. /\ phase[w] = "show" /\ phase'[w] = "score" /\ at'[w] = c + 1
          /\ UNCHANGED <<ok, best, scored, countedAs>>
      BY <2>11 DEF Show, TypeOK
    <3>2. ok[c]
      BY <3>1 DEF SlotsFinal, Reporting
    <3>3. ASSUME NEW j \in Index, Begin(w) <= j, j < End(w)
          PROVE  j \in Counted' <=> \/ j < at'[w] /\ ok'[j]
                                    \/ j = at'[w] /\ phase'[w] \in {"apply", "show"}
      BY <1>0, <2>5, <2>6, <3>1, <3>2, <3>3
    <3> QED BY <2>4, <2>6, <3>1, <3>3
  <2> QED BY <1>3, <2>7, <2>8, <2>9, <2>10, <2>11 DEF Worker
<1>4. CASE Reduce
  <2>1. UNCHANGED <<input, at, phase, best, scored, countedAs>> /\ pc' = "done"
    BY <1>4 DEF Reduce
  <2>2. \A w \in Launched : phase[w] = "idle" \/ (phase[w] = "score" /\ at[w] >= End(w))
    BY <1>4 DEF Reduce, Joined, SlotsFinal
  <2> QED BY <2>1, <2>2 DEF Tallied, Counted
<1>5. CASE UNCHANGED vars
  BY <1>5 DEF vars, Tallied, Counted
<1> QED BY <1>1, <1>2, <1>3, <1>4, <1>5 DEF Next

LEMMA StepPanel ==
  ASSUME IInv, Undecided, Counting, Tallied, PanelAgreesWithHits, [Next]_vars
  PROVE  PanelAgreesWithHits'
<1> USE DEF IInv
<1>1. CASE Start \/ ScoreSerially \/ \E w \in Launched : Worker(w)
  <2>1. outcome'.kind # "hits"
    <3>1. ASSUME NEW w \in Launched, Worker(w) PROVE pc # "done" /\ outcome' = outcome
      <4>1. phase[w] \in Reporting \/ (phase[w] = "score" /\ at[w] < End(w))
        BY <3>1 DEF Worker, Score, Running, Consider, Count, ApplyBest, Show, Reporting
      <4>2. ~(phase[w] = "idle" \/ (phase[w] = "score" /\ at[w] >= End(w)))
        <5>1. at[w] \in Int /\ End(w) \in Int
          BY RangeType, RunnerAssumption DEF TypeOK
        <5> QED BY <4>1, <5>1 DEF Reporting
      <4> QED BY <3>1, <4>2 DEF Tallied, Worker, Score, Consider, Count, ApplyBest, Show
    <3>2. pc # "done" => outcome.kind # "hits"
      BY DEF Undecided, Contract!Pending
    <3> QED BY <1>1, <3>1, <3>2 DEF Start, ScoreSerially, Contract!Error
  <2> QED BY <2>1 DEF PanelAgreesWithHits
<1>2. CASE Reduce
  <2> SUFFICES ASSUME outcome'.kind = "hits"
               PROVE  /\ scored = N
                      /\ N > 0 => best.seen /\ best.score = input.value[outcome'.top[0]]
    BY <1>2 DEF Reduce, PanelAgreesWithHits
  <2>0. /\ Index = 0 .. N - 1 /\ N \in Nat /\ \A i \in Index : i \in Nat /\ i < N
    BY RunnerAssumption DEF Index, Contract!Index
  <2>1. /\ \A i \in Index : Final(i)
        /\ outcome' = Contract!Expected(input)
    BY <1>2, AllFinal, ReducesRight DEF Reduce
  <2>2. Contract!Failing(input) = {} /\ outcome'.top = Contract!Top(input)
    BY <2>1 DEF Contract!Expected, Contract!Error, Contract!Hits
  <2>3. \A i \in Index : input.value[i] \in Values /\ ok[i]
    BY <2>1, <2>2 DEF Contract!Failing, Index, Final, TypeOK, Contract!Input
  <2>4. Counted = Index
    <3>1. CASE pc = "serial" /\ scored = N
      <4>1. \A i \in Index : i \in Counted
        BY <2>0, <3>1 DEF Tallied
      <4> QED BY <4>1 DEF Counted
    <3>2. CASE pc = "join" /\ Joined
      <4>1. ASSUME NEW i \in Index PROVE i \in Counted
        <5>1. PICK w \in Launched : Begin(w) <= i /\ i < End(w)
          BY RangesCover
        <5>2. i < at[w]
          <6>1. at[w] >= End(w) /\ at[w] \in Int /\ End(w) \in Int /\ i \in Int
            BY <2>0, <3>2, RangeType, RunnerAssumption DEF Joined, TypeOK
          <6> QED BY <5>1, <6>1
        <5> QED BY <2>3, <3>2, <5>1, <5>2 DEF Tallied
      <4> QED BY <4>1 DEF Counted
    <3> QED BY <1>2, <3>1, <3>2 DEF Reduce
  <2>5. scored = N
    <3>1. Cardinality(0 .. N - 1) = N
      BY <2>0, FS_Interval
    <3> QED BY <2>0, <2>4, <3>1 DEF Tallied
  <2>6. ASSUME N > 0 PROVE best.seen /\ best.score = input.value[outcome'.top[0]]
    <3>1. \A i \in Index : Covered(input.value[i])
      BY <2>4 DEF Counting, Counted
    <3>2. best.seen
      BY <2>0, <2>6, <3>1 DEF Covered
    <3>3. PICK m \in Index : input.value[m] = best.score
      BY <3>2 DEF Tallied
    <3>4. PICK b \in Index : /\ b = outcome'.top[0]
                             /\ \A j \in Index : ~Contract!Better(input, j, b)
      BY <2>2, <2>3, <2>6, FirstIsBest DEF TypeOK
    <3>5. ~Beats(input.value[b], best.score) /\ ~Contract!Better(input, m, b)
      BY <3>1, <3>4 DEF Covered
    <3>6. input.value[b] \in Int /\ input.value[m] \in Int
      BY <2>3, RunnerAssumption
    <3>7. input.order \in {"asc", "desc"}
      BY DEF TypeOK, Contract!Input
    <3>8. input.value[m] = input.value[b]
      BY <3>3, <3>5, <3>6, <3>7 DEF Beats, Contract!Better
    <3> QED BY <3>2, <3>3, <3>4, <3>8
  <2> QED BY <2>5, <2>6
<1>3. CASE UNCHANGED vars
  BY <1>3 DEF vars, PanelAgreesWithHits
<1> QED BY <1>1, <1>2, <1>3 DEF Next

(***************************************************************************)
(* PanelAgreesWithHits: when run() returns hits, every candidate has been  *)
(* counted exactly once, and the panel's best score is the first hit's.    *)
(***************************************************************************)
THEOREM PanelAgrees == Spec => []PanelAgreesWithHits
<1>1. ASSUME Init PROVE Undecided /\ Tallied /\ PanelAgreesWithHits
  <2>1. Counted = {} /\ scored = 0 /\ ~best.seen /\ pc = "start"
        /\ outcome = Contract!Pending /\ \A w \in Launched : at[w] = Begin(w)
    BY <1>1 DEF Init, Counted, NoBest
  <2>2. Cardinality({}) = 0
    BY FS_EmptySet
  <2> QED BY <2>1, <2>2 DEF Undecided, Tallied, PanelAgreesWithHits, Contract!Pending
<1>2. ASSUME IInv, Undecided, Counting, SnapshotsCoverDone, Tallied, PanelAgreesWithHits, [Next]_vars
      PROVE  (IInv /\ Undecided /\ Counting /\ SnapshotsCoverDone /\ Tallied /\ PanelAgreesWithHits)'
  BY <1>2, StepIInv, StepReturns, StepCounting, StepTallied, StepPanel
<1> QED BY <1>1, <1>2, InitIInv, InitCounting, PTL DEF Spec
=============================================================================
