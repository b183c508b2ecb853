----------------------- MODULE ComposeTransform_proof -----------------------
(***************************************************************************)
(* For all recipes and texts and any nesting: the buffers of recipes are   *)
(* kept apart, decrypting gives back what was encrypted, and what a recipe *)
(* makes of a text is what its leaves make of it.  The calls are a stack;  *)
(* all that happens to it is that a call is pushed, the last one advances, *)
(* or the last one is dropped and the one before it advances.  Each of     *)
(* these is undone by one of them, so the decryption goes the encryption's *)
(***************************************************************************)
(*****************************************************************************)
EXTENDS ComposeTransform, Kernels_proof

Buffers == Nat \X {"input", "output", "a", "b"}

Call(made) ==
  [stages : Seq(made), dir : {"encrypt", "decrypt"}, skips : SUBSET Nat, done : Nat,
   in : Buffers, out : Buffers, dest : Buffers]

-----------------------------------------------------------------------------
(***************************************************************************)
(* Both parts of the invariant give what is asked of the buffers.          *)
(***************************************************************************)
LEMMA InPlaceIsApart == 
  ASSUME NEW made, calls \in Seq(Call(made)), CallsInPlace
  PROVE  BuffersApart
<1>1. ASSUME NEW n \in DOMAIN calls, Unfinished(calls[n])
      PROVE  calls[n].in # Target(calls[n]) /\ Target(calls[n]) # InBuffer
  <2>1. n \in 1..n
    BY <1>1
  <2>2. Target(calls[n]) \in {OutBuffer} \cup ScratchTo(n - 1)
    BY <1>1 DEF CallsInPlace, Undisturbed
  <2> QED
    BY <1>1, <2>1, <2>2 DEF CallsInPlace, Undisturbed, OutBuffer, InBuffer, ScratchTo
<1>2. ASSUME NEW n \in 1..(Len(calls) - 1), Running.done # Len(Running.stages)
      PROVE  calls[n].in # Target(Running)
  <2>1. Len(calls) \in DOMAIN calls /\ n \in 1..Len(calls)
    BY <1>2
  <2>2. Unfinished(Running)
    <3>1. Running \in Call(made)
      BY <2>1 DEF Running
    <3>2. Running.done <= Len(Running.stages)
      BY <2>1 DEF CallsInPlace, WellNested, Running
    <3> QED
      BY <1>2, <3>1, <3>2 DEF Unfinished, Call
  <2> QED
    BY <2>1, <2>2 DEF CallsInPlace, Undisturbed, Running
<1> QED
  BY <1>1, <1>2 DEF BuffersApart, Unfinished

-----------------------------------------------------------------------------
(***************************************************************************)
(* The buffers of one depth are not those of a lower one, nor the ends.    *)
(***************************************************************************)
LEMMA BuffersDiffer ==
  ASSUME NEW depth \in Nat
  PROVE  /\ ScratchA(depth) # ScratchB(depth)
         /\ ScratchA(depth) # InBuffer /\ ScratchB(depth) # InBuffer
         /\ ScratchA(depth) # OutBuffer /\ ScratchB(depth) # OutBuffer
         /\ InBuffer # OutBuffer
         /\ ScratchA(depth) \in ScratchTo(depth) /\ ScratchB(depth) \in ScratchTo(depth)
         /\ InBuffer \notin ScratchTo(depth) /\ OutBuffer \notin ScratchTo(depth)
         /\ ScratchA(depth) \in Buffers /\ ScratchB(depth) \in Buffers
         /\ InBuffer \in Buffers /\ OutBuffer \in Buffers
         /\ \A below \in Int : below < depth =>
              ScratchA(depth) \notin ScratchTo(below) /\ ScratchB(depth) \notin ScratchTo(below)
         /\ \A below \in Int : below <= depth => ScratchTo(below) \subseteq ScratchTo(depth)
BY DEF ScratchA, ScratchB, InBuffer, OutBuffer, ScratchTo, Buffers

(***************************************************************************)
(* A call that advances reads one of its own buffers next and writes the   *)
(* other, until it is through.                                             *)
(***************************************************************************)
LEMMA CallAdvances ==
  ASSUME NEW made, NEW call \in Call(made), NEW depth \in Nat, Unfinished(call),
         IF call.done = 0 THEN AtFirst(call, depth) ELSE Paired(call, depth)
  PROVE  /\ Advanced(call, depth) \in Call(made)
         /\ Advanced(call, depth).stages = call.stages
         /\ Advanced(call, depth).dest = call.dest
         /\ Advanced(call, depth).done = call.done + 1
         /\ Advanced(call, depth).done <= Len(call.stages)
         /\ Advanced(call, depth).in \in {call.in, ScratchA(depth), ScratchB(depth)}
         /\ Unfinished(Advanced(call, depth)) => Paired(Advanced(call, depth), depth)
<1> DEFINE next == Advanced(call, depth)
<1>1. Len(call.stages) \in Nat /\ call.done + 1 <= Len(call.stages) /\ call.done \in Nat
  BY DEF Call, Unfinished
<1>2. CASE IsLast(call)
  <2>1. next = [call EXCEPT !.done = @ + 1]
    BY <1>2 DEF Advanced
  <2>2. ~Unfinished(next)
    BY <1>1, <1>2, <2>1 DEF Unfinished, IsLast, Call
  <2> QED
    BY <1>1, <2>1, <2>2 DEF Call
<1>3. CASE ~IsLast(call)
  <2>1. next = [call EXCEPT !.done = @ + 1,
                  !.in  = IF call.out = ScratchB(depth) THEN ScratchB(depth) ELSE ScratchA(depth),
                  !.out = IF call.out = ScratchB(depth) THEN ScratchA(depth) ELSE ScratchB(depth)]
    BY <1>3 DEF Advanced
  <2>2. next \in Call(made)
    <3>1. ScratchA(depth) \in Buffers /\ ScratchB(depth) \in Buffers
      BY BuffersDiffer
    <3>2. call.done + 1 \in Nat
      BY <1>1
    <3> HIDE DEF next
    <3> QED
      BY <2>1, <3>1, <3>2 DEF Call
  <2>3. Paired(next, depth)
    BY <2>1 DEF Paired, Call
  <2> QED
    BY <1>1, <2>1, <2>2, <2>3 DEF Call
<1> QED
  BY <1>2, <1>3

-----------------------------------------------------------------------------
(***************************************************************************)
(* If the last call finds its buffers as it should, it disturbs none of    *)
(* those around it: its own buffers are deeper than what they read, and    *)
(* what it writes last is what the call before it writes.                  *)
(***************************************************************************)
LEMMA LastDisturbsNone ==
  ASSUME NEW made, NEW running \in Seq(Call(made)), Len(running) > 0, WellNested(running),
         NEW n \in Nat, n = Len(running),
         Unfinished(running[n]),
         n > 1 =>
           /\ Target(running[n - 1]) \in {OutBuffer} \cup ScratchTo(n - 2)
           /\ \A m \in 1..(n - 1) : running[m].in # Target(running[n - 1]),
         n > 1 /\ running[n].done = 0 => running[n].in = running[n - 1].in
  PROVE  /\ Target(running[n]) \in {OutBuffer} \cup ScratchTo(n - 1)
         /\ \A m \in 1..n : running[m].in # Target(running[n])
<1>1. running[n] \in Call(made) /\ n \in DOMAIN running /\ n - 1 \in Nat
  OBVIOUS
<1>2. \A m \in 1..n : running[m].in \in {InBuffer} \cup ScratchTo(m - 1)
  BY DEF WellNested
<1>3. IF running[n].done = 0 THEN AtFirst(running[n], n - 1) ELSE Paired(running[n], n - 1)
  BY <1>1 DEF WellNested
<1>4. CASE IsLast(running[n])
  <2>1. Target(running[n]) = running[n].dest
    BY <1>4 DEF Target
  <2>2. CASE n = 1
    <3>1. Target(running[n]) = OutBuffer
      BY <1>1, <2>1, <2>2 DEF WellNested
    <3>2. running[1].in # OutBuffer
      <4>1. running[n].in \in {InBuffer} \cup ScratchTo(n - 1)
        BY <1>1, <1>2
      <4>2. OutBuffer # InBuffer /\ OutBuffer \notin ScratchTo(n - 1)
        BY <1>1, BuffersDiffer
      <4> QED
        BY <2>2, <4>1, <4>2
    <3> QED
      BY <2>2, <3>1, <3>2
  <2>3. CASE n > 1
    <3>1. Target(running[n]) = Target(running[n - 1])
      BY <1>1, <2>1, <2>3 DEF WellNested
    <3>2. ScratchTo(n - 2) \subseteq ScratchTo(n - 1)
      BY <1>1, BuffersDiffer
    <3>3. running[n].in # Target(running[n - 1])
      <4>1. CASE running[n].done = 0
        BY <2>3, <4>1
      <4>2. CASE running[n].done # 0
        <5>1. running[n].in \in {ScratchA(n - 1), ScratchB(n - 1)}
          BY <1>3, <4>2 DEF Paired
        <5>2. ScratchA(n - 1) \notin {OutBuffer} \cup ScratchTo(n - 2)
              /\ ScratchB(n - 1) \notin {OutBuffer} \cup ScratchTo(n - 2)
          BY <1>1, BuffersDiffer
        <5> QED
          BY <2>3, <5>1, <5>2
      <4> QED
        BY <4>1, <4>2
    <3> QED
      BY <2>3, <3>1, <3>2, <3>3
  <2> QED
    BY <2>2, <2>3
<1>5. CASE ~IsLast(running[n])
  <2>1. Target(running[n]) = running[n].out
    BY <1>5 DEF Target
  <2>2. /\ running[n].out \in {ScratchA(n - 1), ScratchB(n - 1)}
        /\ running[n].in # running[n].out
    <3>1. CASE running[n].done = 0
      <4>1. Multi(running[n])
        <5>1. PICK length \in Nat : length = Len(running[n].stages)
          BY <1>1 DEF Call
        <5>2. 0 < length
          BY <3>1, <5>1 DEF Unfinished
        <5>3. 0 + 1 # length
          BY <1>5, <3>1, <5>1 DEF IsLast
        <5>4. length > 1
          BY <5>2, <5>3
        <5> QED
          BY <5>1, <5>4 DEF Multi
      <4> QED
        BY <1>3, <3>1, <4>1 DEF AtFirst
    <3>2. CASE running[n].done # 0
      BY <1>1, <1>3, <3>2, BuffersDiffer DEF Paired
    <3> QED
      BY <3>1, <3>2
  <2>3. running[n].out \in ScratchTo(n - 1)
    BY <1>1, <2>2, BuffersDiffer
  <2>4. ASSUME NEW m \in 1..n, m # n PROVE running[m].in # running[n].out
    <3>1. m - 1 \in Int /\ m - 1 < n - 1
      BY <2>4
    <3>2. ScratchA(n - 1) \notin ScratchTo(m - 1) /\ ScratchB(n - 1) \notin ScratchTo(m - 1)
          /\ ScratchA(n - 1) # InBuffer /\ ScratchB(n - 1) # InBuffer
      BY <1>1, <3>1, BuffersDiffer
    <3> QED
      BY <1>2, <2>2, <3>2
  <2> QED
    BY <2>1, <2>2, <2>3, <2>4
<1> QED
  BY <1>4, <1>5

-----------------------------------------------------------------------------
(***************************************************************************)
(* The three things that happen to the stack of calls.                     *)
(***************************************************************************)
InOrderOf(made, running) ==
  running \in Seq(Call(made)) /\ WellNested(running) /\ Undisturbed(running)

LEMMA AroundLast ==
  ASSUME NEW made, NEW running, InOrderOf(made, running), NEW n \in Nat, n = Len(running), n > 1
  PROVE  /\ Unfinished(running[n - 1])
         /\ Target(running[n - 1]) \in {OutBuffer} \cup ScratchTo(n - 2)
         /\ \A m \in 1..(n - 1) : running[m].in # Target(running[n - 1])
<1>1. n - 1 \in DOMAIN running /\ n - 1 < Len(running) /\ (n - 1) - 1 = n - 2
  BY DEF InOrderOf
<1>2. Unfinished(running[n - 1])
  BY <1>1 DEF InOrderOf, WellNested
<1> QED
  BY <1>1, <1>2 DEF InOrderOf, Undisturbed

LEMMA LastAdvances ==
  ASSUME NEW made, NEW running, InOrderOf(made, running), NEW n \in Nat, n = Len(running), n > 0,
         Unfinished(running[n]),
         NEW next, next = [running EXCEPT ![n] = Advanced(running[n], n - 1)]
  PROVE  InOrderOf(made, next)
<1>1. n \in DOMAIN running /\ n - 1 \in Nat /\ running[n] \in Call(made)
      /\ running \in Seq(Call(made))
  BY DEF InOrderOf
<1>2. IF running[n].done = 0 THEN AtFirst(running[n], n - 1) ELSE Paired(running[n], n - 1)
  BY <1>1 DEF InOrderOf, WellNested
<1> DEFINE advanced == Advanced(running[n], n - 1)
<1>3. /\ advanced \in Call(made) /\ advanced.stages = running[n].stages
      /\ advanced.dest = running[n].dest /\ advanced.done = running[n].done + 1
      /\ advanced.done <= Len(advanced.stages)
      /\ advanced.in \in {running[n].in, ScratchA(n - 1), ScratchB(n - 1)}
      /\ Unfinished(advanced) => Paired(advanced, n - 1)
  BY <1>1, <1>2, CallAdvances
<1> HIDE DEF advanced
<1>4. /\ next \in Seq(Call(made)) /\ Len(next) = n /\ next[n] = advanced
      /\ \A m \in 1..n : m # n => next[m] = running[m]
  BY <1>1, <1>3 DEF advanced
<1>5. advanced.done # 0
  <2>1. running[n].done \in Nat
    BY <1>1 DEF Call
  <2> QED
    BY <1>3, <2>1
<1>6. WellNested(next)
  <2>1. ASSUME NEW m \in 1..n, m # n
        PROVE  /\ next[m].stages # <<>> /\ next[m].done <= Len(next[m].stages)
               /\ Unfinished(next[m])
               /\ next[m].in \in {InBuffer} \cup ScratchTo(m - 1)
               /\ m = 1 => next[m].dest = OutBuffer
               /\ m > 1 => next[m].dest = Target(next[m - 1])
               /\ IF next[m].done = 0 THEN AtFirst(next[m], m - 1) ELSE Paired(next[m], m - 1)
    <3>1. m \in DOMAIN running /\ m < Len(running) /\ next[m] = running[m]
      BY <1>1, <1>4, <2>1
    <3>2. m > 1 => next[m - 1] = running[m - 1]
      BY <1>4, <2>1
    <3> QED
      BY <3>1, <3>2 DEF InOrderOf, WellNested
  <2>2. /\ advanced.stages # <<>>
        /\ advanced.in \in {InBuffer} \cup ScratchTo(n - 1)
        /\ n = 1 => advanced.dest = OutBuffer
        /\ n > 1 => advanced.dest = Target(next[n - 1])
    <3>1. ScratchA(n - 1) \in ScratchTo(n - 1) /\ ScratchB(n - 1) \in ScratchTo(n - 1)
      BY <1>1, BuffersDiffer
    <3>2. n > 1 => next[n - 1] = running[n - 1]
      BY <1>4
    <3> QED
      BY <1>1, <1>3, <3>1, <3>2 DEF InOrderOf, WellNested
  <2>3. ASSUME NEW m \in DOMAIN next
        PROVE  /\ next[m].stages # <<>> /\ next[m].done <= Len(next[m].stages)
               /\ m < Len(next) => Unfinished(next[m])
               /\ next[m].in \in {InBuffer} \cup ScratchTo(m - 1)
               /\ m = 1 => next[m].dest = OutBuffer
               /\ m > 1 => next[m].dest = Target(next[m - 1])
               /\ Unfinished(next[m]) =>
                    IF next[m].done = 0 THEN AtFirst(next[m], m - 1) ELSE Paired(next[m], m - 1)
    <3>1. m \in 1..n
      BY <1>4
    <3>2. CASE m = n
      BY <1>3, <1>4, <1>5, <2>2, <3>2
    <3> QED
      BY <2>1, <3>1, <3>2
  <2> QED
    BY <2>3 DEF WellNested
<1>7. Undisturbed(next)
  <2>1. ASSUME NEW m \in 1..n, m # n, Unfinished(next[m])
        PROVE  /\ Target(next[m]) \in {OutBuffer} \cup ScratchTo(m - 1)
               /\ \A k \in 1..m : next[k].in # Target(next[m])
    <3>1. m \in DOMAIN running /\ next[m] = running[m]
      BY <1>1, <1>4, <2>1
    <3>2. \A k \in 1..m : next[k] = running[k]
      BY <1>4, <2>1
    <3> QED
      BY <2>1, <3>1, <3>2 DEF InOrderOf, Undisturbed
  <2>2. ASSUME Unfinished(next[n])
        PROVE  /\ Target(next[n]) \in {OutBuffer} \cup ScratchTo(n - 1)
               /\ \A m \in 1..n : next[m].in # Target(next[n])
    <3>1. n > 1 =>
            /\ Target(next[n - 1]) \in {OutBuffer} \cup ScratchTo(n - 2)
            /\ \A m \in 1..(n - 1) : next[m].in # Target(next[n - 1])
      <4>1. \A m \in 1..(n - 1) : next[m] = running[m]
        BY <1>4
      <4>2. n > 1 => n - 1 \in 1..(n - 1)
        BY <1>1
      <4> QED
        BY <4>1, <4>2, AroundLast
    <3>2. ~(next[n].done = 0)
      BY <1>4, <1>5
    <3>3. n > 1 /\ next[n].done = 0 => next[n].in = next[n - 1].in
      BY <3>2
    <3>4. next \in Seq(Call(made)) /\ Len(next) > 0 /\ n = Len(next)
      BY <1>4
    <3> QED
      BY <1>6, <2>2, <3>1, <3>3, <3>4, LastDisturbsNone
  <2> QED
    BY <1>4, <2>1, <2>2 DEF Undisturbed
<1> QED
  BY <1>4, <1>6, <1>7 DEF InOrderOf

LEMMA CallPushed ==
  ASSUME NEW made, NEW running, InOrderOf(made, running), NEW n \in Nat, n = Len(running), n > 0,
         Unfinished(running[n]),
         NEW pushed \in Call(made), pushed.stages # <<>>, pushed.done = 0,
         pushed.in = running[n].in, pushed.dest = Target(running[n]),
         Multi(pushed) => pushed.out = ScratchB(n),
         NEW next, next = Append(running, pushed)
  PROVE  InOrderOf(made, next)
<1>1. n \in DOMAIN running /\ running \in Seq(Call(made)) /\ n + 1 \in Nat /\ (n + 1) - 1 = n
  BY DEF InOrderOf
<1>2. /\ next \in Seq(Call(made)) /\ Len(next) = n + 1 /\ next[n + 1] = pushed
      /\ \A m \in 1..n : next[m] = running[m]
  BY <1>1
<1>3. Unfinished(pushed) /\ pushed.done <= Len(pushed.stages)
  <2>1. PICK length \in Nat : length = Len(pushed.stages)
    BY DEF Call
  <2>2. length # 0
    BY <2>1 DEF Call
  <2> QED
    BY <2>1, <2>2 DEF Unfinished
<1>4. running[n].in \in {InBuffer} \cup ScratchTo(n - 1)
  BY <1>1 DEF InOrderOf, WellNested
<1>5. AtFirst(pushed, n) /\ pushed.in \in {InBuffer} \cup ScratchTo(n)
  <2>1. /\ ScratchA(n) \notin {InBuffer} \cup ScratchTo(n - 1)
        /\ ScratchB(n) \notin {InBuffer} \cup ScratchTo(n - 1)
        /\ ScratchTo(n - 1) \subseteq ScratchTo(n)
    BY BuffersDiffer
  <2> QED
    BY <1>4, <2>1 DEF AtFirst
<1>6. WellNested(next)
  <2>1. ASSUME NEW m \in DOMAIN next
        PROVE  /\ next[m].stages # <<>> /\ next[m].done <= Len(next[m].stages)
               /\ m < Len(next) => Unfinished(next[m])
               /\ next[m].in \in {InBuffer} \cup ScratchTo(m - 1)
               /\ m = 1 => next[m].dest = OutBuffer
               /\ m > 1 => next[m].dest = Target(next[m - 1])
               /\ Unfinished(next[m]) =>
                    IF next[m].done = 0 THEN AtFirst(next[m], m - 1) ELSE Paired(next[m], m - 1)
    <3>1. m \in 1..(n + 1)
      BY <1>2, <2>1
    <3>2. CASE m = n + 1
      <4>1. next[m] = pushed /\ m - 1 = n /\ next[m - 1] = running[n] /\ ~(m < Len(next)) /\ m # 1
        BY <1>1, <1>2, <3>2
      <4> QED
        BY <1>3, <1>5, <4>1
    <3>3. CASE m # n + 1
      <4>1. m \in DOMAIN running /\ next[m] = running[m]
        BY <1>1, <1>2, <3>1, <3>3
      <4>2. m > 1 => next[m - 1] = running[m - 1]
        BY <1>1, <1>2, <3>1, <3>3
      <4>3. m # n => Unfinished(running[m])
        BY <1>1, <4>1 DEF InOrderOf, WellNested
      <4>4. Unfinished(next[m])
        BY <4>1, <4>3
      <4> QED
        BY <4>1, <4>2, <4>4 DEF InOrderOf, WellNested
    <3> QED
      BY <3>2, <3>3
  <2> QED
    BY <2>1 DEF WellNested
<1>7. ASSUME NEW m \in 1..n, Unfinished(next[m])
      PROVE  /\ Target(next[m]) \in {OutBuffer} \cup ScratchTo(m - 1)
             /\ \A k \in 1..m : next[k].in # Target(next[m])
  <2>1. m \in DOMAIN running /\ next[m] = running[m]
    BY <1>1, <1>2, <1>7
  <2>2. \A k \in 1..m : next[k] = running[k]
    BY <1>2, <1>7
  <2> QED
    BY <1>7, <2>1, <2>2 DEF InOrderOf, Undisturbed
<1>8. /\ Target(next[n + 1]) \in {OutBuffer} \cup ScratchTo((n + 1) - 1)
      /\ \A m \in 1..(n + 1) : next[m].in # Target(next[n + 1])
  <2>1. next[n] = running[n] /\ n \in 1..n
    BY <1>1, <1>2
  <2>2. /\ Target(next[(n + 1) - 1]) \in {OutBuffer} \cup ScratchTo((n + 1) - 2)
        /\ \A m \in 1..((n + 1) - 1) : next[m].in # Target(next[(n + 1) - 1])
    <3>1. (n + 1) - 1 = n /\ (n + 1) - 2 = n - 1
      OBVIOUS
    <3> QED
      BY <1>7, <2>1, <3>1
  <2>3. next[n + 1].in = next[(n + 1) - 1].in
    BY <1>1, <1>2, <2>1
  <2>4. next \in Seq(Call(made)) /\ Len(next) > 0 /\ n + 1 = Len(next) /\ Unfinished(next[n + 1])
    BY <1>2, <1>3
  <2> QED
    BY <1>1, <1>6, <2>2, <2>3, <2>4, LastDisturbsNone
<1>9. Undisturbed(next)
  <2>1. ASSUME NEW m \in DOMAIN next, Unfinished(next[m])
        PROVE  /\ Target(next[m]) \in {OutBuffer} \cup ScratchTo(m - 1)
               /\ \A k \in 1..m : next[k].in # Target(next[m])
    <3>1. m \in 1..n \/ m = n + 1
      BY <1>2, <2>1
    <3> QED
      BY <1>7, <1>8, <2>1, <3>1
  <2> QED
    BY <2>1 DEF Undisturbed
<1> QED
  BY <1>2, <1>6, <1>9 DEF InOrderOf

LEMMA CallDropped ==
  ASSUME NEW made, NEW running, InOrderOf(made, running), NEW n \in Nat, n = Len(running), n > 1
  PROVE  /\ InOrderOf(made, Front(running))
         /\ Len(Front(running)) = n - 1
         /\ Front(running)[n - 1] = running[n - 1]
         /\ Unfinished(Front(running)[n - 1])
<1>1. running \in Seq(Call(made)) /\ n - 1 \in Nat
  BY DEF InOrderOf
<1> DEFINE shorter == Front(running)
<1>2. /\ shorter \in Seq(Call(made)) /\ Len(shorter) = n - 1
      /\ \A m \in 1..(n - 1) : shorter[m] = running[m]
  BY <1>1 DEF Front
<1> HIDE DEF shorter
<1>3. ASSUME NEW m \in DOMAIN shorter
      PROVE  /\ m \in DOMAIN running /\ m < Len(running) /\ shorter[m] = running[m]
             /\ m > 1 => shorter[m - 1] = running[m - 1]
             /\ \A k \in 1..m : shorter[k] = running[k]
             /\ Unfinished(shorter[m])
  <2>1. m \in DOMAIN running /\ m < Len(running) /\ shorter[m] = running[m]
    BY <1>1, <1>2
  <2>2. (m > 1 => shorter[m - 1] = running[m - 1]) /\ \A k \in 1..m : shorter[k] = running[k]
    BY <1>1, <1>2
  <2>3. Unfinished(running[m])
    BY <2>1 DEF InOrderOf, WellNested
  <2> QED
    BY <2>1, <2>2, <2>3
<1>4. WellNested(shorter)
  BY <1>3 DEF InOrderOf, WellNested
<1>5. Undisturbed(shorter)
  BY <1>3 DEF InOrderOf, Undisturbed
<1>6. n - 1 \in DOMAIN shorter
  BY <1>1, <1>2
<1> QED
  BY <1>2, <1>3, <1>4, <1>5, <1>6 DEF InOrderOf, shorter

LEMMA CallAlone ==
  ASSUME NEW made, NEW first \in Call(made), first.stages # <<>>, first.done = 0,
         first.in = InBuffer, first.dest = OutBuffer,
         Multi(first) => first.out = ScratchB(0),
         NEW next, next = <<first>>
  PROVE  InOrderOf(made, next)
<1>1. next \in Seq(Call(made)) /\ Len(next) = 1 /\ next[1] = first /\ DOMAIN next = {1}
  OBVIOUS
<1>2. Unfinished(first) /\ first.done <= Len(first.stages)
  <2>1. PICK length \in Nat : length = Len(first.stages)
    BY DEF Call
  <2>2. length # 0
    BY <2>1 DEF Call
  <2> QED
    BY <2>1, <2>2 DEF Unfinished
<1>3. AtFirst(first, 0)
  BY BuffersDiffer DEF AtFirst
<1>4. WellNested(next)
  BY <1>1, <1>2, <1>3 DEF WellNested
<1>5. /\ Target(next[1]) \in {OutBuffer} \cup ScratchTo(1 - 1)
      /\ \A m \in 1..1 : next[m].in # Target(next[1])
  <2>1. PICK n \in Nat : n = 1
    OBVIOUS
  <2>2. ~(n > 1) /\ n = Len(next) /\ Len(next) > 0 /\ Unfinished(next[n])
    BY <1>1, <1>2, <2>1
  <2>3. /\ Target(next[n]) \in {OutBuffer} \cup ScratchTo(n - 1)
        /\ \A m \in 1..n : next[m].in # Target(next[n])
    BY <1>1, <1>4, <2>2, LastDisturbsNone
  <2> QED
    BY <2>1, <2>3
<1>6. Undisturbed(next)
  BY <1>1, <1>5 DEF Undisturbed
<1> QED
  BY <1>1, <1>4, <1>6 DEF InOrderOf

-----------------------------------------------------------------------------
(***************************************************************************)
(* The steps of the recipe.                                                *)
(***************************************************************************)
ComposeInv(made) ==
  /\ recipe \in 1..Len(Recipes)
  /\ phase \in {"start", "encrypt", "decrypt", "done", "refused"}
  /\ phase \in {"start", "done", "refused"} => calls = <<>>
  /\ calls # <<>> => Stages # <<>>
  /\ InOrderOf(made, calls)

LEMMA NewCallIsCall ==
  ASSUME NEW made, NEW stages \in Seq(made), NEW dir \in {"encrypt", "decrypt"},
         NEW skips \in SUBSET Nat, NEW in \in Buffers, NEW dest \in Buffers, NEW depth \in Nat
  PROVE  /\ NewCall(stages, dir, skips, in, dest, depth) \in Call(made)
         /\ NewCall(stages, dir, skips, in, dest, depth).stages = stages
         /\ NewCall(stages, dir, skips, in, dest, depth).done = 0
         /\ NewCall(stages, dir, skips, in, dest, depth).in = in
         /\ NewCall(stages, dir, skips, in, dest, depth).dest = dest
         /\ Multi(NewCall(stages, dir, skips, in, dest, depth)) =>
              NewCall(stages, dir, skips, in, dest, depth).out = ScratchB(depth)
<1>1. ScratchB(depth) \in Buffers
  BY BuffersDiffer
<1> QED
  BY <1>1 DEF NewCall, Call, Multi

LEMMA NextStageMade ==
  ASSUME NEW made, MadeOf(made), NEW call \in Call(made), Unfinished(call)
  PROVE  NextStage(call) \in made
<1>1. Len(call.stages) \in Nat /\ call.done \in Nat /\ call.done < Len(call.stages)
      /\ call.stages \in Seq(made)
  BY DEF Call, Unfinished
<1>2. call.done + 1 \in 1..Len(call.stages) /\ Len(call.stages) - call.done \in 1..Len(call.stages)
  BY <1>1
<1> QED
  BY <1>1, <1>2 DEF NextStage

LEMMA StageGivesCall ==
  ASSUME NEW made, MadeOf(made), NEW stage \in made, NEW dir \in {"encrypt", "decrypt"},
         NEW skips \in SUBSET Nat, NEW depth
  PROVE  /\ StageDirection(stage, dir) \in {"encrypt", "decrypt"}
         /\ StageSkips(stage, skips, depth) \in SUBSET Nat
<1>1. stage.direction \in {"default", "encrypt", "decrypt"} /\ stage.skips \in SUBSET Nat
  BY DEF MadeOf
<1>2. StageDirection(stage, dir) \in {"encrypt", "decrypt"}
  BY <1>1 DEF StageDirection, Opposite
<1>3. StageSkips(stage, skips, depth) \in SUBSET Nat
  BY <1>1 DEF StageSkips
<1> QED
  BY <1>2, <1>3

LEMMA OutermostInOrder ==
  ASSUME NEW made, MadeOf(made), recipe \in 1..Len(Recipes), Stages # <<>>,
         NEW dir \in {"encrypt", "decrypt"}, NEW mem, Outermost(dir, mem)
  PROVE  InOrderOf(made, calls')
<1>1. Stages \in Seq(made) /\ Recipes[recipe].skips \in SUBSET Nat
  <2>1. PICK R : R = [stages : Seq(made), skips : SUBSET Nat]
    OBVIOUS
  <2>2. Recipes \in Seq(R)
    BY <2>1 DEF MadeOf
  <2>3. Recipes[recipe] \in R
    BY <2>2
  <2> QED
    BY <2>1, <2>3 DEF Stages
<1>3. PICK first : first = NewCall(Stages, dir, Recipes[recipe].skips, InBuffer, OutBuffer, 0)
  OBVIOUS
<1>4. InBuffer \in Buffers /\ OutBuffer \in Buffers
  BY DEF Buffers, InBuffer, OutBuffer
<1>5. /\ first \in Call(made) /\ first.stages = Stages /\ first.done = 0
      /\ first.in = InBuffer /\ first.dest = OutBuffer
      /\ Multi(first) => first.out = ScratchB(0)
  BY <1>1, <1>3, <1>4, NewCallIsCall
<1>6. calls' = <<first>>
  BY <1>3 DEF Outermost
<1> QED
  BY <1>5, <1>6, CallAlone

LEMMA NoCallsInOrder ==
  ASSUME NEW made
  PROVE  InOrderOf(made, <<>>)
BY DEF InOrderOf, WellNested, Undisturbed

\* What the steps below know of the last call.
LEMMA TheRunning ==
  ASSUME NEW made, MadeOf(made), ComposeInv(made), calls # <<>>
  PROVE  /\ Len(calls) \in Nat /\ Len(calls) > 0 /\ Running \in Call(made)
         /\ phase \in {"encrypt", "decrypt"}
         /\ Running.done < Len(Running.stages) =>
              Unfinished(calls[Len(calls)]) /\ NextStage(Running) \in made
<1>1. calls \in Seq(Call(made))
  BY DEF ComposeInv, InOrderOf
<1>2. Len(calls) \in Nat /\ Len(calls) > 0 /\ Running \in Call(made)
  BY <1>1 DEF Running
<1>3. ASSUME Running.done < Len(Running.stages)
      PROVE  Unfinished(calls[Len(calls)]) /\ NextStage(Running) \in made
  BY <1>2, <1>3, NextStageMade DEF Unfinished, Running
<1> QED
  BY <1>2, <1>3 DEF ComposeInv

LEMMA LeafKeeps ==
  ASSUME NEW made, MadeOf(made), ComposeInv(made), RunLeaf
  PROVE  ComposeInv(made)'
<1>1. calls # <<>> /\ Running.done < Len(Running.stages)
  BY DEF RunLeaf
<1>2. CASE Refuse
  BY <1>2, NoCallsInOrder DEF Refuse, ComposeInv, Stages
<1>3. CASE ~Refuse
  <2>1. /\ calls' = [calls EXCEPT ![Len(calls)] = Advanced(Running, Depth)]
        /\ UNCHANGED <<recipe, phase>>
    BY <1>3 DEF RunLeaf
  <2>2. calls' = [calls EXCEPT ![Len(calls)] = Advanced(calls[Len(calls)], Len(calls) - 1)]
    BY <2>1 DEF Running, Depth
  <2>3. InOrderOf(made, calls')
    BY <1>1, <2>2, TheRunning, LastAdvances DEF ComposeInv
  <2> QED
    BY <1>1, <2>1, <2>3, TheRunning DEF ComposeInv, Stages
<1> QED
  BY <1>2, <1>3

LEMMA EnterKeeps ==
  ASSUME NEW made, MadeOf(made), ComposeInv(made), EnterNested
  PROVE  ComposeInv(made)'
<1>1. calls # <<>> /\ Running.done < Len(Running.stages)
  BY DEF EnterNested
<1>2. CASE Refuse
  BY <1>2, NoCallsInOrder DEF Refuse, ComposeInv, Stages
<1>3. CASE ~Refuse
  <2> DEFINE stage == NextStage(Running)
             dir   == StageDirection(stage, Running.dir)
             skips == StageSkips(stage, Running.skips, Depth)
  <2>1. /\ stage.kind = "compose" /\ EntryOK(stage.params, Depth + 1)
        /\ calls' = Append(calls, NewCall(stage.params, dir, skips, Running.in,
                                          Target(Running), Depth + 1))
        /\ UNCHANGED <<recipe, phase>>
    BY <1>3 DEF EnterNested
  <2>2. PICK n \in Nat : n = Len(calls) /\ n > 0
    BY <1>1, TheRunning
  <2>3. Running = calls[n] /\ Depth + 1 = n /\ Unfinished(calls[n]) /\ Running \in Call(made)
    <3>1. Running = calls[n] /\ Depth + 1 = n
      BY <2>2 DEF Running, Depth
    <3> QED
      BY <1>1, <2>2, <3>1, TheRunning
  <2>4. stage \in made /\ stage.params \in Seq(made) /\ stage.params # <<>>
    <3>1. stage \in made
      BY <1>1, TheRunning
    <3> QED
      BY <2>1, <3>1 DEF MadeOf, EntryOK
  <2>5. dir \in {"encrypt", "decrypt"} /\ skips \in SUBSET Nat
    <3>1. Running.dir \in {"encrypt", "decrypt"} /\ Running.skips \in SUBSET Nat
      BY <2>3 DEF Call
    <3> QED
      BY <2>4, <3>1, StageGivesCall
  <2>6. Running.in \in Buffers /\ Target(Running) \in Buffers
    BY <2>3 DEF Call, Target
  <2>7. PICK pushed : pushed = NewCall(stage.params, dir, skips, Running.in, Target(Running), n)
    OBVIOUS
  <2> HIDE DEF stage, dir, skips
  <2>8. /\ pushed \in Call(made) /\ pushed.stages = stage.params /\ pushed.done = 0
        /\ pushed.in = Running.in /\ pushed.dest = Target(Running)
        /\ Multi(pushed) => pushed.out = ScratchB(n)
    BY <2>4, <2>5, <2>6, <2>7, NewCallIsCall
  <2>9. calls' = Append(calls, pushed)
    BY <2>1, <2>3, <2>7
  <2>10. InOrderOf(made, calls)
    BY DEF ComposeInv
  <2>11. InOrderOf(made, calls')
    <3>1. pushed.in = calls[n].in /\ pushed.dest = Target(calls[n]) /\ pushed.stages # <<>>
      BY <2>3, <2>4, <2>8
    <3> QED
      BY <2>2, <2>3, <2>8, <2>9, <2>10, <3>1, CallPushed
  <2> QED
    BY <1>1, <2>1, <2>11, TheRunning DEF ComposeInv, Stages
<1> QED
  BY <1>2, <1>3

LEMMA LeaveKeeps ==
  ASSUME NEW made, MadeOf(made), ComposeInv(made), LeaveNested
  PROVE  ComposeInv(made)'
<1>1. InOrderOf(made, calls) /\ calls # <<>>
  <2>1. Len(calls) > 1
    BY DEF LeaveNested
  <2> QED
    BY <2>1 DEF ComposeInv
<1>2. PICK n \in Nat : n = Len(calls) /\ n > 1
  BY <1>1, TheRunning DEF LeaveNested
<1>3. PICK shorter : shorter = Front(calls)
  OBVIOUS
<1>4. /\ InOrderOf(made, shorter) /\ Len(shorter) = n - 1
      /\ Unfinished(shorter[n - 1])
  BY <1>1, <1>2, <1>3, CallDropped
<1>5. n - 1 \in Nat /\ n - 1 > 0
  BY <1>2
<1>6. calls' = [shorter EXCEPT ![n - 1] = Advanced(shorter[n - 1], (n - 1) - 1)]
  BY <1>2, <1>3 DEF LeaveNested, Depth
<1>7. InOrderOf(made, calls')
  BY <1>4, <1>5, <1>6, LastAdvances
<1>8. UNCHANGED <<recipe, phase>>
  BY DEF LeaveNested
<1> QED
  BY <1>1, <1>7, <1>8, TheRunning DEF ComposeInv, Stages

-----------------------------------------------------------------------------
(***************************************************************************)
(* For all recipes, whatever they nest, and all texts: no stage reads the  *)
(* buffer it writes, none writes what a recipe around it still reads, and  *)
(* the caller's input is never written (ComposeTransform::advance and      *)
(* apply_stage_into).                                                      *)
(***************************************************************************)
THEOREM RecipesKeepApart ==
  ASSUME NEW made, MadeOf(made)
  PROVE  ComposeSpec => []BuffersApart
<1>1. ComposeInit => ComposeInv(made)
  <2> SUFFICES ASSUME ComposeInit PROVE ComposeInv(made)
    OBVIOUS
  <2>1. calls = <<>> /\ phase = "start" /\ recipe \in 1..Len(Recipes)
    BY DEF ComposeInit
  <2> QED
    BY <2>1, NoCallsInOrder DEF ComposeInv
<1>2. ComposeInv(made) /\ [ComposeNext]_composeVars => ComposeInv(made)'
  <2> SUFFICES ASSUME ComposeInv(made), [ComposeNext]_composeVars PROVE ComposeInv(made)'
    OBVIOUS
  <2>1. CASE ComposeStart
    <3>1. CASE Refuse
      BY <3>1, NoCallsInOrder DEF Refuse, ComposeInv, Stages
    <3>2. CASE ~Refuse
      <4>1. EntryOK(Stages, 0) /\ Outermost("encrypt", memory)
        BY <2>1, <3>2 DEF ComposeStart
      <4>2. Stages # <<>>
        BY <4>1 DEF EntryOK
      <4>3. InOrderOf(made, calls')
        BY <4>1, <4>2, OutermostInOrder DEF ComposeInv
      <4> QED
        BY <4>1, <4>2, <4>3 DEF Outermost, ComposeInv, Stages
    <3> QED
      BY <3>1, <3>2
  <2>2. CASE RunLeaf
    BY <2>2, LeafKeeps
  <2>3. CASE EnterNested
    BY <2>3, EnterKeeps
  <2>4. CASE LeaveNested
    BY <2>4, LeaveKeeps
  <2>5. CASE ComposeTurn
    <3>1. PICK mem : Outermost("decrypt", mem)
      BY <2>5 DEF ComposeTurn
    <3>2. Stages # <<>>
      <4>1. Len(calls) # 0
        BY <2>5 DEF ComposeTurn
      <4> QED
        BY <4>1 DEF ComposeInv
    <3>3. InOrderOf(made, calls')
      BY <3>1, <3>2, OutermostInOrder DEF ComposeInv
    <3> QED
      BY <3>1, <3>2, <3>3 DEF Outermost, ComposeInv, Stages
  <2>6. CASE ComposeFinish
    BY <2>6, NoCallsInOrder DEF ComposeFinish, ComposeInv
  <2>7. CASE UNCHANGED composeVars
    BY <2>7 DEF composeVars, ComposeInv, Stages
  <2> QED
    BY <2>1, <2>2, <2>3, <2>4, <2>5, <2>6, <2>7 DEF ComposeNext
<1>3. ComposeInv(made) => BuffersApart
  BY InPlaceIsApart DEF ComposeInv, InOrderOf, CallsInPlace
<1> QED
  BY <1>1, <1>2, <1>3, PTL DEF ComposeSpec

-----------------------------------------------------------------------------
(***************************************************************************)
(* A run as its configurations: the calls, and the text that the stage     *)
(* run last has made.                                                      *)
(***************************************************************************)
ReadsNext(call) == IF Unfinished(call) THEN call.in ELSE call.dest

Shown(running, mem) == mem[ReadsNext(running[Len(running)])]

Configuration == [calls |-> calls, text |-> Shown(calls, memory)]

\* The inner call runs the next stage of the outer one, at that depth.
RunsNext(outer, inner, depth) ==
  /\ NextStage(outer).kind = "compose"
  /\ inner.stages = NextStage(outer).params
  /\ inner.dir = StageDirection(NextStage(outer), outer.dir)
  /\ inner.skips = StageSkips(NextStage(outer), outer.skips, depth)

Entered(running) == \A k \in 1..(Len(running) - 1) : RunsNext(running[k], running[k + 1], k - 1)

\* later is the call after one more stage.
OneMore(call, later) ==
  /\ later.stages = call.stages /\ later.dir = call.dir /\ later.skips = call.skips
  /\ later.done = call.done + 1

AfterLeaf(a, b) ==
  LET n     == Len(a.calls)
      call  == a.calls[n]
      stage == NextStage(call)
      skips == StageSkips(stage, call.skips, n - 1) IN
    /\ Unfinished(call) /\ stage.kind # "compose"
    /\ Len(b.calls) = n /\ OneMore(call, b.calls[n])
    /\ \A k \in 1..(n - 1) : b.calls[k] = a.calls[k]
    /\ StageAccepts(stage, skips, a.text)
    /\ b.text = StageOutput(stage, StageDirection(stage, call.dir), skips, a.text)

AfterEnter(a, b) ==
  LET n == Len(a.calls) IN
    /\ Unfinished(a.calls[n])
    /\ Len(b.calls) = n + 1 /\ RunsNext(a.calls[n], b.calls[n + 1], n - 1)
    /\ b.calls[n + 1].done = 0
    /\ \A k \in 1..n : b.calls[k] = a.calls[k]
    /\ b.text = a.text

AfterLeave(a, b) ==
  LET n == Len(a.calls) IN
    /\ n > 1 /\ a.calls[n].done = Len(a.calls[n].stages) /\ RunsNext(a.calls[n - 1], a.calls[n], n - 2)
    /\ Unfinished(a.calls[n - 1])
    /\ Len(b.calls) = n - 1 /\ OneMore(a.calls[n - 1], b.calls[n - 1])
    /\ \A k \in 1..(n - 2) : b.calls[k] = a.calls[k]
    /\ b.text = a.text

OneStep(a, b) == AfterLeaf(a, b) \/ AfterEnter(a, b) \/ AfterLeave(a, b)

\* One run going forth where the other goes back: the same calls the other
\* way round, and what is left of one is done in the other, except the stage
\* that both are in.
Facing(x, y, both) ==
  /\ y.stages = x.stages /\ y.skips = x.skips /\ y.dir = Opposite(x.dir)
  /\ y.done + x.done + both = Len(x.stages)

Mirrors(a, b) ==
  LET n == Len(a.calls) IN
    /\ Len(b.calls) = n /\ b.text = a.text
    /\ \A k \in 1..n : Facing(a.calls[k], b.calls[k], IF k < n THEN 1 ELSE 0)

-----------------------------------------------------------------------------
(***************************************************************************)
(* The recipes, with parameters that their stages take.                    *)
(***************************************************************************)
Catalogued(made) ==
  MadeOf(made) /\ \A stage \in made : stage.kind # "compose" => Parametrised(stage)

Configurations(made, length) == [calls : Seq(Call(made)) \ {<<>>}, text : [1..length -> Index29]]

\* What the other run is about to do is what this one did last.
LEMMA SameStage ==
  ASSUME NEW made, NEW call \in Call(made), NEW later \in Call(made), NEW back \in Call(made),
         Unfinished(call), OneMore(call, later), Facing(later, back, 0)
  PROVE  NextStage(back) = NextStage(call) /\ Unfinished(back) /\ Facing(call, back, 1)
<1>1. PICK stages \in Seq(made) : /\ stages = call.stages /\ stages = later.stages
                                  /\ stages = back.stages
  BY DEF Call, OneMore, Facing
<1>2. PICK d \in Nat, e \in Nat, n \in Nat :
        d = call.done /\ e = back.done /\ n = Len(stages) /\ later.done = d + 1
  BY <1>1 DEF Call, OneMore
<1>3. e + (d + 1) = n /\ d < n
  BY <1>1, <1>2 DEF Unfinished, Facing
<1>4. e < n /\ n - d = e + 1 /\ n - e = d + 1 /\ e + d + 1 = n
  BY <1>3
<1>5. Facing(call, back, 1)
  BY <1>1, <1>2, <1>4 DEF Facing, OneMore
<1>6. CASE call.dir = "decrypt"
  <2>1. back.dir = "encrypt"
    BY <1>6 DEF OneMore, Opposite, Facing
  <2> QED
    BY <1>1, <1>2, <1>4, <1>5, <1>6, <2>1 DEF NextStage, Unfinished
<1>7. CASE call.dir = "encrypt"
  <2>1. back.dir = "decrypt"
    BY <1>7 DEF OneMore, Opposite, Facing
  <2> QED
    BY <1>1, <1>2, <1>4, <1>5, <1>7, <2>1 DEF NextStage, Unfinished
<1> QED
  BY <1>6, <1>7 DEF Call

LEMMA FacingAgain ==
  ASSUME NEW made, NEW call \in Call(made), NEW back \in Call(made), NEW after \in Call(made),
         Facing(call, back, 1), OneMore(back, after)
  PROVE  Facing(call, after, 0)
<1>1. PICK d \in Nat, e \in Nat, n \in Nat :
        d = call.done /\ e = back.done /\ n = Len(call.stages) /\ after.done = e + 1
  BY DEF Call, OneMore
<1>2. e + d + 1 = n
  BY <1>1 DEF Facing
<1>3. (e + 1) + d + 0 = n
  BY <1>2
<1> QED
  BY <1>1, <1>3 DEF Facing, OneMore

LEMMA OppositeStage ==
  ASSUME NEW stage, stage.direction \in {"default", "encrypt", "decrypt"},
         NEW dir \in {"encrypt", "decrypt"}
  PROVE  StageDirection(stage, Opposite(dir)) = Opposite(StageDirection(stage, dir))
BY DEF StageDirection, Opposite

(***************************************************************************)
(* A step back after a step forth: a stage is undone by the same stage,    *)
(* entering a recipe by leaving it and leaving it by entering it.          *)
(***************************************************************************)
LEMMA LeafMirrored ==
  ASSUME ~InPlace, NEW made, Catalogued(made), NEW length \in Nat,
         NEW a \in Configurations(made, length), NEW b \in Configurations(made, length),
         NEW c \in Configurations(made, length), NEW d \in Configurations(made, length),
         AfterLeaf(a, b), Mirrors(b, c), OneStep(c, d)
  PROVE  Mirrors(a, d)
<1>1. PICK n \in Nat : n = Len(a.calls) /\ n > 0 /\ n \in DOMAIN a.calls
  BY DEF Configurations
<1>2. Len(b.calls) = n /\ Len(c.calls) = n
  BY <1>1 DEF AfterLeaf, Mirrors
<1>3. PICK call \in Call(made) : call = a.calls[n]
  BY <1>1 DEF Configurations
<1>4. PICK later \in Call(made) : later = b.calls[n]
  BY <1>1, <1>2 DEF Configurations
<1>5. PICK back \in Call(made) : back = c.calls[n]
  BY <1>1, <1>2 DEF Configurations
<1>6. Unfinished(call) /\ OneMore(call, later) /\ Facing(later, back, 0)
  BY <1>1, <1>2, <1>3, <1>4, <1>5 DEF AfterLeaf, Mirrors
<1>7. NextStage(back) = NextStage(call) /\ Unfinished(back) /\ Facing(call, back, 1)
  BY <1>6, SameStage
<1>8. PICK stage \in made : stage = NextStage(call)
  BY <1>6, NextStageMade DEF Catalogued
<1>9. stage.kind # "compose"
  BY <1>1, <1>3, <1>8 DEF AfterLeaf
<1>10. AfterLeaf(c, d)
  <2>1. ~AfterEnter(c, d)
    BY <1>2, <1>5, <1>7, <1>8, <1>9 DEF AfterEnter, RunsNext
  <2>2. ~AfterLeave(c, d)
    <3>1. back.done # Len(back.stages)
      BY <1>7 DEF Unfinished, Call
    <3> QED
      BY <1>2, <1>5, <3>1 DEF AfterLeave
  <2> QED
    BY <2>1, <2>2 DEF OneStep
<1>11. PICK after \in Call(made) : after = d.calls[n] /\ OneMore(back, after) /\ Len(d.calls) = n
  <2>1. Len(d.calls) = n /\ OneMore(back, d.calls[n])
    BY <1>2, <1>5, <1>10 DEF AfterLeaf
  <2> QED
    BY <1>1, <2>1 DEF Configurations
<1>12. Facing(call, after, 0)
  BY <1>7, <1>11, FacingAgain
<1>13. d.text = a.text
  <2>1. PICK skips \in SUBSET Nat : skips = StageSkips(stage, call.skips, n - 1)
    BY <1>8, StageGivesCall DEF Call, Catalogued
  <2>2. PICK dir \in {"encrypt", "decrypt"} : dir = StageDirection(stage, call.dir)
    BY <1>8, StageGivesCall DEF Call, Catalogued
  <2>3. StageDirection(stage, back.dir) = Opposite(dir) /\ StageSkips(stage, back.skips, n - 1) = skips
    <3>1. back.dir = Opposite(call.dir) /\ back.skips = call.skips
      BY <1>7 DEF Facing
    <3>2. stage.direction \in {"default", "encrypt", "decrypt"} /\ call.dir \in {"encrypt", "decrypt"}
      BY DEF Catalogued, MadeOf, Call
    <3> QED
      BY <2>1, <2>2, <3>1, <3>2, OppositeStage
  <2>4. PICK text \in [1..length -> Index29] : text = a.text
    BY DEF Configurations
  <2>5. StageAccepts(stage, skips, text) /\ b.text = StageOutput(stage, dir, skips, text)
    BY <1>1, <1>3, <1>8, <2>1, <2>2, <2>4 DEF AfterLeaf
  <2>6. d.text = StageOutput(stage, Opposite(dir), skips, c.text)
    BY <1>2, <1>5, <1>7, <1>8, <1>10, <2>3 DEF AfterLeaf
  <2>7. c.text = b.text
    BY DEF Mirrors
  <2>8. Parametrised(stage)
    BY <1>9 DEF Catalogued
  <2>9. StageOutput(stage, Opposite(dir), skips, StageOutput(stage, dir, skips, text)) = text
    BY <2>5, <2>8, StageUndone
  <2> QED
    BY <2>4, <2>5, <2>6, <2>7, <2>9
<1>14. ASSUME NEW k \in 1..n
       PROVE  Facing(a.calls[k], d.calls[k], IF k < n THEN 1 ELSE 0)
  <2>1. CASE k = n
    BY <1>3, <1>11, <1>12, <2>1
  <2>2. CASE k # n
    <3>1. k \in 1..(n - 1) /\ k < n
      BY <2>2
    <3>2. b.calls[k] = a.calls[k] /\ d.calls[k] = c.calls[k]
      BY <1>1, <1>2, <1>10, <3>1 DEF AfterLeaf
    <3>3. Facing(b.calls[k], c.calls[k], 1)
      BY <1>2, <3>1 DEF Mirrors
    <3> QED
      BY <3>1, <3>2, <3>3
  <2> QED
    BY <2>1, <2>2
<1> QED
  BY <1>1, <1>11, <1>13, <1>14 DEF Mirrors

LEMMA EnterMirrored ==
  ASSUME NEW made, NEW length \in Nat,
         NEW a \in Configurations(made, length), NEW b \in Configurations(made, length),
         NEW c \in Configurations(made, length), NEW d \in Configurations(made, length),
         AfterEnter(a, b), Mirrors(b, c), OneStep(c, d)
  PROVE  Mirrors(a, d)
<1>1. PICK n \in Nat : n = Len(a.calls) /\ n > 0 /\ n \in DOMAIN a.calls
  BY DEF Configurations
<1>2. Len(b.calls) = n + 1 /\ Len(c.calls) = n + 1 /\ \A k \in 1..n : b.calls[k] = a.calls[k]
  BY <1>1 DEF AfterEnter, Mirrors
<1>3. n + 1 \in DOMAIN c.calls /\ n + 1 - 1 = n /\ n + 1 \in 1..(n + 1) /\ n + 1 > 1 /\ n + 1 - 2 = n - 1
  BY <1>1, <1>2 DEF Configurations
<1>4. PICK inner \in Call(made) : inner = c.calls[n + 1]
  BY <1>3 DEF Configurations
<1>5. ~Unfinished(inner)
  <2>1. Facing(b.calls[n + 1], inner, 0) /\ b.calls[n + 1].done = 0
    BY <1>1, <1>2, <1>3, <1>4 DEF Mirrors, AfterEnter
  <2>2. inner.done = Len(inner.stages)
    BY <2>1 DEF Facing, Call
  <2> QED
    BY <2>2 DEF Unfinished, Call
<1>6. AfterLeave(c, d)
  <2>1. ~AfterEnter(c, d) /\ ~AfterLeaf(c, d)
    BY <1>2, <1>4, <1>5 DEF AfterEnter, AfterLeaf
  <2> QED
    BY <2>1 DEF OneStep
<1>7. /\ Len(d.calls) = n /\ OneMore(c.calls[n], d.calls[n]) /\ d.text = c.text
      /\ \A k \in 1..(n - 1) : d.calls[k] = c.calls[k]
  BY <1>2, <1>3, <1>6 DEF AfterLeave
<1>8. \A k \in 1..n : Facing(a.calls[k], c.calls[k], 1)
  <2>1. \A k \in 1..n : k \in 1..(n + 1) /\ k < n + 1
    OBVIOUS
  <2>2. \A k \in 1..n : Facing(b.calls[k], c.calls[k], 1)
    BY <1>2, <2>1 DEF Mirrors
  <2> QED
    BY <1>2, <2>2
<1>9. Facing(a.calls[n], d.calls[n], 0)
  <2>1. PICK call \in Call(made) : call = a.calls[n]
    BY <1>1 DEF Configurations
  <2>2. PICK back \in Call(made) : back = c.calls[n]
    BY <1>1, <1>2 DEF Configurations
  <2>3. PICK after \in Call(made) : after = d.calls[n]
    BY <1>1, <1>7 DEF Configurations
  <2>4. Facing(call, back, 1) /\ OneMore(back, after)
    BY <1>1, <1>7, <1>8, <2>1, <2>2, <2>3
  <2> QED
    BY <2>1, <2>3, <2>4, FacingAgain
<1>10. ASSUME NEW k \in 1..n
       PROVE  Facing(a.calls[k], d.calls[k], IF k < n THEN 1 ELSE 0)
  <2>1. CASE k = n
    BY <1>9, <2>1
  <2>2. CASE k # n
    <3>1. k \in 1..(n - 1) /\ k < n
      BY <2>2
    <3> QED
      BY <1>7, <1>8, <3>1
  <2> QED
    BY <2>1, <2>2
<1>11. d.text = a.text
  BY <1>7 DEF Mirrors, AfterEnter
<1> QED
  BY <1>1, <1>7, <1>10, <1>11 DEF Mirrors

LEMMA LeaveMirrored ==
  ASSUME NEW made, Catalogued(made), NEW length \in Nat,
         NEW a \in Configurations(made, length), NEW b \in Configurations(made, length),
         NEW c \in Configurations(made, length), NEW d \in Configurations(made, length),
         AfterLeave(a, b), Mirrors(b, c), OneStep(c, d)
  PROVE  Mirrors(a, d)
<1>1. PICK n \in Nat : n + 1 = Len(a.calls) /\ n > 0 /\ n \in 1..n
  <2>1. Len(a.calls) \in Nat /\ Len(a.calls) > 1
    BY DEF Configurations, AfterLeave
  <2> QED
    BY <2>1
<1>2. n + 1 - 1 = n /\ n + 1 - 2 = n - 1 /\ n \in 1..(n + 1) /\ n + 1 \in 1..(n + 1)
  BY <1>1
<1>3. /\ Len(b.calls) = n /\ Len(c.calls) = n /\ b.text = a.text /\ c.text = b.text
      /\ \A k \in 1..(n - 1) : b.calls[k] = a.calls[k]
  BY <1>1, <1>2 DEF AfterLeave, Mirrors
<1>4. PICK call \in Call(made) : call = a.calls[n]
  BY <1>1, <1>2 DEF Configurations
<1>5. PICK inner \in Call(made) : inner = a.calls[n + 1]
  BY <1>1, <1>2 DEF Configurations
<1>6. PICK later \in Call(made) : later = b.calls[n]
  BY <1>1, <1>3 DEF Configurations
<1>7. PICK back \in Call(made) : back = c.calls[n]
  BY <1>1, <1>3 DEF Configurations
<1>8. /\ Unfinished(call) /\ OneMore(call, later) /\ Facing(later, back, 0)
      /\ RunsNext(call, inner, n - 1) /\ inner.done = Len(inner.stages)
  <2>1. Facing(later, back, 0)
    BY <1>1, <1>3, <1>6, <1>7 DEF Mirrors
  <2>2. Unfinished(call) /\ OneMore(call, later)
    <3>1. Len(a.calls) - 1 = n
      BY <1>1, <1>2
    <3>2. Unfinished(a.calls[n]) /\ OneMore(a.calls[n], b.calls[n])
      BY <3>1 DEF AfterLeave
    <3> QED
      BY <1>4, <1>6, <3>2
  <2>3. RunsNext(call, inner, n - 1) /\ inner.done = Len(inner.stages)
    BY <1>1, <1>2, <1>4, <1>5 DEF AfterLeave
  <2> QED
    BY <2>1, <2>2, <2>3
<1>9. NextStage(back) = NextStage(call) /\ Unfinished(back) /\ Facing(call, back, 1)
  BY <1>8, SameStage
<1>10. PICK stage \in made : stage = NextStage(call) /\ stage.kind = "compose"
  BY <1>8, NextStageMade DEF Catalogued, RunsNext
<1>11. AfterEnter(c, d)
  <2>1. ~AfterLeaf(c, d)
    BY <1>3, <1>7, <1>9, <1>10 DEF AfterLeaf
  <2>2. ~AfterLeave(c, d)
    <3>1. back.done # Len(back.stages)
      BY <1>9 DEF Unfinished, Call
    <3> QED
      BY <1>3, <1>7, <3>1 DEF AfterLeave
  <2> QED
    BY <2>1, <2>2 DEF OneStep
<1>12. /\ Len(d.calls) = n + 1 /\ d.text = c.text
       /\ \A k \in 1..n : d.calls[k] = c.calls[k]
  BY <1>3, <1>11 DEF AfterEnter
<1>13. PICK after \in Call(made) : after = d.calls[n + 1]
  BY <1>2, <1>12 DEF Configurations
<1>14. RunsNext(back, after, n - 1) /\ after.done = 0
  BY <1>3, <1>7, <1>11, <1>13 DEF AfterEnter
<1>15. Facing(inner, after, 0)
  <2>1. back.dir = Opposite(call.dir) /\ back.skips = call.skips
    BY <1>9 DEF Facing
  <2>2. StageDirection(stage, back.dir) = Opposite(StageDirection(stage, call.dir))
    <3>1. stage.direction \in {"default", "encrypt", "decrypt"} /\ call.dir \in {"encrypt", "decrypt"}
      BY DEF Catalogued, MadeOf, Call
    <3> QED
      BY <2>1, <3>1, OppositeStage
  <2>3. after.stages = inner.stages /\ after.skips = inner.skips /\ after.dir = Opposite(inner.dir)
    BY <1>8, <1>9, <1>10, <1>14, <2>1, <2>2 DEF RunsNext
  <2>4. after.done + inner.done + 0 = Len(inner.stages)
    BY <1>8, <1>14 DEF Call
  <2> QED
    BY <2>3, <2>4 DEF Facing
<1>16. ASSUME NEW k \in 1..(n + 1)
       PROVE  Facing(a.calls[k], d.calls[k], IF k < n + 1 THEN 1 ELSE 0)
  <2>1. CASE k = n + 1
    BY <1>5, <1>13, <1>15, <2>1
  <2>2. CASE k = n
    BY <1>1, <1>4, <1>7, <1>9, <1>12, <2>2
  <2>3. CASE k # n /\ k # n + 1
    <3>1. k \in 1..(n - 1) /\ k \in 1..n /\ k < n /\ k < n + 1
      BY <2>3
    <3>2. b.calls[k] = a.calls[k] /\ d.calls[k] = c.calls[k]
      BY <1>3, <1>12, <3>1
    <3>3. Facing(b.calls[k], c.calls[k], 1)
      BY <1>3, <3>1 DEF Mirrors
    <3> QED
      BY <3>1, <3>2, <3>3
  <2> QED
    BY <2>1, <2>2, <2>3
<1> QED
  BY <1>1, <1>3, <1>12, <1>16 DEF Mirrors

LEMMA StepMirrored ==
  ASSUME ~InPlace, NEW made, Catalogued(made), NEW length \in Nat,
         NEW a \in Configurations(made, length), NEW b \in Configurations(made, length),
         NEW c \in Configurations(made, length), NEW d \in Configurations(made, length),
         OneStep(a, b), Mirrors(b, c), OneStep(c, d)
  PROVE  Mirrors(a, d)
BY LeafMirrored, EnterMirrored, LeaveMirrored DEF OneStep

-----------------------------------------------------------------------------
(***************************************************************************)
(* What a call has made of the text is where it is read next, and every    *)
(* buffer that is read or written is there.                                *)
(***************************************************************************)
Buffered(running, mem) ==
  \A k \in DOMAIN running :
    /\ running[k].in \in DOMAIN mem /\ running[k].dest \in DOMAIN mem
    /\ Unfinished(running[k]) => Target(running[k]) \in DOMAIN mem
    /\ Multi(running[k]) => {ScratchA(k - 1), ScratchB(k - 1)} \subseteq DOMAIN mem

LEMMA AdvancedReads ==
  ASSUME NEW made, NEW call \in Call(made), NEW depth \in Nat, Unfinished(call),
         IF call.done = 0 THEN AtFirst(call, depth) ELSE Paired(call, depth)
  PROVE  /\ OneMore(call, Advanced(call, depth))
         /\ ReadsNext(Advanced(call, depth)) = Target(call)
         /\ Advanced(call, depth).in \in {call.in, Target(call)}
         /\ Multi(Advanced(call, depth)) = Multi(call)
         /\ Unfinished(Advanced(call, depth)) =>
              /\ Multi(call)
              /\ Target(Advanced(call, depth)) \in {call.dest, ScratchA(depth), ScratchB(depth)}
<1>1. PICK n \in Nat, d \in Nat : n = Len(call.stages) /\ d = call.done /\ d < n
  BY DEF Call, Unfinished
<1>2. CASE IsLast(call)
  <2>1. PICK next : next = Advanced(call, depth) /\ next = [call EXCEPT !.done = @ + 1]
    BY <1>2 DEF Advanced
  <2>2. /\ next.stages = call.stages /\ next.dir = call.dir /\ next.skips = call.skips
        /\ next.done = d + 1 /\ next.in = call.in /\ next.dest = call.dest
    BY <1>1, <2>1 DEF Call
  <2>3. d + 1 = n
    BY <1>1, <1>2 DEF IsLast
  <2>4. ~Unfinished(next)
    BY <1>1, <2>2, <2>3 DEF Unfinished
  <2> QED
    BY <1>1, <1>2, <2>1, <2>2, <2>4 DEF OneMore, ReadsNext, Target, Multi
<1>3. CASE ~IsLast(call)
  <2>1. d + 1 < n /\ n > 1
    <3>1. d + 1 # n
      BY <1>1, <1>3 DEF IsLast
    <3> QED
      BY <1>1, <3>1
  <2>2. call.out \in {ScratchA(depth), ScratchB(depth)}
    BY <1>1, <2>1 DEF AtFirst, Paired, Multi
  <2>3. PICK next : /\ next = Advanced(call, depth)
                    /\ next = [call EXCEPT !.done = @ + 1,
                        !.in  = IF call.out = ScratchB(depth) THEN ScratchB(depth) ELSE ScratchA(depth),
                        !.out = IF call.out = ScratchB(depth) THEN ScratchA(depth) ELSE ScratchB(depth)]
    BY <1>3 DEF Advanced
  <2>4. /\ next.stages = call.stages /\ next.dir = call.dir /\ next.skips = call.skips
        /\ next.done = d + 1 /\ next.dest = call.dest
        /\ next.in = call.out /\ next.out \in {ScratchA(depth), ScratchB(depth)}
    BY <1>1, <2>2, <2>3 DEF Call
  <2>5. Unfinished(next)
    BY <1>1, <2>1, <2>4 DEF Unfinished
  <2> QED
    BY <1>1, <1>3, <2>1, <2>3, <2>4, <2>5 DEF OneMore, ReadsNext, Target, Multi
<1> QED
  BY <1>2, <1>3

LastAdvanced(running, next, n) ==
  /\ n = Len(running) /\ n > 0 /\ Unfinished(running[n])
  /\ next = [running EXCEPT ![n] = Advanced(running[n], n - 1)]

SameBuffers(mem, mem2) == DOMAIN mem2 = DOMAIN mem

LEMMA BufferedAdvance ==
  ASSUME NEW made, NEW running, InOrderOf(made, running), NEW n \in Nat, NEW next,
         LastAdvanced(running, next, n), NEW mem, NEW mem2,
         Buffered(running, mem), SameBuffers(mem, mem2)
  PROVE  /\ Buffered(next, mem2) /\ Len(next) = n
         /\ OneMore(running[n], next[n]) /\ ReadsNext(next[n]) = Target(running[n])
         /\ \A k \in 1..n : k # n => next[k] = running[k]
<1> USE DEF LastAdvanced, SameBuffers
<1>1. n \in DOMAIN running /\ n - 1 \in Nat /\ running[n] \in Call(made)
      /\ running \in Seq(Call(made)) /\ DOMAIN running = 1..n
  BY DEF InOrderOf
<1>2. IF running[n].done = 0 THEN AtFirst(running[n], n - 1) ELSE Paired(running[n], n - 1)
  BY <1>1 DEF InOrderOf, WellNested
<1>3. PICK last : last = Advanced(running[n], n - 1)
  OBVIOUS
<1>4. /\ OneMore(running[n], last) /\ ReadsNext(last) = Target(running[n])
      /\ last.in \in {running[n].in, Target(running[n])}
      /\ Multi(last) = Multi(running[n])
      /\ Unfinished(last) =>
           Multi(running[n]) /\ Target(last) \in {running[n].dest, ScratchA(n - 1), ScratchB(n - 1)}
  BY <1>1, <1>2, <1>3, AdvancedReads
<1>5. last.dest = running[n].dest
  BY <1>1, <1>2, <1>3, CallAdvances
<1>6. /\ DOMAIN next = 1..n /\ Len(next) = n /\ next[n] = last
      /\ \A k \in 1..n : k # n => next[k] = running[k]
  BY <1>1, <1>3
<1>7. /\ last.in \in DOMAIN mem2 /\ last.dest \in DOMAIN mem2
      /\ Unfinished(last) => Target(last) \in DOMAIN mem2
      /\ Multi(last) => {ScratchA(n - 1), ScratchB(n - 1)} \subseteq DOMAIN mem2
  BY <1>1, <1>4, <1>5 DEF Buffered
<1>8. Buffered(next, mem2)
  BY <1>1, <1>6, <1>7 DEF Buffered
<1> QED
  BY <1>4, <1>6, <1>8

(***************************************************************************)
(* What is true of a run while it has calls.                               *)
(***************************************************************************)
WellRun(made) ==
  /\ ComposeInv(made) /\ calls # <<>> /\ Buffered(calls, memory) /\ Entered(calls)
  /\ calls[1].stages = Stages /\ calls[1].skips = Recipes[recipe].skips /\ calls[1].dir = phase
  /\ message \in Seq(Index29)
  /\ Shown(calls, memory) \in [1..Len(message) -> Index29]

LEMMA RunConfigured ==
  ASSUME NEW made, WellRun(made)
  PROVE  /\ Len(message) \in Nat
         /\ Configuration \in Configurations(made, Len(message))
         /\ Configuration.calls = calls /\ Configuration.text = Shown(calls, memory)
         /\ InOrderOf(made, calls) /\ Len(calls) \in Nat /\ Len(calls) > 0
BY DEF WellRun, ComposeInv, InOrderOf, Configuration, Configurations

\* After a step that keeps the outermost call and the text's length.
LEMMA WellRunAgain ==
  ASSUME NEW made, WellRun(made), ComposeInv(made)', UNCHANGED <<recipe, message, phase>>,
         NEW n \in Nat, n = Len(calls'), n > 0,
         Buffered(calls', memory'), Entered(calls'), OneMore(calls[1], calls'[1]) \/ calls'[1] = calls[1],
         Shown(calls', memory') \in [1..Len(message) -> Index29]
  PROVE  WellRun(made)'
<1>1. calls' # <<>>
  OBVIOUS
<1> QED
  BY <1>1 DEF WellRun, OneMore, Stages

LEMMA LeafForth ==
  ASSUME ~InPlace, NEW made, Catalogued(made), WellRun(made), RunLeaf, ~Refuse
  PROVE  AfterLeaf(Configuration, Configuration') /\ WellRun(made)'
<1>1. PICK n \in Nat : n = Len(calls) /\ n > 0 /\ Running = calls[n] /\ Depth = n - 1 /\ n \in DOMAIN calls
  BY RunConfigured DEF Running, Depth, WellRun, ComposeInv, InOrderOf
<1>2. PICK call \in Call(made) : call = calls[n]
  BY <1>1, RunConfigured DEF InOrderOf
<1>3. PICK stage : stage = NextStage(call)
  OBVIOUS
<1>4. PICK skips : skips = StageSkips(stage, call.skips, n - 1)
  OBVIOUS
<1>5. PICK text : text = memory[call.in]
  OBVIOUS
<1>6. PICK made2 : made2 = StageOutput(stage, StageDirection(stage, call.dir), skips, text)
  OBVIOUS
<1>7. /\ Unfinished(call) /\ stage.kind # "compose" /\ StageAccepts(stage, skips, text)
      /\ memory' = [memory EXCEPT ![Target(call)] = made2]
      /\ calls' = [calls EXCEPT ![n] = Advanced(call, n - 1)]
      /\ UNCHANGED <<recipe, message, phase>>
  BY <1>1, <1>2, <1>3, <1>4, <1>5, <1>6 DEF RunLeaf, Unfinished
<1>8. InOrderOf(made, calls) /\ Buffered(calls, memory) /\ DOMAIN memory' = DOMAIN memory
  BY <1>7, RunConfigured DEF WellRun
<1>9. PICK next : next = calls' /\ next = [calls EXCEPT ![n] = Advanced(calls[n], n - 1)]
  BY <1>2, <1>7
<1>10. /\ Buffered(next, memory') /\ Len(next) = n
       /\ OneMore(call, next[n]) /\ ReadsNext(next[n]) = Target(call)
       /\ \A k \in 1..n : k # n => next[k] = calls[k]
  <2>1. LastAdvanced(calls, next, n)
    BY <1>1, <1>2, <1>7, <1>9 DEF LastAdvanced
  <2>2. SameBuffers(memory, memory')
    BY <1>8 DEF SameBuffers
  <2>3. /\ Buffered(next, memory') /\ Len(next) = n
        /\ OneMore(calls[n], next[n]) /\ ReadsNext(next[n]) = Target(calls[n])
        /\ \A k \in 1..n : k # n => next[k] = calls[k]
    BY <1>8, <2>1, <2>2, BufferedAdvance
  <2> QED
    BY <1>2, <2>3
<1>11. Shown(calls, memory) = text
  BY <1>1, <1>2, <1>5, <1>7 DEF Shown, ReadsNext
<1>12. Shown(next, memory') = made2
  <2>1. Target(call) \in DOMAIN memory
    BY <1>1, <1>2, <1>7, <1>8 DEF Buffered
  <2> QED
    BY <1>7, <1>10, <2>1 DEF Shown
<1>13. made2 \in [1..Len(message) -> Index29]
  <2>1. stage \in made /\ Parametrised(stage)
    BY <1>3, <1>7, NextStageMade DEF Catalogued
  <2>2. PICK dir \in {"encrypt", "decrypt"} : dir = StageDirection(stage, call.dir)
    BY <2>1, StageGivesCall DEF Catalogued, Call
  <2>3. skips \in SUBSET Nat
    BY <1>4, <2>1, StageGivesCall DEF Catalogued, Call
  <2>4. text \in [1..Len(message) -> Index29] /\ Len(message) \in Nat
    BY <1>11, RunConfigured DEF WellRun
  <2> QED
    BY <1>6, <1>7, <2>1, <2>2, <2>3, <2>4, StageUndone
<1>14. AfterLeaf(Configuration, Configuration')
  <2>1. /\ Configuration.calls = calls /\ Configuration.text = text
        /\ Configuration'.calls = next /\ Configuration'.text = made2
    BY <1>9, <1>11, <1>12 DEF Configuration
  <2>2. \A k \in 1..(n - 1) : next[k] = calls[k]
    BY <1>1, <1>10
  <2> QED
    BY <1>1, <1>2, <1>3, <1>4, <1>6, <1>7, <1>10, <2>1, <2>2 DEF AfterLeaf
<1>15. Entered(next)
  <2>1. ASSUME NEW k \in 1..(n - 1) PROVE RunsNext(next[k], next[k + 1], k - 1)
    <3>1. next[k] = calls[k] /\ RunsNext(calls[k], calls[k + 1], k - 1)
      BY <1>1, <1>10 DEF WellRun, Entered
    <3>2. OneMore(calls[k + 1], next[k + 1]) \/ next[k + 1] = calls[k + 1]
      BY <1>1, <1>2, <1>10
    <3> QED
      BY <3>1, <3>2 DEF RunsNext, OneMore
  <2> QED
    BY <1>10, <2>1 DEF Entered
<1>16. ComposeInv(made)'
  BY LeafKeeps DEF WellRun, Catalogued
<1>17. OneMore(calls[1], next[1]) \/ next[1] = calls[1]
  BY <1>1, <1>2, <1>10
<1>18. WellRun(made)'
  BY <1>1, <1>7, <1>9, <1>10, <1>12, <1>13, <1>15, <1>16, <1>17, WellRunAgain
<1> QED
  BY <1>14, <1>18

LEMMA LeaveForth ==
  ASSUME NEW made, Catalogued(made), WellRun(made), LeaveNested
  PROVE  AfterLeave(Configuration, Configuration') /\ WellRun(made)'
<1>1. PICK n \in Nat : n + 1 = Len(calls) /\ n > 0 /\ n \in Nat
  <2>1. Len(calls) \in Nat /\ Len(calls) > 1
    BY RunConfigured DEF LeaveNested
  <2>2. PICK l \in Nat : l = Len(calls) /\ l > 1
    BY <2>1
  <2> QED
    BY <2>2
<1>2. /\ Running = calls[n + 1] /\ Depth = n /\ n \in DOMAIN calls /\ n + 1 \in DOMAIN calls
      /\ n + 1 - 1 = n /\ n + 1 - 2 = n - 1
  BY <1>1, RunConfigured DEF Running, Depth, InOrderOf
<1>3. /\ InOrderOf(made, calls) /\ calls \in Seq(Call(made)) /\ Buffered(calls, memory)
      /\ Entered(calls)
  BY RunConfigured DEF WellRun, InOrderOf
<1>4. PICK shorter : shorter = Front(calls)
  OBVIOUS
<1>5. /\ InOrderOf(made, shorter) /\ Len(shorter) = n /\ shorter[n] = calls[n]
      /\ Unfinished(shorter[n])
  BY <1>1, <1>2, <1>3, <1>4, CallDropped
<1>6. shorter \in Seq(Call(made)) /\ DOMAIN shorter = 1..n /\ \A k \in 1..n : shorter[k] = calls[k]
  BY <1>1, <1>3, <1>4 DEF Front
<1>7. Buffered(shorter, memory)
  BY <1>1, <1>3, <1>6 DEF Buffered
<1>8. PICK next : next = calls' /\ LastAdvanced(shorter, next, n)
  <2>1. calls' = [shorter EXCEPT ![n] = Advanced(shorter[n], n - 1)]
    BY <1>2, <1>4 DEF LeaveNested
  <2> QED
    BY <1>1, <1>5, <2>1 DEF LastAdvanced
<1>9. memory' = memory /\ UNCHANGED <<recipe, message, phase>>
  BY DEF LeaveNested
<1>10. /\ Buffered(next, memory) /\ Len(next) = n
       /\ OneMore(shorter[n], next[n]) /\ ReadsNext(next[n]) = Target(shorter[n])
       /\ \A k \in 1..n : k # n => next[k] = shorter[k]
  <2>1. SameBuffers(memory, memory)
    BY DEF SameBuffers
  <2> QED
    BY <1>5, <1>7, <1>8, <2>1, BufferedAdvance
<1>11. calls[n + 1].done = Len(calls[n + 1].stages) /\ ~Unfinished(calls[n + 1])
  <2>1. calls[n + 1].done = Len(calls[n + 1].stages)
    BY <1>2 DEF LeaveNested
  <2>2. calls[n + 1] \in Call(made)
    BY <1>2, <1>3
  <2> QED
    BY <2>1, <2>2 DEF Unfinished, Call
<1>12. Shown(next, memory') = Shown(calls, memory)
  <2>1. calls[n + 1].dest = Target(calls[n])
    BY <1>1, <1>2, <1>3 DEF InOrderOf, WellNested
  <2>2. Shown(calls, memory) = memory[Target(calls[n])]
    BY <1>1, <1>11, <2>1 DEF Shown, ReadsNext
  <2>3. Shown(next, memory) = memory[Target(calls[n])]
    BY <1>5, <1>10 DEF Shown
  <2> QED
    BY <1>9, <2>2, <2>3
<1>13. AfterLeave(Configuration, Configuration')
  <2>1. /\ Configuration.calls = calls /\ Configuration.text = Shown(calls, memory)
        /\ Configuration'.calls = next /\ Configuration'.text = Shown(calls, memory)
    BY <1>8, <1>12 DEF Configuration
  <2>2. \A k \in 1..(n - 1) : next[k] = calls[k]
    BY <1>1, <1>6, <1>10
  <2>3. RunsNext(calls[n], calls[n + 1], n - 1)
    BY <1>1, <1>2, <1>3 DEF Entered
  <2>4. n + 1 > 1 /\ Unfinished(calls[n]) /\ OneMore(calls[n], next[n])
    BY <1>1, <1>5, <1>10
  <2> QED
    BY <1>1, <1>2, <1>10, <1>11, <2>1, <2>2, <2>3, <2>4 DEF AfterLeave
<1>14. Entered(next)
  <2>1. ASSUME NEW k \in 1..(n - 1) PROVE RunsNext(next[k], next[k + 1], k - 1)
    <3>1. k \in 1..n /\ k # n /\ k + 1 \in 1..n /\ k \in 1..(Len(calls) - 1)
      BY <1>1
    <3>2. next[k] = calls[k] /\ RunsNext(calls[k], calls[k + 1], k - 1)
      BY <1>3, <1>6, <1>10, <3>1 DEF Entered
    <3>3. OneMore(calls[k + 1], next[k + 1]) \/ next[k + 1] = calls[k + 1]
      BY <1>5, <1>6, <1>10, <3>1
    <3> QED
      BY <3>2, <3>3 DEF RunsNext, OneMore
  <2> QED
    BY <1>10, <2>1 DEF Entered
<1>15. ComposeInv(made)'
  BY LeaveKeeps DEF WellRun, Catalogued
<1>16. OneMore(calls[1], next[1]) \/ next[1] = calls[1]
  BY <1>1, <1>5, <1>6, <1>10
<1>17. Shown(next, memory') \in [1..Len(message) -> Index29]
  BY <1>12 DEF WellRun
<1>18. WellRun(made)'
  BY <1>1, <1>8, <1>9, <1>10, <1>14, <1>15, <1>16, <1>17, WellRunAgain
<1> QED
  BY <1>13, <1>18

\* The scratch buffers of a new call, over those there were.
LEMMA ScratchMade ==
  ASSUME NEW mem, NEW stages, NEW in, NEW depth \in Nat
  PROVE  /\ DOMAIN mem \subseteq DOMAIN WithScratch(mem, stages, in, depth)
         /\ Len(stages) > 1 =>
              {ScratchA(depth), ScratchB(depth)} \subseteq DOMAIN WithScratch(mem, stages, in, depth)
         /\ \A b \in DOMAIN mem : b \notin {ScratchA(depth), ScratchB(depth)} =>
              WithScratch(mem, stages, in, depth)[b] = mem[b]
<1>1. CASE Len(stages) > 1
  <2>1. PICK once : once = WithBuffer(mem, ScratchA(depth), mem[in])
    OBVIOUS
  <2>2. PICK twice : twice = WithBuffer(once, ScratchB(depth), Zeros(Len(message)))
    OBVIOUS
  <2>3. WithScratch(mem, stages, in, depth) = twice
    BY <1>1, <2>1, <2>2 DEF WithScratch
  <2>4. /\ DOMAIN once = DOMAIN mem \cup {ScratchA(depth)}
        /\ \A b \in DOMAIN mem : b # ScratchA(depth) => once[b] = mem[b]
    BY <2>1 DEF WithBuffer
  <2>5. /\ DOMAIN twice = DOMAIN once \cup {ScratchB(depth)}
        /\ \A b \in DOMAIN once : b # ScratchB(depth) => twice[b] = once[b]
    BY <2>2 DEF WithBuffer
  <2> QED
    BY <2>3, <2>4, <2>5
<1>2. CASE ~(Len(stages) > 1)
  BY <1>2 DEF WithScratch
<1> QED
  BY <1>1, <1>2

LEMMA EnterForth ==
  ASSUME NEW made, Catalogued(made), WellRun(made), EnterNested, ~Refuse
  PROVE  AfterEnter(Configuration, Configuration') /\ WellRun(made)'
<1>1. PICK n \in Nat : n = Len(calls) /\ n > 0 /\ Running = calls[n] /\ Depth = n - 1 /\ n \in DOMAIN calls
  BY RunConfigured DEF Running, Depth, InOrderOf
<1>2. PICK call \in Call(made) : call = calls[n]
  BY <1>1, RunConfigured DEF InOrderOf
<1>3. PICK stage : stage = NextStage(call)
  OBVIOUS
<1>4. PICK pushed : pushed = NewCall(stage.params, StageDirection(stage, call.dir),
                                     StageSkips(stage, call.skips, n - 1), call.in, Target(call), n)
  OBVIOUS
<1>5. /\ Unfinished(call) /\ stage.kind = "compose" /\ stage.params # <<>>
      /\ memory' = WithScratch(memory, stage.params, call.in, n)
      /\ calls' = Append(calls, pushed)
      /\ UNCHANGED <<recipe, message, phase>>
  <2>1. Depth + 1 = n
    BY <1>1
  <2> QED
    BY <1>1, <1>2, <1>3, <1>4, <2>1 DEF EnterNested, Unfinished, EntryOK
<1>6. /\ InOrderOf(made, calls) /\ calls \in Seq(Call(made)) /\ Buffered(calls, memory)
      /\ Entered(calls)
  BY RunConfigured DEF WellRun, InOrderOf
<1>7. PICK next : next = calls' /\ next = Append(calls, pushed)
  BY <1>5
<1>8. /\ Len(next) = n + 1 /\ DOMAIN next = 1..(n + 1) /\ next[n + 1] = pushed
      /\ \A k \in 1..n : next[k] = calls[k]
  BY <1>1, <1>6, <1>7
<1>9. /\ pushed.stages = stage.params /\ pushed.dir = StageDirection(stage, call.dir)
      /\ pushed.skips = StageSkips(stage, call.skips, n - 1) /\ pushed.done = 0
      /\ pushed.in = call.in /\ pushed.dest = Target(call)
      /\ Multi(pushed) => pushed.out = ScratchB(n)
  BY <1>4 DEF NewCall, Multi
<1>10. Unfinished(pushed) /\ (~IsLast(pushed) => Multi(pushed))
  <2>1. stage \in made
    BY <1>3, <1>5, NextStageMade DEF Catalogued
  <2>2. stage.params \in Seq(made)
    BY <1>5, <2>1 DEF Catalogued, MadeOf
  <2>3. PICK l \in Nat : l = Len(pushed.stages) /\ l # 0
    BY <1>5, <1>9, <2>2
  <2>4. l \in Nat /\ l # 0
    BY <2>3
  <2>5. 0 < l /\ (0 + 1 # l => l > 1)
    BY ONLY <2>4
  <2> QED
    BY <1>9, <2>3, <2>5 DEF Unfinished, IsLast, Multi
<1>11. PICK mem2 : mem2 = memory'
  OBVIOUS
<1>12. /\ DOMAIN memory \subseteq DOMAIN mem2
       /\ Len(stage.params) > 1 => {ScratchA(n), ScratchB(n)} \subseteq DOMAIN mem2
       /\ \A b \in DOMAIN memory : b \notin {ScratchA(n), ScratchB(n)} => mem2[b] = memory[b]
  BY <1>5, <1>11, ScratchMade
<1>13. call.in \in DOMAIN memory /\ Target(call) \in DOMAIN memory
  BY <1>1, <1>2, <1>5, <1>6 DEF Buffered
<1>14. call.in \notin {ScratchA(n), ScratchB(n)}
  <2>1. call.in \in {InBuffer} \cup ScratchTo(n - 1)
    BY <1>1, <1>2, <1>6 DEF InOrderOf, WellNested
  <2>2. n - 1 \in Int /\ n - 1 < n
    OBVIOUS
  <2> QED
    BY <2>1, <2>2, BuffersDiffer
<1>15. Buffered(next, mem2)
  <2>1. ASSUME NEW k \in 1..n
        PROVE  /\ next[k].in \in DOMAIN mem2 /\ next[k].dest \in DOMAIN mem2
               /\ Unfinished(next[k]) => Target(next[k]) \in DOMAIN mem2
               /\ Multi(next[k]) => {ScratchA(k - 1), ScratchB(k - 1)} \subseteq DOMAIN mem2
    <3>1. next[k] = calls[k] /\ k \in DOMAIN calls
      BY <1>1, <1>6, <1>8
    <3> QED
      BY <1>6, <1>12, <3>1 DEF Buffered
  <2>2. /\ pushed.in \in DOMAIN mem2 /\ pushed.dest \in DOMAIN mem2
        /\ Multi(pushed) => {ScratchA(n), ScratchB(n)} \subseteq DOMAIN mem2
    BY <1>9, <1>12, <1>13 DEF Multi
  <2>3. Target(pushed) \in DOMAIN mem2
    BY <1>9, <1>10, <2>2 DEF Target
  <2>4. \A k \in 1..(n + 1) : k \in 1..n \/ k = n + 1
    OBVIOUS
  <2>5. n + 1 - 1 = n
    OBVIOUS
  <2> QED
    BY <1>8, <2>1, <2>2, <2>3, <2>4, <2>5 DEF Buffered
<1>16. Shown(next, mem2) = Shown(calls, memory)
  <2>1. Shown(next, mem2) = mem2[call.in]
    BY <1>8, <1>9, <1>10 DEF Shown, ReadsNext
  <2>2. Shown(calls, memory) = memory[call.in]
    BY <1>1, <1>2, <1>5 DEF Shown, ReadsNext
  <2> QED
    BY <1>12, <1>13, <1>14, <2>1, <2>2
<1>17. RunsNext(call, pushed, n - 1)
  BY <1>3, <1>5, <1>9 DEF RunsNext
<1>18. AfterEnter(Configuration, Configuration')
  <2>1. /\ Configuration.calls = calls /\ Configuration.text = Shown(calls, memory)
        /\ Configuration'.calls = next /\ Configuration'.text = Shown(calls, memory)
    BY <1>7, <1>11, <1>16 DEF Configuration
  <2> QED
    BY <1>1, <1>2, <1>5, <1>8, <1>9, <1>17, <2>1 DEF AfterEnter
<1>19. Entered(next)
  <2>1. ASSUME NEW k \in 1..n PROVE RunsNext(next[k], next[k + 1], k - 1)
    <3>1. CASE k = n
      BY <1>2, <1>8, <1>17, <3>1
    <3>2. CASE k # n
      <4>1. k + 1 \in 1..n /\ k \in 1..(n - 1)
        BY <3>2
      <4> QED
        BY <1>1, <1>6, <1>8, <4>1 DEF Entered
    <3> QED
      BY <3>1, <3>2
  <2>2. Len(next) - 1 = n
    BY <1>8
  <2> QED
    BY <2>1, <2>2 DEF Entered
<1>20. ComposeInv(made)'
  BY EnterKeeps DEF WellRun, Catalogued
<1>21. WellRun(made)'
  <2>1. next[1] = calls[1] /\ n + 1 \in Nat /\ n + 1 > 0
    BY <1>1, <1>8
  <2>2. Shown(next, mem2) \in [1..Len(message) -> Index29]
    BY <1>16 DEF WellRun
  <2> QED
    BY <1>5, <1>7, <1>8, <1>11, <1>15, <1>19, <1>20, <2>1, <2>2, WellRunAgain
<1> QED
  BY <1>18, <1>21

-----------------------------------------------------------------------------
(***************************************************************************)
(* The encryption's configurations, one after the other from the start.    *)
(***************************************************************************)
AtStart(config) == Len(config.calls) = 1 /\ config.calls[1].done = 0

Trail(made, trail, m) ==
  /\ \A j \in 0..m : trail[j] \in Configurations(made, Len(message))
  /\ AtStart(trail[0]) /\ trail[0].text = message
  /\ \A j \in 1..m : OneStep(trail[j - 1], trail[j])

\* Nothing leads back to the start.
LEMMA NoStepToStart ==
  ASSUME NEW made, NEW length, NEW a \in Configurations(made, length), NEW b, OneStep(a, b)
  PROVE  ~AtStart(b)
<1>1. PICK n \in Nat : n = Len(a.calls) /\ n > 0
  BY DEF Configurations
<1>2. \A k \in 1..n : a.calls[k] \in Call(made)
  BY <1>1 DEF Configurations
<1>3. ASSUME NEW k \in 1..n, OneMore(a.calls[k], b.calls[k]) PROVE b.calls[k].done # 0
  <2>1. PICK d \in Nat : d = a.calls[k].done
    BY <1>2 DEF Call
  <2> QED
    BY <1>3, <2>1 DEF OneMore
<1>4. CASE AfterLeaf(a, b)
  BY <1>1, <1>3, <1>4 DEF AfterLeaf, AtStart
<1>5. CASE AfterEnter(a, b)
  BY <1>1, <1>5 DEF AfterEnter, AtStart
<1>6. CASE AfterLeave(a, b)
  <2>1. n > 1 /\ Len(b.calls) = n - 1 /\ OneMore(a.calls[n - 1], b.calls[n - 1])
    BY <1>1, <1>6 DEF AfterLeave
  <2>2. n - 1 \in 1..n
    BY <2>1
  <2> QED
    BY <1>3, <2>1, <2>2 DEF AtStart
<1> QED
  BY <1>4, <1>5, <1>6 DEF OneStep

LEMMA TrailEnds ==
  ASSUME NEW made, NEW trail, NEW m \in Nat, Trail(made, trail, m), AtStart(trail[m])
  PROVE  m = 0
<1>1. ASSUME m # 0 PROVE FALSE
  <2>1. m \in 1..m /\ m - 1 \in 0..m
    BY <1>1
  <2>2. OneStep(trail[m - 1], trail[m]) /\ trail[m - 1] \in Configurations(made, Len(message))
    BY <2>1 DEF Trail
  <2> QED
    BY <2>2, NoStepToStart
<1> QED
  BY <1>1

LEMMA TrailGrows ==
  ASSUME NEW made, NEW trail, NEW m \in Nat, Trail(made, trail, m),
         NEW config \in Configurations(made, Len(message)), OneStep(trail[m], config)
  PROVE  \E longer : Trail(made, longer, m + 1) /\ longer[m + 1] = config
<1>1. PICK longer : longer = [j \in 0..(m + 1) |-> IF j <= m THEN trail[j] ELSE config]
  OBVIOUS
<1>2. longer[m + 1] = config /\ \A j \in 0..m : longer[j] = trail[j]
  BY <1>1
<1>3. ASSUME NEW j \in 0..(m + 1) PROVE longer[j] \in Configurations(made, Len(message))
  <2>1. j \in 0..m \/ j = m + 1
    OBVIOUS
  <2> QED
    BY <1>2, <2>1 DEF Trail
<1>4. ASSUME NEW j \in 1..(m + 1) PROVE OneStep(longer[j - 1], longer[j])
  <2>1. CASE j = m + 1
    <3>1. j - 1 = m /\ m \in 0..m
      BY <2>1
    <3> QED
      BY <1>2, <2>1, <3>1
  <2>2. CASE j # m + 1
    <3>1. j \in 1..m /\ j \in 0..m /\ j - 1 \in 0..m
      BY <2>2
    <3> QED
      BY <1>2, <3>1 DEF Trail
  <2> QED
    BY <2>1, <2>2
<1>5. longer[0] = trail[0]
  BY <1>2
<1> QED
  BY <1>2, <1>3, <1>4, <1>5 DEF Trail

LEMMA TrailShrinks ==
  ASSUME ~InPlace, NEW made, Catalogued(made), Len(message) \in Nat,
         NEW trail, NEW m \in Nat, Trail(made, trail, m),
         NEW c \in Configurations(made, Len(message)), NEW d \in Configurations(made, Len(message)),
         Mirrors(trail[m], c), OneStep(c, d)
  PROVE  m > 0 /\ Trail(made, trail, m - 1) /\ Mirrors(trail[m - 1], d)
<1>1. trail[m] \in Configurations(made, Len(message))
  BY DEF Trail
<1>2. ASSUME m = 0 PROVE FALSE
  <2>1. Len(c.calls) = 1 /\ Facing(trail[0].calls[1], c.calls[1], 0) /\ trail[0].calls[1].done = 0
    BY <1>2 DEF Trail, AtStart, Mirrors
  <2>2. c.calls[1] \in Call(made) /\ trail[0].calls[1] \in Call(made)
    BY <1>1, <1>2, <2>1 DEF Configurations, Trail, AtStart
  <2>3. ~Unfinished(c.calls[1])
    BY <2>1, <2>2 DEF Facing, Unfinished, Call
  <2> QED
    BY <2>1, <2>3 DEF OneStep, AfterLeaf, AfterEnter, AfterLeave
<1>3. m > 0 /\ m \in 1..m /\ m - 1 \in 0..m
  BY <1>2
<1>4. OneStep(trail[m - 1], trail[m]) /\ trail[m - 1] \in Configurations(made, Len(message))
  BY <1>3 DEF Trail
<1>5. Mirrors(trail[m - 1], d)
  BY <1>1, <1>4, StepMirrored
<1>6. Trail(made, trail, m - 1)
  <2>1. \A j \in 0..(m - 1) : j \in 0..m
    BY <1>3
  <2>2. \A j \in 1..(m - 1) : j \in 1..m
    BY <1>3
  <2> QED
    BY <2>1, <2>2 DEF Trail
<1> QED
  BY <1>3, <1>5, <1>6

-----------------------------------------------------------------------------
(***************************************************************************)
(* The steps of the machine as steps of its configurations.                *)
(***************************************************************************)
LEMMA StepForth ==
  ASSUME ~InPlace, NEW made, Catalogued(made), WellRun(made),
         RunLeaf \/ EnterNested \/ LeaveNested, ~Refuse
  PROVE  /\ OneStep(Configuration, Configuration') /\ WellRun(made)'
         /\ UNCHANGED <<recipe, message, phase>>
<1>1. CASE RunLeaf
  BY <1>1, LeafForth DEF OneStep, RunLeaf
<1>2. CASE EnterNested
  BY <1>2, EnterForth DEF OneStep, EnterNested
<1>3. CASE LeaveNested
  BY <1>3, LeaveForth DEF OneStep, LeaveNested
<1> QED
  BY <1>1, <1>2, <1>3

LEMMA OutermostRuns ==
  ASSUME NEW made, Catalogued(made), recipe \in 1..Len(Recipes), message \in Seq(Index29),
         Stages # <<>>, NEW dir \in {"encrypt", "decrypt"},
         NEW text \in [1..Len(message) -> Index29], Outermost(dir, CallerBuffers(text))
  PROVE  /\ WellRun(made)' /\ AtStart(Configuration') /\ Configuration'.text = text
         /\ calls'[1].stages = Stages /\ calls'[1].skips = Recipes[recipe].skips
         /\ calls'[1].dir = dir /\ phase' = dir /\ UNCHANGED <<recipe, message>>
<1>1. PICK first : first = NewCall(Stages, dir, Recipes[recipe].skips, InBuffer, OutBuffer, 0)
  OBVIOUS
<1>2. PICK mem : mem = CallerBuffers(text)
  OBVIOUS
<1>3. PICK mem2 : mem2 = WithScratch(mem, Stages, InBuffer, 0)
  OBVIOUS
<1>4. /\ calls' = <<first>> /\ memory' = mem2 /\ phase' = dir
      /\ UNCHANGED <<recipe, message>>
  BY <1>1, <1>2, <1>3 DEF Outermost
<1>5. InOrderOf(made, calls')
  BY OutermostInOrder DEF Catalogued
<1>6. /\ first.stages = Stages /\ first.dir = dir /\ first.skips = Recipes[recipe].skips
      /\ first.done = 0 /\ first.in = InBuffer /\ first.dest = OutBuffer
      /\ Multi(first) => first.out = ScratchB(0)
  BY <1>1 DEF NewCall, Multi
<1>7. calls' \in Seq(Call(made)) /\ Len(calls') = 1 /\ calls'[1] = first /\ DOMAIN calls' = {1}
  BY <1>4, <1>5 DEF InOrderOf
<1>8. Unfinished(first) /\ (~IsLast(first) => Multi(first))
  <2>1. first \in Call(made)
    <3>1. PICK next : next = calls'
      OBVIOUS
    <3>2. next \in Seq(Call(made)) /\ Len(next) = 1 /\ next[1] = first
      BY <1>7, <3>1
    <3> QED
      BY ONLY <3>2
  <2>2. PICK l \in Nat : l = Len(first.stages) /\ l # 0
    BY <1>6, <2>1 DEF Call
  <2>3. l \in Nat /\ l # 0
    BY <2>2
  <2>4. 0 < l /\ (0 + 1 # l => l > 1)
    BY ONLY <2>3
  <2> QED
    BY <1>6, <2>2, <2>4 DEF Unfinished, IsLast, Multi
<1>9. /\ InBuffer \in DOMAIN mem2 /\ OutBuffer \in DOMAIN mem2
      /\ Len(Stages) > 1 => {ScratchA(0), ScratchB(0)} \subseteq DOMAIN mem2
      /\ mem2[InBuffer] = text
  <2>1. InBuffer \in DOMAIN mem /\ OutBuffer \in DOMAIN mem /\ mem[InBuffer] = text
    BY <1>2 DEF CallerBuffers
  <2>2. /\ DOMAIN mem \subseteq DOMAIN mem2
        /\ Len(Stages) > 1 => {ScratchA(0), ScratchB(0)} \subseteq DOMAIN mem2
        /\ \A b \in DOMAIN mem : b \notin {ScratchA(0), ScratchB(0)} => mem2[b] = mem[b]
    BY <1>3, ScratchMade
  <2>3. InBuffer \notin {ScratchA(0), ScratchB(0)}
    BY BuffersDiffer
  <2> QED
    BY <2>1, <2>2, <2>3
<1>10. Buffered(calls', mem2)
  <2>1. Target(first) \in DOMAIN mem2
    BY <1>6, <1>8, <1>9 DEF Target, Multi
  <2> QED
    BY <1>6, <1>7, <1>9, <2>1 DEF Buffered, Multi
<1>11. Entered(calls')
  BY <1>7 DEF Entered
<1>12. Shown(calls', mem2) = text
  BY <1>6, <1>7, <1>8, <1>9 DEF Shown, ReadsNext
<1>13. ComposeInv(made)'
  BY <1>4, <1>5, <1>7 DEF ComposeInv, Stages
<1>14. WellRun(made)'
  BY <1>4, <1>6, <1>7, <1>10, <1>11, <1>12, <1>13 DEF WellRun, Stages
<1> QED
  BY <1>4, <1>6, <1>7, <1>12, <1>14 DEF Configuration, AtStart

\* The outermost call is through: what it shows is the output.
LEMMA OutputShown ==
  ASSUME NEW made, WellRun(made), Len(calls) = 1, Running.done = Len(Running.stages)
  PROVE  Configuration.text = memory[OutBuffer] /\ ~Unfinished(calls[1])
<1>1. calls \in Seq(Call(made)) /\ 1 \in DOMAIN calls /\ Running = calls[1]
  BY DEF WellRun, ComposeInv, InOrderOf, Running
<1>2. calls[1].dest = OutBuffer
  BY <1>1 DEF WellRun, ComposeInv, InOrderOf, WellNested
<1>3. ~Unfinished(calls[1])
  BY <1>1 DEF Unfinished, Call
<1> QED
  BY <1>2, <1>3 DEF Configuration, Shown, ReadsNext

-----------------------------------------------------------------------------
(***************************************************************************)
(* While it encrypts, a run has a trail that ends where it is; while it    *)
(* decrypts, one that ends where the encryption was as far from its start  *)
(* as the decryption is from its end.                                      *)
(***************************************************************************)
RoundInv(made) ==
  /\ ComposeInv(made) /\ message \in Seq(Index29)
  /\ phase = "start" => memory = CallerBuffers(message)
  /\ calls # <<>> => WellRun(made)
  /\ phase = "encrypt" => 
       \E m \in Nat : \E trail : Trail(made, trail, m) /\ trail[m] = Configuration
  /\ phase = "decrypt" =>
       \E m \in Nat : \E trail : Trail(made, trail, m) /\ Mirrors(trail[m], Configuration)
  /\ phase \in {"encrypt", "decrypt"} => calls # <<>>
  /\ PipelineRoundTrip

LEMMA StartOfRound ==
  ASSUME NEW made, Catalogued(made), RoundInv(made), ComposeStart
  PROVE  RoundInv(made)'
<1>1. calls = <<>> /\ memory = CallerBuffers(message) /\ recipe \in 1..Len(Recipes)
  BY DEF ComposeStart, RoundInv, ComposeInv
<1>2. CASE Refuse
  <2>1. ComposeInv(made)'
    BY <1>1, <1>2, NoCallsInOrder DEF Refuse, ComposeInv
  <2> QED
    BY <1>2, <2>1 DEF Refuse, RoundInv, PipelineRoundTrip
<1>3. CASE ~Refuse
  <2>1. Stages # <<>> /\ Outermost("encrypt", CallerBuffers(message))
    BY <1>1, <1>3 DEF ComposeStart, EntryOK
  <2>2. message \in [1..Len(message) -> Index29]
    BY DEF RoundInv
  <2>3. /\ WellRun(made)' /\ AtStart(Configuration') /\ Configuration'.text = message
        /\ phase' = "encrypt" /\ message' = message
    BY <1>1, <2>1, <2>2, OutermostRuns DEF RoundInv
  <2>4. calls' # <<>> /\ ComposeInv(made)'
    BY <2>3 DEF WellRun
  <2>5. PICK config : config = Configuration'
    OBVIOUS
  <2>6. config \in Configurations(made, Len(message))
    <3>1. Configuration' \in Configurations(made, Len(message'))
      BY <2>3 DEF WellRun, ComposeInv, InOrderOf, Configuration, Configurations
    <3> QED
      BY <2>3, <2>5, <3>1
  <2>7. \E m \in Nat : \E trail : Trail(made, trail, m)' /\ trail[m] = Configuration'
    <3>1. PICK trail : trail = [j \in 0..0 |-> config]
      OBVIOUS
    <3>2. trail[0] = config /\ \A j \in 0..0 : trail[j] = config
      BY <3>1
    <3>3. Trail(made, trail, 0)'
      BY <2>3, <2>5, <2>6, <3>2 DEF Trail
    <3> QED
      BY <2>5, <3>2, <3>3
  <2> QED
    BY <2>3, <2>4, <2>7 DEF RoundInv, PipelineRoundTrip
<1> QED
  BY <1>2, <1>3

LEMMA StepOfRound ==
  ASSUME ~InPlace, NEW made, Catalogued(made), RoundInv(made),
         RunLeaf \/ EnterNested \/ LeaveNested
  PROVE  RoundInv(made)'
<1>1. calls # <<>> /\ WellRun(made)
  <2>1. calls # <<>>
    BY DEF RunLeaf, EnterNested, LeaveNested, RoundInv, ComposeInv, InOrderOf
  <2> QED
    BY <2>1 DEF RoundInv
<1>2. phase \in {"encrypt", "decrypt"}
  BY <1>1 DEF RoundInv, ComposeInv
<1>3. ComposeInv(made)'
  BY LeafKeeps, EnterKeeps, LeaveKeeps DEF RoundInv, Catalogued
<1>4. CASE Refuse
  BY <1>3, <1>4 DEF Refuse, RoundInv, PipelineRoundTrip
<1>5. CASE ~Refuse
  <2>1. OneStep(Configuration, Configuration') /\ WellRun(made)' /\ UNCHANGED <<recipe, message, phase>>
    BY <1>1, <1>5, StepForth
  <2>2. PICK c \in Configurations(made, Len(message)) : c = Configuration
    BY <1>1, RunConfigured
  <2>3. PICK d \in Configurations(made, Len(message)) : d = Configuration'
    <3>1. Configuration' \in Configurations(made, Len(message'))
      BY <2>1 DEF WellRun, ComposeInv, InOrderOf, Configuration, Configurations
    <3> QED
      BY <2>1, <3>1
  <2>4. OneStep(c, d) /\ calls' # <<>> /\ Len(message) \in Nat
    BY <1>1, <2>1, <2>2, <2>3, RunConfigured DEF WellRun
  <2>5. \A trail : \A m : Trail(made, trail, m)' = Trail(made, trail, m)
    BY <2>1 DEF Trail
  <2>6. CASE phase = "encrypt"
    <3>1. PICK m, trail : m \in Nat /\ Trail(made, trail, m) /\ trail[m] = c
      BY <2>2, <2>6 DEF RoundInv
    <3>2. PICK longer : Trail(made, longer, m + 1) /\ longer[m + 1] = d
      BY <2>4, <3>1, TrailGrows
    <3>3. \E n \in Nat : \E way : Trail(made, way, n)' /\ way[n] = Configuration'
      <4>1. m + 1 \in Nat /\ Trail(made, longer, m + 1)' /\ longer[m + 1] = Configuration'
        BY <2>3, <2>5, <3>1, <3>2
      <4> QED
        BY <4>1
    <3> QED
      BY <1>3, <2>1, <2>4, <2>6, <3>3 DEF RoundInv, PipelineRoundTrip
  <2>7. CASE phase = "decrypt"
    <3>1. PICK m, trail : m \in Nat /\ Trail(made, trail, m) /\ Mirrors(trail[m], c)
      BY <2>2, <2>7 DEF RoundInv
    <3>2. m > 0 /\ Trail(made, trail, m - 1) /\ Mirrors(trail[m - 1], d)
      BY <2>4, <3>1, TrailShrinks
    <3>3. \E n \in Nat : \E way : Trail(made, way, n)' /\ Mirrors(way[n], Configuration')
      <4>1. m - 1 \in Nat /\ Trail(made, trail, m - 1)' /\ Mirrors(trail[m - 1], Configuration')
        BY <2>3, <2>5, <3>1, <3>2
      <4> QED
        BY <4>1
    <3> QED
      BY <1>3, <2>1, <2>4, <2>7, <3>3 DEF RoundInv, PipelineRoundTrip
  <2> QED
    BY <1>2, <2>6, <2>7
<1> QED
  BY <1>4, <1>5

LEMMA TurnOfRound ==
  ASSUME NEW made, Catalogued(made), RoundInv(made), ComposeTurn
  PROVE  RoundInv(made)'
<1>1. calls # <<>> /\ Len(calls) = 1 /\ phase = "encrypt" /\ Running.done = Len(Running.stages)
  BY DEF ComposeTurn
<1>2. WellRun(made) /\ recipe \in 1..Len(Recipes) /\ Stages # <<>> /\ message \in Seq(Index29)
  BY <1>1 DEF RoundInv, ComposeInv
<1>3. PICK text \in [1..Len(message) -> Index29] : text = memory[OutBuffer] /\ text = Configuration.text
  BY <1>1, <1>2, OutputShown, RunConfigured DEF WellRun
<1>4. Outermost("decrypt", CallerBuffers(text))
  BY <1>3 DEF ComposeTurn
<1>5. /\ WellRun(made)' /\ AtStart(Configuration') /\ Configuration'.text = text
      /\ calls'[1].stages = Stages /\ calls'[1].skips = Recipes[recipe].skips
      /\ calls'[1].dir = "decrypt" /\ phase' = "decrypt" /\ UNCHANGED <<recipe, message>>
  BY <1>2, <1>4, OutermostRuns
<1>6. PICK m, trail : m \in Nat /\ Trail(made, trail, m) /\ trail[m] = Configuration
  BY <1>1 DEF RoundInv
<1>7. Mirrors(Configuration, Configuration')
  <2>1. Len(calls') = 1 /\ calls'[1].done = 0
    BY <1>5 DEF AtStart, Configuration
  <2>2. Facing(calls[1], calls'[1], 0)
    <3>1. /\ calls[1].stages = Stages /\ calls[1].skips = Recipes[recipe].skips
          /\ calls[1].dir = "encrypt" /\ calls[1].done = Len(calls[1].stages)
      BY <1>1, <1>2 DEF WellRun, Running
    <3>2. calls[1] \in Call(made)
      BY <1>1, <1>2 DEF WellRun, ComposeInv, InOrderOf
    <3> QED
      BY <1>5, <2>1, <3>1, <3>2 DEF Facing, Opposite, Call
  <2>3. Configuration.calls = calls /\ Configuration'.calls = calls'
    BY DEF Configuration
  <2> QED
    <3>1. \A k \in 1..1 : k = 1 /\ ~(k < 1)
      OBVIOUS
    <3>2. \A k \in 1..1 : Facing(calls[k], calls'[k], IF k < 1 THEN 1 ELSE 0)
      BY <2>2, <3>1
    <3>3. Configuration'.text = Configuration.text
      BY <1>3, <1>5
    <3> QED
      BY <1>1, <2>1, <2>3, <3>2, <3>3 DEF Mirrors
<1>8. \E n \in Nat : \E way : Trail(made, way, n)' /\ Mirrors(way[n], Configuration')
  <2>1. Trail(made, trail, m)'
    BY <1>5, <1>6 DEF Trail
  <2> QED
    BY <1>6, <1>7, <2>1
<1>9. ComposeInv(made)' /\ calls' # <<>>
  BY <1>5 DEF WellRun
<1> QED
  BY <1>2, <1>5, <1>8, <1>9 DEF RoundInv, PipelineRoundTrip

LEMMA FinishOfRound ==
  ASSUME NEW made, RoundInv(made), ComposeFinish
  PROVE  RoundInv(made)'
<1>1. /\ calls # <<>> /\ Len(calls) = 1 /\ phase = "decrypt" /\ Running.done = Len(Running.stages)
      /\ phase' = "done" /\ calls' = <<>> /\ UNCHANGED <<recipe, message, memory>>
  BY DEF ComposeFinish
<1>2. WellRun(made)
  BY <1>1 DEF RoundInv
<1>3. PICK m, trail : m \in Nat /\ Trail(made, trail, m) /\ Mirrors(trail[m], Configuration)
  BY <1>1 DEF RoundInv
<1>4. AtStart(trail[m])
  <2>1. Len(trail[m].calls) = 1 /\ Facing(trail[m].calls[1], calls[1], 0)
    BY <1>1, <1>3 DEF Mirrors, Configuration
  <2>2. trail[m].calls[1] \in Call(made) /\ calls[1] \in Call(made)
    <3>1. trail[m] \in Configurations(made, Len(message))
      BY <1>3 DEF Trail
    <3> QED
      BY <1>1, <1>2, <2>1, <3>1 DEF Configurations, WellRun, ComposeInv, InOrderOf
  <2>3. calls[1].done = Len(calls[1].stages)
    BY <1>1 DEF Running
  <2>4. PICK d \in Nat, l \in Nat : d = trail[m].calls[1].done /\ l = Len(calls[1].stages)
    BY <2>2 DEF Call
  <2>5. l + d + 0 = l
    BY <2>1, <2>3, <2>4 DEF Facing
  <2>6. d = 0
    BY ONLY <2>5, d \in Nat, l \in Nat
  <2> QED
    BY <2>1, <2>4, <2>6 DEF AtStart
<1>5. m = 0
  BY <1>3, <1>4, TrailEnds
<1>6. memory[OutBuffer] = message
  <2>1. Configuration.text = memory[OutBuffer]
    BY <1>1, <1>2, OutputShown
  <2> QED
    BY <1>3, <1>5, <2>1 DEF Trail, Mirrors
<1>7. ComposeInv(made)'
  BY <1>1, NoCallsInOrder DEF RoundInv, ComposeInv
<1> QED
  BY <1>1, <1>6, <1>7 DEF RoundInv, PipelineRoundTrip

\* No step breaks the invariant, and it holds at first.
LEMMA RoundKept ==
  ASSUME NEW made, Catalogued(made), RoundInv(made), [ComposeNext]_composeVars
  PROVE  RoundInv(made)'
<1>1. CASE ComposeStart
  BY <1>1, StartOfRound
<1>2. CASE RunLeaf \/ EnterNested \/ LeaveNested
  BY <1>2, StepOfRound, ComposeAssumption
<1>3. CASE ComposeTurn
  BY <1>3, TurnOfRound
<1>4. CASE ComposeFinish
  BY <1>4, FinishOfRound
<1>5. CASE UNCHANGED composeVars
  <2>1. UNCHANGED <<recipe, message, phase, memory, calls>>
    BY <1>5 DEF composeVars
  <2>2. ComposeInv(made)' /\ Configuration' = Configuration
    BY <2>1 DEF RoundInv, ComposeInv, Stages, Configuration, Shown
  <2>3. \A trail, m : Trail(made, trail, m)' = Trail(made, trail, m)
    BY <2>1 DEF Trail
  <2>4. WellRun(made) => WellRun(made)'
    BY <2>1, <2>2 DEF WellRun, Stages, Shown, Buffered
  <2> QED
    BY <2>1, <2>2, <2>3, <2>4 DEF RoundInv, PipelineRoundTrip
<1> QED
  BY <1>1, <1>2, <1>3, <1>4, <1>5 DEF ComposeNext

LEMMA RoundStarts ==
  ASSUME NEW made, Messages \subseteq Seq(Index29), ComposeInit
  PROVE  RoundInv(made) /\ calls = <<>>
<1>1. /\ calls = <<>> /\ phase = "start" /\ recipe \in 1..Len(Recipes)
      /\ message \in Seq(Index29) /\ memory = CallerBuffers(message)
  BY DEF ComposeInit
<1>2. ComposeInv(made)
  BY <1>1, NoCallsInOrder DEF ComposeInv
<1> QED
  BY <1>1, <1>2 DEF RoundInv, PipelineRoundTrip

(***************************************************************************)
(* For all recipes of the catalog's transforms, with any parameters that   *)
(* the transforms take, nested in any way and with any interrupts, and for *)
(* all texts: decrypting with the recipe what encrypting with it gave is   *)
(* the text (ComposeTransform::apply_into with both directions).           *)
(***************************************************************************)
THEOREM RecipesRoundTrip ==
  ASSUME NEW made, Catalogued(made), Messages \subseteq Seq(Index29)
  PROVE  ComposeSpec => []PipelineRoundTrip
<1>1. ComposeInit => RoundInv(made)
  BY RoundStarts
<1>2. RoundInv(made) /\ [ComposeNext]_composeVars => RoundInv(made)'
  BY RoundKept
<1>3. RoundInv(made) => PipelineRoundTrip
  BY DEF RoundInv
<1> QED
  BY <1>1, <1>2, <1>3, PTL DEF ComposeSpec

-----------------------------------------------------------------------------
(***************************************************************************)
(* What a recipe comes down to, put together from what its stages do.      *)
(***************************************************************************)
Task(made) == [stage : made, dir : {"encrypt", "decrypt"}, skips : SUBSET Nat]

\* A set of numbers that a step up does not leave.
LEMMA StepsUp ==
  ASSUME NEW n \in Nat, NEW S, 0 \in S, \A m \in 0..(n - 1) : m \in S => m + 1 \in S
  PROVE  \A m \in 0..n : m \in S
<1> SUFFICES ASSUME NEW k \in 0..n, k \notin S PROVE FALSE
  OBVIOUS
<1>1. PICK T : T = {m \in 1..n : m \notin S}
  OBVIOUS
<1>2. T \in SUBSET (1..n) /\ T # {}
  <2>1. k \in T
    BY <1>1
  <2> QED
    BY <1>1, <2>1
<1>3. PICK m \in T : \A p \in T : m <= p
  BY <1>2, FirstPosition
<1>4. m \in 1..n /\ m \notin S
  BY <1>1
<1>5. m - 1 \in 0..(n - 1) /\ (m - 1) + 1 = m /\ ~(m <= m - 1)
  BY <1>4
<1>6. m - 1 \in S
  <2>1. CASE m = 1
    BY <2>1
  <2>2. CASE m # 1
    <3>1. m - 1 \in 1..n
      BY <1>4, <2>2
    <3> QED
      BY <1>1, <1>3, <1>5, <3>1
  <2> QED
    BY <2>1, <2>2
<1> QED
  BY <1>4, <1>5, <1>6

\* The first of some sequences, one after the other.
FlatRun(ss) ==
  CHOOSE f : f = [i \in 1..Len(ss) |-> IF i = 1 THEN ss[i] ELSE f[i - 1] \o ss[i]]

FirstFlat(ss, n) == IF n = 0 THEN <<>> ELSE FlatRun(ss)[n]

LEMMA FlatOfJoined ==
  ASSUME NEW T, NEW ss \in Seq(Seq(T)), NEW tt \in Seq(Seq(T))
  PROVE  FlattenSeq(ss \o tt) = FlattenSeq(ss) \o FlattenSeq(tt)
<1>1. ASSUME NEW x \in Seq(Seq(T))
      PROVE  /\ Len(x) \in Nat /\ FirstFlat(x, 0) = <<>> /\ FlattenSeq(x) = FirstFlat(x, Len(x))
             /\ \A n \in 1..Len(x) : FirstFlat(x, n) = FirstFlat(x, n - 1) \o x[n] /\ x[n] \in Seq(T)
  <2>1. PICK f : f = FlatRun(x)
    OBVIOUS
  <2>2. FlatTo(f, x, Len(x))
    <3>1. Len(x) \in Nat
      OBVIOUS
    <3>2. \E g : FlatTo(g, x, Len(x))
      BY <3>1, FlatExists
    <3> QED
      BY <2>1, <3>2 DEF FlatTo, FlatRun
  <2>3. \A n \in 1..Len(x) : f[n] = IF n = 1 THEN x[n] ELSE f[n - 1] \o x[n]
    BY <2>2, Zenon DEF FlatTo
  <2>4. FirstFlat(x, 0) = <<>> /\ \A n \in Nat \ {0} : FirstFlat(x, n) = f[n]
    BY <2>1 DEF FirstFlat
  <2>5. FlattenSeq(x) = FirstFlat(x, Len(x))
    <3>1. CASE Len(x) = 0
      BY <3>1 DEF FlattenSeq, FirstFlat
    <3>2. CASE Len(x) # 0
      BY <3>2 DEF FlattenSeq, FirstFlat, FlatRun
    <3> QED
      BY <3>1, <3>2
  <2>6. ASSUME NEW n \in 1..Len(x) PROVE FirstFlat(x, n) = FirstFlat(x, n - 1) \o x[n] /\ x[n] \in Seq(T)
    <3>1. x[n] \in Seq(T)
      OBVIOUS
    <3>2. CASE n = 1
      <4>1. FirstFlat(x, n - 1) = <<>> /\ FirstFlat(x, n) = x[n]
        <5>1. n - 1 = 0 /\ n \in Nat \ {0}
          BY <3>2
        <5> QED
          BY <2>3, <2>4, <3>2, <5>1
      <4>2. <<>> \o x[n] = x[n]
        BY <3>1
      <4> QED
        BY <3>1, <4>1, <4>2
    <3>3. CASE n # 1
      <4>1. n - 1 \in Nat \ {0}
        BY <3>3
      <4>2. FirstFlat(x, n - 1) = f[n - 1] /\ FirstFlat(x, n) = f[n]
        BY <2>4, <4>1
      <4> QED
        BY <2>3, <3>1, <3>3, <4>2
    <3> QED
      BY <3>2, <3>3
  <2> QED
    <3>1. Len(x) \in Nat
      OBVIOUS
    <3> QED
      BY <2>4, <2>5, <2>6, <3>1
<1>2. PICK u \in Seq(Seq(T)) : u = ss \o tt
  <2>1. PICK Q : Q = Seq(T)
    OBVIOUS
  <2>2. ss \in Seq(Q) /\ tt \in Seq(Q)
    BY <2>1
  <2>3. ss \o tt \in Seq(Q)
    BY <2>2
  <2> QED
    BY <2>1, <2>3
<1>3. /\ Len(u) = Len(ss) + Len(tt)
      /\ \A i \in 1..Len(ss) : u[i] = ss[i]
      /\ \A i \in 1..Len(tt) : u[Len(ss) + i] = tt[i]
  BY <1>2
<1>4. PICK k \in Nat, l \in Nat : k = Len(ss) /\ l = Len(tt)
  OBVIOUS
<1>5. \A n \in 0..k : FirstFlat(ss, n) \in Seq(T) /\ FirstFlat(u, n) = FirstFlat(ss, n)
  <2>1. PICK S : S = {n \in 0..k : FirstFlat(ss, n) \in Seq(T) /\ FirstFlat(u, n) = FirstFlat(ss, n)}
    OBVIOUS
  <2>2. 0 \in S
    <3>1. FirstFlat(ss, 0) = <<>> /\ FirstFlat(u, 0) = <<>> /\ <<>> \in Seq(T) /\ 0 \in 0..k
      BY DEF FirstFlat
    <3>2. FirstFlat(ss, 0) \in Seq(T) /\ FirstFlat(u, 0) = FirstFlat(ss, 0)
      BY ONLY <3>1
    <3> QED
      BY ONLY <2>1, <3>1, <3>2
  <2>3. ASSUME NEW n \in 0..(k - 1), n \in S PROVE n + 1 \in S
    <3>1. n + 1 \in 1..k /\ n + 1 \in 1..Len(u) /\ (n + 1) - 1 = n
      BY <1>3, <1>4
    <3>2. FirstFlat(ss, n + 1) = FirstFlat(ss, n) \o ss[n + 1] /\ FirstFlat(u, n + 1) = FirstFlat(u, n) \o u[n + 1] /\ ss[n + 1] \in Seq(T)
      BY <1>1, <1>4, <3>1
    <3>3. FirstFlat(ss, n) \in Seq(T) /\ FirstFlat(u, n) = FirstFlat(ss, n)
      BY <2>1, <2>3
    <3>4. FirstFlat(ss, n + 1) \in Seq(T)
      <4>1. PICK p \in Seq(T), t \in Seq(T) : p = FirstFlat(ss, n) /\ t = ss[n + 1]
        BY <3>2, <3>3
      <4>2. p \o t \in Seq(T)
        OBVIOUS
      <4> QED
        BY <3>2, <4>1, <4>2
    <3>5. FirstFlat(u, n + 1) = FirstFlat(ss, n + 1)
      BY <1>3, <1>4, <3>1, <3>2, <3>3
    <3> QED
      BY <2>1, <3>1, <3>4, <3>5
  <2> QED
    BY <2>1, <2>2, <2>3, StepsUp
<1>6. PICK a \in Seq(T) : a = FirstFlat(ss, k) /\ a = FirstFlat(u, k)
  BY <1>5
<1>7. \A n \in 0..l : FirstFlat(tt, n) \in Seq(T) /\ FirstFlat(u, k + n) = a \o FirstFlat(tt, n)
  <2>1. PICK S : S = {n \in 0..l : FirstFlat(tt, n) \in Seq(T) /\ FirstFlat(u, k + n) = a \o FirstFlat(tt, n)}
    OBVIOUS
  <2>2. 0 \in S
    <3>1. FirstFlat(tt, 0) = <<>> /\ <<>> \in Seq(T) /\ 0 \in 0..l
      BY DEF FirstFlat
    <3>2. k + 0 = k /\ a \o <<>> = a
      OBVIOUS
    <3>3. FirstFlat(tt, 0) \in Seq(T)
      BY ONLY <3>1
    <3>4. FirstFlat(u, k + 0) = a \o FirstFlat(tt, 0)
      BY ONLY <1>6, <3>1, <3>2
    <3> QED
      BY ONLY <2>1, <3>1, <3>3, <3>4
  <2>3. ASSUME NEW n \in 0..(l - 1), n \in S PROVE n + 1 \in S
    <3>1. n + 1 \in 1..l /\ k + (n + 1) \in 1..Len(u) /\ (n + 1) - 1 = n /\ (k + (n + 1)) - 1 = k + n
      BY <1>3, <1>4
    <3>2. PICK t \in Seq(T) : t = tt[n + 1] /\ t = u[k + (n + 1)]
      BY <1>1, <1>3, <1>4, <3>1
    <3>3. PICK b \in Seq(T) : b = FirstFlat(tt, n) /\ FirstFlat(u, k + n) = a \o b
      BY <2>1, <2>3
    <3>4. FirstFlat(tt, n + 1) = b \o t /\ FirstFlat(u, k + (n + 1)) = (a \o b) \o t
      BY <1>1, <1>4, <3>1, <3>2, <3>3
    <3>5. (a \o b) \o t = a \o (b \o t) /\ b \o t \in Seq(T)
      OBVIOUS
    <3>6. FirstFlat(tt, n + 1) \in Seq(T) /\ FirstFlat(u, k + (n + 1)) = a \o FirstFlat(tt, n + 1)
      BY <3>4, <3>5
    <3> QED
      BY <2>1, <3>1, <3>6
  <2> QED
    BY <2>1, <2>2, <2>3, StepsUp
<1>8. FirstFlat(u, k + l) = a \o FirstFlat(tt, l)
  BY <1>7
<1> QED
  BY <1>1, <1>2, <1>3, <1>4, <1>6, <1>8

LeafOutput(leaf, text) == StageOutput(leaf.stage, leaf.dir, leaf.skips, text)

\* What each of some leaves makes of what the one before it made.
MadeTo(f, leaves, text, m) ==
  f = [n \in 0..m |-> IF n = 0 THEN text
                      ELSE StageOutput(leaves[n].stage, leaves[n].dir, leaves[n].skips, f[n - 1])]

LEMMA MadeExists ==
  ASSUME NEW leaves, NEW text, NEW k \in Nat
  PROVE  \E f : MadeTo(f, leaves, text, k)
<1>1. PICK S : S = {m \in 0..k : \E f : MadeTo(f, leaves, text, m)}
  OBVIOUS
<1>2. 0 \in S
  <2>1. MadeTo([n \in 0..0 |-> text], leaves, text, 0)
    BY DEF MadeTo
  <2> QED
    BY <1>1, <2>1
<1>3. ASSUME NEW m \in 0..(k - 1), m \in S PROVE m + 1 \in S
  <2>1. PICK r : MadeTo(r, leaves, text, m)
    BY <1>1, <1>3
  <2>2. PICK g : g = [n \in 0..(m + 1) |-> IF n <= m THEN r[n] ELSE LeafOutput(leaves[m + 1], r[m])]
    OBVIOUS
  <2>3. (\A n \in 0..m : g[n] = r[n]) /\ g[m + 1] = LeafOutput(leaves[m + 1], g[m])
    BY <2>2
  <2>4. \A n \in 0..m : r[n] = IF n = 0 THEN text ELSE LeafOutput(leaves[n], r[n - 1])
    BY <2>1, Zenon DEF MadeTo, LeafOutput
  <2>5. ASSUME NEW n \in 0..(m + 1)
        PROVE  g[n] = IF n = 0 THEN text ELSE LeafOutput(leaves[n], g[n - 1])
    <3>1. CASE n = m + 1
      <4>1. n - 1 = m /\ n # 0
        BY <3>1
      <4> QED
        BY <2>3, <3>1, <4>1
    <3>2. CASE n \in 0..m
      <4>1. n # 0 => n - 1 \in 0..m
        BY <3>2
      <4> QED
        BY <2>3, <2>4, <3>2, <4>1
    <3> QED
      BY <3>1, <3>2
  <2>6. g = [n \in 0..(m + 1) |-> g[n]]
    BY <2>2
  <2>7. MadeTo(g, leaves, text, m + 1)
    BY <2>5, <2>6 DEF MadeTo, LeafOutput
  <2>8. m + 1 \in 0..k
    OBVIOUS
  <2> QED
    BY <1>1, <2>7, <2>8
<1>4. k \in S
  BY <1>2, <1>3, StepsUp
<1> QED
  BY <1>1, <1>4

LEMMA ThroughRuns ==
  ASSUME NEW T, NEW leaves \in Seq(T), NEW text
  PROVE  \E f : /\ f[0] = text /\ Through(leaves, text) = f[Len(leaves)]
                /\ \A n \in 1..Len(leaves) : f[n] = LeafOutput(leaves[n], f[n - 1])
<1>1. PICK f : f = CHOOSE made : made = [n \in 0..Len(leaves) |->
        IF n = 0 THEN text
        ELSE StageOutput(leaves[n].stage, leaves[n].dir, leaves[n].skips, made[n - 1])]
  OBVIOUS
<1>2. MadeTo(f, leaves, text, Len(leaves))
  <2>1. \E g : MadeTo(g, leaves, text, Len(leaves))
    <3>1. Len(leaves) \in Nat
      OBVIOUS
    <3> QED
      BY <3>1, MadeExists
  <2> QED
    BY <1>1, <2>1 DEF MadeTo
<1>3. Through(leaves, text) = f[Len(leaves)]
  BY <1>1 DEF Through
<1>4. \A n \in 0..Len(leaves) : f[n] = IF n = 0 THEN text ELSE LeafOutput(leaves[n], f[n - 1])
  BY <1>2, Zenon DEF MadeTo, LeafOutput
<1> QED
  BY <1>3, <1>4

LEMMA ThroughJoined ==
  ASSUME NEW T, NEW a \in Seq(T), NEW b \in Seq(T), NEW text
  PROVE  Through(a \o b, text) = Through(b, Through(a, text))
<1>1. PICK u : u = a \o b
  OBVIOUS
<1>2. PICK k \in Nat, l \in Nat : k = Len(a) /\ l = Len(b)
  OBVIOUS
<1>3. /\ u \in Seq(T) /\ Len(u) = k + l
      /\ \A i \in 1..k : u[i] = a[i]
      /\ \A i \in 1..l : u[k + i] = b[i]
  <2>1. /\ u \in Seq(T) /\ Len(u) = k + l
        /\ \A i \in 1..(k + l) : u[i] = IF i <= k THEN a[i] ELSE b[i - k]
    BY <1>1, <1>2, ConcatProperties
  <2>2. \A i \in 1..k : i \in 1..(k + l) /\ i <= k
    OBVIOUS
  <2>3. \A i \in 1..l : k + i \in 1..(k + l) /\ ~(k + i <= k) /\ (k + i) - k = i
    OBVIOUS
  <2> QED
    BY <2>1, <2>2, <2>3
<1>4. PICK f : /\ f[0] = text /\ Through(a, text) = f[k]
               /\ \A n \in 1..k : f[n] = LeafOutput(a[n], f[n - 1])
  BY <1>2, ThroughRuns
<1>5. PICK half : half = Through(a, text)
  OBVIOUS
<1>6. PICK g : /\ g[0] = f[k] /\ Through(b, half) = g[l]
               /\ \A n \in 1..l : g[n] = LeafOutput(b[n], g[n - 1])
  <2>1. \E g : /\ g[0] = half /\ Through(b, half) = g[Len(b)]
               /\ \A n \in 1..Len(b) : g[n] = LeafOutput(b[n], g[n - 1])
    BY ThroughRuns
  <2> QED
    BY <1>2, <1>4, <1>5, <2>1
<1>7. PICK h : /\ h[0] = text /\ Through(u, text) = h[k + l]
               /\ \A n \in 1..(k + l) : h[n] = LeafOutput(u[n], h[n - 1])
  <2>1. \E h : /\ h[0] = text /\ Through(u, text) = h[Len(u)]
               /\ \A n \in 1..Len(u) : h[n] = LeafOutput(u[n], h[n - 1])
    <3>1. u \in Seq(T)
      BY <1>3
    <3> HIDE <1>3
    <3> QED
      BY <3>1, ThroughRuns
  <2> QED
    BY <1>3, <2>1
<1>8. \A n \in 0..k : h[n] = f[n]
  <2>1. PICK S : S = {n \in 0..k : h[n] = f[n]}
    OBVIOUS
  <2>2. 0 \in S
    BY <1>4, <1>7, <2>1
  <2>3. ASSUME NEW n \in 0..(k - 1), n \in S PROVE n + 1 \in S
    <3>1. n + 1 \in 1..k /\ n + 1 \in 1..(k + l) /\ (n + 1) - 1 = n
      OBVIOUS
    <3>2. h[n + 1] = LeafOutput(a[n + 1], h[n]) /\ f[n + 1] = LeafOutput(a[n + 1], f[n])
      BY <1>3, <1>4, <1>7, <3>1
    <3> QED
      BY <2>1, <2>3, <3>1, <3>2
  <2> QED
    BY <2>1, <2>2, <2>3, StepsUp
<1>9. \A n \in 0..l : h[k + n] = g[n]
  <2>1. PICK S : S = {n \in 0..l : h[k + n] = g[n]}
    OBVIOUS
  <2>2. 0 \in S
    BY <1>6, <1>8, <2>1
  <2>3. ASSUME NEW n \in 0..(l - 1), n \in S PROVE n + 1 \in S
    <3>1. n + 1 \in 1..l /\ k + (n + 1) \in 1..(k + l) /\ (n + 1) - 1 = n /\ (k + (n + 1)) - 1 = k + n
      OBVIOUS
    <3>2. h[k + (n + 1)] = LeafOutput(b[n + 1], h[k + n]) /\ g[n + 1] = LeafOutput(b[n + 1], g[n])
      BY <1>3, <1>6, <1>7, <3>1
    <3> QED
      BY <2>1, <2>3, <3>1, <3>2
  <2> QED
    BY <2>1, <2>2, <2>3, StepsUp
<1>10. h[k + l] = g[l]
  BY <1>9
<1> QED
  BY <1>1, <1>6, <1>7, <1>10, <1>5

LEMMA ThroughFew ==
  ASSUME NEW T, NEW text
  PROVE  /\ Through(<<>>, text) = text
         /\ \A x \in T : Through(<<x>>, text) = LeafOutput(x, text)
<1>1. Through(<<>>, text) = text
  <2>1. PICK s \in Seq(T) : s = <<>> /\ Len(s) = 0
    <3>1. <<>> \in Seq(T) /\ Len(<<>>) = 0
      BY EmptySeq
    <3> QED
      BY <3>1
  <2>2. \E f : /\ f[0] = text /\ Through(s, text) = f[Len(s)]
               /\ \A n \in 1..Len(s) : f[n] = LeafOutput(s[n], f[n - 1])
    BY ThroughRuns
  <2> QED
    BY <2>1, <2>2
<1>2. ASSUME NEW x \in T PROVE Through(<<x>>, text) = LeafOutput(x, text)
  <2>1. PICK s \in Seq(T) : s = <<x>> /\ Len(s) = 1 /\ s[1] = x
    <3>1. <<x>> \in Seq(T)
      OBVIOUS
    <3>2. Len(<<x>>) = 1 /\ <<x>>[1] = x
      OBVIOUS
    <3> QED
      BY <3>1, <3>2
  <2>2. PICK f : /\ f[0] = text /\ Through(s, text) = f[Len(s)]
                 /\ \A n \in 1..Len(s) : f[n] = LeafOutput(s[n], f[n - 1])
    BY ThroughRuns
  <2> QED
    BY <2>1, <2>2
<1> QED
  BY <1>1, <1>2

-----------------------------------------------------------------------------
LEMMA InOrderItems ==
  ASSUME NEW made, MadeOf(made), NEW stages \in Seq(made), NEW dir \in {"encrypt", "decrypt"},
         NEW skips \in SUBSET Nat, NEW depth
  PROVE  /\ InOrder(stages, dir, skips, depth) \in Seq(Task(made))
         /\ Len(InOrder(stages, dir, skips, depth)) = Len(stages)
<1>1. PICK l \in Nat : l = Len(stages) /\ DOMAIN stages = 1..l
  OBVIOUS
<1>2. ASSUME NEW n \in 1..l
      PROVE  InOrder(stages, dir, skips, depth)[n] \in Task(made)
  <2>1. PICK stage \in made : stage = stages[IF dir = "decrypt" THEN n ELSE l + 1 - n]
    <3>1. n \in 1..l /\ l + 1 - n \in 1..l
      OBVIOUS
    <3> QED
      BY <1>1, <3>1
  <2>2. InOrder(stages, dir, skips, depth)[n] =
          [stage |-> stage, dir |-> StageDirection(stage, dir), skips |-> StageSkips(stage, skips, depth)]
    BY <1>1, <2>1 DEF InOrder
  <2>3. PICK way, out : /\ way = StageDirection(stage, dir) /\ way \in {"encrypt", "decrypt"}
                        /\ out = StageSkips(stage, skips, depth) /\ out \in SUBSET Nat
    BY StageGivesCall
  <2>4. [stage |-> stage, dir |-> way, skips |-> out] \in Task(made)
    BY <2>3 DEF Task
  <2> QED
    BY <2>2, <2>3, <2>4
<1>3. InOrder(stages, dir, skips, depth) = [n \in 1..l |-> InOrder(stages, dir, skips, depth)[n]]
  BY <1>1 DEF InOrder
<1>4. InOrder(stages, dir, skips, depth) \in [1..l -> Task(made)]
  BY <1>2, <1>3
<1> QED
  BY <1>1, <1>4

\* What unfolding makes of one item.
ItemInto(item, depth) ==
  IF item.stage.kind = "compose"
    THEN InOrder(item.stage.params, item.dir, item.skips, depth) ELSE <<item>>

LEMMA UnfoldedJoined ==
  ASSUME NEW made, MadeOf(made), NEW a \in Seq(Task(made)), NEW b \in Seq(Task(made)), NEW depth
  PROVE  /\ Unfolded(a, depth) \in Seq(Task(made))
         /\ Unfolded(a \o b, depth) = Unfolded(a, depth) \o Unfolded(b, depth)
<1>1. PICK T : T = Task(made)
  OBVIOUS
<1>2. ASSUME NEW item \in T PROVE ItemInto(item, depth) \in Seq(T)
  <2>1. CASE item.stage.kind = "compose"
    <3>1. /\ item.stage \in made /\ item.dir \in {"encrypt", "decrypt"} /\ item.skips \in SUBSET Nat
      BY <1>1 DEF Task
    <3>2. item.stage.params \in Seq(made)
      BY <2>1, <3>1 DEF MadeOf
    <3> QED
      BY <1>1, <2>1, <3>1, <3>2, InOrderItems DEF ItemInto
  <2>2. CASE item.stage.kind # "compose"
    BY <2>2 DEF ItemInto
  <2> QED
    BY <2>1, <2>2
<1> DEFINE Each(s) == [n \in DOMAIN s |-> ItemInto(s[n], depth)]
<1>3. ASSUME NEW s \in Seq(T)
      PROVE  /\ Each(s) \in Seq(Seq(T)) /\ Len(Each(s)) = Len(s)
             /\ \A n \in 1..Len(s) : Each(s)[n] = ItemInto(s[n], depth)
             /\ Unfolded(s, depth) = FlattenSeq(Each(s))
  <2>1. Each(s) \in [1..Len(s) -> Seq(T)] /\ Len(s) \in Nat
    BY <1>2
  <2>2. Each(s) \in Seq(Seq(T)) /\ Len(Each(s)) = Len(s)
    BY <2>1
  <2>3. \A n \in 1..Len(s) : Each(s)[n] = ItemInto(s[n], depth)
    OBVIOUS
  <2>4. Unfolded(s, depth) = FlattenSeq(Each(s))
    BY DEF Unfolded, ItemInto
  <2> QED
    BY <2>2, <2>3, <2>4
<1> HIDE DEF Each
<1>4. PICK ab : ab = a \o b
  OBVIOUS
<1>5. PICK k \in Nat, l \in Nat : k = Len(a) /\ l = Len(b)
  OBVIOUS
<1>6. /\ ab \in Seq(T) /\ Len(ab) = k + l /\ a \in Seq(T) /\ b \in Seq(T)
      /\ \A i \in 1..(k + l) : ab[i] = IF i <= k THEN a[i] ELSE b[i - k]
  BY <1>1, <1>4, <1>5, ConcatProperties
<1>7. PICK x \in Seq(Seq(T)), y \in Seq(Seq(T)) : x = Each(a) /\ y = Each(b)
  BY <1>1, <1>3
<1>8. Each(ab) = x \o y
  <2>1. k = Len(x) /\ l = Len(y)
    BY <1>3, <1>7, <1>5, <1>6
  <2>2. PICK z : z = Each(ab)
    OBVIOUS
  <2>3. z \in Seq(Seq(T)) /\ Len(z) = k + l
    BY <1>3, <1>6, <2>2
  <2>4. ASSUME NEW n \in 1..(k + l) PROVE z[n] = IF n <= k THEN x[n] ELSE y[n - k]
    <3>1. z[n] = ItemInto(ab[n], depth)
      BY <1>3, <1>6, <2>2
    <3>2. CASE n <= k
      BY <1>3, <1>7, <1>5, <1>6, <3>1, <3>2
    <3>3. CASE ~(n <= k)
      <4>1. n - k \in 1..l
        BY <3>3
      <4>2. ab[n] = b[n - k]
        BY <1>6, <3>3
      <4>3. y[n - k] = ItemInto(b[n - k], depth)
        BY <1>3, <1>7, <1>5, <1>6, <4>1
      <4> QED
        BY <3>1, <3>3, <4>2, <4>3
    <3> QED
      BY <3>2, <3>3
  <2>5. z = x \o y
    <3>1. PICK w : w = x \o y
      OBVIOUS
    <3>2. w \in Seq(Seq(T)) /\ Len(w) = k + l /\ \A n \in 1..(k + l) : w[n] = IF n <= k THEN x[n] ELSE y[n - k]
      BY <2>1, <3>1
    <3>3. \A n \in 1..(k + l) : z[n] = w[n]
      BY <2>4, <3>2
    <3> QED
      BY <2>3, <3>1, <3>2, <3>3, SeqEqual
  <2> QED
    BY <2>2, <2>5
<1>9. FlattenSeq(x \o y) = FlattenSeq(x) \o FlattenSeq(y) /\ FlattenSeq(x) \in Seq(T)
  BY FlatOfJoined, Flattened
<1> QED
  BY <1>1, <1>3, <1>4, <1>7, <1>8, <1>9, <1>6

\* The levels of unfolding some items, one after the other.
LevelTo(f, items, depth, m) ==
  f = [n \in 0..m |-> IF n = 0 THEN items ELSE Unfolded(f[n - 1], depth + n)]

LEMMA LevelExists ==
  ASSUME NEW items, NEW depth, NEW k \in Nat
  PROVE  \E f : LevelTo(f, items, depth, k)
<1>1. PICK S : S = {m \in 0..k : \E f : LevelTo(f, items, depth, m)}
  OBVIOUS
<1>2. 0 \in S
  <2>1. LevelTo([n \in 0..0 |-> items], items, depth, 0)
    BY DEF LevelTo
  <2> QED
    BY <1>1, <2>1
<1>3. ASSUME NEW m \in 0..(k - 1), m \in S PROVE m + 1 \in S
  <2>1. PICK r : LevelTo(r, items, depth, m)
    BY <1>1, <1>3
  <2>2. PICK g : g = [n \in 0..(m + 1) |-> IF n <= m THEN r[n] ELSE Unfolded(r[m], depth + (m + 1))]
    OBVIOUS
  <2>3. (\A n \in 0..m : g[n] = r[n]) /\ g[m + 1] = Unfolded(g[m], depth + (m + 1))
    BY <2>2
  <2>4. \A n \in 0..m : r[n] = IF n = 0 THEN items ELSE Unfolded(r[n - 1], depth + n)
    BY <2>1, Zenon DEF LevelTo
  <2>5. ASSUME NEW n \in 0..(m + 1)
        PROVE  g[n] = IF n = 0 THEN items ELSE Unfolded(g[n - 1], depth + n)
    <3>1. CASE n = m + 1
      <4>1. n - 1 = m /\ n # 0
        BY <3>1
      <4> QED
        BY <2>3, <3>1, <4>1
    <3>2. CASE n \in 0..m
      <4>1. n # 0 => n - 1 \in 0..m
        BY <3>2
      <4> QED
        BY <2>3, <2>4, <3>2, <4>1
    <3> QED
      BY <3>1, <3>2
  <2>6. g = [n \in 0..(m + 1) |-> g[n]]
    BY <2>2
  <2>7. LevelTo(g, items, depth, m + 1)
    BY <2>5, <2>6 DEF LevelTo
  <2>8. m + 1 \in 0..k
    OBVIOUS
  <2> QED
    BY <1>1, <2>7, <2>8
<1>4. k \in S
  BY <1>2, <1>3, StepsUp
<1> QED
  BY <1>1, <1>4

\* How often what stands at that depth can be unfolded.
Below(depth) == MaxDepth - 1 - depth

Levels(f, items, depth, k) ==
  /\ f[0] = items /\ Leaves(items, depth) = f[k]
  /\ \A n \in 1..k : f[n] = Unfolded(f[n - 1], depth + n)

LEMMA LeavesRun ==
  ASSUME NEW depth \in 0..(MaxDepth - 1), NEW items
  PROVE  Below(depth) \in Nat /\ \E f : Levels(f, items, depth, Below(depth))
<1> PICK k : k = Below(depth)
  OBVIOUS
<1>1. PICK f : f = CHOOSE level : level = [n \in 0..(MaxDepth - 1 - depth) |->
                     IF n = 0 THEN items ELSE Unfolded(level[n - 1], depth + n)]
  OBVIOUS
<1>2. k \in Nat
  BY DepthAssumption DEF Below
<1>3. LevelTo(f, items, depth, k)
  <2>1. \E g : LevelTo(g, items, depth, k)
    BY <1>2, LevelExists
  <2> QED
    BY <1>1, <2>1 DEF LevelTo, Below
<1>4. Leaves(items, depth) = f[k]
  BY <1>1 DEF Leaves, Below
<1>5. \A n \in 0..k : f[n] = IF n = 0 THEN items ELSE Unfolded(f[n - 1], depth + n)
  BY <1>3, Zenon DEF LevelTo
<1> QED
  BY <1>2, <1>4, <1>5 DEF Levels

JoinsUnfold(made) ==
  \A x, y \in Seq(Task(made)) : \A e : Unfolded(x \o y, e) = Unfolded(x, e) \o Unfolded(y, e)

LEMMA JoinedUnfolds ==
  ASSUME NEW made, MadeOf(made)
  PROVE  JoinsUnfold(made)
<1>1. ASSUME NEW x \in Seq(Task(made)), NEW y \in Seq(Task(made)), NEW e
      PROVE  Unfolded(x \o y, e) = Unfolded(x, e) \o Unfolded(y, e)
  BY UnfoldedJoined
<1> QED
  BY <1>1 DEF JoinsUnfold

LEMMA LeavesJoined ==
  ASSUME NEW made, MadeOf(made), NEW a \in Seq(Task(made)), NEW b \in Seq(Task(made)),
         NEW depth \in 0..(MaxDepth - 1)
  PROVE  /\ Leaves(a, depth) \in Seq(Task(made))
         /\ Leaves(a \o b, depth) = Leaves(a, depth) \o Leaves(b, depth)
<1>1. PICK k \in Nat : k = Below(depth)
  BY DepthAssumption DEF Below
<1>2. PICK f : Levels(f, a, depth, k)
  BY <1>1, LeavesRun
<1>3. PICK g : Levels(g, b, depth, k)
  BY <1>1, LeavesRun
<1>4. PICK ab : ab = a \o b
  OBVIOUS
<1>5. PICK h : Levels(h, ab, depth, k)
  BY <1>1, LeavesRun
<1>6. ASSUME NEW x \in Seq(Task(made)), NEW y \in Seq(Task(made)), NEW e
      PROVE  Unfolded(x \o y, e) = Unfolded(x, e) \o Unfolded(y, e)
  BY JoinedUnfolds DEF JoinsUnfold
<1> DEFINE P(n) == f[n] \in Seq(Task(made)) /\ g[n] \in Seq(Task(made)) /\ h[n] = f[n] \o g[n]
<1>7. \A n \in 0..k : P(n)
  <2>1. PICK S : S = {n \in 0..k : P(n)}
    OBVIOUS
  <2>2. 0 \in S
    <3>1. P(0) /\ 0 \in 0..k
      BY <1>2, <1>3, <1>4, <1>5 DEF Levels
    <3> QED
      BY <2>1, <3>1
  <2>3. ASSUME NEW n \in 0..(k - 1), n \in S PROVE n + 1 \in S
    <3>1. n + 1 \in 1..k /\ n + 1 \in 0..k /\ (n + 1) - 1 = n
      OBVIOUS
    <3>2. PICK x \in Seq(Task(made)), y \in Seq(Task(made)) : x = f[n] /\ y = g[n] /\ h[n] = x \o y
      BY <2>1, <2>3
    <3>3. PICK e : e = depth + (n + 1)
      OBVIOUS
    <3>4. f[n + 1] = Unfolded(x, e) /\ g[n + 1] = Unfolded(y, e) /\ h[n + 1] = Unfolded(x \o y, e)
      BY <1>2, <1>3, <1>5, <3>1, <3>2, <3>3 DEF Levels
    <3>5. /\ Unfolded(x, e) \in Seq(Task(made)) /\ Unfolded(y, e) \in Seq(Task(made))
          /\ Unfolded(x \o y, e) = Unfolded(x, e) \o Unfolded(y, e)
      <4>1. Unfolded(x, e) \in Seq(Task(made))
        BY UnfoldedJoined
      <4>2. Unfolded(y, e) \in Seq(Task(made))
        BY UnfoldedJoined
      <4>3. Unfolded(x \o y, e) = Unfolded(x, e) \o Unfolded(y, e)
        BY <1>6
      <4> QED
        BY <4>1, <4>2, <4>3
    <3>6. P(n + 1)
      BY <3>4, <3>5
    <3> HIDE DEF P
    <3> QED
      BY <2>1, <3>1, <3>6
  <2> HIDE DEF P
  <2> QED
    BY <2>1, <2>2, <2>3, StepsUp
<1> QED
  <2>1. k \in 0..k
    OBVIOUS
  <2>2. P(k)
    BY <1>7, <2>1
  <2> QED
    BY <1>2, <1>3, <1>4, <1>5, <2>2 DEF Levels

LEMMA UnfoldedFew ==
  ASSUME NEW depth
  PROVE  /\ Unfolded(<<>>, depth) = <<>>
         /\ \A x : Unfolded(<<x>>, depth) = ItemInto(x, depth)
<1>1. Unfolded(<<>>, depth) = <<>>
  <2>1. PICK s : s = [n \in DOMAIN <<>> |-> ItemInto(<<>>[n], depth)]
    OBVIOUS
  <2>2. s = <<>>
    BY <2>1
  <2>3. FlattenSeq(s) = <<>>
    BY <2>2 DEF FlattenSeq
  <2> QED
    BY <2>1, <2>3 DEF Unfolded, ItemInto
<1>2. ASSUME NEW x PROVE Unfolded(<<x>>, depth) = ItemInto(x, depth)
  <2>1. PICK s : s = [n \in DOMAIN <<x>> |-> ItemInto(<<x>>[n], depth)]
    OBVIOUS
  <2>2. s = [n \in 1..1 |-> ItemInto(x, depth)]
    BY <2>1
  <2>3. Len(s) = 1 /\ s[1] = ItemInto(x, depth)
    BY <2>2
  <2>4. FlattenSeq(s) = FirstFlat(s, 1)
    BY <2>3 DEF FlattenSeq, FirstFlat, FlatRun
  <2>5. FlatTo(FlatRun(s), s, 1)
    <3>1. \E f : FlatTo(f, s, 1)
      BY FlatExists
    <3> QED
      BY <2>3, <3>1 DEF FlatTo, FlatRun
  <2>6. FlatRun(s)[1] = s[1]
    <3>1. PICK f : f = FlatRun(s)
      OBVIOUS
    <3>2. FlatTo(f, s, 1)
      BY <2>5, <3>1
    <3>3. \A i \in 1..1 : f[i] = IF i = 1 THEN s[i] ELSE f[i - 1] \o s[i]
      BY <3>2, Zenon DEF FlatTo
    <3>4. 1 \in 1..1
      OBVIOUS
    <3> QED
      BY <3>1, <3>3, <3>4
  <2>7. Unfolded(<<x>>, depth) = FlattenSeq(s)
    BY <2>1 DEF Unfolded, ItemInto
  <2> QED
    BY <2>3, <2>4, <2>6, <2>7 DEF FirstFlat
<1> QED
  BY <1>1, <1>2

LEMMA LeavesFew ==
  ASSUME NEW depth \in 0..(MaxDepth - 1)
  PROVE  /\ Leaves(<<>>, depth) = <<>>
         /\ \A x : x.stage.kind # "compose" => Leaves(<<x>>, depth) = <<x>>
         /\ \A x : x.stage.kind = "compose" /\ depth + 1 < MaxDepth =>
              Leaves(<<x>>, depth) =
                Leaves(InOrder(x.stage.params, x.dir, x.skips, depth + 1), depth + 1)
<1>1. PICK k \in Nat : k = Below(depth)
  BY DepthAssumption DEF Below
<1>2. ASSUME NEW items, \A e : Unfolded(items, e) = items
      PROVE  Leaves(items, depth) = items
  <2>1. PICK f : Levels(f, items, depth, k)
    BY <1>1, LeavesRun
  <2>2. PICK S : S = {n \in 0..k : f[n] = items}
    OBVIOUS
  <2>3. 0 \in S
    BY <2>1, <2>2 DEF Levels
  <2>4. ASSUME NEW n \in 0..(k - 1), n \in S PROVE n + 1 \in S
    <3>1. n + 1 \in 1..k /\ n + 1 \in 0..k /\ (n + 1) - 1 = n
      OBVIOUS
    <3>2. f[n + 1] = Unfolded(items, depth + (n + 1))
      BY <2>1, <2>2, <2>4, <3>1 DEF Levels
    <3> QED
      BY <1>2, <2>2, <3>1, <3>2
  <2>5. k \in S
    BY <2>3, <2>4, StepsUp
  <2> QED
    BY <2>1, <2>2, <2>5 DEF Levels
<1>3. Leaves(<<>>, depth) = <<>>
  BY <1>2, UnfoldedFew
<1>4. ASSUME NEW x, x.stage.kind # "compose" PROVE Leaves(<<x>>, depth) = <<x>>
  <2>1. \A e : Unfolded(<<x>>, e) = <<x>>
    BY <1>4, UnfoldedFew DEF ItemInto
  <2> QED
    BY <1>2, <2>1
<1>5. ASSUME NEW x, x.stage.kind = "compose", depth + 1 < MaxDepth
      PROVE  Leaves(<<x>>, depth) = Leaves(InOrder(x.stage.params, x.dir, x.skips, depth + 1), depth + 1)
  <2>1. PICK inner : inner = InOrder(x.stage.params, x.dir, x.skips, depth + 1)
    OBVIOUS
  <2>2. /\ depth + 1 \in 0..(MaxDepth - 1) /\ k - 1 \in Nat /\ Below(depth + 1) = k - 1
    BY <1>1, <1>5, DepthAssumption DEF Below
  <2>3. PICK f : Levels(f, <<x>>, depth, k)
    BY <1>1, LeavesRun
  <2>4. PICK g : Levels(g, inner, depth + 1, k - 1)
    BY <2>2, LeavesRun
  <2>5. PICK S : S = {n \in 0..(k - 1) : f[n + 1] = g[n]}
    OBVIOUS
  <2>6. 0 \in S
    <3>1. 0 + 1 \in 1..k /\ (0 + 1) - 1 = 0 /\ depth + (0 + 1) = depth + 1 /\ 0 \in 0..(k - 1)
      BY <2>2
    <3>2. f[0 + 1] = Unfolded(<<x>>, depth + 1)
      BY <2>3, <3>1 DEF Levels
    <3>3. Unfolded(<<x>>, depth + 1) = inner
      BY <1>5, <2>1, UnfoldedFew DEF ItemInto
    <3> QED
      BY <2>4, <2>5, <3>1, <3>2, <3>3 DEF Levels
  <2>7. ASSUME NEW n \in 0..((k - 1) - 1), n \in S PROVE n + 1 \in S
    <3>1. /\ n + 1 \in 1..(k - 1) /\ n + 1 \in 0..(k - 1) /\ (n + 1) - 1 = n /\ (n + 1) + 1 \in 1..k
          /\ ((n + 1) + 1) - 1 = n + 1 /\ depth + ((n + 1) + 1) = (depth + 1) + (n + 1)
      BY <2>2
    <3>2. f[(n + 1) + 1] = Unfolded(f[n + 1], depth + ((n + 1) + 1))
      BY <2>3, <3>1 DEF Levels
    <3>3. g[n + 1] = Unfolded(g[n], (depth + 1) + (n + 1))
      BY <2>4, <3>1 DEF Levels
    <3>4. f[n + 1] = g[n]
      BY <2>5, <2>7
    <3> QED
      BY <2>5, <3>1, <3>2, <3>3, <3>4
  <2>8. k - 1 \in S /\ (k - 1) + 1 = k
    <3>1. k - 1 \in 0..(k - 1)
      BY <2>2
    <3> QED
      BY <2>2, <2>6, <2>7, <3>1, StepsUp
  <2> QED
    BY <2>1, <2>3, <2>4, <2>5, <2>8 DEF Levels
<1> QED
  BY <1>3, <1>4, <1>5

(***************************************************************************)
(* What stages do to a text, the first of them first.                      *)
(***************************************************************************)
MeansFrom(items, depth, text) == Through(Leaves(items, depth), text)

LEMMA FirstMeans ==
  ASSUME NEW made, MadeOf(made), NEW depth \in 0..(MaxDepth - 1), NEW text,
         NEW x \in Task(made), NEW rest \in Seq(Task(made))
  PROVE  MeansFrom(<<x>> \o rest, depth, text) = MeansFrom(rest, depth, MeansFrom(<<x>>, depth, text))
<1>1. PICK one \in Seq(Task(made)) : one = <<x>>
  <2>1. PICK T : T = Task(made)
    OBVIOUS
  <2>2. <<x>> \in Seq(T)
    BY <2>1
  <2> QED
    BY <2>1, <2>2
<1>2. /\ Leaves(one, depth) \in Seq(Task(made)) /\ Leaves(rest, depth) \in Seq(Task(made))
      /\ Leaves(one \o rest, depth) = Leaves(one, depth) \o Leaves(rest, depth)
  <2>1. Leaves(one, depth) \in Seq(Task(made))
    BY LeavesJoined
  <2>2. Leaves(rest, depth) \in Seq(Task(made))
    BY LeavesJoined
  <2>3. Leaves(one \o rest, depth) = Leaves(one, depth) \o Leaves(rest, depth)
    BY LeavesJoined
  <2> QED
    BY <2>1, <2>2, <2>3
<1>3. PICK a \in Seq(Task(made)), b \in Seq(Task(made)) :
        a = Leaves(<<x>>, depth) /\ b = Leaves(rest, depth) /\ Leaves(<<x>> \o rest, depth) = a \o b
  BY <1>1, <1>2
<1>4. Through(a \o b, text) = Through(b, Through(a, text))
  BY ThroughJoined
<1> QED
  BY <1>3, <1>4 DEF MeansFrom

LEMMA LeafMeans ==
  ASSUME NEW made, MadeOf(made), NEW depth \in 0..(MaxDepth - 1), NEW text,
         NEW x \in Task(made), NEW rest \in Seq(Task(made)), x.stage.kind # "compose"
  PROVE  MeansFrom(<<x>> \o rest, depth, text) = MeansFrom(rest, depth, LeafOutput(x, text))
<1>1. MeansFrom(<<x>>, depth, text) = LeafOutput(x, text)
  BY LeavesFew, ThroughFew DEF MeansFrom
<1> QED
  BY <1>1, FirstMeans

LEMMA RecipeMeans ==
  ASSUME NEW made, MadeOf(made), NEW depth \in 0..(MaxDepth - 1), depth + 1 < MaxDepth, NEW text,
         NEW x \in Task(made), NEW rest \in Seq(Task(made)), x.stage.kind = "compose"
  PROVE  MeansFrom(<<x>> \o rest, depth, text) =
           MeansFrom(rest, depth,
             MeansFrom(InOrder(x.stage.params, x.dir, x.skips, depth + 1), depth + 1, text))
<1>1. MeansFrom(<<x>>, depth, text) =
        MeansFrom(InOrder(x.stage.params, x.dir, x.skips, depth + 1), depth + 1, text)
  BY LeavesFew DEF MeansFrom
<1> QED
  BY <1>1, FirstMeans

-----------------------------------------------------------------------------
(***************************************************************************)
(* The stages a call has ahead of it, from the next one or from the one    *)
(* after that.                                                             *)
(***************************************************************************)
StagesAhead(call, depth, past) ==
  [n \in 1..(Len(call.stages) - (call.done + past)) |->
     InOrder(call.stages, call.dir, call.skips, depth)[call.done + past + n]]

NextTask(call, depth) ==
  [stage |-> NextStage(call), dir |-> StageDirection(NextStage(call), call.dir),
   skips |-> StageSkips(NextStage(call), call.skips, depth)]

LEMMA AheadFirst ==
  ASSUME NEW made, MadeOf(made), NEW call \in Call(made), Unfinished(call), NEW depth
  PROVE  /\ NextTask(call, depth) \in Task(made)
         /\ StagesAhead(call, depth, 1) \in Seq(Task(made))
         /\ StagesAhead(call, depth, 0) = <<NextTask(call, depth)>> \o StagesAhead(call, depth, 1)
<1>1. PICK all : all = InOrder(call.stages, call.dir, call.skips, depth)
  OBVIOUS
<1>2. PICK l \in Nat, d \in Nat : l = Len(call.stages) /\ d = call.done
  BY DEF Call
<1>3. d < l
  BY <1>2 DEF Unfinished
<1>4. all \in Seq(Task(made)) /\ Len(all) = l
  BY <1>1, <1>2, InOrderItems DEF Call
<1>5. PICK T : T = Task(made)
  OBVIOUS
<1>6. PICK rest : rest = StagesAhead(call, depth, 1) /\ rest = [n \in 1..(l - (d + 1)) |-> all[d + 1 + n]]
  BY <1>1, <1>2 DEF StagesAhead
<1>7. rest \in Seq(T) /\ Len(rest) = l - (d + 1)
  <2>1. l - (d + 1) \in Nat
    BY <1>3
  <2>2. \A n \in 1..(l - (d + 1)) : d + 1 + n \in 1..l
    OBVIOUS
  <2>3. \A n \in 1..l : all[n] \in T
    BY <1>4, <1>5
  <2>4. rest \in [1..(l - (d + 1)) -> T]
    BY <1>6, <2>2, <2>3
  <2> QED
    BY <2>1, <2>4
<1>8. all[d + 1] = NextTask(call, depth)
  <2>1. d + 1 \in 1..l /\ l + 1 - (d + 1) = l - d /\ DOMAIN call.stages = 1..l
    BY <1>2, <1>3 DEF Call
  <2>2. NextStage(call) = call.stages[IF call.dir = "decrypt" THEN d + 1 ELSE l + 1 - (d + 1)]
    BY <1>2, <2>1 DEF NextStage
  <2> QED
    BY <1>1, <1>2, <2>1, <2>2 DEF InOrder, NextTask
<1>9. NextTask(call, depth) \in T
  <2>1. d + 1 \in 1..l
    BY <1>3
  <2> QED
    BY <1>4, <1>5, <1>8, <2>1
<1>10. StagesAhead(call, depth, 0) = <<NextTask(call, depth)>> \o rest
  <2>1. PICK x \in T : x = NextTask(call, depth)
    BY <1>9
  <2>2. PICK one \in Seq(T) : one = <<x>> /\ Len(one) = 1 /\ one[1] = x
    <3>1. <<x>> \in Seq(T)
      OBVIOUS
    <3>2. Len(<<x>>) = 1 /\ <<x>>[1] = x
      OBVIOUS
    <3> QED
      BY <3>1, <3>2
  <2>3. PICK ahead : ahead = StagesAhead(call, depth, 0) /\ ahead = [n \in 1..(l - (d + 0)) |-> all[d + 0 + n]]
    BY <1>1, <1>2 DEF StagesAhead
  <2>4. PICK joined : joined = one \o rest
    OBVIOUS
  <2>5. PICK m \in Nat : m = l - d /\ 1 + (l - (d + 1)) = m
    BY <1>3
  <2>6. /\ joined \in Seq(T) /\ Len(joined) = m
        /\ \A n \in 1..m : joined[n] = IF n <= 1 THEN one[n] ELSE rest[n - 1]
    BY <1>7, <2>2, <2>4, <2>5, ConcatProperties
  <2>7. ahead \in Seq(T) /\ Len(ahead) = m
    <3>1. l - (d + 0) = m
      BY <2>5
    <3>2. \A n \in 1..m : d + 0 + n \in 1..l
      BY <2>5
    <3>3. \A n \in 1..l : all[n] \in T
      BY <1>4, <1>5
    <3>4. ahead \in [1..m -> T]
      BY <2>3, <3>1, <3>2, <3>3
    <3> QED
      BY <3>4
  <2>8. ASSUME NEW n \in 1..m PROVE ahead[n] = joined[n]
    <3>1. ahead[n] = all[d + n]
      BY <2>3, <2>5
    <3>2. CASE n = 1
      <4>1. ahead[1] = x
        BY <1>8, <2>1, <3>1, <3>2
      <4>2. joined[1] = one[1]
        BY <2>6, <3>2
      <4> QED
        BY <2>2, <3>2, <4>1, <4>2
    <3>3. CASE n # 1
      <4>1. n - 1 \in 1..(l - (d + 1)) /\ d + 1 + (n - 1) = d + n /\ ~(n <= 1)
        BY <2>5, <3>3
      <4>2. rest[n - 1] = all[d + 1 + (n - 1)]
        BY <1>6, <4>1
      <4>3. joined[n] = rest[n - 1]
        BY <2>6, <4>1
      <4> QED
        BY <3>1, <4>1, <4>2, <4>3
    <3> QED
      BY <3>2, <3>3
  <2>9. ahead = joined
    BY <2>6, <2>7, <2>8, SeqEqual
  <2> QED
    BY <2>1, <2>2, <2>3, <2>4, <2>9
<1> QED
  BY <1>5, <1>6, <1>7, <1>9, <1>10

LEMMA AheadLater ==
  ASSUME NEW made, NEW call \in Call(made), NEW later, OneMore(call, later), NEW depth
  PROVE  StagesAhead(later, depth, 0) = StagesAhead(call, depth, 1)
<1>1. PICK d \in Nat : d = call.done /\ later.done = d + 1
  BY DEF Call, OneMore
<1>2. later.stages = call.stages /\ later.dir = call.dir /\ later.skips = call.skips
  BY DEF OneMore
<1>3. (d + 1) + 0 = d + 1
  OBVIOUS
<1> QED
  BY <1>1, <1>2, <1>3 DEF StagesAhead

LEMMA AheadEnds ==
  ASSUME NEW made, MadeOf(made), NEW call \in Call(made), NEW depth
  PROVE  /\ call.done = Len(call.stages) => StagesAhead(call, depth, 0) = <<>>
         /\ call.done = 0 =>
              StagesAhead(call, depth, 0) = InOrder(call.stages, call.dir, call.skips, depth)
<1>1. PICK l \in Nat, d \in Nat : l = Len(call.stages) /\ d = call.done
  BY DEF Call
<1>2. ASSUME d = l PROVE StagesAhead(call, depth, 0) = <<>>
  <2>1. l - (d + 0) = 0
    BY <1>2
  <2>2. DOMAIN StagesAhead(call, depth, 0) = {}
    BY <1>1, <2>1 DEF StagesAhead
  <2>3. StagesAhead(call, depth, 0) = [n \in 1..0 |-> InOrder(call.stages, call.dir, call.skips, depth)[call.done + 0 + n]]
    BY <1>1, <2>1 DEF StagesAhead
  <2> QED
    BY <2>3
<1>3. ASSUME d = 0 PROVE StagesAhead(call, depth, 0) = InOrder(call.stages, call.dir, call.skips, depth)
  <2>1. PICK all \in Seq(Task(made)) : all = InOrder(call.stages, call.dir, call.skips, depth) /\ Len(all) = l
    BY <1>1, InOrderItems DEF Call
  <2>2. all = [n \in 1..l |-> all[n]]
    BY <2>1
  <2>3. l - (0 + 0) = l /\ \A n \in 1..l : 0 + 0 + n = n
    OBVIOUS
  <2>4. StagesAhead(call, depth, 0) = [n \in 1..l |-> all[0 + 0 + n]]
    BY <1>1, <1>3, <2>1, <2>3 DEF StagesAhead
  <2> QED
    BY <2>1, <2>2, <2>3, <2>4
<1> QED
  BY <1>1, <1>2, <1>3

-----------------------------------------------------------------------------
(***************************************************************************)
(* The texts that the calls will make, the outermost first: what is ahead  *)
(* of a call, after what the call in it will have made.                    *)
(***************************************************************************)
WillMake(made, config, meant) ==
  LET n == Len(config.calls) IN
    /\ made[0] = meant /\ made[n] = config.text
    /\ \A k \in 1..n :
         made[k - 1] = MeansFrom(StagesAhead(config.calls[k], k - 1, IF k < n THEN 1 ELSE 0), k - 1, made[k])

Heads(config, meant) == \E will : WillMake(will, config, meant)

LEMMA LeafHeads ==
  ASSUME NEW made, MadeOf(made), NEW length, NEW meant,
         NEW a \in Configurations(made, length), NEW b \in Configurations(made, length),
         AfterLeaf(a, b), Len(a.calls) <= MaxDepth, Heads(a, meant)
  PROVE  Heads(b, meant)
<1>1. PICK n \in Nat : n = Len(a.calls) /\ n > 0 /\ Len(b.calls) = n /\ n - 1 \in 0..(MaxDepth - 1)
  BY DepthAssumption DEF Configurations, AfterLeaf
<1>2. PICK call \in Call(made), later \in Call(made) : call = a.calls[n] /\ later = b.calls[n]
  BY <1>1 DEF Configurations
<1>3. PICK task : task = NextTask(call, n - 1)
  OBVIOUS
<1>4. /\ Unfinished(call) /\ OneMore(call, later) /\ task.stage.kind # "compose"
      /\ b.text = LeafOutput(task, a.text)
      /\ \A k \in 1..(n - 1) : b.calls[k] = a.calls[k]
  BY <1>1, <1>2, <1>3 DEF AfterLeaf, NextTask, LeafOutput
<1>5. PICK will : WillMake(will, a, meant)
  BY DEF Heads
<1>6. PICK next : next = [k \in 0..n |-> IF k = n THEN b.text ELSE will[k]]
  OBVIOUS
<1>7. next[n] = b.text /\ \A k \in 0..(n - 1) : next[k] = will[k]
  BY <1>6
<1>8. will[n] = a.text /\ will[0] = meant
  BY <1>1, <1>5 DEF WillMake
<1>9. will[n - 1] = MeansFrom(StagesAhead(call, n - 1, 0), n - 1, a.text)
  <2>1. n \in 1..n /\ ~(n < n)
    BY <1>1
  <2> QED
    BY <1>1, <1>2, <1>5, <1>8, <2>1 DEF WillMake
<1>10. will[n - 1] = MeansFrom(StagesAhead(later, n - 1, 0), n - 1, b.text)
  <2>1. PICK rest \in Seq(Task(made)) :
          /\ task \in Task(made) /\ rest = StagesAhead(call, n - 1, 1)
          /\ StagesAhead(call, n - 1, 0) = <<task>> \o rest
    BY <1>3, <1>4, AheadFirst
  <2>2. MeansFrom(<<task>> \o rest, n - 1, a.text) = MeansFrom(rest, n - 1, LeafOutput(task, a.text))
    BY <1>1, <1>4, <2>1, LeafMeans
  <2>3. StagesAhead(later, n - 1, 0) = rest
    BY <1>4, <2>1, AheadLater
  <2> QED
    BY <1>4, <1>9, <2>1, <2>2, <2>3
<1>11. ASSUME NEW k \in 1..n
       PROVE  next[k - 1] = MeansFrom(StagesAhead(b.calls[k], k - 1, IF k < n THEN 1 ELSE 0), k - 1, next[k])
  <2>1. k - 1 \in 0..(n - 1)
    OBVIOUS
  <2>2. CASE k = n
    BY <1>2, <1>7, <1>10, <2>1, <2>2
  <2>3. CASE k # n
    <3>1. k \in 1..(n - 1) /\ k < n /\ k \in 0..(n - 1)
      BY <2>3
    <3>2. will[k - 1] = MeansFrom(StagesAhead(a.calls[k], k - 1, 1), k - 1, will[k])
      BY <1>1, <1>5, <3>1 DEF WillMake
    <3> QED
      BY <1>4, <1>7, <2>1, <3>1, <3>2
  <2> QED
    BY <2>2, <2>3
<1>12. next[0] = meant
  BY <1>1, <1>7, <1>8
<1>13. WillMake(next, b, meant)
  BY <1>1, <1>7, <1>11, <1>12 DEF WillMake
<1> QED
  BY <1>13 DEF Heads

LEMMA EnterHeads ==
  ASSUME NEW made, MadeOf(made), NEW length, NEW meant,
         NEW a \in Configurations(made, length), NEW b \in Configurations(made, length),
         AfterEnter(a, b), Len(b.calls) <= MaxDepth, Heads(a, meant)
  PROVE  Heads(b, meant)
<1>1. PICK n \in Nat : n = Len(a.calls) /\ n > 0 /\ Len(b.calls) = n + 1 /\ n - 1 \in 0..(MaxDepth - 1)
                       /\ n < MaxDepth /\ (n - 1) + 1 = n
  BY DepthAssumption DEF Configurations, AfterEnter
<1>2. PICK call \in Call(made), inner \in Call(made) : call = a.calls[n] /\ inner = b.calls[n + 1]
  <2>1. n + 1 \in 1..Len(b.calls) /\ n \in 1..Len(a.calls)
    BY <1>1
  <2> QED
    BY <2>1 DEF Configurations
<1>3. PICK task : task = NextTask(call, n - 1)
  OBVIOUS
<1>4. /\ Unfinished(call) /\ task.stage.kind = "compose" /\ b.text = a.text
      /\ inner.stages = task.stage.params /\ inner.dir = task.dir /\ inner.skips = task.skips
      /\ inner.done = 0 /\ \A k \in 1..n : b.calls[k] = a.calls[k]
  BY <1>1, <1>2, <1>3 DEF AfterEnter, RunsNext, NextTask
<1>5. PICK will : WillMake(will, a, meant)
  BY DEF Heads
<1>6. PICK made2 : made2 = MeansFrom(InOrder(inner.stages, inner.dir, inner.skips, n), n, a.text)
  OBVIOUS
<1>7. PICK next : next = [k \in 0..(n + 1) |-> IF k = n + 1 THEN a.text ELSE IF k = n THEN made2 ELSE will[k]]
  OBVIOUS
<1>8. next[n + 1] = a.text /\ next[n] = made2 /\ \A k \in 0..(n - 1) : next[k] = will[k]
  BY <1>7
<1>9. will[n] = a.text /\ will[0] = meant
  BY <1>1, <1>5 DEF WillMake
<1>10. will[n - 1] = MeansFrom(StagesAhead(call, n - 1, 0), n - 1, a.text)
  <2>1. n \in 1..n /\ ~(n < n)
    BY <1>1
  <2> QED
    BY <1>1, <1>2, <1>5, <1>9, <2>1 DEF WillMake
<1>11. will[n - 1] = MeansFrom(StagesAhead(call, n - 1, 1), n - 1, made2)
  <2>1. PICK rest \in Seq(Task(made)) :
          /\ task \in Task(made) /\ rest = StagesAhead(call, n - 1, 1)
          /\ StagesAhead(call, n - 1, 0) = <<task>> \o rest
    BY <1>3, <1>4, AheadFirst
  <2>2. MeansFrom(<<task>> \o rest, n - 1, a.text) =
          MeansFrom(rest, n - 1,
            MeansFrom(InOrder(task.stage.params, task.dir, task.skips, (n - 1) + 1), (n - 1) + 1, a.text))
    <3>1. PICK e \in 0..(MaxDepth - 1) : e = n - 1 /\ e + 1 < MaxDepth
      BY <1>1
    <3>2. MeansFrom(<<task>> \o rest, e, a.text) =
            MeansFrom(rest, e,
              MeansFrom(InOrder(task.stage.params, task.dir, task.skips, e + 1), e + 1, a.text))
      BY <1>4, <2>1, <3>1, RecipeMeans
    <3> QED
      BY <3>1, <3>2
  <2> QED
    BY <1>1, <1>4, <1>6, <1>10, <2>1, <2>2
<1>12. next[n] = MeansFrom(StagesAhead(inner, n, 0), n, next[n + 1])
  BY <1>4, <1>6, <1>8, AheadEnds
<1>13. ASSUME NEW k \in 1..(n + 1)
       PROVE  next[k - 1] = MeansFrom(StagesAhead(b.calls[k], k - 1, IF k < n + 1 THEN 1 ELSE 0), k - 1, next[k])
  <2>1. CASE k = n + 1
    <3>1. k - 1 = n /\ ~(k < n + 1)
      BY <2>1
    <3> QED
      BY <1>2, <1>12, <2>1, <3>1
  <2>2. CASE k = n
    <3>1. k < n + 1 /\ n - 1 \in 0..(n - 1) /\ n \in 1..n
      BY <1>1, <2>2
    <3> QED
      BY <1>2, <1>4, <1>8, <1>11, <2>2, <3>1
  <2>3. CASE k # n /\ k # n + 1
    <3>1. k \in 1..n /\ k < n /\ k < n + 1 /\ k \in 0..(n - 1) /\ k - 1 \in 0..(n - 1)
      BY <2>3
    <3>2. will[k - 1] = MeansFrom(StagesAhead(a.calls[k], k - 1, 1), k - 1, will[k])
      BY <1>1, <1>5, <3>1 DEF WillMake
    <3> QED
      BY <1>4, <1>8, <3>1, <3>2
  <2> QED
    BY <2>1, <2>2, <2>3
<1>14. next[0] = meant
  BY <1>1, <1>8, <1>9
<1>15. WillMake(next, b, meant)
  BY <1>1, <1>4, <1>8, <1>13, <1>14 DEF WillMake
<1> QED
  BY <1>15 DEF Heads

LEMMA LeaveHeads ==
  ASSUME NEW made, MadeOf(made), NEW length, NEW meant,
         NEW a \in Configurations(made, length), NEW b \in Configurations(made, length),
         AfterLeave(a, b), Len(a.calls) <= MaxDepth, Heads(a, meant)
  PROVE  Heads(b, meant)
<1>1. PICK n \in Nat : n = Len(a.calls) /\ n > 1 /\ Len(b.calls) = n - 1 /\ n - 1 \in 0..(MaxDepth - 1)
  BY DepthAssumption DEF Configurations, AfterLeave
<1>2. PICK outer \in Call(made), call \in Call(made), later \in Call(made) :
        outer = a.calls[n - 1] /\ call = a.calls[n] /\ later = b.calls[n - 1]
  <2>1. n - 1 \in 1..Len(b.calls) /\ n \in 1..Len(a.calls) /\ n - 1 \in 1..Len(a.calls)
    BY <1>1
  <2> QED
    BY <2>1 DEF Configurations
<1>3. /\ call.done = Len(call.stages) /\ OneMore(outer, later) /\ b.text = a.text
      /\ \A k \in 1..(n - 2) : b.calls[k] = a.calls[k]
  BY <1>1, <1>2 DEF AfterLeave
<1>4. PICK will : WillMake(will, a, meant)
  BY DEF Heads
<1>5. will[n] = a.text /\ will[0] = meant
  BY <1>1, <1>4 DEF WillMake
<1>6. will[n - 1] = a.text
  <2>1. n \in 1..n /\ ~(n < n)
    BY <1>1
  <2>2. will[n - 1] = MeansFrom(StagesAhead(call, n - 1, 0), n - 1, a.text)
    BY <1>1, <1>2, <1>4, <1>5, <2>1 DEF WillMake
  <2>3. MeansFrom(<<>>, n - 1, a.text) = a.text
    BY <1>1, LeavesFew, ThroughFew DEF MeansFrom
  <2> QED
    BY <1>3, <2>2, <2>3, AheadEnds
<1>7. ASSUME NEW k \in 1..(n - 1)
      PROVE  will[k - 1] = MeansFrom(StagesAhead(b.calls[k], k - 1, IF k < n - 1 THEN 1 ELSE 0), k - 1, will[k])
  <2>1. k \in 1..n /\ k < n
    OBVIOUS
  <2>2. will[k - 1] = MeansFrom(StagesAhead(a.calls[k], k - 1, 1), k - 1, will[k])
    BY <1>1, <1>4, <2>1 DEF WillMake
  <2>3. CASE k = n - 1
    <3>1. StagesAhead(later, k - 1, 0) = StagesAhead(outer, k - 1, 1)
      BY <1>3, AheadLater
    <3> QED
      BY <1>2, <2>2, <2>3, <3>1
  <2>4. CASE k # n - 1
    <3>1. k \in 1..(n - 2) /\ k < n - 1
      BY <2>4
    <3> QED
      BY <1>3, <2>2, <3>1
  <2> QED
    BY <2>3, <2>4
<1>8. WillMake(will, b, meant)
  BY <1>1, <1>3, <1>5, <1>6, <1>7 DEF WillMake
<1> QED
  BY <1>8 DEF Heads

(***************************************************************************)
(* The caller's input stays what it is, and no recipe nests too deeply.    *)
(***************************************************************************)
InputKept(mem, mem2) == InBuffer \in DOMAIN mem2 /\ mem2[InBuffer] = mem[InBuffer]

LEMMA StepKeepsInput ==
  ASSUME NEW made, WellRun(made), InBuffer \in DOMAIN memory, Len(calls) <= MaxDepth,
         RunLeaf \/ EnterNested \/ LeaveNested, ~Refuse
  PROVE  InputKept(memory, memory') /\ Len(calls') <= MaxDepth
<1>1. PICK n \in Nat : n = Len(calls) /\ n > 0 /\ Running = calls[n] /\ Depth = n - 1 /\ n \in DOMAIN calls
  BY RunConfigured DEF Running, Depth, WellRun, ComposeInv, InOrderOf
<1>2. calls \in Seq(Call(made)) /\ CallsInPlace
  BY DEF WellRun, ComposeInv, InOrderOf, CallsInPlace
<1>3. CASE RunLeaf
  <2>1. PICK b, out, next : /\ b = Target(Running) /\ Running.done < Len(Running.stages)
                            /\ memory' = [memory EXCEPT ![b] = out]
                            /\ calls' = [calls EXCEPT ![Len(calls)] = next]
    BY <1>3 DEF RunLeaf
  <2>2. b # InBuffer
    BY <1>1, <1>2, <2>1, InPlaceIsApart DEF BuffersApart
  <2>3. Len(calls') = Len(calls)
    BY <1>2, <2>1
  <2> QED
    BY <2>1, <2>2, <2>3 DEF InputKept
<1>4. CASE EnterNested
  <2>1. PICK call, pushed, params : /\ calls' = Append(calls, pushed) /\ Depth + 1 < MaxDepth
                                    /\ memory' = WithScratch(memory, params, call.in, Depth + 1)
    BY <1>4 DEF EnterNested, EntryOK
  <2>2. PICK e \in Nat : e = Depth + 1 /\ e = n
    BY <1>1
  <2>3. InBuffer \notin {ScratchA(e), ScratchB(e)}
    BY BuffersDiffer
  <2>4. InputKept(memory, memory')
    BY <2>1, <2>2, <2>3, ScratchMade DEF InputKept
  <2>5. Len(calls') = n + 1 /\ n < MaxDepth
    BY <1>1, <1>2, <2>1, <2>2
  <2>6. n + 1 <= MaxDepth
    BY <2>5, DepthAssumption
  <2> QED
    BY <2>4, <2>5, <2>6
<1>5. CASE LeaveNested
  <2>1. PICK next : memory' = memory /\ calls' = [Front(calls) EXCEPT ![Depth] = next] /\ n > 1
    BY <1>1, <1>5 DEF LeaveNested
  <2>2. Len(calls') = n - 1
    <3>1. Front(calls) \in Seq(Call(made)) /\ Len(Front(calls)) = n - 1
      BY <1>1, <1>2, <2>1 DEF Front
    <3> QED
      BY <2>1, <3>1
  <2>3. n - 1 <= MaxDepth
    BY <1>1, DepthAssumption
  <2> QED
    BY <2>1, <2>2, <2>3 DEF InputKept
<1> QED
  BY <1>3, <1>4, <1>5

LEMMA StepHeads ==
  ASSUME NEW made, MadeOf(made), NEW length, NEW meant,
         NEW a \in Configurations(made, length), NEW b \in Configurations(made, length),
         OneStep(a, b), Len(a.calls) <= MaxDepth, Len(b.calls) <= MaxDepth, Heads(a, meant)
  PROVE  Heads(b, meant)
BY LeafHeads, EnterHeads, LeaveHeads DEF OneStep

Meant == Meaning(Stages, phase, Recipes[recipe].skips, memory[InBuffer])

HeadsOn ==
  /\ InBuffer \in DOMAIN memory /\ Len(calls) <= MaxDepth
  /\ Heads(Configuration, Meant)

MeaningInv(made) == RoundInv(made) /\ (calls # <<>> => HeadsOn)

LEMMA StartHeads ==
  ASSUME NEW made, Catalogued(made), NEW dir, NEW text,
         WellRun(made)', AtStart(Configuration'), Configuration'.text = text,
         Outermost(dir, CallerBuffers(text))
  PROVE  HeadsOn'
<1>1. /\ calls' \in Seq(Call(made)) /\ Configuration'.calls = calls' /\ Len(calls') = 1
      /\ calls'[1].done = 0
  BY DEF WellRun, ComposeInv, InOrderOf, AtStart, Configuration
<1>2. PICK call \in Call(made) : call = calls'[1]
  BY <1>1
<1>3. /\ call.stages = Stages' /\ call.dir = phase' /\ call.skips = (Recipes[recipe].skips)'
      /\ call.done = 0
  BY <1>1, <1>2 DEF WellRun
<1>4. InBuffer \in DOMAIN memory' /\ memory'[InBuffer] = text
  <2>1. PICK mem : mem = CallerBuffers(text)
    OBVIOUS
  <2>2. InBuffer \in DOMAIN mem /\ mem[InBuffer] = text
    BY <2>1 DEF CallerBuffers
  <2>3. memory' = WithScratch(mem, Stages, InBuffer, 0)
    BY <2>1 DEF Outermost
  <2>4. InBuffer \notin {ScratchA(0), ScratchB(0)}
    BY BuffersDiffer
  <2> QED
    BY <2>2, <2>3, <2>4, ScratchMade
<1>5. PICK config : config = Configuration' /\ config.calls = calls' /\ config.text = text
  BY <1>1
<1>6. Meant' = MeansFrom(StagesAhead(call, 0, 0), 0, text)
  <2>1. Meant' = MeansFrom(InOrder(call.stages, call.dir, call.skips, 0), 0, text)
    BY <1>3, <1>4 DEF Meant, Meaning, MeansFrom
  <2>2. StagesAhead(call, 0, 0) = InOrder(call.stages, call.dir, call.skips, 0)
    BY <1>3, AheadEnds DEF Catalogued
  <2> QED
    BY <2>1, <2>2
<1>7. Heads(config, Meant')
  <2>1. PICK meant : meant = Meant'
    OBVIOUS
  <2>2. PICK will : will = [k \in 0..1 |-> IF k = 0 THEN meant ELSE text]
    OBVIOUS
  <2>3. will[0] = meant /\ will[1] = text
    BY <2>2
  <2>4. ASSUME NEW k \in 1..1
        PROVE  will[k - 1] = MeansFrom(StagesAhead(config.calls[k], k - 1, IF k < 1 THEN 1 ELSE 0), k - 1, will[k])
    <3>1. k = 1 /\ k - 1 = 0 /\ ~(k < 1)
      OBVIOUS
    <3> QED
      BY <1>2, <1>5, <1>6, <2>1, <2>3, <3>1
  <2>5. WillMake(will, config, meant)
    BY <1>1, <1>5, <2>3, <2>4 DEF WillMake
  <2> QED
    BY <2>1, <2>5 DEF Heads
<1>8. Len(calls') <= MaxDepth
  BY <1>1, DepthAssumption
<1> QED
  BY <1>4, <1>5, <1>7, <1>8 DEF HeadsOn

LEMMA MeaningKept ==
  ASSUME NEW made, Catalogued(made), MeaningInv(made), [ComposeNext]_composeVars
  PROVE  MeaningInv(made)'
<1>1. RoundInv(made) /\ RoundInv(made)' /\ (calls # <<>> => HeadsOn)
  BY RoundKept DEF MeaningInv
<1>2. SUFFICES ASSUME calls' # <<>> PROVE HeadsOn'
  BY <1>1 DEF MeaningInv
<1>3. WellRun(made)'
  BY <1>1, <1>2 DEF RoundInv
<1>4. ~Refuse
  BY <1>2 DEF Refuse
<1>5. CASE ComposeStart
  <2>1. calls = <<>> /\ memory = CallerBuffers(message) /\ recipe \in 1..Len(Recipes)
    BY <1>1, <1>5 DEF ComposeStart, RoundInv, ComposeInv
  <2>2. Stages # <<>> /\ Outermost("encrypt", CallerBuffers(message))
    BY <1>4, <1>5, <2>1 DEF ComposeStart, EntryOK
  <2>3. message \in [1..Len(message) -> Index29] /\ message \in Seq(Index29)
    BY <1>1 DEF RoundInv
  <2>4. AtStart(Configuration') /\ Configuration'.text = message
    BY <2>1, <2>2, <2>3, OutermostRuns
  <2> QED
    BY <1>3, <2>2, <2>4, StartHeads
<1>6. CASE RunLeaf \/ EnterNested \/ LeaveNested
  <2>1. calls # <<>> /\ WellRun(made)
    <3>1. calls # <<>>
      BY <1>1, <1>6 DEF RunLeaf, EnterNested, LeaveNested, RoundInv, ComposeInv, InOrderOf
    <3> QED
      BY <1>1, <3>1 DEF RoundInv
  <2>2. OneStep(Configuration, Configuration') /\ UNCHANGED <<recipe, message, phase>>
    BY <1>4, <1>6, <2>1, StepForth, ComposeAssumption
  <2>3. InputKept(memory, memory') /\ Len(calls') <= MaxDepth
    BY <1>1, <1>4, <1>6, <2>1, StepKeepsInput DEF HeadsOn
  <2>4. PICK a \in Configurations(made, Len(message)) : a = Configuration
    BY <2>1, RunConfigured
  <2>5. PICK b \in Configurations(made, Len(message)) : b = Configuration'
    <3>1. Configuration' \in Configurations(made, Len(message'))
      BY <1>3 DEF WellRun, ComposeInv, InOrderOf, Configuration, Configurations
    <3> QED
      BY <2>2, <3>1
  <2>6. Meant' = Meant
    BY <2>2, <2>3 DEF Meant, InputKept, Stages
  <2>7. Heads(a, Meant) /\ Len(a.calls) <= MaxDepth /\ Len(b.calls) <= MaxDepth
    BY <1>1, <2>1, <2>3, <2>4, <2>5 DEF HeadsOn, Configuration
  <2>8. MadeOf(made) /\ OneStep(a, b)
    BY <2>2, <2>4, <2>5 DEF Catalogued
  <2>9. Heads(b, Meant)
    BY <2>7, <2>8, StepHeads
  <2> QED
    BY <2>3, <2>5, <2>6, <2>9 DEF HeadsOn, InputKept
<1>7. CASE ComposeTurn
  <2>1. calls # <<>> /\ Len(calls) = 1 /\ Running.done = Len(Running.stages)
    <3>1. Len(calls) = 1 /\ Running.done = Len(Running.stages)
      BY <1>7 DEF ComposeTurn
    <3>2. Len(<<>>) = 0
      OBVIOUS
    <3>3. calls # <<>>
      BY ONLY <3>1, <3>2
    <3> QED
      BY <3>1, <3>3
  <2>2. WellRun(made) /\ recipe \in 1..Len(Recipes) /\ Stages # <<>> /\ message \in Seq(Index29)
    BY <1>1, <2>1 DEF RoundInv, ComposeInv
  <2>3. PICK text \in [1..Len(message) -> Index29] : text = memory[OutBuffer]
    BY <2>1, <2>2, OutputShown, RunConfigured DEF WellRun
  <2>4. Outermost("decrypt", CallerBuffers(text))
    BY <1>7, <2>3 DEF ComposeTurn
  <2>5. AtStart(Configuration') /\ Configuration'.text = text
    BY <2>2, <2>4, OutermostRuns
  <2> QED
    BY <1>3, <2>4, <2>5, StartHeads
<1>8. CASE ComposeFinish
  BY <1>2, <1>8 DEF ComposeFinish
<1>9. CASE UNCHANGED composeVars
  <2>1. UNCHANGED <<recipe, message, phase, memory, calls>>
    BY <1>9 DEF composeVars
  <2>2. Configuration' = Configuration /\ Meant' = Meant
    BY <2>1 DEF Configuration, Shown, Meant, Stages
  <2> QED
    BY <1>1, <1>2, <2>1, <2>2 DEF HeadsOn
<1> QED
  BY <1>5, <1>6, <1>7, <1>8, <1>9 DEF ComposeNext

(***************************************************************************)
(* For all recipes of the catalog's transforms, nested in any way, and for *)
(* all texts and both directions: what a recipe leaves in the output is    *)
(* what its transforms make of the input, one after the other in the order *)
(* they come down to (ComposeTransform::apply_into).                       *)
(***************************************************************************)
THEOREM RecipesMean ==
  ASSUME NEW made, Catalogued(made), Messages \subseteq Seq(Index29)
  PROVE  ComposeSpec => []PipelineMeaning
<1>1. ComposeInit => MeaningInv(made)
  BY RoundStarts DEF MeaningInv
<1>2. MeaningInv(made) /\ [ComposeNext]_composeVars => MeaningInv(made)'
  BY MeaningKept
<1>3. MeaningInv(made) => PipelineMeaning
  <2> SUFFICES ASSUME MeaningInv(made), Len(calls) = 1, Running.done = Len(Running.stages)
               PROVE  memory[OutBuffer] = Meant
    BY DEF PipelineMeaning, Meant
  <2>1. calls # <<>>
    OBVIOUS
  <2>2. WellRun(made) /\ HeadsOn
    BY <2>1 DEF MeaningInv, RoundInv
  <2>3. Configuration.text = memory[OutBuffer] /\ Configuration.calls = calls
    BY <2>2, OutputShown DEF Configuration
  <2>4. PICK call \in Call(made) : call = calls[1] /\ call.done = Len(call.stages)
    BY <2>2 DEF WellRun, ComposeInv, InOrderOf, Running
  <2>5. PICK will : WillMake(will, Configuration, Meant)
    BY <2>2 DEF HeadsOn, Heads
  <2>6. will[0] = Meant /\ will[1] = memory[OutBuffer]
    BY <2>3, <2>5 DEF WillMake
  <2>7. 1 \in 1..1 /\ ~(1 < 1) /\ 1 - 1 = 0
    OBVIOUS
  <2>8. will[0] = MeansFrom(StagesAhead(call, 0, 0), 0, will[1])
    BY <2>3, <2>4, <2>5, <2>7 DEF WillMake
  <2>9. MeansFrom(<<>>, 0, will[1]) = will[1]
    <3>1. 0 \in 0..(MaxDepth - 1)
      BY DepthAssumption
    <3> QED
      BY <3>1, LeavesFew, ThroughFew DEF MeansFrom
  <2>10. StagesAhead(call, 0, 0) = <<>>
    BY <2>4, AheadEnds DEF Catalogued
  <2> QED
    BY <2>6, <2>8, <2>9, <2>10
<1> QED
  BY <1>1, <1>2, <1>3, PTL DEF ComposeSpec
=============================================================================
