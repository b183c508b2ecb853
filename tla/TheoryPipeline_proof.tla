----------------------- MODULE TheoryPipeline_proof -----------------------
(***************************************************************************)
(* Proofs about TheoryPipeline, for any chunks, theories and calls.        *)
(***************************************************************************)
EXTENDS TheoryPipeline, SequenceTheorems, TLAPS

-----------------------------------------------------------------------------
(***************************************************************************)
(* The host's state and the types of everything.  What is put on a stream  *)
(* is an operation, and what is taken off it leaves the rest as it was.    *)
(***************************************************************************)
LEMMA ChunkFacts ==
  /\ \A c \in Chunks : /\ TheoryOf[c] \in Theories /\ Size[c] \in Nat \ {0}
                       /\ Lowering(c) \in {"S0", "S1"}
                       /\ Flags(c) \in Chunks \cup {Clean} /\ Flags(c) # Fresh
                       /\ Right(c) \in Score /\ c # None /\ c # Fresh
  /\ \A t \in Ticket : t # None
  /\ None # Fresh
BY PipelineAssumption DEF Lowering, Flags, Right, Score, Ticket

LEMMA EnqueueTypes ==
  ASSUME DeviceTypeOK, NEW s \in Streams, NEW x \in Op, Enqueue(s, x)
  PROVE  /\ queue' \in [Streams -> Seq(Op)] /\ issued' \in [Streams -> Nat]
         /\ \A t \in Streams : Len(queue'[t]) <= issued'[t]
<1>1. On(s) \in Streams
  BY DEF On, Streams
<1>2. /\ Append(queue[On(s)], x) \in Seq(Op)
      /\ Len(Append(queue[On(s)], x)) = Len(queue[On(s)]) + 1
  BY <1>1, AppendProperties DEF DeviceTypeOK
<1> QED BY <1>1, <1>2 DEF DeviceTypeOK, Enqueue

LEMMA RetireTypes ==
  ASSUME DeviceTypeOK, NEW s \in Streams, queue[s] # << >>, Retire(s)
  PROVE  /\ queue' \in [Streams -> Seq(Op)] /\ Front(s) \in Op
         /\ \A t \in Streams : Len(queue'[t]) <= issued[t]
<1>1. /\ Tail(queue[s]) \in Seq(Op) /\ Head(queue[s]) \in Op
      /\ Len(Tail(queue[s])) = Len(queue[s]) - 1
  BY HeadTailProperties DEF DeviceTypeOK
<1> QED BY <1>1 DEF DeviceTypeOK, Retire, Front

LEMMA HostTypes ==
  ASSUME TypeOK, HostInStep, [Next]_vars
  PROVE  HostTypeOK' /\ HostInStep'
<1> USE ChunkFacts DEF TypeOK, HostTypeOK
<1>0. /\ \A i \in 1 .. Len(call) : call[i] \in Chunks
      /\ index <= Len(call) => Current \in Chunks /\ Size[Current] \in Nat
  BY DEF Current
<1>1. CASE Call
  <2>1. call' \in Seq(Chunks)
    BY <1>1, PipelineAssumption DEF Call
  <2>2. call' # << >> => Len(call') \in Nat \ {0} /\ call'[1] \in Chunks
    BY <2>1
  <2>3. HostTypeOK'
    BY <1>1, <2>1, <2>2 DEF Call, cacheVars, scratchVars
  <2>4. HostInStep'
    BY <1>1, <2>1, <2>2 DEF Call, HostInStep, Collected, Current, Fits, Resident, cacheVars, scratchVars
  <2> QED BY <2>3, <2>4
<1>2. CASE Bind
  BY <1>0, <1>2 DEF Bind, HostInStep, Collected, Current, Fits, Resident, callVars, scratchVars
<1>3. CASE BindFails
  BY <1>0, <1>3 DEF BindFails, Fail, HostInStep, Collected, Current, Fits, Resident, callVars, scratchVars, cacheVars
<1>4. CASE Reserve
  <2>1. CASE Fits
    BY <1>0, <1>4, <2>1 DEF Reserve, HostInStep, Collected, Current, Fits, Resident, callVars,
                            scratchVars, cacheVars, Slab
  <2>2. CASE ~Fits
    <3>1. ~hot /\ staged = None /\ index <= Len(call)
      BY <1>0, <1>4, <2>2 DEF Reserve, HostInStep, Current, Fits, Resident
    <3>2. lut' \in [valid : BOOLEAN, chunk : Chunks \cup {None}, slab : Slab] /\ ~lut'.valid
      BY <1>4, <2>2 DEF Reserve
    <3>3. HostTypeOK'
      BY <1>0, <1>4, <2>2, <3>1, <3>2 DEF Reserve, callVars, cacheVars, Slab, Fits
    <3>4. HostInStep'
      BY <1>0, <1>4, <2>2, <3>1, <3>2 DEF Reserve, HostInStep, Collected, Current, Fits, Resident,
                                          callVars, cacheVars
    <3> QED BY <3>3, <3>4
  <2> QED BY <2>1, <2>2
<1>5. CASE ReserveFails
  BY <1>0, <1>5 DEF ReserveFails, StagingFails, Fail, HostInStep, Collected, Current, Fits, Resident, callVars, scratchVars, cacheVars
<1>6. CASE Upload
  BY <1>0, <1>6 DEF Upload, HostInStep, Collected, Current, Fits, Resident, callVars, Slab, Other, Ticket
<1>7. CASE UploadFails
  BY <1>0, <1>7 DEF UploadFails, StagingFails, Fail, HostInStep, Collected, Current, Fits, Resident, callVars, scratchVars, cacheVars
<1>8. CASE Collect
  BY <1>0, <1>8 DEF Collect, HostInStep, Collected, Current, Fits, Resident, callVars, scratchVars, cacheVars
<1>9. CASE Await
  BY <1>0, <1>9 DEF Await, HostInStep, Collected, Current, Fits, Resident, callVars, scratchVars, cacheVars, DeviceTypeOK
<1>10. CASE CollectFails
  BY <1>0, <1>10 DEF CollectFails, Fail, HostInStep, Collected, Current, Fits, Resident, callVars, scratchVars, cacheVars
<1>11. CASE Launch
  BY <1>0, <1>11 DEF Launch, Proceed, Baked, HostInStep, Collected, Current, Fits, Resident, callVars, cacheVars, Ticket
<1>12. CASE LaunchFails
  BY <1>0, <1>12 DEF LaunchFails, Fail, HostInStep, Collected, Current, Fits, Resident, callVars, scratchVars, cacheVars
<1>13. CASE Return
  BY <1>0, <1>13 DEF Return, HostInStep, Collected, Current, Fits, Resident, scratchVars, cacheVars
<1>14. CASE UNCHANGED hostVars
  BY <1>0, <1>14 DEF hostVars, callVars, cacheVars, scratchVars, HostInStep, Collected, Current, Fits, Resident
<1> QED
  BY <1>1, <1>2, <1>3, <1>4, <1>5, <1>6, <1>7, <1>8, <1>9, <1>10, <1>11, <1>12, <1>13, <1>14
  DEF Next, Host, Stream, Uploaded, Downloaded, KernelStarts, KernelFinishes, DeviceFails, vars

LEMMA DeviceTypes ==
  ASSUME TypeOK, HostInStep, [Next]_vars
  PROVE  DeviceTypeOK'
<1> USE ChunkFacts DEF TypeOK
<1>0. /\ index <= Len(call) => Current \in Chunks
      /\ \A s \in Streams : queue[s] # << >> => Front(s) \in Op
  BY HeadTailProperties DEF Current, HostTypeOK, DeviceTypeOK, Front
<1>1. CASE UNCHANGED deviceVars /\ UNCHANGED memoryVars
  BY <1>1 DEF deviceVars, memoryVars, DeviceTypeOK
<1>2. CASE Reserve
  BY <1>2 DEF Reserve, memoryVars, deviceVars, DeviceTypeOK, Content
<1>3. CASE Upload
  <2>1. CASE hot
    BY <1>3, <2>1 DEF Upload, memoryVars, DeviceTypeOK, Streams
  <2>2. CASE ~hot
    <3> DEFINE x == [op |-> "upload", slab |-> writeSlab, after |-> 0,
                     ticket |-> [chunk |-> Current, path |-> path, hot |-> hot]]
    <3>1. x \in Op /\ Enqueue("copy", x)
      BY <1>0, <1>3, <2>2 DEF Upload, HostInStep, HostTypeOK, Op, Ticket
    <3>2. /\ queue' \in [Streams -> Seq(Op)] /\ issued' \in [Streams -> Nat]
          /\ \A t \in Streams : Len(queue'[t]) <= issued'[t]
      BY <3>1, EnqueueTypes DEF Streams
    <3> QED BY <1>3, <3>2 DEF Upload, memoryVars, DeviceTypeOK, Streams
  <2> QED BY <2>1, <2>2
<1>4. CASE Collect
  <2> DEFINE x == [op |-> "download", slab |-> 0, after |-> event["compute"],
                   ticket |-> inFlight]
  <2>1. x \in Op /\ Enqueue("copy", x)
    BY <1>4 DEF Collect, HostInStep, HostTypeOK, DeviceTypeOK, Op, Slab, Streams
  <2>2. /\ queue' \in [Streams -> Seq(Op)] /\ issued' \in [Streams -> Nat]
        /\ \A t \in Streams : Len(queue'[t]) <= issued'[t]
    BY <2>1, EnqueueTypes DEF Streams
  <2> QED BY <1>4, <2>2 DEF Collect, memoryVars, DeviceTypeOK
<1>5. CASE Await
  BY <1>5 DEF Await, deviceVars, DeviceTypeOK
<1>6. CASE Launch
  <2> DEFINE x == [op |-> "kernel", slab |-> launchSlab, after |-> event["copy"],
                   ticket |-> staged]
  <2>1. x \in Op /\ Enqueue("compute", x)
    BY <1>6 DEF Launch, HostInStep, HostTypeOK, DeviceTypeOK, Op, Streams
  <2>2. /\ queue' \in [Streams -> Seq(Op)] /\ issued' \in [Streams -> Nat]
        /\ \A t \in Streams : Len(queue'[t]) <= issued'[t]
    BY <2>1, EnqueueTypes DEF Streams
  <2> QED BY <1>6, <2>2 DEF Launch, memoryVars, DeviceTypeOK, Streams
<1>7. ASSUME NEW s \in Streams, Uploaded(s) PROVE DeviceTypeOK'
  <2>1. queue[s] # << >> /\ Retire(s)
    BY <1>7 DEF Uploaded, MayStart
  <2>2. Front(s).ticket.chunk \in Chunks /\ Front(s).slab \in Slab
    BY <1>0, <2>1 DEF Op, Ticket
  <2> QED BY <1>7, <2>1, <2>2, RetireTypes DEF Uploaded, hostVars, DeviceTypeOK, Content
<1>8. ASSUME NEW s \in Streams, Downloaded(s) PROVE DeviceTypeOK'
  <2>1. queue[s] # << >> /\ Retire(s)
    BY <1>8 DEF Downloaded, MayStart
  <2> QED BY <1>8, <2>1, RetireTypes DEF Downloaded, hostVars, DeviceTypeOK
<1>9. ASSUME NEW s \in Streams, KernelStarts(s) PROVE DeviceTypeOK'
  <2>1. Front(s) \in Op
    BY <1>0, <1>9 DEF KernelStarts, MayStart
  <2>2. Source(Front(s)) \in Content
    BY <2>1 DEF Source, Op, DeviceTypeOK
  <2> QED BY <1>9, <2>2 DEF KernelStarts, hostVars, memoryVars, DeviceTypeOK
<1>10. ASSUME NEW s \in Streams, KernelFinishes(s) PROVE DeviceTypeOK'
  <2>1. Front(s) \in Op /\ queue[s] # << >> /\ Retire(s)
    BY <1>0, <1>10 DEF KernelFinishes
  <2>2. Front(s).ticket.chunk \in Chunks /\ Front(s).slab \in Slab
    BY <2>1 DEF Op, Ticket
  <2>3. laneErr' \in Chunks \cup {Clean, Fresh}
    BY <1>10, <2>2 DEF KernelFinishes, DeviceTypeOK
  <2>4. luts' \in [Slab -> Content]
    BY <1>10, <2>2 DEF KernelFinishes, DeviceTypeOK, Content
  <2>5. scores' \in Score \cup {Fresh}
    BY <1>10, <2>2, <2>3 DEF KernelFinishes, Score
  <2> QED BY <1>10, <2>1, <2>3, <2>4, <2>5, RetireTypes
          DEF KernelFinishes, hostVars, DeviceTypeOK
<1>11. CASE DeviceFails
  BY <1>11 DEF DeviceFails, hostVars, memoryVars, DeviceTypeOK
<1>12. CASE Host
  BY <1>1, <1>2, <1>3, <1>4, <1>5, <1>6, <1>12
  DEF Host, Bind, BindFails, ReserveFails, UploadFails, CollectFails, LaunchFails, Return
<1> QED
  BY <1>1, <1>7, <1>8, <1>9, <1>10, <1>11, <1>12 DEF Next, Call, Stream, vars

(***************************************************************************)
(* Types, and that the host keeps staging, flight and table in step.       *)
(***************************************************************************)
THEOREM TypeCorrect == Spec => [](TypeOK /\ HostInStep)
<1>1. ASSUME Init PROVE TypeOK /\ HostInStep
  <2>0. /\ \A S : << >> \in Seq(S)
        /\ Len(<< >>) = 0
    OBVIOUS
  <2>1. HostTypeOK
    <3>1. /\ call \in Seq(Chunks) /\ Len(call) = 0 /\ index = 1
          /\ out \in Seq(Score \cup {Fresh}) /\ Len(out) = 0
      BY <1>1, <2>0 DEF Init
    <3>2. /\ lut \in [valid : BOOLEAN, chunk : Chunks \cup {None}, slab : Slab]
          /\ writeSlab \in Slab /\ launchSlab \in Slab /\ capacity \in Nat
      BY <1>1 DEF Init, Slab
    <3>3. index \in 1 .. Len(call) + 1 /\ Len(out) <= Len(call) + 1
      BY <3>1
    <3> QED BY <1>1, <3>1, <3>2, <3>3 DEF Init, HostTypeOK
  <2>2. HostInStep
    BY <1>1, <2>0 DEF Init, HostInStep, Collected
  <2>3. /\ slots \in [Slab -> Content] /\ luts \in [Slab -> Content]
        /\ queue \in [Streams -> Seq(Op)] /\ \A s \in Streams : Len(queue[s]) = 0
        /\ issued \in [Streams -> Nat] /\ event \in [Streams -> Nat]
        /\ \A s \in Streams : issued[s] = 0
    BY <1>1, <2>0 DEF Init, Content
  <2>4. DeviceTypeOK
    <3>1. \A s \in Streams : Len(queue[s]) <= issued[s]
      BY <2>3
    <3> QED BY <1>1, <2>3, <3>1 DEF Init, DeviceTypeOK
  <2> QED BY <2>1, <2>2, <2>4 DEF TypeOK
<1>2. ASSUME TypeOK, HostInStep, [Next]_vars PROVE (TypeOK /\ HostInStep)'
  BY <1>2, HostTypes, DeviceTypes DEF TypeOK
<1> QED BY <1>1, <1>2, PTL DEF Spec

-----------------------------------------------------------------------------
(***************************************************************************)
(* The work left: a stream that is not empty goes on with the first operation    *)
(* that has not run; enqueuing adds one behind the others, retiring takes  *)
(* the first, and every other keeps its number.                            *)
(***************************************************************************)
LEMMA PendingOps ==
  ASSUME DeviceTypeOK, NEW s \in Streams
  PROVE  /\ Retired(s) \in Nat /\ DOMAIN work[s] = Retired(s) + 1 .. issued[s]
         /\ \A i \in DOMAIN work[s] : work[s][i] \in Op
         /\ queue[s] = << >> <=> DOMAIN work[s] = {}
         /\ queue[s] # << >> => /\ Retired(s) + 1 \in DOMAIN work[s]
                                /\ work[s][Retired(s) + 1] = Front(s)
<1>1. Len(queue[s]) \in Nat /\ issued[s] \in Nat /\ Len(queue[s]) <= issued[s]
  BY DEF DeviceTypeOK
<1>2. /\ work[s] = [i \in Retired(s) + 1 .. issued[s] |-> queue[s][i - Retired(s)]]
      /\ Retired(s) \in Nat
  BY <1>1 DEF work, Retired
<1>3. queue[s] = << >> <=> Len(queue[s]) = 0
  BY DEF DeviceTypeOK
<1>4. \A i \in 1 .. Len(queue[s]) : queue[s][i] \in Op
  BY DEF DeviceTypeOK
<1>5. ASSUME NEW i \in Retired(s) + 1 .. issued[s] PROVE i - Retired(s) \in 1 .. Len(queue[s])
  BY <1>1, <1>2 DEF Retired
<1>6. queue[s] # << >> => Retired(s) + 1 \in Retired(s) + 1 .. issued[s]
  BY <1>1, <1>3 DEF Retired
<1>7. queue[s] # << >> => queue[s][1] = Head(queue[s])
  OBVIOUS
<1>8. (Retired(s) + 1) - Retired(s) = 1
  BY <1>2
<1>9. queue[s] = << >> => Retired(s) + 1 > issued[s]
  BY <1>1, <1>3 DEF Retired
<1> QED BY <1>1, <1>2, <1>4, <1>5, <1>6, <1>7, <1>8, <1>9 DEF Front

LEMMA EnqueuedOps ==
  ASSUME DeviceTypeOK,
         NEW t \in Streams, NEW x \in Op, Enqueue(t, x),
         NEW s, s = On(t)
  PROVE  /\ s \in Streams /\ issued' = [issued EXCEPT ![s] = issued[s] + 1]
         /\ DOMAIN work'[s] = DOMAIN work[s] \cup {issued[s] + 1}
         /\ work'[s][issued[s] + 1] = x
         /\ \A i \in DOMAIN work[s] : i <= issued[s] /\ work'[s][i] = work[s][i]
         /\ \A r \in Streams \ {s} : work'[r] = work[r]
         /\ \A r \in Streams : Retired(r)' = Retired(r)
<1>1. s \in Streams
  BY DEF On, Streams
<1>2. /\ queue' = [queue EXCEPT ![s] = Append(queue[s], x)]
      /\ issued' = [issued EXCEPT ![s] = issued[s] + 1]
  BY DEF Enqueue
<1>3. /\ Len(Append(queue[s], x)) = Len(queue[s]) + 1
      /\ \A i \in 1 .. Len(queue[s]) : Append(queue[s], x)[i] = queue[s][i]
      /\ Append(queue[s], x)[Len(queue[s]) + 1] = x
  BY <1>1, AppendProperties DEF DeviceTypeOK
<1>4. PICK n \in Nat, l \in Nat : n = issued[s] /\ l = Len(queue[s]) /\ l <= n
  BY <1>1 DEF DeviceTypeOK
<1>5. PICK d \in Nat : d = n - l
  BY <1>4
<1>6. work[s] = [i \in d + 1 .. n |-> queue[s][i - d]]
  BY <1>1, <1>4, <1>5 DEF work, Retired
<1>7. work'[s] = [i \in d + 1 .. n + 1 |-> Append(queue[s], x)[i - d]]
  <2>1. queue'[s] = Append(queue[s], x) /\ issued'[s] = n + 1
    BY <1>1, <1>2, <1>4 DEF DeviceTypeOK
  <2>2. Len(queue'[s]) = l + 1
    BY <1>3, <1>4, <2>1
  <2>3. (n + 1) - (l + 1) = d
    BY <1>4, <1>5
  <2> QED BY <1>1, <2>1, <2>2, <2>3 DEF work, Retired
<1>8. \A i \in d + 1 .. n : i - d \in 1 .. l /\ i <= n
  BY <1>4, <1>5
<1>9. \A i : i \in d + 1 .. n + 1 <=> i \in d + 1 .. n \/ i = n + 1
  BY <1>4, <1>5
<1>10. (n + 1) - d = l + 1 /\ n + 1 \in d + 1 .. n + 1
  BY <1>4, <1>5
<1>11. \A r \in Streams \ {s} : work'[r] = work[r]
  BY <1>2 DEF work, DeviceTypeOK, Retired
<1>12. \A i \in DOMAIN work[s] : i <= n /\ work'[s][i] = work[s][i]
  BY <1>3, <1>4, <1>6, <1>7, <1>8, <1>9
<1>13. work'[s][n + 1] = x
  <2>1. work'[s][n + 1] = Append(queue[s], x)[(n + 1) - d]
    BY <1>7, <1>10
  <2> QED BY <1>3, <1>4, <1>10, <2>1
<1>14. DOMAIN work'[s] = DOMAIN work[s] \cup {n + 1}
  BY <1>6, <1>7, <1>9
<1>15. ASSUME NEW r \in Streams PROVE Retired(r)' = Retired(r)
  <2>1. CASE r = s
    <3>1. Len(queue'[s]) = l + 1 /\ issued'[s] = n + 1 /\ (n + 1) - (l + 1) = n - l
      BY <1>1, <1>2, <1>3, <1>4 DEF DeviceTypeOK
    <3> QED BY <1>4, <2>1, <3>1 DEF Retired
  <2>2. CASE r # s
    BY <1>2, <2>2 DEF Retired, DeviceTypeOK
  <2> QED BY <2>1, <2>2
<1> QED BY <1>1, <1>2, <1>4, <1>11, <1>12, <1>13, <1>14, <1>15

LEMMA RetiredOps ==
  ASSUME DeviceTypeOK,
         NEW s \in Streams, queue[s] # << >>, Retire(s), UNCHANGED issued,
         NEW f, f = Retired(s) + 1
  PROVE  /\ f \in DOMAIN work[s] /\ work[s][f] = Front(s)
         /\ \A i \in DOMAIN work[s] : i >= f
         /\ DOMAIN work'[s] = DOMAIN work[s] \ {f}
         /\ \A i \in DOMAIN work'[s] : work'[s][i] = work[s][i]
         /\ \A r \in Streams \ {s} : work'[r] = work[r]
         /\ Retired(s)' = f /\ \A r \in Streams \ {s} : Retired(r)' = Retired(r)
<1>1. queue' = [queue EXCEPT ![s] = Tail(queue[s])] /\ issued' = issued
  BY DEF Retire
<1>2. /\ Len(Tail(queue[s])) = Len(queue[s]) - 1
      /\ \A i \in 1 .. Len(Tail(queue[s])) : Tail(queue[s])[i] = queue[s][i + 1]
  BY HeadTailProperties DEF DeviceTypeOK
<1>3. PICK n \in Nat, l \in Nat : n = issued[s] /\ l = Len(queue[s]) /\ l <= n
  BY DEF DeviceTypeOK
<1>4. PICK d \in Nat : d = n - l
  BY <1>3
<1>5. work[s] = [i \in d + 1 .. n |-> queue[s][i - d]] /\ f = d + 1
  BY <1>3, <1>4 DEF work, Retired
<1>6. queue'[s] = Tail(queue[s]) /\ issued'[s] = n /\ Len(queue'[s]) = l - 1
  BY <1>1, <1>2, <1>3 DEF DeviceTypeOK
<1>7. n - (l - 1) = d + 1
  BY <1>3, <1>4
<1>8. work'[s] = [i \in (d + 1) + 1 .. n |-> Tail(queue[s])[i - (d + 1)]]
  BY <1>6, <1>7 DEF work, Retired
<1>9. \A i \in (d + 1) + 1 .. n :
        /\ i - (d + 1) \in 1 .. l - 1 /\ (i - (d + 1)) + 1 = i - d
        /\ i \in d + 1 .. n
  <2>1. l <= n /\ d = n - l
    BY <1>3, <1>4
  <2> QED BY <2>1
<1>10. \A i \in DOMAIN work'[s] : work'[s][i] = work[s][i]
  BY <1>2, <1>3, <1>5, <1>8, <1>9
<1>11. \A i : i \in (d + 1) + 1 .. n <=> i \in d + 1 .. n /\ i # d + 1
  BY <1>3, <1>4
<1>12. DOMAIN work'[s] = DOMAIN work[s] \ {f} /\ \A i \in DOMAIN work[s] : i >= f
  BY <1>5, <1>8, <1>11
<1>13. \A r \in Streams \ {s} : work'[r] = work[r] /\ Retired(r)' = Retired(r)
  BY <1>1 DEF work, DeviceTypeOK, Retired
<1>14. Retired(s)' = f
  BY <1>5, <1>6, <1>7 DEF Retired
<1> QED BY <1>10, <1>12, <1>13, <1>14, PendingOps

-----------------------------------------------------------------------------
(***************************************************************************)
(* What a step of the host puts on a stream, and what a step of the device *)
(* takes off it, seen by kernels, uploads and downloads.                   *)
(***************************************************************************)
LEMMA Unmoved ==
  ASSUME UNCHANGED <<queue, issued>>
  PROVE  work' = work /\ \A s \in Streams : Retired(s)' = Retired(s)
BY DEF work, Retired

LEMMA KindsDiffer ==
  ASSUME TypeOK, StreamsInStep
  PROVE  /\ On("copy") \in Streams /\ "compute" \in Streams
         /\ \A s \in Streams : s # On("copy") => Ops(s, "upload") = {} /\ Ops(s, "download") = {}
         /\ \A s \in Streams : s # "compute" => Ops(s, "kernel") = {}
<1>1. CASE dedicated
  BY <1>1 DEF On, Streams, Ops, StreamsInStep
<1>2. CASE ~dedicated
  BY <1>2 DEF On, Streams, Ops, StreamsInStep
<1> QED BY <1>1, <1>2

LEMMA UploadQueues ==
  ASSUME TypeOK, HostInStep, StreamsInStep, Upload, ~hot, NEW s, s = On("copy"),
         NEW n, n = issued[s] + 1
  PROVE  /\ Kernels' = Kernels /\ \A k \in Kernels : work'["compute"][k] = work["compute"][k]
         /\ Downloads' = Downloads
         /\ Uploads' = Uploads \cup {n} /\ \A i \in Uploads : work'[s][i] = work[s][i]
         /\ work'[s][n] = [op |-> "upload", slab |-> writeSlab, after |-> 0,
                           ticket |-> [chunk |-> Current, path |-> path, hot |-> hot]]
         /\ \A i \in DOMAIN work[s] : i < n
         /\ issued' = [issued EXCEPT ![s] = n]
         /\ \A r \in Streams : \A i \in DOMAIN work'[r] :
              (r = s /\ i = n) \/ (i \in DOMAIN work[r] /\ work'[r][i] = work[r][i])
         /\ \A r \in Streams : Retired(r)' = Retired(r)
<1> DEFINE x == [op |-> "upload", slab |-> writeSlab, after |-> 0,
                 ticket |-> [chunk |-> Current, path |-> path, hot |-> hot]]
<1>1. x \in Op /\ Enqueue("copy", x) /\ UNCHANGED dedicated
  BY DEF Upload, HostInStep, TypeOK, HostTypeOK, Op, Ticket, Current, callVars
<1> HIDE DEF x
<1>2. /\ s \in Streams /\ issued' = [issued EXCEPT ![s] = n]
      /\ DOMAIN work'[s] = DOMAIN work[s] \cup {n} /\ work'[s][n] = x
      /\ \A i \in DOMAIN work[s] : i <= issued[s] /\ work'[s][i] = work[s][i]
      /\ \A r \in Streams \ {s} : work'[r] = work[r]
      /\ \A r \in Streams : Retired(r)' = Retired(r)
  BY <1>1, EnqueuedOps DEF TypeOK, Streams
<1>3. issued[s] \in Nat /\ DOMAIN work[s] \subseteq Int
  BY <1>2, PendingOps DEF TypeOK, DeviceTypeOK
<1>4. \A i \in DOMAIN work[s] : i < n
  BY <1>2, <1>3
<1>5. x.op = "upload"
  BY DEF x
<1>6. Kernels' = Kernels /\ \A k \in Kernels : work'["compute"][k] = work["compute"][k]
  BY <1>2, <1>5 DEF Kernels, Ops, Streams
<1>7. Downloads' = Downloads
  BY <1>1, <1>2, <1>5 DEF Downloads, Ops, On
<1>8. Uploads' = Uploads \cup {n} /\ \A i \in Uploads : work'[s][i] = work[s][i]
  BY <1>1, <1>2, <1>5 DEF Uploads, Ops, On
<1> QED BY <1>2, <1>4, <1>6, <1>7, <1>8 DEF x

LEMMA CollectQueues ==
  ASSUME TypeOK, HostInStep, StreamsInStep, Collect, NEW s, s = On("copy"),
         NEW n, n = issued[s] + 1
  PROVE  /\ Kernels' = Kernels /\ \A k \in Kernels : work'["compute"][k] = work["compute"][k]
         /\ Uploads' = Uploads /\ \A i \in Uploads : work'[s][i] = work[s][i]
         /\ Downloads' = Downloads \cup {n}
         /\ work'[s][n] = [op |-> "download", slab |-> 0, after |-> event["compute"],
                           ticket |-> inFlight]
         /\ \A i \in DOMAIN work[s] : i < n
         /\ issued' = [issued EXCEPT ![s] = n]
         /\ \A r \in Streams : \A i \in DOMAIN work'[r] :
              (r = s /\ i = n) \/ (i \in DOMAIN work[r] /\ work'[r][i] = work[r][i])
         /\ \A r \in Streams : Retired(r)' = Retired(r)
<1> DEFINE x == [op |-> "download", slab |-> 0, after |-> event["compute"],
                 ticket |-> inFlight]
<1>1. x \in Op /\ Enqueue("copy", x) /\ UNCHANGED dedicated
  BY DEF Collect, HostInStep, TypeOK, HostTypeOK, DeviceTypeOK, Op, Slab, Streams, callVars
<1> HIDE DEF x
<1>2. /\ s \in Streams /\ issued' = [issued EXCEPT ![s] = n]
      /\ DOMAIN work'[s] = DOMAIN work[s] \cup {n} /\ work'[s][n] = x
      /\ \A i \in DOMAIN work[s] : i <= issued[s] /\ work'[s][i] = work[s][i]
      /\ \A r \in Streams \ {s} : work'[r] = work[r]
      /\ \A r \in Streams : Retired(r)' = Retired(r)
  BY <1>1, EnqueuedOps DEF TypeOK, Streams
<1>3. issued[s] \in Nat /\ DOMAIN work[s] \subseteq Int
  BY <1>2, PendingOps DEF TypeOK, DeviceTypeOK
<1>4. \A i \in DOMAIN work[s] : i < n
  BY <1>2, <1>3
<1>5. x.op = "download"
  BY DEF x
<1>6. Kernels' = Kernels /\ \A k \in Kernels : work'["compute"][k] = work["compute"][k]
  BY <1>2, <1>5 DEF Kernels, Ops, Streams
<1>7. Downloads' = Downloads \cup {n}
  BY <1>1, <1>2, <1>5 DEF Downloads, Ops, On
<1>8. Uploads' = Uploads /\ \A i \in Uploads : work'[s][i] = work[s][i]
  BY <1>1, <1>2, <1>5 DEF Uploads, Ops, On
<1> QED BY <1>2, <1>4, <1>6, <1>7, <1>8 DEF x

LEMMA LaunchQueues ==
  ASSUME TypeOK, HostInStep, StreamsInStep, Launch, NEW n, n = issued["compute"] + 1,
         NEW s, s = On("copy")
  PROVE  /\ Kernels' = Kernels \cup {n}
         /\ \A k \in Kernels : work'["compute"][k] = work["compute"][k]
         /\ Uploads' = Uploads /\ \A i \in Uploads : work'[s][i] = work[s][i]
         /\ Downloads' = Downloads
         /\ work'["compute"][n] = [op |-> "kernel", slab |-> launchSlab,
                                   after |-> event["copy"], ticket |-> staged]
         /\ \A i \in DOMAIN work["compute"] : i < n
         /\ issued' = [issued EXCEPT !["compute"] = n]
         /\ \A r \in Streams : \A i \in DOMAIN work'[r] :
              (r = "compute" /\ i = n) \/ (i \in DOMAIN work[r] /\ work'[r][i] = work[r][i])
         /\ \A r \in Streams : Retired(r)' = Retired(r)
<1> DEFINE x == [op |-> "kernel", slab |-> launchSlab, after |-> event["copy"],
                 ticket |-> staged]
<1>1. x \in Op /\ Enqueue("compute", x) /\ UNCHANGED dedicated
  BY DEF Launch, HostInStep, TypeOK, HostTypeOK, DeviceTypeOK, Op, Streams, callVars
<1> HIDE DEF x
<1>2. /\ On("compute") = "compute" /\ "compute" \in Streams
  BY DEF On, Streams
<1>3. /\ issued' = [issued EXCEPT !["compute"] = n]
      /\ DOMAIN work'["compute"] = DOMAIN work["compute"] \cup {n} /\ work'["compute"][n] = x
      /\ \A i \in DOMAIN work["compute"] :
           i <= issued["compute"] /\ work'["compute"][i] = work["compute"][i]
      /\ \A r \in Streams \ {"compute"} : work'[r] = work[r]
      /\ \A r \in Streams : Retired(r)' = Retired(r)
  BY <1>1, <1>2, EnqueuedOps DEF TypeOK
<1>4. issued["compute"] \in Nat /\ DOMAIN work["compute"] \subseteq Int
  BY <1>2, PendingOps DEF TypeOK, DeviceTypeOK
<1>5. \A i \in DOMAIN work["compute"] : i < n
  BY <1>3, <1>4
<1>6. x.op = "kernel"
  BY DEF x
<1>7. /\ Kernels' = Kernels \cup {n}
      /\ \A k \in Kernels : work'["compute"][k] = work["compute"][k]
  BY <1>3, <1>6 DEF Kernels, Ops
<1>8. s \in Streams /\ s = On("copy")'
  BY <1>1 DEF On, Streams
<1>9. /\ Downloads' = Downloads /\ Uploads' = Uploads
      /\ \A i \in Uploads : work'[s][i] = work[s][i]
  BY <1>3, <1>6, <1>8 DEF Uploads, Downloads, Ops
<1> QED BY <1>3, <1>5, <1>7, <1>9 DEF x

LEMMA RunsOff ==
  ASSUME TypeOK, StreamsInStep, NEW s \in Streams, queue[s] # << >>, Retire(s),
         UNCHANGED <<issued, dedicated>>, NEW f, f = Retired(s) + 1
  PROVE  /\ f \in DOMAIN work[s] /\ work[s][f] = Front(s) /\ \A i \in DOMAIN work[s] : i >= f
         /\ \A r \in Streams : \A i \in DOMAIN work'[r] :
              i \in DOMAIN work[r] /\ work'[r][i] = work[r][i]
         /\ Front(s).op = "kernel" =>
              /\ s = "compute" /\ f \in Kernels /\ Kernels' = Kernels \ {f}
              /\ Uploads' = Uploads /\ Downloads' = Downloads
         /\ Front(s).op = "upload" =>
              /\ s = On("copy") /\ f \in Uploads /\ Uploads' = Uploads \ {f}
              /\ Kernels' = Kernels /\ Downloads' = Downloads
         /\ Front(s).op = "download" =>
              /\ s = On("copy") /\ f \in Downloads /\ Downloads' = Downloads \ {f}
              /\ Kernels' = Kernels /\ Uploads' = Uploads
         /\ Retired(s)' = f /\ \A r \in Streams \ {s} : Retired(r)' = Retired(r)
<1>1. /\ f \in DOMAIN work[s] /\ work[s][f] = Front(s)
      /\ \A i \in DOMAIN work[s] : i >= f
      /\ DOMAIN work'[s] = DOMAIN work[s] \ {f}
      /\ \A i \in DOMAIN work'[s] : work'[s][i] = work[s][i]
      /\ \A r \in Streams \ {s} : work'[r] = work[r]
      /\ Retired(s)' = f /\ \A r \in Streams \ {s} : Retired(r)' = Retired(r)
  BY RetiredOps DEF TypeOK
<1>2. \A r \in Streams : \A i \in DOMAIN work'[r] :
        i \in DOMAIN work[r] /\ work'[r][i] = work[r][i]
  BY <1>1
<1>3. /\ On("copy") \in Streams /\ "compute" \in Streams
      /\ s # On("copy") => Ops(s, "upload") = {} /\ Ops(s, "download") = {}
      /\ s # "compute" => Ops(s, "kernel") = {}
      /\ On("copy")' = On("copy")
  BY KindsDiffer DEF On
<1>4. f \in Ops(s, Front(s).op)
  BY <1>1 DEF Ops
<1>5. ASSUME Front(s).op = "kernel"
      PROVE  /\ s = "compute" /\ f \in Kernels /\ Kernels' = Kernels \ {f}
             /\ Uploads' = Uploads /\ Downloads' = Downloads
  BY <1>1, <1>3, <1>4, <1>5 DEF Kernels, Uploads, Downloads, Ops
<1>6. ASSUME Front(s).op = "upload"
      PROVE  /\ s = On("copy") /\ f \in Uploads /\ Uploads' = Uploads \ {f}
             /\ Kernels' = Kernels /\ Downloads' = Downloads
  BY <1>1, <1>3, <1>4, <1>6 DEF Kernels, Uploads, Downloads, Ops
<1>7. ASSUME Front(s).op = "download"
      PROVE  /\ s = On("copy") /\ f \in Downloads /\ Downloads' = Downloads \ {f}
             /\ Kernels' = Kernels /\ Uploads' = Uploads
  BY <1>1, <1>3, <1>4, <1>7 DEF Kernels, Uploads, Downloads, Ops
<1> QED BY <1>1, <1>2, <1>5, <1>6, <1>7

(***************************************************************************)
(* A step of the host that is about nothing on the device.                 *)
(***************************************************************************)
Aside ==
  /\ UNCHANGED <<dedicated, staged, inFlight, writeSlab, launchSlab, lut>>
  /\ UNCHANGED <<memoryVars, deviceVars>>
  /\ pc # "await" /\ pc' # "await"

LEMMA AsideSteps ==
  ASSUME TypeOK, HostInStep,
         Call \/ Bind \/ BindFails \/ (Reserve /\ Fits) \/ ReserveFails \/ UploadFails \/ Return
  PROVE  Aside
<1>1. CASE Call
  BY <1>1 DEF Call, Aside, scratchVars, TypeOK, HostTypeOK
<1>2. CASE Bind \/ BindFails \/ Return
  BY <1>2 DEF Bind, BindFails, Return, Fail, Aside, scratchVars, callVars, HostInStep
<1>3. CASE ReserveFails \/ UploadFails
  BY <1>3 DEF ReserveFails, UploadFails, StagingFails, Fail, Aside, scratchVars, callVars,
              HostInStep
<1>4. CASE Reserve /\ Fits
  BY <1>4 DEF Reserve, Aside, scratchVars, callVars, deviceVars
<1> QED BY <1>1, <1>2, <1>3, <1>4

(***************************************************************************)
(* A download that waits for all that was launched finds no kernel left.   *)
(***************************************************************************)
LEMMA DownloadLast ==
  ASSUME TypeOK, StreamsInStep, NEW s \in Streams, MayStart(s), Front(s).op = "download",
         NEW i \in Downloads, i = Retired(s) + 1,
         dedicated => work["copy"][i].after = issued["compute"]
  PROVE  Kernels = {}
<1>1. /\ i \in DOMAIN work[s] /\ work[s][i] = Front(s) /\ Retired(s) \in Nat
      /\ DOMAIN work[s] = Retired(s) + 1 .. issued[s] /\ issued[s] \in Nat
  BY PendingOps DEF MayStart, TypeOK, DeviceTypeOK
<1>2. s = On("copy")
  BY <1>1, KindsDiffer DEF Ops
<1>3. CASE dedicated
  <2>1. s = "copy" /\ Retired("compute") >= issued["compute"]
    BY <1>1, <1>2, <1>3 DEF MayStart, On, Otherwise
  <2>2. DOMAIN work["compute"] = {}
    <3>1. /\ Retired("compute") \in Nat /\ issued["compute"] \in Nat
          /\ DOMAIN work["compute"] = Retired("compute") + 1 .. issued["compute"]
      BY PendingOps DEF TypeOK, DeviceTypeOK, Streams
    <3> QED BY <2>1, <3>1
  <2> QED BY <2>2 DEF Kernels, Ops
<1>4. CASE ~dedicated
  <2>1. s = "compute"
    BY <1>2, <1>4 DEF On
  <2>2. \A k \in Kernels : k < i /\ k \in DOMAIN work[s]
    BY <1>4, <2>1 DEF StreamsInStep, Kernels, Ops
  <2> QED BY <1>1, <2>2
<1> QED BY <1>3, <1>4

LEMMA StreamsStay ==
  ASSUME TypeOK, HostInStep, StreamsInStep, [Next]_vars
  PROVE  StreamsInStep'
<1> USE DEF TypeOK
<1>1. CASE Aside \/ UNCHANGED vars
  <2>1. work' = work
    BY <1>1, Unmoved DEF Aside, deviceVars, vars
  <2>2. UNCHANGED <<dedicated, staged, inFlight, writeSlab, launchSlab, event, issued, lost,
                    running>>
    BY <1>1 DEF Aside, deviceVars, vars, hostVars, callVars, scratchVars
  <2>3. pc = "await" <=> pc' = "await"
    BY <1>1 DEF Aside, vars, hostVars
  <2> QED BY <2>1, <2>2, <2>3 DEF StreamsInStep, Kernels, Downloads, Ops, On
<1>2. CASE Reserve /\ ~Fits
  <2>1. \A s \in Streams : DOMAIN work[s] = {}
    BY <1>2, PendingOps DEF Reserve, DeviceIdle
  <2>2. work' = work
    BY <1>2, Unmoved DEF Reserve, deviceVars
  <2> QED BY <1>2, <2>1, <2>2 DEF Reserve, deviceVars, callVars, StreamsInStep, Kernels,
                                  Downloads, Ops, On, Streams
<1>3. CASE Upload /\ hot
  <2>1. /\ UNCHANGED <<dedicated, inFlight, writeSlab, launchSlab, issued, queue, lost, running>>
        /\ pc = "upload" /\ pc' # "await" /\ staged = None /\ staged'.hot
        /\ event' = [event EXCEPT !["copy"] = IF dedicated THEN issued["copy"] ELSE 0]
    BY <1>3 DEF Upload, HostInStep, HostTypeOK, callVars
  <2>2. work' = work
    BY <2>1, Unmoved
  <2>3. event'["compute"] = event["compute"] /\ (dedicated => event'["copy"] <= issued["copy"])
    BY <2>1 DEF DeviceTypeOK, Streams
  <2> QED BY <2>1, <2>2, <2>3 DEF StreamsInStep, Kernels, Downloads, Ops, On
<1>4. CASE Upload /\ ~hot
  <2> DEFINE s == On("copy")
             n == issued[s] + 1
  <2>1. /\ Kernels' = Kernels /\ \A k \in Kernels : work'["compute"][k] = work["compute"][k]
        /\ Downloads' = Downloads
        /\ work'[s][n].op = "upload"
        /\ issued' = [issued EXCEPT ![s] = n]
        /\ \A r \in Streams : \A i \in DOMAIN work'[r] :
             (r = s /\ i = n) \/ (i \in DOMAIN work[r] /\ work'[r][i] = work[r][i])
    BY <1>4, UploadQueues
  <2>2. /\ UNCHANGED <<dedicated, inFlight, lost, running>> /\ ~lost
        /\ pc = "upload" /\ pc' # "await" /\ staged = None /\ staged' # None /\ ~staged'.hot
        /\ launchSlab' = writeSlab /\ writeSlab' = 1 - writeSlab
        /\ writeSlab \in {0, 1} /\ launchSlab \in {0, 1}
        /\ event' = [event EXCEPT !["copy"] = IF dedicated THEN issued'["copy"] ELSE 0]
    BY <1>4, ChunkFacts
    DEF Upload, HostInStep, HostTypeOK, DeviceTypeOK, callVars, Other, Slab, Ticket, Current
  <2>3. s = (IF dedicated THEN "copy" ELSE "compute") /\ s \in Streams
    BY DEF On, Streams
  <2>4. issued[s] \in Nat /\ issued'["copy"] \in Nat /\ issued'["copy"] >= issued["copy"]
        /\ (dedicated => issued'["compute"] = issued["compute"])
    BY <2>1, <2>3 DEF DeviceTypeOK, Streams
  <2>5. /\ event'["compute"] = event["compute"]
        /\ dedicated => event'["copy"] = issued'["copy"]
    BY <2>2 DEF DeviceTypeOK, Streams
  <2>6. /\ DOMAIN work'["copy"] # {} => dedicated
        /\ \A i \in DOMAIN work'["copy"] : work'["copy"][i].op # "kernel"
        /\ dedicated => \A i \in DOMAIN work'["compute"] : work'["compute"][i].op = "kernel"
    BY <2>1, <2>3 DEF StreamsInStep, Streams
  <2>7. ASSUME NEW k \in Kernels
        PROVE  LET x == work'["compute"][k] IN
               /\ \A m \in Kernels : m = k
               /\ x.ticket = inFlight /\ x.slab = writeSlab' /\ writeSlab' # launchSlab'
               /\ dedicated => x.after <= issued'["copy"]
    <3>1. work["compute"][k].after \in Nat /\ issued["copy"] \in Nat
      <4>1. work["compute"][k] \in Op
        BY PendingOps DEF Kernels, Ops, Streams
      <4> QED BY <4>1 DEF Op, DeviceTypeOK, Streams
    <3> QED BY <2>1, <2>2, <2>4, <3>1 DEF StreamsInStep
  <2> QED BY <2>1, <2>2, <2>4, <2>5, <2>6, <2>7 DEF StreamsInStep
<1>5. CASE Collect
  <2> DEFINE s == On("copy")
             n == issued[s] + 1
  <2>1. /\ Kernels' = Kernels /\ \A k \in Kernels : work'["compute"][k] = work["compute"][k]
        /\ Downloads' = Downloads \cup {n}
        /\ work'[s][n].op = "download" /\ work'[s][n].after = event["compute"]
        /\ \A i \in DOMAIN work[s] : i < n
        /\ issued' = [issued EXCEPT ![s] = n]
        /\ \A r \in Streams : \A i \in DOMAIN work'[r] :
             (r = s /\ i = n) \/ (i \in DOMAIN work[r] /\ work'[r][i] = work[r][i])
    BY <1>5, CollectQueues
  <2>2. /\ UNCHANGED <<dedicated, staged, inFlight, writeSlab, launchSlab, event, lost, running>>
        /\ ~lost /\ pc = "collect" /\ pc' = "await"
    BY <1>5 DEF Collect, callVars, scratchVars
  <2>3. s = (IF dedicated THEN "copy" ELSE "compute") /\ s \in Streams
    BY DEF On, Streams
  <2>4. issued[s] \in Nat /\ (dedicated => issued'["compute"] = issued["compute"]
                                           /\ issued'["copy"] = issued["copy"] + 1)
    BY <2>1, <2>3 DEF DeviceTypeOK, Streams
  <2>5. /\ DOMAIN work'["copy"] # {} => dedicated
        /\ \A i \in DOMAIN work'["copy"] : work'["copy"][i].op # "kernel"
        /\ dedicated => \A i \in DOMAIN work'["compute"] : work'["compute"][i].op = "kernel"
    BY <2>1, <2>3 DEF StreamsInStep, Streams
  <2>6. Downloads = {}
    BY <2>2 DEF StreamsInStep
  <2>7. ASSUME NEW k \in Kernels
        PROVE  LET x == work'["compute"][k] IN
               /\ \A m \in Kernels : m = k
               /\ x.ticket = inFlight /\ writeSlab # launchSlab
               /\ x.slab = IF staged # None /\ ~staged.hot THEN writeSlab ELSE launchSlab
               /\ dedicated => x.after <= issued'["copy"]
               /\ ~dedicated => k < n
    <3>1. work["compute"][k].after \in Nat /\ issued["copy"] \in Nat
      <4>1. work["compute"][k] \in Op
        BY PendingOps DEF Kernels, Ops, Streams
      <4> QED BY <4>1 DEF Op, DeviceTypeOK, Streams
    <3>2. ~dedicated => k \in DOMAIN work[s]
      BY <2>3 DEF Kernels, Ops
    <3> QED BY <2>1, <2>4, <3>1, <3>2 DEF StreamsInStep
  <2>8. event["copy"] \in Nat /\ issued["copy"] \in Nat
    BY DEF DeviceTypeOK, Streams
  <2>9. dedicated => /\ event'["compute"] = issued'["compute"] /\ event'["copy"] <= issued'["copy"]
                     /\ work'["copy"][n].after = issued'["compute"]
    BY <2>1, <2>2, <2>3, <2>4, <2>8 DEF StreamsInStep
  <2> QED BY <2>1, <2>2, <2>5, <2>6, <2>7, <2>9 DEF StreamsInStep
<1>6. CASE Await
  <2>1. work' = work
    BY <1>6, Unmoved DEF Await, deviceVars
  <2>2. /\ UNCHANGED <<dedicated, staged, writeSlab, launchSlab, deviceVars>>
        /\ ~lost /\ pc = "await" /\ pc' # "await" /\ Synchronized
    BY <1>6 DEF Await, callVars, scratchVars
  <2>3. DOMAIN work["copy"] = {} /\ (~dedicated => DOMAIN work["compute"] = {})
    BY <2>2, PendingOps DEF Synchronized, DeviceIdle, Streams
  <2>4. Downloads = {}
    BY <2>3 DEF Downloads, Ops, On
  <2>5. Kernels = {}
    BY <2>2, <2>4 DEF StreamsInStep
  <2> QED BY <2>1, <2>2, <2>4, <2>5 DEF StreamsInStep, Kernels, Downloads, Ops, On, deviceVars
<1>7. CASE Launch
  <2> DEFINE n == issued["compute"] + 1
  <2>1. /\ Kernels' = Kernels \cup {n}
        /\ Downloads' = Downloads
        /\ work'["compute"][n] = [op |-> "kernel", slab |-> launchSlab,
                                  after |-> event["copy"], ticket |-> staged]
        /\ issued' = [issued EXCEPT !["compute"] = n]
        /\ \A r \in Streams : \A i \in DOMAIN work'[r] :
             (r = "compute" /\ i = n) \/ (i \in DOMAIN work[r] /\ work'[r][i] = work[r][i])
    BY <1>7, LaunchQueues
  <2>2. /\ UNCHANGED <<dedicated, writeSlab, launchSlab, lost, running>>
        /\ pc = "launch" /\ pc' # "await" /\ staged' = None /\ inFlight' = staged /\ ~lost
        /\ staged # None /\ inFlight = None /\ writeSlab # launchSlab
        /\ event' = [event EXCEPT !["compute"] = IF dedicated THEN issued'["compute"] ELSE 0]
    BY <1>7 DEF Launch, Proceed, HostInStep, callVars
  <2>3. Downloads = {}
    BY <2>2 DEF StreamsInStep
  <2>4. Kernels = {}
    <3>1. ASSUME NEW k \in Kernels PROVE FALSE
      <4>1. work["compute"][k] \in Op /\ work["compute"][k].ticket = None
        BY <2>2, PendingOps DEF StreamsInStep, Kernels, Ops, Streams
      <4> QED BY <4>1, ChunkFacts DEF Op
    <3> QED BY <3>1
  <2>5. issued["compute"] \in Nat /\ event' \in [Streams -> Nat] /\ issued'["compute"] = n
        /\ issued'["copy"] = issued["copy"] /\ event'["copy"] = event["copy"]
    BY <2>1, <2>2 DEF DeviceTypeOK, Streams
  <2>6. /\ DOMAIN work'["copy"] # {} => dedicated
        /\ \A i \in DOMAIN work'["copy"] : work'["copy"][i].op # "kernel"
        /\ dedicated => \A i \in DOMAIN work'["compute"] : work'["compute"][i].op = "kernel"
    BY <2>1 DEF StreamsInStep, Streams
  <2>7. dedicated => /\ event'["compute"] = issued'["compute"]
                     /\ event'["copy"] <= issued'["copy"]
    BY <2>2, <2>5 DEF StreamsInStep, DeviceTypeOK, Streams
  <2> QED BY <2>1, <2>2, <2>3, <2>4, <2>5, <2>6, <2>7 DEF StreamsInStep
<1>8. CASE CollectFails \/ LaunchFails
  <2>1. work' = work
    BY <1>8, Unmoved DEF CollectFails, LaunchFails, deviceVars
  <2>2. /\ UNCHANGED <<dedicated, deviceVars>> /\ lost
    BY <1>8 DEF CollectFails, LaunchFails, callVars
  <2>3. Kernels = {} /\ Downloads = {} /\ \A s \in Streams : DOMAIN work[s] = {}
    BY <2>2, KindsDiffer DEF StreamsInStep, Kernels, Downloads, Ops
  <2> QED BY <2>1, <2>2, <2>3 DEF StreamsInStep, Kernels, Downloads, Ops, On, deviceVars
<1>9. ASSUME NEW s \in Streams, Stream(s) PROVE StreamsInStep'
  <2>1. /\ UNCHANGED <<dedicated, pc, staged, inFlight, writeSlab, launchSlab, event, issued,
                       lost>>
        /\ queue[s] # << >>
    BY <1>9 DEF Stream, Uploaded, Downloaded, KernelStarts, KernelFinishes, MayStart, hostVars,
                callVars, scratchVars
  <2>2. ~lost
    BY <2>1, PendingOps DEF StreamsInStep
  <2> DEFINE f == Retired(s) + 1
  <2>3. CASE KernelStarts(s)
    <3>1. work' = work
      BY <2>1, <2>3, Unmoved DEF KernelStarts
    <3> QED BY <2>1, <2>2, <3>1 DEF StreamsInStep, Kernels, Downloads, Ops, On
  <2>4. CASE Retire(s)
    <3>1. /\ Kernels' \subseteq Kernels /\ Downloads' \subseteq Downloads
          /\ \A r \in Streams : \A i \in DOMAIN work'[r] :
               i \in DOMAIN work[r] /\ work'[r][i] = work[r][i]
      <4>1. f \in DOMAIN work[s] /\ Front(s) \in Op
        BY <2>1, PendingOps
      <4> QED BY <2>1, <2>4, <4>1, RunsOff DEF Op
    <3>2. /\ DOMAIN work'["copy"] # {} => dedicated
          /\ \A i \in DOMAIN work'["copy"] : work'["copy"][i].op # "kernel"
          /\ dedicated => \A i \in DOMAIN work'["compute"] : work'["compute"][i].op = "kernel"
      BY <3>1 DEF StreamsInStep, Streams
    <3>3. \A k \in Kernels' : work'["compute"][k] = work["compute"][k]
      BY <3>1 DEF Kernels, Ops, Streams
    <3>4. pc = "await" =>
            \/ Kernels' = {}
            \/ \E i \in Downloads' : dedicated => work'["copy"][i].after = issued["compute"]
      <4>0. SUFFICES ASSUME pc = "await" PROVE
               \/ Kernels' = {}
               \/ \E i \in Downloads' : dedicated => work'["copy"][i].after = issued["compute"]
        OBVIOUS
      <4>1. CASE Kernels = {}
        BY <3>1, <4>1
      <4>2. CASE \E i \in Downloads : dedicated => work["copy"][i].after = issued["compute"]
        <5>1. PICK i \in Downloads : dedicated => work["copy"][i].after = issued["compute"]
          BY <4>2
        <5>2. CASE i \in Downloads'
          <6>1. dedicated => work'["copy"][i] = work["copy"][i]
            BY <2>1, <3>1, <5>2 DEF Downloads, Ops, On, Streams
          <6> QED BY <5>1, <5>2, <6>1
        <5>3. CASE i \notin Downloads'
          <6>1. /\ s = On("copy") /\ i = f /\ Front(s).op = "download" /\ work[s][f] = Front(s)
                /\ Kernels' = Kernels /\ \A j \in DOMAIN work[s] : j >= f
            <7>1. f \in DOMAIN work[s] /\ Front(s) \in Op
              BY <2>1, PendingOps
            <7> QED BY <2>1, <2>4, <5>3, <7>1, RunsOff DEF Op
          <6>2. MayStart(s)
            BY <1>9, <6>1 DEF Stream, Uploaded, Downloaded, KernelStarts, KernelFinishes
          <6> QED BY <2>1, <5>1, <6>1, <6>2, DownloadLast
        <5> QED BY <5>2, <5>3
      <4> QED BY <2>2, <4>0, <4>1, <4>2 DEF StreamsInStep
    <3> QED BY <2>1, <2>2, <3>1, <3>2, <3>3, <3>4 DEF StreamsInStep
  <2> QED BY <1>9, <2>3, <2>4 DEF Stream, Uploaded, Downloaded, KernelFinishes
<1>10. CASE DeviceFails
  <2>1. /\ \A s \in Streams : queue'[s] = << >> /\ Len(<< >>) = 0
        /\ UNCHANGED <<hostVars, issued, event>> /\ lost' /\ running' = None
        /\ \A s \in Streams : issued[s] \in Nat
    BY <1>10 DEF DeviceFails, DeviceTypeOK
  <2>2. \A s \in Streams : DOMAIN work'[s] = {}
    BY <2>1 DEF work, Retired
  <2>3. Kernels' = {} /\ Downloads' = {}
    BY <2>2 DEF Kernels, Downloads, Ops, On, Streams
  <2> QED BY <2>1, <2>2, <2>3 DEF StreamsInStep, Streams, hostVars, callVars
<1> QED
  BY <1>1, <1>2, <1>3, <1>4, <1>5, <1>6, <1>7, <1>8, <1>9, <1>10, AsideSteps
  DEF Next, Host

-----------------------------------------------------------------------------
(***************************************************************************)
(* The slabs and the table.  A launch finds no other kernel left to run.   *)
(***************************************************************************)
LEMMA OpFacts ==
  ASSUME TypeOK
  PROVE  /\ \A s \in Streams : issued[s] \in Nat /\ Retired(s) \in Nat /\ DOMAIN work[s] \subseteq Int
         /\ \A k \in Kernels : /\ k \in DOMAIN work["compute"] /\ k \in Int
                               /\ work["compute"][k] \in Op /\ work["compute"][k].after \in Nat
         /\ \A i \in Uploads : /\ i \in DOMAIN work[On("copy")] /\ i \in Int
                               /\ work[On("copy")][i] \in Op
<1>1. \A s \in Streams : /\ issued[s] \in Nat /\ Retired(s) \in Nat
                         /\ DOMAIN work[s] \subseteq Int /\ \A i \in DOMAIN work[s] : work[s][i] \in Op
  BY PendingOps DEF TypeOK, DeviceTypeOK
<1>2. "compute" \in Streams /\ On("copy") \in Streams
  BY DEF Streams, On
<1>3. \A x \in Op : x.after \in Nat
  BY DEF Op
<1> QED BY <1>1, <1>2, <1>3 DEF Kernels, Uploads, Ops

LEMMA LaunchAlone ==
  ASSUME TypeOK, HostInStep, StreamsInStep, Launch
  PROVE  Kernels = {} /\ staged # None /\ ~lost /\ UNCHANGED dedicated
<1>1. staged # None /\ inFlight = None /\ ~lost /\ UNCHANGED dedicated
  BY DEF Launch, HostInStep, callVars
<1>2. ASSUME NEW k \in Kernels PROVE FALSE
  <2>1. work["compute"][k] \in Op /\ work["compute"][k].ticket = None
    BY <1>1, OpFacts DEF StreamsInStep
  <2> QED BY <2>1, ChunkFacts DEF Op
<1> QED BY <1>1, <1>2

LEMMA LostIsIdle ==
  ASSUME TypeOK, StreamsInStep, lost
  PROVE  Kernels = {} /\ Uploads = {} /\ Downloads = {} /\ running = None
BY KindsDiffer DEF StreamsInStep, Kernels, Uploads, Downloads, Ops

(***************************************************************************)
(* While a kernel runs the uploads it waited for are done, its slab holds  *)
(* its chunk, and that is what it reads; what is still to be uploaded goes *)
(* to the other slab.                                                      *)
(***************************************************************************)
LEMMA WhileRunning ==
  ASSUME TypeOK, StreamsInStep, SlabsInStep, KernelInStep, running # None,
         NEW k, k = Retired("compute") + 1, NEW x, x = work["compute"][k]
  PROVE  /\ Kernels = {k} /\ x \in Op /\ running = Source(x)
         /\ \A i \in Uploads : /\ ~Before(i, k) /\ staged # None /\ ~staged.hot
                               /\ work[On("copy")][i].slab # x.slab
         /\ ~x.ticket.hot => slots[x.slab] = x.ticket.chunk /\ running = x.ticket.chunk
<1>1. /\ k \in Kernels /\ running = Source(x) /\ x \in Op
      /\ dedicated => x.after <= Retired("copy")
  BY OpFacts DEF KernelInStep
<1>2. /\ \A m \in Kernels : m = k
      /\ x.slab = IF staged # None /\ ~staged.hot THEN writeSlab ELSE launchSlab
      /\ writeSlab # launchSlab
  BY <1>1 DEF StreamsInStep
<1>3. ASSUME NEW i \in Uploads PROVE ~Before(i, k)
  <2>1. CASE dedicated
    <3>1. i \in DOMAIN work["copy"] /\ i \in Int /\ "copy" \in Streams
      BY <2>1, OpFacts DEF On, Streams
    <3>2. Retired("copy") \in Nat /\ DOMAIN work["copy"] = Retired("copy") + 1 .. issued["copy"]
      BY <3>1, PendingOps DEF TypeOK
    <3>3. issued["copy"] \in Nat /\ x.after \in Nat
      BY <1>1, OpFacts DEF Streams
    <3>4. i > Retired("copy") /\ ~(i <= x.after)
      BY <1>1, <2>1, <3>1, <3>2, <3>3
    <3> QED BY <2>1, <3>4 DEF Before
  <2>2. CASE ~dedicated
    <3>1. i \in DOMAIN work["compute"] /\ i \in Int /\ "compute" \in Streams
      BY <2>2, OpFacts DEF On, Streams
    <3>2. /\ Retired("compute") \in Nat /\ issued["compute"] \in Nat
          /\ DOMAIN work["compute"] = Retired("compute") + 1 .. issued["compute"]
      BY <3>1, PendingOps, OpFacts DEF TypeOK
    <3>3. i >= k
      BY <3>1, <3>2
    <3> QED BY <2>2, <3>1, <3>2, <3>3 DEF Before
  <2> QED BY <2>1, <2>2
<1>4. \A i \in Uploads : /\ staged # None /\ ~staged.hot
                         /\ work[On("copy")][i].slab = launchSlab
  BY <1>2, <1>3 DEF SlabsInStep
<1>5. ~x.ticket.hot => slots[x.slab] = x.ticket.chunk
  BY <1>1, <1>3 DEF SlabsInStep
<1>6. \A i \in Uploads : work[On("copy")][i].slab # x.slab
  BY <1>2, <1>4
<1>7. Kernels = {k}
  BY <1>1, <1>2
<1>8. ~x.ticket.hot => running = x.ticket.chunk
  BY <1>1, <1>5 DEF Source
<1> QED BY <1>1, <1>3, <1>4, <1>5, <1>6, <1>7, <1>8

LEMMA SlabsStay ==
  ASSUME TypeOK, HostInStep, StreamsInStep, SlabsInStep, KernelInStep, [Next]_vars
  PROVE  SlabsInStep'
<1>1. CASE Aside \/ Await \/ UNCHANGED vars
  <2>1. work' = work /\ UNCHANGED <<dedicated, staged, launchSlab, event, slots, lost>>
    BY <1>1, Unmoved
    DEF Aside, Await, deviceVars, memoryVars, vars, hostVars, callVars, scratchVars
  <2> QED BY <2>1 DEF SlabsInStep, Kernels, Uploads, Ops, On, Before
<1>2. CASE Reserve /\ ~Fits
  <2>1. /\ \A s \in Streams : DOMAIN work[s] = {}
        /\ work' = work
    BY <1>2, PendingOps, Unmoved DEF Reserve, DeviceIdle, deviceVars, TypeOK
  <2>2. staged' = None
    BY <1>2 DEF Reserve, HostInStep
  <2>3. Kernels' = {} /\ Uploads' = {}
    BY <2>1 DEF Kernels, Uploads, Ops, On, Streams
  <2> QED BY <2>2, <2>3 DEF SlabsInStep
<1>3. CASE Upload /\ hot
  <2>1. work' = work /\ UNCHANGED <<dedicated, launchSlab, slots, lost>>
    BY <1>3, Unmoved DEF Upload, callVars, memoryVars
  <2>2. staged = None /\ staged'.hot
    BY <1>3 DEF Upload, HostInStep
  <2> QED BY <2>1, <2>2 DEF SlabsInStep, Kernels, Uploads, Ops, On, Before
<1>4. CASE Upload /\ ~hot
  <2> DEFINE s == On("copy")
  <2>0. PICK n : n = issued[s] + 1
    OBVIOUS
  <2>1. /\ Kernels' = Kernels /\ \A k \in Kernels : work'["compute"][k] = work["compute"][k]
        /\ Uploads' = Uploads \cup {n} /\ \A i \in Uploads : work'[s][i] = work[s][i]
        /\ work'[s][n].slab = writeSlab /\ work'[s][n].ticket.chunk = Current
        /\ \A i \in DOMAIN work[s] : i < n
        /\ issued' = [issued EXCEPT ![s] = n]
    BY <1>4, <2>0, UploadQueues
  <2>2. /\ UNCHANGED <<dedicated, slots>>
        /\ staged = None /\ staged' # None /\ ~staged'.hot /\ staged'.chunk = Current
        /\ launchSlab' = writeSlab
        /\ event' = [event EXCEPT !["copy"] = IF dedicated THEN issued'["copy"] ELSE 0]
    BY <1>4, ChunkFacts DEF Upload, HostInStep, TypeOK, HostTypeOK, callVars, memoryVars, Ticket, Current
  <2>3. s = (IF dedicated THEN "copy" ELSE "compute") /\ s \in Streams /\ s' = s
    BY <2>2 DEF On, Streams
  <2>4. dedicated => event'["copy"] = n
    BY <2>0, <2>1, <2>2, <2>3 DEF TypeOK, DeviceTypeOK, Streams
  <2>5. n \in Nat
    BY <2>0, <2>3, OpFacts
  <2>6. ASSUME NEW k \in Kernels PROVE ~Before(n, k)' /\ \A i \in Uploads : Before(i, k)' <=> Before(i, k)
    <3>1. ~(dedicated /\ n <= work["compute"][k].after)
      <4>1. dedicated => work["compute"][k].after <= issued["copy"] /\ s = "copy"
        BY <2>3 DEF StreamsInStep
      <4>2. work["compute"][k].after \in Nat /\ issued["copy"] \in Nat
        BY OpFacts DEF Streams
      <4> QED BY <2>0, <4>1, <4>2
    <3>2. ~dedicated => k < n
      BY <2>1, <2>3, OpFacts
    <3>3. k \in Int /\ work'["compute"][k] = work["compute"][k] /\ dedicated' = dedicated
      BY <2>1, <2>2, OpFacts
    <3> HIDE DEF s
    <3>4. ~dedicated => ~(n < k)
      BY <2>5, <3>2, <3>3
    <3> QED BY <3>1, <3>3, <3>4 DEF Before
  <2>7. \A i \in Uploads : \E k \in Kernels :
          /\ Before(i, k) /\ work[s][i].slab = work["compute"][k].slab
          /\ work[s][i].ticket.chunk = work["compute"][k].ticket.chunk
    BY <2>2 DEF SlabsInStep
  <2>8. \A i \in Uploads' :
          \/ \E k \in Kernels' : /\ Before(i, k)' /\ work'[s][i].slab = work'["compute"][k].slab
                                 /\ work'[s][i].ticket.chunk = work'["compute"][k].ticket.chunk
          \/ i = n
    BY <2>1, <2>6, <2>7
  <2>9. \A k \in Kernels' :
          \/ work'["compute"][k].ticket.hot \/ slots'[work'["compute"][k].slab] = work'["compute"][k].ticket.chunk
          \/ \E i \in Uploads' : Before(i, k)'
    BY <2>1, <2>2, <2>6 DEF SlabsInStep
  <2>10. n \in Uploads' /\ \A k \in Kernels' : ~Before(n, k)'
    BY <2>1, <2>6
  <2>11. dedicated' => n <= event'["copy"]
    BY <2>2, <2>4, <2>5
  <2>12. ASSUME NEW i \in Uploads'
         PROVE  LET x == work'[s][i] IN
                \/ \E k \in Kernels' : /\ Before(i, k)' /\ x.slab = work'["compute"][k].slab
                                       /\ x.ticket.chunk = work'["compute"][k].ticket.chunk
                \/ /\ \A k \in Kernels' : ~Before(i, k)'
                   /\ staged' # None /\ ~staged'.hot /\ (dedicated' => i <= event'["copy"])
                   /\ x.slab = launchSlab' /\ x.ticket.chunk = staged'.chunk
    <3>1. CASE i = n
      BY <2>1, <2>2, <2>10, <2>11, <3>1
    <3>2. CASE i # n
      BY <2>8, <3>2
    <3> QED BY <3>1, <3>2
  <2> HIDE DEF s
  <2> QED BY <2>2, <2>3, <2>9, <2>10, <2>12 DEF SlabsInStep, s
<1>5. CASE Collect
  <2> DEFINE s == On("copy")
  <2>1. /\ Kernels' = Kernels /\ \A k \in Kernels : work'["compute"][k] = work["compute"][k]
        /\ Uploads' = Uploads /\ \A i \in Uploads : work'[s][i] = work[s][i]
    BY <1>5, CollectQueues
  <2>2. UNCHANGED <<dedicated, staged, launchSlab, event, slots, lost>>
    BY <1>5 DEF Collect, callVars, scratchVars, memoryVars
  <2>3. s' = s
    BY <2>2 DEF On
  <2> HIDE DEF s
  <2>4. \A i : \A k \in Kernels : Before(i, k)' <=> Before(i, k)
    BY <2>1, <2>2 DEF Before
  <2> QED BY <2>1, <2>2, <2>3, <2>4 DEF SlabsInStep, s
<1>6. CASE Launch
  <2> DEFINE s == On("copy")
  <2>0. PICK n : n = issued["compute"] + 1
    OBVIOUS
  <2> DEFINE x == work'["compute"][n]
  <2>1. /\ Kernels' = Kernels \cup {n}
        /\ Uploads' = Uploads /\ \A i \in Uploads : work'[s][i] = work[s][i]
        /\ x.slab = launchSlab /\ x.after = event["copy"] /\ x.ticket = staged
        /\ \A i \in DOMAIN work["compute"] : i < n
    BY <1>6, <2>0, LaunchQueues
  <2>2. Kernels = {} /\ staged # None /\ staged' = None /\ UNCHANGED <<dedicated, slots>> /\ ~lost
    BY <1>6, LaunchAlone DEF Launch, memoryVars
  <2>3. s = (IF dedicated THEN "copy" ELSE "compute") /\ s \in Streams /\ s' = s
    BY <2>2 DEF On, Streams
  <2>4. ASSUME NEW i \in Uploads
        PROVE  /\ ~staged.hot /\ Before(i, n)'
               /\ work'[s][i].slab = launchSlab /\ work'[s][i].ticket.chunk = staged.chunk
    <3>1. /\ ~staged.hot /\ (dedicated => i <= event["copy"])
          /\ work[s][i].slab = launchSlab /\ work[s][i].ticket.chunk = staged.chunk
      BY <2>2 DEF SlabsInStep
    <3>2. ~dedicated => i < n
      BY <2>1, <2>3, OpFacts
    <3>3. dedicated' = dedicated /\ work'[s][i] = work[s][i]
      BY <2>1, <2>2
    <3>4. Before(i, n)'
      <4> HIDE DEF s
      <4> QED BY <2>1, <3>1, <3>2, <3>3 DEF Before, x
    <3> QED BY <3>1, <3>3, <3>4
  <2>5. staged.hot \/ slots[launchSlab] = staged.chunk \/ \E i \in Uploads : TRUE
    BY <2>2 DEF SlabsInStep
  <2> HIDE DEF s, x
  <2>6. \A i \in Uploads' : \E k \in Kernels' :
          /\ Before(i, k)' /\ work'[s][i].slab = work'["compute"][k].slab
          /\ work'[s][i].ticket.chunk = work'["compute"][k].ticket.chunk
    <3>1. n \in Kernels' /\ Uploads' = Uploads /\ x.slab = launchSlab /\ x.ticket = staged
      BY <2>1
    <3> QED BY <2>4, <3>1 DEF x
  <2>7. \A k \in Kernels' : LET y == work'["compute"][k] IN
          y.ticket.hot \/ slots'[y.slab] = y.ticket.chunk \/ \E i \in Uploads' : Before(i, k)'
    <3>1. Kernels' = {n} /\ Uploads' = Uploads /\ x.slab = launchSlab /\ x.ticket = staged
      BY <2>1, <2>2
    <3> QED BY <2>2, <2>4, <2>5, <3>1 DEF x
  <2> QED BY <2>2, <2>3, <2>6, <2>7 DEF SlabsInStep, s
<1>7. CASE CollectFails \/ LaunchFails
  <2>1. work' = work /\ lost /\ UNCHANGED <<dedicated, lost>>
    BY <1>7, Unmoved DEF CollectFails, LaunchFails, deviceVars, callVars
  <2>2. Kernels' = {} /\ Uploads' = {}
    BY <2>1, LostIsIdle DEF Kernels, Uploads, Ops, On
  <2> QED BY <2>1, <2>2 DEF SlabsInStep
<1>8. ASSUME NEW s \in Streams, Uploaded(s) PROVE SlabsInStep'
  <2> DEFINE f == Retired(s) + 1
             z == Front(s)
  <2>1. /\ UNCHANGED <<dedicated, staged, writeSlab, launchSlab, event, issued, lost>>
        /\ queue[s] # << >> /\ Retire(s) /\ z.op = "upload"
        /\ slots' = [slots EXCEPT ![z.slab] = z.ticket.chunk]
    BY <1>8 DEF Uploaded, MayStart, hostVars, callVars, scratchVars
  <2>2. /\ s = On("copy") /\ f \in Uploads /\ work[s][f] = z
        /\ Uploads' = Uploads \ {f} /\ Kernels' = Kernels
        /\ \A r \in Streams : \A i \in DOMAIN work'[r] :
              i \in DOMAIN work[r] /\ work'[r][i] = work[r][i]
    BY <2>1, RunsOff
  <2>3. /\ s' = On("copy")'
        /\ \A k \in Kernels : work'["compute"][k] = work["compute"][k] /\ work["compute"][k] \in Op
        /\ \A i \in Uploads' : i \in Uploads /\ work'[s][i] = work[s][i]
    <3>1. On("copy")' = On("copy")
      BY <2>1 DEF On
    <3>2. \A k \in Kernels : k \in DOMAIN work'["compute"]
      BY <2>2 DEF Kernels, Ops
    <3>3. \A i \in Uploads' : i \in DOMAIN work'[s]
      BY <2>2, <3>1 DEF Uploads, Ops
    <3> QED BY <2>2, <3>1, <3>2, <3>3, OpFacts DEF Streams
  <2>4. z \in Op
    BY <2>2, OpFacts
  <2>5. /\ slots'[z.slab] = z.ticket.chunk
        /\ \A b : b # z.slab => slots'[b] = slots[b]
    BY <2>1, <2>4 DEF Op, TypeOK, DeviceTypeOK
  <2> HIDE DEF f, z
  <2>6. \A i : \A k \in Kernels : Before(i, k)' <=> Before(i, k)
    BY <2>1, <2>3 DEF Before
  <2>7. \A k \in Kernels :
          /\ work["compute"][k].slab = (IF staged # None /\ ~staged.hot THEN writeSlab ELSE launchSlab)
          /\ writeSlab # launchSlab /\ \A m \in Kernels : m = k
    BY DEF StreamsInStep
  <2>8. \/ \E k \in Kernels : /\ Before(f, k) /\ z.slab = work["compute"][k].slab
                              /\ z.ticket.chunk = work["compute"][k].ticket.chunk
        \/ /\ \A k \in Kernels : ~Before(f, k)
           /\ staged # None /\ ~staged.hot /\ z.slab = launchSlab /\ z.ticket.chunk = staged.chunk
    BY <2>2 DEF SlabsInStep
  <2>9. ASSUME NEW k \in Kernels
        PROVE  LET y == work["compute"][k] IN
               y.ticket.hot \/ slots'[y.slab] = y.ticket.chunk \/ \E i \in Uploads' : Before(i, k)
    <3>1. CASE \E i \in Uploads : Before(i, k) /\ i # f
      BY <2>2, <3>1
    <3>2. CASE Before(f, k)
      BY <2>5, <2>7, <2>8, <3>2
    <3>3. CASE slots[work["compute"][k].slab] = work["compute"][k].ticket.chunk
      BY <2>5, <2>7, <2>8, <3>3
    <3> QED BY <3>1, <3>2, <3>3 DEF SlabsInStep
  <2>10. ASSUME staged # None, ~staged.hot, ~lost
         PROVE  \/ slots'[launchSlab] = staged.chunk
                \/ \E i \in Uploads' : \A k \in Kernels : ~Before(i, k)
    <3>1. CASE \E i \in Uploads : i # f /\ \A k \in Kernels : ~Before(i, k)
      BY <2>2, <3>1
    <3>2. CASE \A k \in Kernels : ~Before(f, k)
      BY <2>5, <2>8, <3>2
    <3>3. CASE slots[launchSlab] = staged.chunk
      BY <2>5, <2>7, <2>8, <2>10, <3>3
    <3> QED BY <2>10, <3>1, <3>2, <3>3 DEF SlabsInStep
  <2>11. \A i \in Uploads' :
           \/ \E k \in Kernels :
                /\ Before(i, k) /\ work[s][i].slab = work["compute"][k].slab
                /\ work[s][i].ticket.chunk = work["compute"][k].ticket.chunk
           \/ /\ \A k \in Kernels : ~Before(i, k)
              /\ staged # None /\ ~staged.hot /\ (dedicated => i <= event["copy"])
              /\ work[s][i].slab = launchSlab /\ work[s][i].ticket.chunk = staged.chunk
    BY <2>2, <2>3 DEF SlabsInStep
  <2> QED BY <2>1, <2>2, <2>3, <2>6, <2>9, <2>10, <2>11 DEF SlabsInStep
<1>9. ASSUME NEW s \in Streams, Downloaded(s) \/ KernelStarts(s) PROVE SlabsInStep'
  <2>1. UNCHANGED <<dedicated, staged, launchSlab, event, issued, lost, slots>>
    BY <1>9 DEF Downloaded, KernelStarts, hostVars, callVars, scratchVars, memoryVars
  <2>2. /\ Kernels' = Kernels /\ Uploads' = Uploads
        /\ \A r \in Streams : \A i \in DOMAIN work'[r] : work'[r][i] = work[r][i]
    <3>1. CASE KernelStarts(s)
      <4>1. work' = work
        BY <3>1, Unmoved DEF KernelStarts
      <4> QED BY <2>1, <4>1 DEF Kernels, Uploads, Ops, On
    <3>2. CASE Downloaded(s)
      <4>1. queue[s] # << >> /\ Retire(s) /\ Front(s).op = "download"
        BY <3>2 DEF Downloaded, MayStart
      <4> QED BY <2>1, <4>1, RunsOff
    <3> QED BY <1>9, <3>1, <3>2
  <2>3. /\ \A k \in Kernels : work'["compute"][k] = work["compute"][k]
        /\ \A i \in Uploads : work'[On("copy")][i] = work[On("copy")][i]
        /\ On("copy")' = On("copy")
    <3>1. On("copy")' = On("copy") /\ On("copy") \in Streams /\ "compute" \in Streams
      BY <2>1 DEF On, Streams
    <3>2. \A k \in Kernels' : k \in DOMAIN work'["compute"]
      BY DEF Kernels, Ops
    <3>3. \A i \in Uploads' : i \in DOMAIN work'[On("copy")]
      BY <3>1 DEF Uploads, Ops
    <3> QED BY <2>2, <3>1, <3>2, <3>3
  <2>4. \A i : \A k \in Kernels : Before(i, k)' <=> Before(i, k)
    BY <2>1, <2>3 DEF Before
  <2> QED BY <2>1, <2>2, <2>3, <2>4 DEF SlabsInStep
<1>10. ASSUME NEW s \in Streams, KernelFinishes(s) PROVE SlabsInStep'
  <2> DEFINE f == Retired("compute") + 1
  <2>1. /\ UNCHANGED <<dedicated, staged, launchSlab, event, issued, lost, slots>>
        /\ running # None /\ queue[s] # << >> /\ Retire(s) /\ Front(s).op = "kernel"
    BY <1>10 DEF KernelFinishes, hostVars, callVars, scratchVars
  <2>2. /\ Kernels = {f} /\ \A i \in Uploads : ~Before(i, f)
    BY <2>1, WhileRunning
  <2>3. /\ Kernels' = {} /\ Uploads' = Uploads
        /\ \A r \in Streams : \A i \in DOMAIN work'[r] : work'[r][i] = work[r][i]
    BY <2>1, <2>2, RunsOff
  <2>4. On("copy")' = On("copy") /\ On("copy") \in Streams
    BY <2>1 DEF On, Streams
  <2>5. \A i \in Uploads : work'[On("copy")][i] = work[On("copy")][i]
    <3>1. \A i \in Uploads' : i \in DOMAIN work'[On("copy")]
      BY <2>4 DEF Uploads, Ops
    <3> QED BY <2>3, <2>4, <3>1
  <2> HIDE DEF f
  <2> QED BY <2>1, <2>2, <2>3, <2>4, <2>5 DEF SlabsInStep
<1>11. CASE DeviceFails
  <2>1. /\ \A s \in Streams : queue'[s] = << >> /\ Len(<< >>) = 0 /\ issued[s] \in Nat
        /\ UNCHANGED <<dedicated, issued>> /\ lost'
    BY <1>11 DEF DeviceFails, TypeOK, DeviceTypeOK, hostVars, callVars
  <2>2. \A s \in Streams : DOMAIN work'[s] = {}
    BY <2>1 DEF work, Retired
  <2>3. Kernels' = {} /\ Uploads' = {}
    BY <2>1, <2>2 DEF Kernels, Uploads, Ops, On, Streams
  <2> QED BY <2>1, <2>3 DEF SlabsInStep
<1> QED
  BY <1>1, <1>2, <1>3, <1>4, <1>5, <1>6, <1>7, <1>8, <1>9, <1>10, <1>11, AsideSteps
  DEF Next, Host, Stream

LEMMA KernelStays ==
  ASSUME TypeOK, HostInStep, StreamsInStep, SlabsInStep, KernelInStep, [Next]_vars
  PROVE  KernelInStep'
<1> DEFINE k == Retired("compute") + 1
           x == work["compute"][k]
<1>0. "compute" \in Streams /\ "copy" \in Streams
  BY DEF Streams
<1>1. ASSUME running = None, running' = running PROVE KernelInStep'
  BY <1>1 DEF KernelInStep
<1>2. ASSUME running # None, UNCHANGED <<running, luts, dedicated>>,
             k \in Kernels', work'["compute"][k] = x,
             Retired("compute")' = Retired("compute"),
             Retired("copy")' >= Retired("copy"), Retired("copy")' \in Nat,
             x.ticket.hot \/ slots'[x.slab] = slots[x.slab]
      PROVE  KernelInStep'
  <2>1. /\ running = Source(x) /\ (dedicated => x.after <= Retired("copy"))
        /\ x.after \in Nat /\ Retired("copy") \in Nat
    BY <1>0, <1>2, OpFacts DEF KernelInStep
  <2>2. Source(x) = (IF x.ticket.hot THEN luts'[x.slab] ELSE slots'[x.slab])
    BY <1>2 DEF Source
  <2> HIDE DEF x
  <2>3. dedicated => x.after <= Retired("copy")'
    BY <1>2, <2>1
  <2> QED BY <1>2, <2>1, <2>2, <2>3 DEF KernelInStep, Source
<1>3. ASSUME UNCHANGED <<running, luts, slots, dedicated>>, Kernels \subseteq Kernels',
             \A i \in Kernels : work'["compute"][i] = work["compute"][i],
             \A s \in Streams : Retired(s)' = Retired(s)
      PROVE  KernelInStep'
  <2>1. CASE running = None
    BY <1>1, <1>3, <2>1
  <2>2. CASE running # None
    <3>1. k \in Kernels
      BY <2>2 DEF KernelInStep
    <3>2. Retired("copy") \in Nat
      BY <1>0, OpFacts
    <3> QED BY <1>0, <1>2, <1>3, <2>2, <3>1, <3>2
  <2> QED BY <2>1, <2>2
<1>4. CASE Aside \/ Await \/ UNCHANGED vars
  <2>1. /\ UNCHANGED <<running, luts, slots, dedicated>>
        /\ work' = work /\ \A s \in Streams : Retired(s)' = Retired(s)
    BY <1>4, Unmoved
    DEF Aside, Await, deviceVars, memoryVars, vars, hostVars, callVars, scratchVars
  <2> QED BY <1>3, <2>1 DEF Kernels, Ops
<1>5. CASE Reserve /\ ~Fits
  <2>1. running' = running /\ DeviceIdle
    BY <1>5 DEF Reserve, deviceVars
  <2>2. Kernels = {}
    BY <1>0, <2>1, PendingOps DEF DeviceIdle, Kernels, Ops, TypeOK
  <2> QED BY <1>1, <2>1, <2>2 DEF KernelInStep
<1>6. CASE Upload /\ hot
  <2>1. UNCHANGED <<running, luts, slots, dedicated, queue, issued>>
    BY <1>6 DEF Upload, callVars, memoryVars
  <2> QED BY <1>3, <2>1, Unmoved DEF Kernels, Ops
<1>7. CASE Upload /\ ~hot
  <2>1. UNCHANGED <<running, luts, slots, dedicated>>
    BY <1>7 DEF Upload, callVars, memoryVars
  <2> QED BY <1>3, <1>7, <2>1, UploadQueues
<1>8. CASE Collect
  <2>1. UNCHANGED <<running, luts, slots, dedicated>>
    BY <1>8 DEF Collect, callVars, memoryVars
  <2> QED BY <1>3, <1>8, <2>1, CollectQueues
<1>9. CASE Launch
  <2>1. UNCHANGED <<running, luts, slots, dedicated>>
    BY <1>9 DEF Launch, callVars, memoryVars
  <2> QED BY <1>3, <1>9, <2>1, LaunchQueues
<1>10. CASE CollectFails \/ LaunchFails
  BY <1>1, <1>10, LostIsIdle DEF CollectFails, LaunchFails, deviceVars
<1>11. ASSUME NEW s \in Streams, Uploaded(s) \/ Downloaded(s) PROVE KernelInStep'
  <2>1. /\ UNCHANGED <<running, luts, dedicated, issued>>
        /\ queue[s] # << >> /\ Retire(s) /\ Front(s).op \in {"upload", "download"}
        /\ Front(s).op = "download" => UNCHANGED slots
        /\ Front(s).op = "upload" => slots' = [slots EXCEPT ![Front(s).slab] = Front(s).ticket.chunk]
    BY <1>11 DEF Uploaded, Downloaded, MayStart, hostVars, callVars
  <2>2. CASE running = None
    BY <1>1, <2>1, <2>2
  <2>3. CASE running # None
    <3> DEFINE f == Retired(s) + 1
    <3>1. k \in Kernels /\ work["compute"][k].op = "kernel" /\ x \in Op
      BY <2>3, OpFacts DEF KernelInStep, Kernels, Ops
    <3>2. /\ work[s][f] = Front(s) /\ Retired(s)' = f
          /\ \A r \in Streams \ {s} : Retired(r)' = Retired(r)
          /\ Kernels' = Kernels
          /\ Front(s).op = "upload" => s = On("copy") /\ f \in Uploads
          /\ \A r \in Streams : \A i \in DOMAIN work'[r] : work'[r][i] = work[r][i]
      BY <2>1, RunsOff
    <3>3. s = "copy"
      BY <2>1, <3>1, <3>2 DEF Streams
    <3>4. work'["compute"][k] = x
      BY <1>0, <3>1, <3>2 DEF Kernels, Ops
    <3>5. Retired("copy") \in Nat /\ Retired("copy")' \in Nat /\ Retired("copy")' >= Retired("copy")
      BY <1>0, <3>2, <3>3, OpFacts
    <3>6. x.ticket.hot \/ slots'[x.slab] = slots[x.slab]
      <4>1. Front(s).op = "upload" => Front(s).slab # x.slab
        BY <2>3, <3>2, WhileRunning
      <4> QED BY <2>1, <3>1, <4>1 DEF TypeOK, DeviceTypeOK, Op
    <3> QED BY <1>0, <1>2, <2>1, <2>3, <3>1, <3>2, <3>3, <3>4, <3>5, <3>6
  <2> QED BY <2>2, <2>3
<1>12. ASSUME NEW s \in Streams, KernelStarts(s) PROVE KernelInStep'
  <2>1. /\ UNCHANGED <<luts, slots, dedicated, queue, issued>>
        /\ MayStart(s) /\ queue[s] # << >> /\ Front(s).op = "kernel" /\ running' = Source(Front(s))
    BY <1>12 DEF KernelStarts, MayStart, hostVars, callVars, memoryVars
  <2>2. s = "compute" /\ k \in Kernels /\ x = Front(s)
    <3>1. Retired(s) + 1 \in DOMAIN work[s] /\ work[s][Retired(s) + 1] = Front(s)
      BY <2>1, PendingOps DEF TypeOK
    <3>2. s = "compute"
      BY <2>1, <3>1, KindsDiffer DEF Ops
    <3> QED BY <2>1, <3>1, <3>2 DEF Kernels, Ops
  <2>3. Retired("copy") >= x.after
    BY <2>1, <2>2 DEF MayStart, Otherwise
  <2>4. work' = work /\ \A r \in Streams : Retired(r)' = Retired(r)
    BY <2>1, Unmoved
  <2>5. x.after \in Nat /\ Retired("copy") \in Nat
    BY <1>0, <2>2, OpFacts
  <2>6. x.after <= Retired("copy")
    BY <2>3, <2>5
  <2>7. Retired("compute")' = Retired("compute") /\ Retired("copy")' = Retired("copy")
    BY <1>0, <2>4
  <2>8. running' = Source(x)'
    BY <2>1, <2>2, <2>4, <2>7 DEF Source
  <2>9. Kernels' = Kernels
    BY <2>4 DEF Kernels, Ops
  <2> QED BY <2>1, <2>2, <2>4, <2>6, <2>7, <2>8, <2>9 DEF KernelInStep
<1>13. ASSUME running' = None PROVE KernelInStep'
  BY <1>13 DEF KernelInStep
<1> QED
  BY <1>4, <1>5, <1>6, <1>7, <1>8, <1>9, <1>10, <1>11, <1>12, <1>13, AsideSteps
  DEF Next, Host, Stream, KernelFinishes, DeviceFails

(***************************************************************************)
(* The steps that leave the kernels, the table and the scores alone.       *)
(***************************************************************************)
LEMMA KernelsKept ==
  ASSUME TypeOK, HostInStep, StreamsInStep,
         \/ Aside \/ Upload \/ Collect \/ Await \/ CollectFails \/ LaunchFails \/ UNCHANGED vars
         \/ \E s \in Streams : Uploaded(s) \/ Downloaded(s) \/ KernelStarts(s)
  PROVE  /\ UNCHANGED <<lut, luts, laneErr, scores, lost>>
         /\ Kernels' = Kernels /\ \A k \in Kernels : work'["compute"][k] = work["compute"][k]
<1> USE DEF TypeOK
<1>1. CASE Aside \/ Await \/ CollectFails \/ LaunchFails \/ UNCHANGED vars
  <2>1. UNCHANGED <<lut, luts, laneErr, scores, lost>> /\ work' = work
    BY <1>1, Unmoved
    DEF Aside, Await, CollectFails, LaunchFails, deviceVars, memoryVars, vars, hostVars, scratchVars
  <2> QED BY <2>1 DEF Kernels, Ops
<1>2. CASE Upload
  <2>1. UNCHANGED <<lut, luts, laneErr, scores, lost>>
    BY <1>2 DEF Upload, memoryVars
  <2>2. CASE hot
    <3>1. work' = work
      BY <1>2, <2>2, Unmoved DEF Upload
    <3> QED BY <2>1, <3>1 DEF Kernels, Ops
  <2>3. CASE ~hot
    BY <1>2, <2>1, <2>3, UploadQueues
  <2> QED BY <2>2, <2>3
<1>3. CASE Collect
  <2>1. UNCHANGED <<lut, luts, laneErr, scores, lost>>
    BY <1>3 DEF Collect, scratchVars, memoryVars
  <2> QED BY <1>3, <2>1, CollectQueues
<1>4. ASSUME NEW s \in Streams, Uploaded(s) \/ Downloaded(s) \/ KernelStarts(s)
      PROVE  /\ UNCHANGED <<lut, luts, laneErr, scores, lost>>
             /\ Kernels' = Kernels /\ \A k \in Kernels : work'["compute"][k] = work["compute"][k]
  <2>1. UNCHANGED <<lut, luts, laneErr, scores, lost, issued, dedicated>>
    BY <1>4 DEF Uploaded, Downloaded, KernelStarts, hostVars, callVars, scratchVars, memoryVars
  <2>2. CASE KernelStarts(s)
    <3>1. work' = work
      BY <2>2, Unmoved DEF KernelStarts
    <3> QED BY <2>1, <3>1 DEF Kernels, Ops
  <2>3. CASE Uploaded(s) \/ Downloaded(s)
    <3>1. queue[s] # << >> /\ Retire(s) /\ Front(s).op \in {"upload", "download"}
      BY <2>3 DEF Uploaded, Downloaded, MayStart
    <3>2. Kernels' = Kernels /\ \A r \in Streams : \A i \in DOMAIN work'[r] : work'[r][i] = work[r][i]
      BY <2>1, <3>1, RunsOff
    <3>3. \A k \in Kernels' : k \in DOMAIN work'["compute"]
      BY DEF Kernels, Ops
    <3>4. \A k \in Kernels : work'["compute"][k] = work["compute"][k]
      BY <3>2, <3>3 DEF Streams
    <3> QED BY <2>1, <3>2, <3>4
  <2> QED BY <1>4, <2>2, <2>3
<1> QED BY <1>1, <1>2, <1>3, <1>4

LEMMA TableStays ==
  ASSUME TypeOK, HostInStep, StreamsInStep, SlabsInStep, KernelInStep, TableInStep, [Next]_vars
  PROVE  TableInStep'
<1>1. CASE \/ Aside \/ Upload \/ Collect \/ Await \/ CollectFails \/ LaunchFails \/ UNCHANGED vars
           \/ \E s \in Streams : Uploaded(s) \/ Downloaded(s) \/ KernelStarts(s)
  <2>1. /\ UNCHANGED <<lut, luts, lost>>
        /\ Kernels' = Kernels /\ \A k \in Kernels : work'["compute"][k] = work["compute"][k]
    BY <1>1, KernelsKept
  <2> QED BY <2>1 DEF TableInStep
<1>2. CASE Reserve /\ ~Fits
  BY <1>2 DEF Reserve, TableInStep, TypeOK, HostTypeOK
<1>3. CASE Launch
  <2>0. PICK n : n = issued["compute"] + 1
    OBVIOUS
  <2>1. /\ Kernels' = Kernels \cup {n}
        /\ work'["compute"][n] = [op |-> "kernel", slab |-> launchSlab,
                                  after |-> event["copy"], ticket |-> staged]
    BY <1>3, <2>0, LaunchQueues
  <2>2. /\ Kernels = {} /\ UNCHANGED <<luts, lost>>
        /\ lut' = IF staged.path = "S1" /\ ~staged.hot THEN Baked(staged) ELSE lut
    BY <1>3, LaunchAlone DEF Launch, memoryVars
  <2>3. CASE staged.path = "S1" /\ ~staged.hot
    BY <2>1, <2>2, <2>3 DEF TableInStep, Bakes, Baked
  <2>4. CASE ~(staged.path = "S1" /\ ~staged.hot)
    <3>1. ~Bakes(work'["compute"][n])
      BY <2>1, <2>4 DEF Bakes
    <3> QED BY <2>1, <2>2, <2>4, <3>1 DEF TableInStep
  <2> QED BY <2>3, <2>4
<1>4. ASSUME NEW s \in Streams, KernelFinishes(s) PROVE TableInStep'
  <2> DEFINE k == Retired("compute") + 1
             x == work["compute"][k]
  <2>1. /\ UNCHANGED <<lut, lost, issued, dedicated>>
        /\ running # None /\ queue[s] # << >> /\ Retire(s) /\ Front(s).op = "kernel"
    BY <1>4 DEF KernelFinishes, hostVars, callVars, scratchVars
  <2>2. /\ Kernels = {k} /\ x \in Op /\ running = Source(x)
        /\ ~x.ticket.hot => running = x.ticket.chunk
    BY <2>1, WhileRunning
  <2>3. Front(s) = x /\ Kernels' = {}
    BY <2>1, <2>2, RunsOff
  <2>4. luts' = IF Bakes(x) THEN [luts EXCEPT ![x.slab] = x.ticket.chunk] ELSE luts
    BY <1>4, <2>2, <2>3 DEF KernelFinishes, Bakes
  <2> HIDE DEF k, x
  <2>5. ASSUME lut.valid, ~lost PROVE luts'[lut.slab] = lut.chunk
    <3>1. lut.slab \in Slab /\ luts \in [Slab -> Content] /\ x.slab \in Slab
      BY <2>2 DEF Op, TypeOK, HostTypeOK, DeviceTypeOK
    <3>2. \/ Bakes(x) /\ x.slab = lut.slab /\ x.ticket.chunk = lut.chunk
          \/ luts[lut.slab] = lut.chunk /\ ~(Bakes(x) /\ x.slab = lut.slab)
      BY <2>2, <2>5 DEF TableInStep, x
    <3> QED BY <2>4, <3>1, <3>2
  <2> QED BY <2>1, <2>3, <2>5 DEF TableInStep
<1>5. CASE DeviceFails
  BY <1>5 DEF DeviceFails, TableInStep
<1> QED
  BY <1>1, <1>2, <1>3, <1>4, <1>5, AsideSteps DEF Next, Host, Stream

(***************************************************************************)
(* The inductive invariant.                                                *)
(***************************************************************************)
LEMMA InvariantHolds == Spec => [](TypeOK /\ InStep)
<1>1. ASSUME Init, TypeOK, HostInStep PROVE InStep
  <2>1. /\ \A s \in Streams : queue[s] = << >> /\ issued[s] = 0 /\ event[s] = 0
        /\ staged = None /\ running = None /\ pc = "idle" /\ ~lost /\ ~lut.valid
    BY <1>1 DEF Init
  <2>2. \A s \in Streams : DOMAIN work[s] = {}
    BY <1>1, <2>1, PendingOps DEF TypeOK
  <2>3. Kernels = {} /\ Uploads = {} /\ Downloads = {}
    BY <2>2 DEF Kernels, Uploads, Downloads, Ops, On, Streams
  <2>4. StreamsInStep
    BY <2>1, <2>2, <2>3 DEF StreamsInStep, Streams
  <2>5. SlabsInStep /\ KernelInStep /\ TableInStep
    BY <2>1, <2>3 DEF SlabsInStep, KernelInStep, TableInStep
  <2> QED BY <1>1, <2>4, <2>5 DEF InStep
<1>2. ASSUME TypeOK, InStep, [Next]_vars, HostInStep' PROVE InStep'
  BY <1>2, StreamsStay, SlabsStay, KernelStays, TableStays DEF InStep
<1> QED BY <1>1, <1>2, TypeCorrect, PTL DEF Spec

(***************************************************************************)
(* SlabExclusive: no upload may start into the slab that a running kernel  *)
(* reads its slots from.                                                   *)
(***************************************************************************)
THEOREM SlabsApart == Spec => []SlabExclusive
<1>1. ASSUME TypeOK, InStep PROVE SlabExclusive
  <2> SUFFICES ASSUME NEW s \in Streams, NEW t \in Streams, s # t, running # None,
                      MayStart(s), Front(s).op = "upload", queue[t] # << >>,
                      Front(t).op = "kernel", Front(t).slab = Front(s).slab
               PROVE  FALSE
    BY DEF SlabExclusive
  <2>1. /\ Retired(s) + 1 \in DOMAIN work[s] /\ work[s][Retired(s) + 1] = Front(s)
        /\ Retired(t) + 1 \in DOMAIN work[t] /\ work[t][Retired(t) + 1] = Front(t)
    BY <1>1, PendingOps DEF MayStart, TypeOK
  <2>2. s = On("copy") /\ Retired(s) + 1 \in Uploads
    BY <1>1, <2>1, KindsDiffer DEF InStep, Ops, Uploads
  <2>3. t = "compute"
    BY <1>1, <2>1, KindsDiffer DEF InStep, Ops
  <2> QED BY <1>1, <2>1, <2>2, <2>3, WhileRunning DEF InStep
<1> QED BY <1>1, InvariantHolds, PTL

(***************************************************************************)
(* TableIsResident: the table the host counts on is in its slab, or will   *)
(* be once the launch that is left to run has.                             *)
(***************************************************************************)
THEOREM TableThere == Spec => []TableIsResident
<1>1. ASSUME TypeOK, InStep PROVE TableIsResident
  <2> DEFINE q == queue["compute"]
             baking(x) == Bakes(x) /\ x.slab = lut.slab
             bakes == {i \in 1 .. Len(q) : /\ q[i].op = "kernel" /\ q[i].slab = lut.slab
                                           /\ q[i].ticket.path = "S1" /\ ~q[i].ticket.hot}
  <2> SUFFICES ASSUME lut.valid, ~lost
               PROVE  IF bakes = {} THEN luts[lut.slab] = lut.chunk
                      ELSE \E i \in bakes : q[i].ticket.chunk = lut.chunk /\ \A j \in bakes : j <= i
    BY DEF TableIsResident
  <2>1. PICK n \in Nat, l \in Nat, d \in Nat :
           n = issued["compute"] /\ l = Len(q) /\ l <= n /\ d = n - l
    BY <1>1 DEF TypeOK, DeviceTypeOK, Streams
  <2>2. work["compute"] = [i \in d + 1 .. n |-> q[i - d]]
    BY <2>1 DEF work, Retired, Streams
  <2> HIDE DEF q
  <2>3. ASSUME NEW i \in 1 .. l PROVE i + d \in d + 1 .. n /\ (i + d) - d = i
    <3>1. l <= n /\ d = n - l
      BY <2>1
    <3> QED BY <3>1
  <2>4. ASSUME NEW k \in d + 1 .. n PROVE k - d \in 1 .. l /\ (k - d) + d = k
    <3>1. l <= n /\ d = n - l
      BY <2>1
    <3> QED BY <3>1
  <2>5. ASSUME NEW i \in bakes
        PROVE  i + d \in Kernels /\ baking(work["compute"][i + d]) /\ work["compute"][i + d] = q[i]
    <3>1. i \in 1 .. l
      BY <2>1
    <3>2. i + d \in DOMAIN work["compute"] /\ work["compute"][i + d] = q[i]
      BY <2>2, <2>3, <3>1
    <3> QED BY <3>2 DEF Kernels, Ops, Bakes
  <2>6. \A k \in Kernels : baking(work["compute"][k]) => k - d \in bakes /\ work["compute"][k] = q[k - d]
    BY <2>1, <2>2, <2>4 DEF Kernels, Ops, Bakes
  <2>7. \A k, m \in Kernels : k = m
    BY <1>1 DEF InStep, StreamsInStep
  <2>8. \A i, j \in bakes : j <= i
    <3>1. \A i, j \in bakes : i \in Nat /\ j \in Nat /\ i + d = j + d
      BY <2>1, <2>5, <2>7
    <3> QED BY <2>1, <3>1
  <2>9. \/ \E k \in Kernels : baking(work["compute"][k]) /\ work["compute"][k].ticket.chunk = lut.chunk
        \/ /\ luts[lut.slab] = lut.chunk
           /\ \A k \in Kernels : ~baking(work["compute"][k])
    BY <1>1 DEF InStep, TableInStep
  <2> HIDE DEF bakes, baking
  <2>10. CASE \E k \in Kernels : baking(work["compute"][k]) /\ work["compute"][k].ticket.chunk = lut.chunk
    BY <2>6, <2>8, <2>10
  <2>11. CASE luts[lut.slab] = lut.chunk /\ \A k \in Kernels : ~baking(work["compute"][k])
    BY <2>5, <2>11
  <2> QED BY <2>9, <2>10, <2>11
<1> QED BY <1>1, InvariantHolds, PTL

-----------------------------------------------------------------------------
(***************************************************************************)
(* Scores.  The chunks of a call are given ones, and what was found of the *)
(* table and the staged chunk when they were bound stays so.               *)
(***************************************************************************)
LEMMA GivenChunks ==
  ASSUME TypeOK, PathsInStep, NEW i \in 1 .. Len(call)
  PROVE  /\ Given(call[i]) /\ call[i] \in Chunks /\ call # << >> /\ workload \in Workloads
         /\ OneTheory => \A c \in Chunks : Given(c) => TheoryOf[c] = TheoryOf[call[i]]
         /\ Served => Size[call[i]] <= Size[call[1]]
<1>1. call \in Seq(Chunks) /\ call # << >> /\ workload \in Workloads
  BY DEF TypeOK, HostTypeOK
<1>2. call \in workload /\ call[i] \in GivenTo(call) /\ call[i] \in Chunks
  BY <1>1 DEF PathsInStep, GivenTo
<1>3. Given(call[i])
  BY <1>2 DEF Given
<1>4. OneTheory => \A c : Given(c) => TheoryOf[c] = TheoryOf[call[i]]
  BY <1>3 DEF OneTheory, Given
<1>5. Served => Size[call[i]] <= Size[call[1]]
  BY <1>1, <1>2 DEF Served
<1> QED BY <1>1, <1>2, <1>3, <1>4, <1>5

LEMMA SameFlags ==
  ASSUME Served, workload \in Workloads, ~OneTheory, NEW c, NEW d, Given(c), Given(d)
  PROVE  Flags(c) = Flags(d)
<1>1. \A list \in workload : GivenTo(list) \cap Rejected = {}
  BY DEF Served, OneTheory
<1>2. c \notin Rejected /\ d \notin Rejected
  BY <1>1 DEF Given
<1> QED BY <1>2 DEF Flags

LEMMA PathsStay ==
  ASSUME TypeOK, HostInStep, PathsInStep, [Next]_vars
  PROVE  PathsInStep'
<1> USE DEF TypeOK, HostTypeOK
<1>0. /\ \A i \in 1 .. Len(call) : call[i] \in Chunks /\ Given(call[i])
      /\ index <= Len(call) => Current \in Chunks /\ Given(Current)
      /\ (index <= Len(call) /\ OneTheory) =>
           \A c \in Chunks : Given(c) => TheoryOf[c] = TheoryOf[Current]
  BY GivenChunks DEF Current
<1>1. CASE Call
  <2>1. PICK list \in workload :
          /\ call' = list
          /\ IF list # << >>
             THEN pc' = "bind" /\ path' = Lowering(list[1])
             ELSE pc' = (IF inFlight # None THEN "collect" ELSE "return") /\ UNCHANGED path
    BY <1>1 DEF Call
  <2>2. /\ index' = 1 /\ staged = None
        /\ UNCHANGED <<workload, staged, inFlight, entry, ready, lut, capacity, lost>>
    BY <1>1 DEF Call, HostInStep, cacheVars, scratchVars, deviceVars
  <2>3. list # << >> => list[1] \in GivenTo(list)
    <3>1. list \in Seq(Chunks)
      BY PipelineAssumption
    <3> QED BY <3>1 DEF GivenTo
  <2>4. pc' = "bind" => /\ path' = "S1" => TheoryOf[list[1]] \in Specialized
                        /\ path' = "S0" => TheoryOf[list[1]] \notin Specialized
    BY <2>1 DEF Lowering
  <2>5. Current' = list[1] /\ OneTheory' = OneTheory /\ \A c : Given(c)' <=> Given(c)
    BY <2>1, <2>2 DEF Current, OneTheory, Given
  <2>6. (pc' = "bind" /\ lut.valid /\ OneTheory /\ ~lost) => path' # "S0"
    <3>1. pc' = "bind" => list # << >> /\ list[1] \in GivenTo(list)
      BY <2>1, <2>3
    <3>2. (OneTheory /\ lut.valid /\ pc' = "bind") => TheoryOf[list[1]] = TheoryOf[lut.chunk]
      BY <2>1, <3>1 DEF OneTheory, PathsInStep, Given
    <3> QED BY <2>4, <3>2 DEF PathsInStep
  <2>7. pc' \in {"bind", "collect", "return"}
    BY <2>1
  <2> QED BY <2>1, <2>2, <2>4, <2>5, <2>6, <2>7 DEF PathsInStep
<1>2. CASE Bind
  <2>1. /\ UNCHANGED <<workload, call, index, path, staged, inFlight, lut, capacity, lost>>
        /\ staged = None /\ index <= Len(call) /\ pc = "bind" /\ pc' = "reserve"
        /\ entry' = TheoryOf[Current] /\ ready' = (ready /\ entry = TheoryOf[Current])
    BY <1>2 DEF Bind, HostInStep, callVars, scratchVars, deviceVars
  <2> QED BY <1>0, <2>1 DEF PathsInStep, HostInStep, Current, OneTheory, Given, Fits
<1>3. CASE BindFails \/ LaunchFails \/ CollectFails
  <2>1. /\ UNCHANGED <<workload, call, index, path, entry, ready, lut, capacity, lost>>
        /\ pc' = "idle" /\ staged' = None /\ inFlight' \in {inFlight, None}
    BY <1>3 DEF BindFails, LaunchFails, CollectFails, Fail, callVars, cacheVars, scratchVars,
                deviceVars
  <2> QED BY <2>1 DEF PathsInStep, OneTheory, Given
<1>4. CASE Reserve
  <2>1. /\ UNCHANGED <<workload, call, index, path, staged, inFlight, entry, ready, lost>>
        /\ staged = None /\ pc = "reserve" /\ pc' = "upload"
    BY <1>4 DEF Reserve, HostInStep, callVars, cacheVars, deviceVars
  <2>2. ~lut'.valid \/ UNCHANGED <<lut, capacity>>
    BY <1>4 DEF Reserve, scratchVars
  <2> QED BY <2>1, <2>2 DEF PathsInStep, Current, OneTheory, Given, Fits
<1>5. CASE ReserveFails \/ UploadFails
  <2>1. /\ UNCHANGED <<workload, call, index, inFlight, entry, ready, lut, capacity, lost>>
        /\ staged = None /\ staged' = None /\ pc \in {"reserve", "upload"}
        /\ \/ pc' = "bind" /\ path' = "S0"
           \/ pc' = "idle" /\ path' = path
        /\ (~Fits \/ ~ready \/ lost)
    BY <1>5 DEF ReserveFails, UploadFails, StagingFails, Fail, HostInStep, callVars, cacheVars,
                scratchVars, deviceVars
  <2> QED BY <2>1 DEF PathsInStep, Current, OneTheory, Given, Fits
<1>6. CASE Upload
  <2>1. /\ UNCHANGED <<workload, call, index, path, inFlight, entry, lut, capacity, lost>>
        /\ pc = "upload" /\ pc' \in {"collect", "launch"} /\ ready' /\ Fits /\ index <= Len(call)
        /\ staged'.chunk = Current /\ staged'.path = path
    BY <1>6 DEF Upload, HostInStep, callVars
  <2> QED BY <2>1 DEF PathsInStep, Current, OneTheory, Given
<1>7. CASE Collect \/ Await
  <2>1. /\ UNCHANGED <<workload, call, index, path, staged, entry, ready, lut, capacity, lost>>
        /\ pc' \in {"await", "launch", "return"} /\ inFlight' \in {inFlight, None}
    BY <1>7 DEF Collect, Await, callVars, cacheVars, scratchVars, deviceVars
  <2> QED BY <2>1 DEF PathsInStep, OneTheory, Given
<1>8. CASE Launch
  <2>1. /\ UNCHANGED <<workload, call, entry, ready, capacity, lost>>
        /\ staged # None /\ staged' = None /\ inFlight' = staged
        /\ lut' = IF staged.path = "S1" /\ ~staged.hot THEN Baked(staged) ELSE lut
        /\ Proceed(index + 1)
        /\ staged.chunk = Current /\ index <= Len(call)
        /\ index \in Nat
    BY <1>8 DEF Launch, HostInStep, callVars, cacheVars
  <2>2. /\ index' = index + 1 /\ Current' = call[index + 1]
        /\ \/ /\ pc' = "bind" /\ path' = Lowering(call[index + 1])
              /\ index + 1 \in 1 .. Len(call)
           \/ pc' = "collect" /\ path' = path
    BY <2>1 DEF Proceed, Current
  <2>3. lut'.valid => /\ Given(lut'.chunk) /\ lut'.chunk \in Chunks
                      /\ TheoryOf[lut'.chunk] \in Specialized
    BY <1>0, <2>1 DEF PathsInStep, Baked, HostInStep
  <2>4. (lut'.valid /\ OneTheory /\ ~lost) => ready /\ entry = TheoryOf[lut'.chunk]
    BY <2>1 DEF PathsInStep, Baked
  <2>5. pc' = "bind" => (path' = "S1" <=> TheoryOf[call[index + 1]] \in Specialized)
    BY <2>2 DEF Lowering
  <2>6. (lut'.valid /\ OneTheory /\ pc' = "bind") => path' = "S1"
    <3>1. (pc' = "bind" /\ OneTheory /\ lut'.valid) =>
             TheoryOf[lut'.chunk] = TheoryOf[call[index + 1]]
      BY <2>2, <2>3, GivenChunks
    <3> QED BY <2>3, <2>5, <3>1
  <2>7. OneTheory' = OneTheory /\ \A c : Given(c)' <=> Given(c)
    BY <2>1 DEF OneTheory, Given
  <2>8. pc' \in {"bind", "collect"}
    BY <2>2
  <2> QED BY <2>1, <2>2, <2>3, <2>4, <2>5, <2>6, <2>7, <2>8 DEF PathsInStep
<1>9. CASE Return \/ (UNCHANGED hostVars /\ (UNCHANGED lost \/ lost'))
  <2>1. /\ UNCHANGED <<workload, call, index, path, staged, inFlight, entry, ready, lut, capacity>>
        /\ (UNCHANGED lost \/ lost')
        /\ pc' \in {pc, "idle"}
    BY <1>9 DEF Return, hostVars, callVars, cacheVars, scratchVars, deviceVars
  <2> QED BY <2>1 DEF PathsInStep, Current, OneTheory, Given, Fits
<1>10. CASE UNCHANGED vars \/ DeviceFails \/ \E s \in Streams : Stream(s)
  BY <1>9, <1>10
  DEF vars, deviceVars, DeviceFails, Stream, Uploaded, Downloaded, KernelStarts, KernelFinishes
<1> QED
  BY <1>1, <1>2, <1>3, <1>4, <1>5, <1>6, <1>7, <1>8, <1>9, <1>10 DEF Next, Host

(***************************************************************************)
(* A call that began with nothing in flight collects the scores of its     *)
(* chunks in turn, and the scratch does not grow after its first chunk.    *)
(***************************************************************************)
LEMMA CallStays ==
  ASSUME Served, TypeOK, HostInStep, StreamsInStep, PathsInStep, CallOnTime, ScoresInStep,
         [Next]_vars
  PROVE  CallOnTime'
<1> USE DEF TypeOK, HostTypeOK
<1>0. /\ out \in Seq(Score \cup {Fresh}) /\ Len(out) \in Nat /\ DOMAIN out = 1 .. Len(out)
      /\ index \in Nat /\ Collected \in Nat /\ capacity \in Nat
  BY DEF Collected
<1>1. ASSUME pc' = "idle" PROVE CallOnTime'
  BY <1>1 DEF CallOnTime, OnTime
<1>2. ASSUME UNCHANGED <<call, index, out, inFlight, capacity>>, pc # "idle" \/ pc' = pc
      PROVE  CallOnTime'
  BY <1>2 DEF CallOnTime, OnTime, Collected
<1>3. CASE Call
  <2>1. index' = 1 /\ out' = << >> /\ inFlight' = inFlight /\ Len(<< >>) = 0 /\ DOMAIN << >> = {}
    BY <1>3 DEF Call
  <2> QED BY <2>1 DEF CallOnTime, OnTime, Collected
<1>4. CASE Reserve /\ ~Fits
  <2>1. /\ UNCHANGED <<call, index, out, inFlight>> /\ index <= Len(call) /\ capacity' = Size[Current]
        /\ pc = "reserve"
    BY <1>4 DEF Reserve, HostInStep, callVars
  <2>2. /\ Size[call[index]] <= Size[call[1]] /\ Size[call[index]] \in Nat
        /\ Size[call[1]] \in Nat
    BY <2>1, GivenChunks, ChunkFacts
  <2>3. ~(index > 1)
    BY <1>0, <1>4, <2>1, <2>2 DEF CallOnTime, Fits, Current
  <2> QED BY <2>1, <2>3 DEF CallOnTime, OnTime, Collected
<1>5. CASE Await
  <2>1. /\ UNCHANGED <<call, index, capacity>> /\ out' = Append(out, landed) /\ inFlight' = None
        /\ pc = "await" /\ inFlight # None /\ ~lost /\ Synchronized
    BY <1>5 DEF Await, HostInStep, callVars, scratchVars
  <2>2. /\ Len(out') = Len(out) + 1 /\ DOMAIN out' = 1 .. Len(out) + 1
        /\ out'[Len(out) + 1] = landed /\ \A i \in DOMAIN out : out'[i] = out[i]
    BY <1>0, <2>1, AppendProperties DEF DeviceTypeOK
  <2>3. Collected' = Len(out) + 1 /\ Collected = Len(out) + 1
    BY <1>0, <2>1, <2>2 DEF Collected
  <2>4. ASSUME OnTime' PROVE \A i \in DOMAIN out' : out'[i] = Right(call[i])
    <3>1. OnTime /\ index - 1 = Len(out) + 1
      BY <2>1, <2>3, <2>4 DEF OnTime
    <3>2. Downloads = {}
      <4>1. queue[On("copy")] = << >> /\ On("copy") \in Streams
        BY <2>1 DEF Synchronized, DeviceIdle, On, Streams
      <4> QED BY <4>1, PendingOps DEF Downloads, Ops
    <3>3. landed = Right(inFlight.chunk)
      BY <2>1, <3>1, <3>2 DEF ScoresInStep
    <3>4. landed = Right(call[Len(out) + 1])
      BY <2>1, <3>1, <3>3 DEF CallOnTime
    <3>5. \A i \in DOMAIN out : out[i] = Right(call[i])
      BY <3>1 DEF CallOnTime
    <3> QED BY <1>0, <2>2, <3>4, <3>5
  <2>5. (pc' # "idle" /\ index' > 1) => Size[call'[1]] <= capacity'
    BY <2>1 DEF CallOnTime
  <2>6. OnTime' => \A i \in DOMAIN out' : out'[i] = Right(call'[i])
    BY <2>1, <2>4
  <2> QED BY <2>1, <2>5, <2>6 DEF CallOnTime
<1>6. CASE Launch
  <2>1. /\ UNCHANGED <<call, capacity, out>> /\ inFlight' = staged /\ staged # None /\ inFlight = None
        /\ index' = index + 1 /\ staged.chunk = call[index] /\ Fits /\ pc = "launch"
    BY <1>6 DEF Launch, Proceed, HostInStep, callVars, Current
  <2>2. Collected' = Collected + 1
    BY <1>0, <2>1 DEF Collected
  <2>3. (index + 1) - 1 = index
    BY <1>0
  <2>4. OnTime' => OnTime
    BY <1>0, <2>1, <2>2 DEF OnTime
  <2>5. OnTime' => /\ \A i \in DOMAIN out' : out'[i] = Right(call'[i])
                   /\ inFlight'.chunk = call'[index' - 1]
    BY <2>1, <2>3, <2>4 DEF CallOnTime
  <2>6. Size[call[1]] <= capacity
    BY <1>0, <2>1 DEF CallOnTime, Fits, Current
  <2> QED BY <2>1, <2>5, <2>6 DEF CallOnTime
<1>7. CASE Bind \/ BindFails \/ (Reserve /\ Fits) \/ ReserveFails \/ Upload \/ UploadFails \/ Collect
  <2>1. UNCHANGED <<call, index, out, inFlight, capacity>> /\ pc # "idle"
    BY <1>7 DEF Bind, BindFails, Reserve, ReserveFails, Upload, UploadFails, Collect, callVars,
                scratchVars
  <2> QED BY <1>2, <2>1
<1>8. CASE CollectFails \/ LaunchFails \/ Return
  BY <1>1, <1>8 DEF CollectFails, LaunchFails, Fail, Return
<1>9. CASE UNCHANGED hostVars
  <2>1. UNCHANGED <<call, index, out, inFlight, capacity>> /\ pc' = pc
    BY <1>9 DEF hostVars, callVars, scratchVars
  <2> QED BY <1>2, <2>1
<1> QED
  BY <1>3, <1>4, <1>5, <1>6, <1>7, <1>8, <1>9
  DEF Next, Host, Stream, Uploaded, Downloaded, KernelStarts, KernelFinishes, DeviceFails, vars

(***************************************************************************)
(* Lane errors.                                                            *)
(***************************************************************************)
LEMMA FlagsStay ==
  ASSUME Served, TypeOK, InStep, PathsInStep, FlagsInStep, [Next]_vars
  PROVE  FlagsInStep'
<1> USE DEF InStep
<1>1. CASE \/ Aside \/ Upload \/ Collect \/ Await \/ CollectFails \/ LaunchFails \/ UNCHANGED vars
           \/ \E s \in Streams : Uploaded(s) \/ Downloaded(s) \/ KernelStarts(s)
  <2>1. /\ UNCHANGED <<lut, luts, laneErr, lost>>
        /\ Kernels' = Kernels /\ \A k \in Kernels : work'["compute"][k] = work["compute"][k]
    BY <1>1, KernelsKept
  <2> QED BY <2>1 DEF FlagsInStep
<1>2. CASE Reserve /\ ~Fits
  <2>1. ~lut'.valid /\ DeviceIdle /\ UNCHANGED <<queue, issued>>
    BY <1>2 DEF Reserve, deviceVars, TypeOK, HostTypeOK
  <2>2. Kernels' = {}
    BY <2>1, PendingOps, Unmoved DEF DeviceIdle, Kernels, Ops, Streams, TypeOK
  <2> QED BY <2>1, <2>2 DEF FlagsInStep
<1>3. CASE Launch
  <2>0. PICK n : n = issued["compute"] + 1
    OBVIOUS
  <2>1. /\ Kernels' = Kernels \cup {n}
        /\ work'["compute"][n] = [op |-> "kernel", slab |-> launchSlab,
                                  after |-> event["copy"], ticket |-> staged]
    BY <1>3, <2>0, LaunchQueues
  <2>2. /\ Kernels = {} /\ ~lost /\ staged # None /\ UNCHANGED <<luts, laneErr, lost>>
        /\ lut' = IF staged.path = "S1" /\ ~staged.hot THEN Baked(staged) ELSE lut
    BY <1>3, LaunchAlone DEF Launch, memoryVars
  <2>3. CASE staged.hot
    <3>1. lut.valid /\ lut.chunk = staged.chunk /\ lut.slab = launchSlab /\ lut' = lut
      BY <2>2, <2>3 DEF HostInStep, Resident
    <3>2. luts[launchSlab] = staged.chunk /\ laneErr = Flags(staged.chunk)
      BY <2>2, <3>1 DEF TableInStep, FlagsInStep
    <3> QED BY <2>1, <2>2, <2>3, <3>1, <3>2 DEF FlagsInStep
  <2>4. CASE ~staged.hot
    <3>1. ASSUME lut'.valid PROVE Flags(staged.chunk) = Flags(lut'.chunk)
      <4>1. CASE staged.path = "S1"
        BY <2>2, <2>4, <4>1 DEF Baked
      <4>2. CASE staged.path # "S1"
        <5>1. lut' = lut /\ ~OneTheory /\ Given(lut.chunk)
          BY <2>2, <3>1, <4>2 DEF PathsInStep
        <5>2. Given(staged.chunk) /\ workload \in Workloads
          BY <2>2, GivenChunks DEF HostInStep, TypeOK, HostTypeOK, Current
        <5> QED BY <5>1, <5>2, SameFlags
      <4> QED BY <4>1, <4>2
    <3> QED BY <2>1, <2>2, <2>4, <3>1 DEF FlagsInStep
  <2> QED BY <2>3, <2>4
<1>4. ASSUME NEW s \in Streams, KernelFinishes(s) PROVE FlagsInStep'
  <2> DEFINE k == Retired("compute") + 1
             x == work["compute"][k]
  <2>1. /\ UNCHANGED <<lut, lost, issued, dedicated>>
        /\ running # None /\ queue[s] # << >> /\ Retire(s) /\ Front(s).op = "kernel"
    BY <1>4 DEF KernelFinishes, hostVars, callVars, scratchVars
  <2>2. /\ Kernels = {k} /\ running = Source(x)
        /\ ~x.ticket.hot => running = x.ticket.chunk
    BY <2>1, WhileRunning
  <2>3. Front(s) = x /\ Kernels' = {}
    BY <2>1, <2>2, RunsOff
  <2>4. laneErr' = IF x.ticket.hot THEN laneErr ELSE Flags(x.ticket.chunk)
    BY <1>4, <2>2, <2>3 DEF KernelFinishes
  <2> HIDE DEF k, x
  <2>5. (lut.valid /\ ~lost) => laneErr' = Flags(lut.chunk)
    BY <2>2, <2>4 DEF FlagsInStep, x
  <2> QED BY <2>1, <2>3, <2>5 DEF FlagsInStep
<1>5. CASE DeviceFails
  <2>1. lost' /\ \A s \in Streams : queue'[s] = << >>
    BY <1>5 DEF DeviceFails
  <2>2. Kernels' = {}
    <3>1. /\ "compute" \in Streams /\ issued["compute"] \in Nat /\ Len(<< >>) = 0
          /\ issued' = issued
      BY <1>5 DEF DeviceFails, TypeOK, DeviceTypeOK, Streams
    <3> QED BY <2>1, <3>1 DEF Kernels, Ops, work, Retired
  <2> QED BY <2>1, <2>2 DEF FlagsInStep
<1> QED
  BY <1>1, <1>2, <1>3, <1>4, <1>5, AsideSteps DEF Next, Host, Stream

(***************************************************************************)
(* Scores and their download.                                              *)
(***************************************************************************)
LEMMA ScoresStay ==
  ASSUME Served, TypeOK, InStep, PathsInStep, CallOnTime, FlagsInStep, ScoresInStep, [Next]_vars
  PROVE  ScoresInStep'
<1> USE DEF InStep
<1>0. /\ index \in Nat /\ Len(out) \in Nat /\ Collected \in Nat
      /\ OnTime /\ inFlight # None => index > 1
  BY DEF TypeOK, HostTypeOK, Collected, OnTime
<1>1. ASSUME UNCHANGED <<index, out, inFlight>>, pc # "idle" \/ pc' \in {pc, "idle"}, Kernels' = Kernels,
             scores' = scores, lost' = lost,
             \/ pc' # "await"
             \/ pc' = "await" /\ Downloads' # {}
             \/ pc' = "await" /\ pc = "await" /\ landed' = landed /\ Downloads' = Downloads
      PROVE  ScoresInStep'
  <2>1. OnTime' => OnTime
    BY <1>1 DEF OnTime, Collected
  <2> QED BY <1>1, <2>1 DEF ScoresInStep
<1>2. CASE Call
  <2>1. index' = 1 /\ out' = << >> /\ inFlight' = inFlight /\ Len(<< >>) = 0
    BY <1>2 DEF Call
  <2>2. OnTime' => inFlight' = None
    BY <2>1 DEF OnTime, Collected
  <2> QED BY <2>2 DEF ScoresInStep
<1>3. CASE Bind \/ BindFails \/ (Reserve /\ Fits) \/ ReserveFails \/ UploadFails \/ Return
  <2>1. Aside
    BY <1>3, AsideSteps
  <2>2. /\ UNCHANGED <<index, out, inFlight, scores, lost>> /\ pc' # "await"
        /\ Kernels' = Kernels /\ pc # "idle"
    BY <1>3, <2>1, KernelsKept
    DEF Bind, BindFails, Reserve, ReserveFails, UploadFails, Return, Aside
  <2> QED BY <1>1, <2>2
<1>4. CASE Reserve /\ ~Fits
  <2>1. /\ UNCHANGED <<call, index, out, inFlight>> /\ index <= Len(call) /\ pc = "reserve"
        /\ pc' = "upload"
    BY <1>4 DEF Reserve, HostInStep, callVars
  <2>2. OnTime' => OnTime
    BY <2>1 DEF OnTime, Collected
  <2>3. ~(index > 1)
    <3>1. index \in 1 .. Len(call) /\ call \in Seq(Chunks) /\ capacity \in Nat
      BY <2>1 DEF TypeOK, HostTypeOK
    <3>2. Size[call[index]] <= Size[call[1]] /\ call[index] \in Chunks /\ call[1] \in Chunks
      BY <3>1, GivenChunks
    <3>3. Size[call[index]] \in Nat /\ Size[call[1]] \in Nat
      BY <3>2, ChunkFacts
    <3> QED BY <1>4, <2>1, <3>1, <3>2, <3>3 DEF CallOnTime, Fits, Current
  <2>4. OnTime' => inFlight' = None
    BY <1>0, <2>1, <2>2, <2>3
  <2> QED BY <2>4 DEF ScoresInStep
<1>5. CASE Upload
  <2>1. /\ UNCHANGED <<index, out, inFlight, scores, lost>> /\ pc' # "await"
        /\ Kernels' = Kernels /\ pc # "idle"
    BY <1>5, KernelsKept DEF Upload
  <2> QED BY <1>1, <2>1
<1>6. CASE Collect
  <2>1. Downloads' # {}
    BY <1>6, CollectQueues
  <2>2. /\ UNCHANGED <<index, out, inFlight, scores, lost>> /\ pc' = "await" /\ pc # "idle"
        /\ Kernels' = Kernels
    BY <1>6, KernelsKept DEF Collect
  <2> QED BY <1>1, <2>1, <2>2
<1>7. CASE Await \/ CollectFails
  BY <1>7 DEF Await, CollectFails, ScoresInStep
<1>8. CASE Launch
  <2>1. Kernels' # {} /\ pc' # "await"
    BY <1>8, LaunchQueues DEF Launch, Proceed
  <2> QED BY <2>1 DEF ScoresInStep
<1>9. CASE LaunchFails \/ DeviceFails
  BY <1>9 DEF LaunchFails, DeviceFails, deviceVars, ScoresInStep
<1>10. ASSUME NEW s \in Streams, Uploaded(s) \/ KernelStarts(s) PROVE ScoresInStep'
  <2>1. UNCHANGED <<index, out, inFlight, scores, lost, landed, pc>> /\ Kernels' = Kernels
    BY <1>10, KernelsKept DEF Uploaded, KernelStarts, hostVars, memoryVars
  <2>2. Downloads' = Downloads
    <3>1. CASE Uploaded(s)
      <4>1. queue[s] # << >> /\ Retire(s) /\ Front(s).op = "upload" /\ UNCHANGED <<issued, dedicated>>
        BY <3>1 DEF Uploaded, MayStart, hostVars, callVars
      <4> QED BY <4>1, RunsOff
    <3>2. CASE KernelStarts(s)
      BY <3>2, Unmoved DEF KernelStarts, Downloads, Ops, On, hostVars, callVars
    <3> QED BY <1>10, <3>1, <3>2
  <2> QED BY <1>1, <2>1, <2>2
<1>11. ASSUME NEW s \in Streams, Downloaded(s) PROVE ScoresInStep'
  <2> DEFINE f == Retired(s) + 1
  <2>1. /\ UNCHANGED <<index, out, inFlight, scores, lost, pc, issued, dedicated>>
        /\ Kernels' = Kernels /\ landed' = scores
        /\ MayStart(s) /\ queue[s] # << >> /\ Retire(s) /\ Front(s).op = "download"
    BY <1>11, KernelsKept DEF Downloaded, MayStart, hostVars, callVars
  <2>2. /\ f \in Downloads /\ Downloads' = Downloads \ {f}
    BY <2>1, RunsOff
  <2>3. OnTime' = OnTime
    BY <2>1 DEF OnTime, Collected
  <2>4. Downloads' = {} => Kernels = {} \/ lost
    <3> SUFFICES ASSUME Downloads' = {}, ~lost, Kernels # {} PROVE FALSE
      OBVIOUS
    <3>1. PICK i \in Downloads : dedicated => work["copy"][i].after = issued["compute"]
      BY <2>2 DEF StreamsInStep
    <3>2. i = f
      BY <2>2, <3>1
    <3> QED BY <2>1, <3>1, <3>2, DownloadLast
  <2> QED BY <2>1, <2>3, <2>4 DEF ScoresInStep
<1>12. ASSUME NEW s \in Streams, KernelFinishes(s) PROVE ScoresInStep'
  <2> DEFINE k == Retired("compute") + 1
             x == work["compute"][k]
  <2>1. /\ UNCHANGED <<index, out, inFlight, landed, lost, pc, issued, dedicated>>
        /\ running # None /\ queue[s] # << >> /\ Retire(s) /\ Front(s).op = "kernel"
    BY <1>12 DEF KernelFinishes, hostVars, callVars
  <2>2. /\ Kernels = {k} /\ running = Source(x) /\ x \in Op
        /\ ~x.ticket.hot => running = x.ticket.chunk
    BY <2>1, WhileRunning
  <2>3. Front(s) = x /\ Downloads' = Downloads
    BY <2>1, <2>2, RunsOff
  <2>4. x.ticket = inFlight /\ x.ticket.chunk \in Chunks
    BY <2>2 DEF StreamsInStep, Op, Ticket
  <2>5. x.ticket.hot => laneErr = Flags(x.ticket.chunk) /\ running = x.ticket.chunk
    BY <2>2 DEF FlagsInStep, Source
  <2>6. scores' = Right(inFlight.chunk)
    <3> HIDE DEF k, x
    <3>1. Flags(x.ticket.chunk) # Fresh
      BY <2>4, ChunkFacts
    <3> QED BY <1>12, <2>2, <2>3, <2>4, <2>5, <3>1 DEF KernelFinishes, Right
  <2>7. OnTime' = OnTime
    BY <2>1 DEF OnTime, Collected
  <2> QED BY <2>1, <2>3, <2>6, <2>7 DEF ScoresInStep
<1>13. CASE UNCHANGED vars
  <2>1. UNCHANGED <<index, out, inFlight, scores, lost, landed, pc, dedicated>> /\ work' = work
    BY <1>13, Unmoved DEF vars, hostVars, callVars, memoryVars, deviceVars
  <2> QED BY <1>1, <2>1 DEF Kernels, Downloads, Ops, On
<1> QED
  BY <1>2, <1>3, <1>4, <1>5, <1>6, <1>7, <1>8, <1>9, <1>10, <1>11, <1>12, <1>13
  DEF Next, Host, Stream

(***************************************************************************)
(* DeliveredInOrder, for pipelines that are given what they serve.         *)
(***************************************************************************)
THEOREM Delivered ==
  ASSUME Served
  PROVE  Spec => []DeliveredInOrder
<1>1. ASSUME Init PROVE ScoredInStep /\ DeliveredInOrder
  <2>1. /\ call = << >> /\ pc = "idle" /\ path = "S0" /\ staged = None /\ inFlight = None
        /\ lut.valid = FALSE /\ ~reply.ok
    BY <1>1 DEF Init
  <2>2. Kernels = {}
    <3>1. /\ queue["compute"] = << >> /\ issued["compute"] = 0 /\ Len(<< >>) = 0
      BY <1>1 DEF Init, Streams
    <3> QED BY <3>1 DEF Kernels, Ops, work, Retired, Streams
  <2> QED BY <2>1, <2>2 DEF ScoredInStep, CallOnTime, OnTime, PathsInStep, FlagsInStep,
                            ScoresInStep, DeliveredInOrder
<1>2. ASSUME TypeOK, InStep, ScoredInStep, [Next]_vars PROVE ScoredInStep'
  BY <1>2, PathsStay, CallStays, FlagsStay, ScoresStay DEF ScoredInStep, InStep
<1>3. ASSUME TypeOK, InStep, ScoredInStep, DeliveredInOrder, [Next]_vars
      PROVE  DeliveredInOrder'
  <2>1. CASE Call
    BY <2>1 DEF Call, DeliveredInOrder
  <2>2. CASE Return
    <3>1. /\ UNCHANGED <<call, out>> /\ reply' = [ok |-> Complete, out |-> IF Complete THEN out ELSE << >>]
          /\ pc = "return" /\ inFlight = None /\ staged = None /\ index = Len(call) + 1
      BY <1>3, <2>2 DEF Return, InStep, HostInStep
    <3>2. ASSUME Complete PROVE out = [i \in 1 .. Len(call) |-> Right(call[i])]
      <4>1. out \in Seq(Score \cup {Fresh}) /\ Len(out) = Len(call) /\ Len(call) \in Nat
        BY <1>3, <3>2 DEF TypeOK, HostTypeOK, Complete
      <4>2. OnTime
        BY <3>1, <4>1 DEF OnTime, Collected
      <4>3. \A i \in DOMAIN out : out[i] = Right(call[i])
        BY <1>3, <4>2 DEF ScoredInStep, CallOnTime
      <4>4. out = [i \in 1 .. Len(out) |-> out[i]] /\ DOMAIN out = 1 .. Len(out)
        BY <4>1
      <4> QED BY <4>1, <4>3, <4>4
    <3> QED BY <3>1, <3>2 DEF DeliveredInOrder
  <2>3. ASSUME UNCHANGED <<call, reply>> PROVE DeliveredInOrder'
    BY <1>3, <2>3 DEF DeliveredInOrder
  <2> QED
    BY <1>3, <2>1, <2>2, <2>3
    DEF Next, Host, Bind, BindFails, Reserve, ReserveFails, Upload, UploadFails, Collect, Await,
        CollectFails, Launch, LaunchFails, Stream, Uploaded, Downloaded, KernelStarts,
        KernelFinishes, DeviceFails, vars, hostVars, callVars
<1> QED BY <1>1, <1>2, <1>3, InvariantHolds, PTL DEF Spec
=============================================================================
