--------------------------- MODULE TheoryPipeline ---------------------------
(***************************************************************************)
(* TheoryExportPipeline::run_chunks on the GPU.  A host thread stages,     *)
(* collects and launches chunk after chunk; a copy and a compute stream    *)
(* run what it enqueues, each in order, held together by two events only.  *)
(* The parameter slabs are double buffered, score buffer and lane errors   *)
(* are not.  Cipher and frequencies are the same for every call.           *)
(***************************************************************************)
EXTENDS Integers, Sequences

CONSTANTS
  Chunks, Theories, None, Clean, Fresh,
  TheoryOf, Size,  \* by chunk: its theory, its number of candidates
  Specialized,     \* theories lowered to an S1 table; the others run as S0
  Rejected,        \* chunks with a candidate outside its theory's domain
  Workloads,       \* sets of calls one pipeline may be given
  MaxCalls         \* bound: calls of run_chunks

VARIABLES
  dedicated,       \* CudaStreamPair: two streams, or the default stream
  workload, calls, \* the calls this pipeline may be given; how many it was
  call, index, out, reply,  \* run_chunks: its argument, cursor, result
  pc, path, hot, staged,    \* submit: where it is and what it has staged
  inFlight,                 \* in_flight_
  entry, ready,                             \* TheoryExportCache
  capacity, writeSlab, launchSlab, lut,     \* TheoryDeviceScratch, host side
  slots, luts, laneErr, scores,             \* its device buffers
  landed,          \* the host vector the scores are copied to
  queue, issued, event, running, lost       \* the device

callVars == <<workload, dedicated, calls, call, reply>>
cacheVars == <<entry, ready>>
scratchVars == <<capacity, writeSlab, launchSlab, lut>>
memoryVars == <<slots, luts, laneErr, scores, landed>>
deviceVars == <<queue, issued, event, running, lost>>
hostVars == <<callVars, pc, index, path, hot, staged, inFlight, out, cacheVars,
              scratchVars>>
vars == <<hostVars, memoryVars, deviceVars>>

Slab == {0, 1}
Streams == {"copy", "compute"}
Content == Chunks \cup {Fresh}
Ticket == [chunk : Chunks, path : {"S0", "S1"}, hot : BOOLEAN]
Score == [of : Chunks, inf : Chunks \cup {Clean}]

ASSUME PipelineAssumption ==
  /\ TheoryOf \in [Chunks -> Theories] /\ Size \in [Chunks -> Nat \ {0}]
  /\ Specialized \subseteq Theories /\ Rejected \subseteq Chunks
  /\ Workloads \subseteq SUBSET Seq(Chunks) /\ MaxCalls \in Nat
  /\ None \notin Chunks \cup Theories \cup Ticket /\ Clean \notin Chunks
  /\ Fresh \notin Chunks \cup {None, Clean}

(***************************************************************************)
(* Lane errors and scores of a chunk scored on its own: a candidate out of *)
(* the theory's domain scores +inf.                                        *)
(***************************************************************************)
Flags(c) == IF c \in Rejected THEN c ELSE Clean
Right(c) == [of |-> c, inf |-> Flags(c)]

Current == call[index]
Lowering(c) == IF TheoryOf[c] \in Specialized THEN "S1" ELSE "S0"

\* Faulty variant: the write index is never advanced.
Stuck(s) == s

\* commit_param_slab: the slab that was just written becomes the launch slab.
Other(s) == 1 - s

\* s1_lut_resident: the launch slab holds the table baked for this chunk.
Resident(c) == lut.valid /\ lut.chunk = c /\ lut.slab = launchSlab

(***************************************************************************)
(* CUDA streams.  On the default stream everything is in one queue and     *)
(* events do nothing.  An operation may start once `after' operations of   *)
(* the other stream have finished: the event its stream was made to wait   *)
(* for was recorded behind that many.                                      *)
(***************************************************************************)
On(s) == IF dedicated THEN s ELSE "compute"
Otherwise(s) == IF s = "copy" THEN "compute" ELSE "copy"
Retired(s) == issued[s] - Len(queue[s])
DeviceIdle == \A s \in Streams : queue[s] = << >>
Enqueue(s, op) ==
  /\ queue' = [queue EXCEPT ![On(s)] = Append(@, op)]
  /\ issued' = [issued EXCEPT ![On(s)] = @ + 1]

\* synchronize_copy: the copy stream, or the whole device in legacy mode.
Synchronized == IF dedicated THEN queue["copy"] = << >> ELSE DeviceIdle

Init ==
  /\ dedicated \in BOOLEAN /\ workload \in Workloads /\ calls = 0
  /\ call = << >> /\ index = 1 /\ out = << >>
  /\ reply = [ok |-> FALSE, out |-> << >>]
  /\ pc = "idle" /\ path = "S0" /\ hot = FALSE /\ staged = None /\ inFlight = None
  /\ entry = None /\ ready = FALSE
  /\ capacity = 0 /\ writeSlab = 0 /\ launchSlab = 0
  /\ lut = [valid |-> FALSE, chunk |-> None, slab |-> 0]
  /\ slots = [s \in Slab |-> Fresh] /\ luts = [s \in Slab |-> Fresh]
  /\ laneErr = Fresh /\ scores = Fresh /\ landed = Fresh
  /\ queue = [s \in Streams |-> << >>] /\ issued = [s \in Streams |-> 0]
  /\ event = [s \in Streams |-> 0] /\ running = None /\ lost = FALSE

-----------------------------------------------------------------------------
(***************************************************************************)
(* The host thread.  run_chunks returns with an error wherever a step      *)
(* does; what it had collected is lost, what was in flight stays so.       *)
(***************************************************************************)
Fail == pc' = "idle" /\ staged' = None

\* The chunk at position i is next, or nothing is left but the flush.
Proceed(i) ==
  /\ index' = i
  /\ IF i <= Len(call)
     THEN pc' = "bind" /\ path' = Lowering(call[i])
     ELSE pc' = "collect" /\ UNCHANGED path

Call ==
  /\ pc = "idle" /\ calls < MaxCalls
  /\ \E list \in workload :
       /\ call' = list /\ index' = 1
       /\ IF list # << >>
          THEN pc' = "bind" /\ path' = Lowering(list[1])
          ELSE pc' = (IF inFlight # None THEN "collect" ELSE "return") /\ UNCHANGED path
  /\ calls' = calls + 1 /\ out' = << >> /\ reply' = [ok |-> FALSE, out |-> << >>]
  /\ UNCHANGED <<workload, dedicated, hot, staged, inFlight, cacheVars, scratchVars,
                 memoryVars, deviceVars>>

(***************************************************************************)
(* Look the theory up, bind the parameters, and see whether the table of a *)
(* specialized theory is still on the device.  Another theory's program is *)
(* freed, and cudaFree waits for the device.                               *)
(***************************************************************************)
Bind ==
  /\ pc = "bind"
  /\ entry = TheoryOf[Current] \/ ~ready \/ DeviceIdle
  /\ entry' = TheoryOf[Current]
  /\ ready' = (ready /\ entry = TheoryOf[Current])
  /\ hot' = (path = "S1" /\ Resident(Current))
  /\ pc' = "reserve"
  /\ UNCHANGED <<callVars, index, path, staged, inFlight, out, scratchVars, memoryVars,
                 deviceVars>>

\* The theory does not compile, or a candidate's parameters do not bind,
\* on the S0 path no more than on the S1 path.
BindFails ==
  /\ pc = "bind" /\ Fail
  /\ UNCHANGED <<callVars, index, path, hot, inFlight, out, cacheVars, scratchVars,
                 memoryVars, deviceVars>>

\* Faulty variant: the specialized path is tried again for ever.
StagingRetries ==
  IF path = "S1" THEN pc' = "bind" /\ UNCHANGED <<path, staged>>
                 ELSE Fail /\ UNCHANGED path

(***************************************************************************)
(* A specialized theory whose staging fails is staged again as S0.         *)
(***************************************************************************)
StagingFails ==
  IF path = "S1" THEN path' = "S0" /\ pc' = "bind" /\ UNCHANGED staged
                 ELSE Fail /\ UNCHANGED path

Fits == Size[Current] <= capacity

(***************************************************************************)
(* ensure_capacity.  Growing allocates every buffer before it frees one,   *)
(* starts again from slab 0, and forgets the table.                        *)
(***************************************************************************)
Reserve ==
  /\ pc = "reserve" /\ pc' = "upload"
  /\ \/ Fits /\ UNCHANGED <<scratchVars, memoryVars>>
     \/ /\ ~Fits /\ DeviceIdle /\ ~lost
        /\ capacity' = Size[Current] /\ writeSlab' = 0 /\ launchSlab' = 0
        /\ lut' = [lut EXCEPT !.valid = FALSE]
        /\ slots' = [s \in Slab |-> Fresh] /\ luts' = [s \in Slab |-> Fresh]
        /\ laneErr' = Fresh /\ scores' = Fresh /\ UNCHANGED landed
  /\ UNCHANGED <<callVars, index, path, hot, staged, inFlight, out, cacheVars, deviceVars>>

ReserveFails ==
  /\ pc = "reserve" /\ ~Fits /\ StagingFails
  /\ UNCHANGED <<callVars, index, hot, inFlight, out, cacheVars, scratchVars, memoryVars,
                 deviceVars>>

(***************************************************************************)
(* The rest of staging: the program if the cache dropped it, the slots     *)
(* unless the table is resident, the event behind them, the ticket.        *)
(***************************************************************************)
Upload ==
  /\ pc = "upload"
  /\ ~lost \/ (hot /\ ready /\ ~dedicated)
  /\ ready' = TRUE
  /\ IF hot
     THEN UNCHANGED <<writeSlab, launchSlab, queue, issued>>
     ELSE /\ Enqueue("copy", [op |-> "upload", slab |-> writeSlab, after |-> 0,
                              ticket |-> [chunk |-> Current, path |-> path, hot |-> hot]])
          /\ launchSlab' = writeSlab /\ writeSlab' = Other(writeSlab)
  /\ event' = [event EXCEPT !["copy"] = IF dedicated THEN issued'["copy"] ELSE 0]
  /\ staged' = [chunk |-> Current, path |-> path, hot |-> hot]
  /\ pc' = IF inFlight # None THEN "collect" ELSE "launch"
  /\ UNCHANGED <<callVars, index, path, hot, inFlight, out, entry, capacity, lut, memoryVars,
                 running, lost>>

\* The program's buffers cannot be allocated, or the device is gone.
UploadFails ==
  /\ pc = "upload" /\ (~ready \/ (lost /\ (dedicated \/ ~hot)))
  /\ StagingFails
  /\ UNCHANGED <<callVars, index, hot, inFlight, out, cacheVars, scratchVars, memoryVars,
                 deviceVars>>

(***************************************************************************)
(* Collect the chunk in flight: order the copy stream behind its kernels,  *)
(* enqueue the download, wait for it, keep the scores.                     *)
(***************************************************************************)
Collect ==
  /\ pc = "collect" /\ ~lost
  /\ Enqueue("copy", [op |-> "download", slab |-> 0, after |-> event["compute"],
                      ticket |-> inFlight])
  /\ pc' = "await"
  /\ UNCHANGED <<callVars, index, path, hot, staged, inFlight, out, cacheVars, scratchVars,
                 memoryVars, event, running, lost>>

Await ==
  /\ pc = "await" /\ ~lost /\ Synchronized
  /\ out' = Append(out, landed) /\ landed' = Fresh /\ inFlight' = None
  /\ pc' = IF staged # None THEN "launch" ELSE "return"
  /\ UNCHANGED <<callVars, index, path, hot, staged, cacheVars, scratchVars, slots, luts,
                 laneErr, scores, deviceVars>>

CollectFails ==
  /\ pc \in {"collect", "await"} /\ lost
  /\ inFlight' = None /\ Fail
  /\ UNCHANGED <<callVars, index, path, hot, out, cacheVars, scratchVars, memoryVars,
                 deviceVars>>

\* Faulty variant: the table is filed under the slab to be written next.
BakedNext(t) == [valid |-> TRUE, chunk |-> t.chunk, slab |-> writeSlab]

\* note_s1_lut_baked
Baked(t) == [valid |-> TRUE, chunk |-> t.chunk, slab |-> launchSlab]

(***************************************************************************)
(* theory_launch_staged: behind the staged upload, on the launch slab.     *)
(***************************************************************************)
Launch ==
  /\ pc = "launch" /\ ~lost
  /\ Enqueue("compute", [op |-> "kernel", slab |-> launchSlab, after |-> event["copy"],
                         ticket |-> staged])
  /\ event' = [event EXCEPT !["compute"] = IF dedicated THEN issued'["compute"] ELSE 0]
  /\ lut' = IF staged.path = "S1" /\ ~staged.hot
            THEN Baked(staged) ELSE lut
  /\ inFlight' = staged /\ staged' = None
  /\ Proceed(index + 1)
  /\ UNCHANGED <<callVars, hot, out, cacheVars, capacity, writeSlab, launchSlab, memoryVars,
                 running, lost>>

LaunchFails ==
  /\ pc = "launch" /\ lost /\ Fail
  /\ UNCHANGED <<callVars, index, path, hot, inFlight, out, cacheVars, scratchVars,
                 memoryVars, deviceVars>>

\* Faulty variant: whatever was collected is returned.
AnySize == TRUE

\* Every chunk has one score vector, or run_chunks reports a size mismatch.
Complete == Len(out) = Len(call)

Return ==
  /\ pc = "return" /\ pc' = "idle"
  /\ reply' = [ok |-> Complete, out |-> IF Complete THEN out ELSE << >>]
  /\ UNCHANGED <<workload, dedicated, calls, call, index, path, hot, staged, inFlight, out,
                 cacheVars, scratchVars, memoryVars, deviceVars>>

Host == \/ Bind \/ BindFails \/ Reserve \/ ReserveFails \/ Upload \/ UploadFails
        \/ Collect \/ Await \/ CollectFails \/ Launch \/ LaunchFails \/ Return
-----------------------------------------------------------------------------
(***************************************************************************)
(* The device.  Copies take one step; a kernel starts and finishes, and    *)
(* what it read must still be there when it does.                          *)
(***************************************************************************)
Front(s) == Head(queue[s])
MayStart(s) == queue[s] # << >> /\ Retired(Otherwise(s)) >= Front(s).after
Retire(s) == queue' = [queue EXCEPT ![s] = Tail(@)]

Uploaded(s) ==
  /\ MayStart(s) /\ Front(s).op = "upload" /\ Retire(s)
  /\ slots' = [slots EXCEPT ![Front(s).slab] = Front(s).ticket.chunk]
  /\ UNCHANGED <<hostVars, luts, laneErr, scores, landed, issued, event, running, lost>>

Downloaded(s) ==
  /\ MayStart(s) /\ Front(s).op = "download" /\ Retire(s)
  /\ landed' = scores
  /\ UNCHANGED <<hostVars, slots, luts, laneErr, scores, issued, event, running, lost>>

\* What a launch reads: the resident table, else the slots of its slab.
Source(op) == IF op.ticket.hot THEN luts[op.slab] ELSE slots[op.slab]

KernelStarts(s) ==
  /\ MayStart(s) /\ Front(s).op = "kernel" /\ running = None
  /\ running' = Source(Front(s))
  /\ UNCHANGED <<hostVars, memoryVars, queue, issued, event, lost>>

(***************************************************************************)
(* S0 and a cold S1 launch clear and set the lane errors; a cold S1 launch *)
(* bakes its table first; a launch on a resident table only patches +inf   *)
(* into its scores, from the lane errors that are there.                   *)
(***************************************************************************)
KernelFinishes(s) ==
  /\ running # None /\ queue[s] # << >> /\ Front(s).op = "kernel"
  /\ LET t == Front(s).ticket
         intact == running = t.chunk /\ Source(Front(s)) = running
         flags == IF t.hot THEN laneErr ELSE IF intact THEN Flags(t.chunk) ELSE Fresh
     IN /\ laneErr' = flags
        /\ luts' = IF t.path = "S1" /\ ~t.hot
                   THEN [luts EXCEPT ![Front(s).slab] = IF intact THEN t.chunk ELSE Fresh]
                   ELSE luts
        /\ scores' = IF intact /\ flags # Fresh THEN [of |-> t.chunk, inf |-> flags]
                                                ELSE Fresh
  /\ running' = None /\ Retire(s)
  /\ UNCHANGED <<hostVars, slots, landed, issued, event, lost>>

\* A CUDA error that the device keeps: nothing more runs, every call fails.
DeviceFails ==
  /\ ~lost /\ lost' = TRUE
  /\ queue' = [s \in Streams |-> << >>] /\ running' = None
  /\ UNCHANGED <<hostVars, memoryVars, issued, event>>

Stream(s) == Uploaded(s) \/ Downloaded(s) \/ KernelStarts(s) \/ KernelFinishes(s)

Next == Call \/ Host \/ (\E s \in Streams : Stream(s)) \/ DeviceFails

(***************************************************************************)
(* The host thread runs and each stream makes progress; nobody has to call *)
(* run_chunks, and the device need not fail.                               *)
(***************************************************************************)
Fairness == WF_vars(Host) /\ \A s \in Streams : WF_vars(Stream(s))
Spec == Init /\ [][Next]_vars /\ Fairness
-----------------------------------------------------------------------------
(***************************************************************************)
(* Types: tickets, operations and scores are of chunks, and run_chunks     *)
(* never collects more than a score vector per chunk and one left over.    *)
(***************************************************************************)
Op == [op : {"upload", "download", "kernel"}, slab : Slab, after : Nat, ticket : Ticket]

HostTypeOK ==
  /\ dedicated \in BOOLEAN /\ workload \in Workloads
  /\ pc \in {"idle", "bind", "reserve", "upload", "collect", "await", "launch", "return"}
  /\ call \in Seq(Chunks) /\ index \in 1 .. Len(call) + 1
  /\ out \in Seq(Score \cup {Fresh}) /\ Len(out) <= Len(call) + 1
  /\ path \in {"S0", "S1"} /\ hot \in BOOLEAN
  /\ staged \in Ticket \cup {None} /\ inFlight \in Ticket \cup {None}
  /\ entry \in Theories \cup {None} /\ ready \in BOOLEAN
  /\ capacity \in Nat /\ writeSlab \in Slab /\ launchSlab \in Slab
  /\ lut \in [valid : BOOLEAN, chunk : Chunks \cup {None}, slab : Slab]

DeviceTypeOK ==
  /\ slots \in [Slab -> Content] /\ luts \in [Slab -> Content]
  /\ laneErr \in Chunks \cup {Clean, Fresh}
  /\ scores \in Score \cup {Fresh} /\ landed \in Score \cup {Fresh}
  /\ queue \in [Streams -> Seq(Op)]
  /\ issued \in [Streams -> Nat] /\ event \in [Streams -> Nat]
  /\ \A s \in Streams : Len(queue[s]) <= issued[s]
  /\ running \in Content \cup {None} /\ lost \in BOOLEAN

TypeOK == HostTypeOK /\ DeviceTypeOK

(***************************************************************************)
(* A call of run_chunks that succeeds returns one score vector per chunk,  *)
(* in the order of its chunks, each the scores the chunk has when it is    *)
(* scored alone: whatever the streams overlap, whatever an earlier call    *)
(* that failed half way has left in flight, on the slabs or in the table.  *)
(***************************************************************************)
DeliveredInOrder ==
  reply.ok => reply.out = [i \in 1 .. Len(call) |-> Right(call[i])]

(***************************************************************************)
(* No upload is ready to run into the slab a running kernel reads its      *)
(* slots from, although nothing orders the two but the ping-pong of slabs. *)
(***************************************************************************)
SlabExclusive ==
  \A s, t \in Streams :
    (s # t /\ running # None /\ MayStart(s) /\ Front(s).op = "upload" /\ queue[t] # << >>)
      => Front(t).op # "kernel" \/ Front(t).ticket.hot \/ Front(t).slab # Front(s).slab

(***************************************************************************)
(* The table the host believes resident is the one the slab will hold when *)
(* the launches before the next one have run: the last of them that bakes  *)
(* into this slab bakes it, or it is there already.                        *)
(***************************************************************************)
TableIsResident ==
  LET q == queue["compute"]
      bakes == {i \in 1 .. Len(q) : /\ q[i].op = "kernel" /\ q[i].slab = lut.slab
                                    /\ q[i].ticket.path = "S1" /\ ~q[i].ticket.hot}
  IN (lut.valid /\ ~lost) =>
       IF bakes = {} THEN luts[lut.slab] = lut.chunk
       ELSE \E i \in bakes : q[i].ticket.chunk = lut.chunk /\ \A j \in bakes : j <= i

(***************************************************************************)
(* Every call of run_chunks returns: no wait for an event or for a stream  *)
(* is for something that was never enqueued, and the fallbacks end.        *)
(***************************************************************************)
EveryCallReturns == pc # "idle" ~> pc = "idle"
-----------------------------------------------------------------------------
(***************************************************************************)
(* Why all of this holds, whatever is called and fails: the inductive      *)
(* invariant.  It numbers what is left to run on each stream as it was     *)
(* issued, so that an operation keeps its number until it has run.         *)
(***************************************************************************)
work ==
  [s \in Streams |-> [i \in Retired(s) + 1 .. issued[s] |-> queue[s][i - Retired(s)]]]

Ops(s, kind) == {i \in DOMAIN work[s] : work[s][i].op = kind}
Kernels == Ops("compute", "kernel")
Uploads == Ops(On("copy"), "upload")
Downloads == Ops(On("copy"), "download")

\* Upload i of its stream runs before kernel k of the compute stream.
Before(i, k) == IF dedicated THEN i <= work["compute"][k].after ELSE i < k

(***************************************************************************)
(* The host: what is staged is the current chunk and fits, only a launched *)
(* chunk is in flight, the table belongs to a chunk that fits, a chunk     *)
(* bound to the resident table still finds it, and the two slabs differ    *)
(* from the first upload on.  A call collects its own chunks and at most   *)
(* one that an earlier call left in flight.                                *)
(***************************************************************************)
Collected == Len(out) + (IF inFlight # None THEN 1 ELSE 0)

HostInStep ==
  /\ Collected <= index
  /\ pc \in {"bind", "reserve", "upload"} => staged = None /\ index <= Len(call)
  /\ pc = "upload" => Fits
  /\ (pc \in {"reserve", "upload"} /\ hot) => path = "S1" /\ Resident(Current)
  /\ pc \in {"collect", "await"} => inFlight # None
  /\ pc = "launch" => staged # None /\ inFlight = None
  /\ pc \in {"idle", "return"} => staged = None
  /\ pc = "return" => inFlight = None
  /\ (pc \in {"collect", "await", "return"} /\ staged = None) => index = Len(call) + 1
  /\ staged # None =>
       /\ index <= Len(call) /\ staged.chunk = Current /\ Fits /\ writeSlab # launchSlab
       /\ staged.hot => staged.path = "S1" /\ Resident(staged.chunk)
  /\ lut.valid => /\ lut.chunk \in Chunks /\ Size[lut.chunk] <= capacity
                  /\ writeSlab # launchSlab

(***************************************************************************)
(* The streams: there is at most one kernel, that of the chunk in flight,  *)
(* on the slab that is not written next; a download is only there while    *)
(* the host waits for it, and it runs behind that kernel.                  *)
(***************************************************************************)
StreamsInStep ==
  /\ DOMAIN work["copy"] # {} => dedicated
  /\ \A i \in DOMAIN work["copy"] : work["copy"][i].op # "kernel"
  /\ dedicated => /\ \A i \in DOMAIN work["compute"] : work["compute"][i].op = "kernel"
                  /\ event["compute"] = issued["compute"]
                  /\ event["copy"] <= issued["copy"]
  /\ \A k \in Kernels :
       LET x == work["compute"][k] IN
       /\ \A m \in Kernels : m = k
       /\ x.ticket = inFlight /\ writeSlab # launchSlab
       /\ x.slab = IF staged # None /\ ~staged.hot THEN writeSlab ELSE launchSlab
       /\ dedicated => x.after <= issued["copy"]
       /\ ~dedicated => \A i \in Downloads : k < i
  /\ Downloads # {} => pc = "await"
  /\ (pc = "await" /\ ~lost) =>
       \/ Kernels = {}
       \/ \E i \in Downloads : dedicated => work["copy"][i].after = issued["compute"]
  /\ lost => running = None /\ \A s \in Streams : DOMAIN work[s] = {}

(***************************************************************************)
(* The slabs: an upload either belongs to the kernel behind it or to what  *)
(* is staged, and when it has run its slab holds that chunk.               *)
(***************************************************************************)
SlabsInStep ==
  /\ \A i \in Uploads :
       LET x == work[On("copy")][i] IN
       \/ \E k \in Kernels :
            /\ Before(i, k)
            /\ x.slab = work["compute"][k].slab
            /\ x.ticket.chunk = work["compute"][k].ticket.chunk
       \/ /\ \A k \in Kernels : ~Before(i, k)
          /\ staged # None /\ ~staged.hot /\ (dedicated => i <= event["copy"])
          /\ x.slab = launchSlab /\ x.ticket.chunk = staged.chunk
  /\ \A k \in Kernels :
       LET x == work["compute"][k] IN
       x.ticket.hot \/ slots[x.slab] = x.ticket.chunk
                    \/ \E i \in Uploads : Before(i, k)
  /\ (staged # None /\ ~staged.hot /\ ~lost) =>
       \/ slots[launchSlab] = staged.chunk
       \/ \E i \in Uploads : \A k \in Kernels : ~Before(i, k)

(***************************************************************************)
(* The kernel: when it starts its uploads have run, and what it reads      *)
(* stays what it was then.                                                 *)
(***************************************************************************)
KernelInStep ==
  running # None =>
    LET k == Retired("compute") + 1 IN
    /\ k \in Kernels
    /\ dedicated => work["compute"][k].after <= Retired("copy")
    /\ running = Source(work["compute"][k])

(***************************************************************************)
(* The table: a launch that bakes it is one that the host knows of.        *)
(***************************************************************************)
Bakes(op) == op.ticket.path = "S1" /\ ~op.ticket.hot

TableInStep ==
  (lut.valid /\ ~lost) =>
    \/ \E k \in Kernels : /\ Bakes(work["compute"][k]) /\ work["compute"][k].slab = lut.slab
                             /\ work["compute"][k].ticket.chunk = lut.chunk
    \/ /\ luts[lut.slab] = lut.chunk
       /\ \A k \in Kernels : ~(Bakes(work["compute"][k]) /\ work["compute"][k].slab = lut.slab)

InStep ==
  /\ HostInStep /\ StreamsInStep /\ SlabsInStep /\ KernelInStep /\ TableInStep

(***************************************************************************)
(* What a pipeline may be given for every call that succeeds to be right:  *)
(* no chunk longer than the first of its call, and candidates out of their *)
(* domain only where all its calls are for one theory.                     *)
(***************************************************************************)
GivenTo(list) == {list[i] : i \in DOMAIN list}

Served ==
  \A given \in Workloads :
    /\ \A list \in given : \A c \in GivenTo(list) : Size[c] <= Size[list[1]]
    /\ \/ \A list \in given : GivenTo(list) \cap Rejected = {}
       \/ \E t \in Theories : \A list \in given : \A c \in GivenTo(list) : TheoryOf[c] = t

(***************************************************************************)
(* A call is on time when nothing was in flight as it began; then what it  *)
(* has collected are the scores of its chunks so far, and what is in       *)
(* flight is the chunk before the current one.                             *)
(***************************************************************************)
OnTime == pc # "idle" /\ Collected = index - 1

CallOnTime ==
  /\ (pc # "idle" /\ index > 1) => Size[call[1]] <= capacity
  /\ OnTime => /\ \A i \in DOMAIN out : out[i] = Right(call[i])
               /\ inFlight # None => inFlight.chunk = call[index - 1]

(***************************************************************************)
(* The lane errors are those of the resident chunk whenever a launch may   *)
(* find it resident: if several theories share the scratch all are clean;  *)
(* if not, the theory of the table is compiled, as that of a staged chunk  *)
(* always is, and its chunks are only staged as S0 when they do not fit.   *)
(***************************************************************************)
OneTheory == \E t \in Theories : \A list \in workload : \A c \in GivenTo(list) : TheoryOf[c] = t
Given(c) == \E list \in workload : c \in GivenTo(list)

PathsInStep ==
  /\ call # << >> => call \in workload
  /\ path = "S1" /\ pc \in {"bind", "reserve", "upload"} => TheoryOf[Current] \in Specialized
  /\ staged # None /\ staged.path = "S1" => TheoryOf[staged.chunk] \in Specialized
  /\ inFlight # None /\ inFlight.path = "S1" => TheoryOf[inFlight.chunk] \in Specialized
  /\ lut.valid => Given(lut.chunk) /\ TheoryOf[lut.chunk] \in Specialized
  /\ pc \in {"reserve", "upload"} => entry = TheoryOf[Current]
  /\ staged # None => ready /\ entry = TheoryOf[staged.chunk]
  /\ lut.valid /\ OneTheory /\ ~lost =>
       /\ ready /\ entry = TheoryOf[lut.chunk]
       /\ pc \in {"bind", "reserve", "upload"} /\ path = "S0" => ~Fits
       /\ staged # None => staged.path = "S1"

FlagsInStep ==
  /\ (lut.valid /\ ~lost) =>
       \/ \E k \in Kernels : /\ ~work["compute"][k].ticket.hot
                                /\ Flags(work["compute"][k].ticket.chunk) = Flags(lut.chunk)
       \/ /\ laneErr = Flags(lut.chunk)
          /\ \A k \in Kernels : work["compute"][k].ticket.hot
  /\ \A k \in Kernels :
       LET x == work["compute"][k] IN
       x.ticket.hot => /\ laneErr = Flags(x.ticket.chunk)
                       /\ luts[x.slab] = x.ticket.chunk

(***************************************************************************)
(* The scores: once its kernel has run they are those of the chunk in      *)
(* flight, and once the download has, the host has them.                   *)
(***************************************************************************)
ScoresInStep ==
  (OnTime /\ ~lost /\ inFlight # None) =>
    /\ Kernels = {} => scores = Right(inFlight.chunk)
    /\ pc = "await" => Downloads # {} \/ landed = Right(inFlight.chunk)

ScoredInStep ==
  CallOnTime /\ PathsInStep /\ FlagsInStep /\ ScoresInStep
=============================================================================
