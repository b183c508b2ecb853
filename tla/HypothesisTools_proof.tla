----------------------- MODULE HypothesisTools_proof -----------------------
(***************************************************************************)
(* Proofs about HypothesisTools, for any number of processes, ids and      *)
(* methods.                                                                *)
(***************************************************************************)
EXTENDS HypothesisTools, HypothesisStore_proof

(***************************************************************************)
(* Every step of the tools is a step of the store, and what a command      *)
(* makes its process hold follows from the disk.                           *)
(***************************************************************************)
LEMMA ToolsStep ==
  ASSUME TypeOK, [Next]_storeVars
  PROVE  FollowingStep /\ StoreStep
<1>1. ASSUME NEW p \in Procs, NEW h \in Hyps, Command(p, h)
      PROVE  FollowingStep /\ StoreStep
  BY <1>1, CommandFollows DEF TypeOK, FollowingStep, StoreStep
<1>2. ASSUME NEW p \in Procs, Truncate(p) \/ Write(p) \/ Crash(p)
      PROVE  FollowingStep /\ StoreStep
  BY <1>2 DEF FollowingStep, StoreStep, Stores, Dies, Crash
<1>3. CASE UNCHANGED storeVars
  BY <1>3 DEF FollowingStep, StoreStep
<1> QED BY <1>1, <1>2, <1>3 DEF Next

(***************************************************************************)
(* Files, records and what processes hold keep their types, whether or not *)
(* the tools overlap or die.                                               *)
(***************************************************************************)
THEOREM TypeCorrect == Spec => []TypeOK
<1>1. ASSUME StoreInit PROVE TypeOK
  BY <1>1, StoreAssumption DEF StoreInit, TypeOK, StoreTypeOK, FileState
<1>2. ASSUME TypeOK, [Next]_storeVars PROVE TypeOK'
  <2>1. StoreTypeOK'
    BY <1>2, ToolsStep, StoreStepTypes DEF TypeOK
  <2>2. ASSUME NEW p \in DOMAIN held' PROVE held'[p].hyp \in Hyps
    <3>1. ASSUME NEW q \in Procs, NEW h \in Hyps, Command(q, h) PROVE held'[p].hyp \in Hyps
      BY <1>2, <3>1 DEF Command, CmdInit, CmdPropose, CmdScore, CmdSetStatus, Hold, Assign,
                        TypeOK
    <3>2. ASSUME NEW q \in Procs, Truncate(q) \/ Write(q) \/ Crash(q)
          PROVE  held'[p].hyp \in Hyps
      BY <1>2, <3>2 DEF Truncate, Write, Crash, Release, Restrict, TypeOK, StoreTypeOK
    <3> QED BY <1>2, <3>1, <3>2 DEF Next, storeVars, TypeOK
  <2> QED BY <2>1, <2>2 DEF TypeOK
<1> QED BY <1>1, <1>2, PTL DEF Spec

(***************************************************************************)
(* The inductive invariant: as long as the tools take turns, what a process *)
(* is about to store follows from what is on disk, and while it writes the *)
(* file is empty.                                                          *)
(***************************************************************************)
THEOREM HeldFollows == ASSUME ~Overlap PROVE Spec => []HeldFollowsDisk
<1>1. ASSUME StoreInit PROVE HeldFollowsDisk
  BY <1>1 DEF StoreInit, HeldFollowsDisk
<1>2. ASSUME TypeOK, HeldFollowsDisk, [Next]_storeVars PROVE HeldFollowsDisk'
  BY <1>2, ToolsStep, StepFollows DEF TypeOK
<1> QED BY <1>1, <1>2, TypeCorrect, PTL DEF Spec

(***************************************************************************)
(* Taking turns, the tools implement HypothesisLifecycle: every write to a *)
(* record creates it as a draft or proposal or follows the transition table, *)
(* and a crash or a truncation is a stutter.                               *)
(***************************************************************************)
THEOREM ImplementsLifecycle == ASSUME ~Overlap PROVE Spec => LifecycleSpec
<1>1. ASSUME StoreInit PROVE Lifecycle!Init
  BY <1>1, StoreAssumption DEF StoreInit, Lifecycle!Init, Record, Lifecycle!Status, Status
<1>2. ASSUME TypeOK, HeldFollowsDisk, [Next]_storeVars
      PROVE  Lifecycle!Next \/ UNCHANGED [h \in DOMAIN content |-> content[h].status]
  BY <1>2, ToolsStep, StepKeepsLifecycle DEF TypeOK
<1> QED BY <1>1, <1>2, TypeCorrect, HeldFollows, PTL DEF Spec, LifecycleSpec, Lifecycle!Spec

(***************************************************************************)
(* Taking turns, no tool drops an entry of the scores[] of a record.       *)
(***************************************************************************)
THEOREM KeepsScores == ASSUME ~Overlap PROVE Spec => ScoresSurvive
<1>1. ASSUME TypeOK, HeldFollowsDisk, [Next]_storeVars
      PROVE  \A h \in DOMAIN content :
               /\ h \in DOMAIN content'
               /\ content[h].scored \subseteq content'[h].scored
  BY <1>1, ToolsStep, RecordsFollow DEF TypeOK
<1> QED BY <1>1, TypeCorrect, HeldFollows, PTL DEF Spec, ScoresSurvive

(***************************************************************************)
(* Where no process dies, a record that does not load is being stored at   *)
(* this very moment.                                                       *)
(***************************************************************************)
THEOREM UnreadableWhileStored ==
  ASSUME ~Overlap, ~CanCrash PROVE Spec => []UnreadableOnlyWhileStored
<1>1. ASSUME StoreInit PROVE UnreadableOnlyWhileStored
  BY <1>1 DEF StoreInit, UnreadableOnlyWhileStored, Loads, Exists
<1>2. ASSUME TypeOK, HeldFollowsDisk, UnreadableOnlyWhileStored, [Next]_storeVars
      PROVE  UnreadableOnlyWhileStored'
  BY <1>2, ToolsStep, StepKeepsReadable DEF TypeOK
<1> QED BY <1>1, <1>2, TypeCorrect, HeldFollows, PTL DEF Spec
=============================================================================
