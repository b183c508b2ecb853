-------------------------- MODULE AgentLoop_proof --------------------------
(***************************************************************************)
(* Proofs about AgentLoop, for every set of calls and answers and for any  *)
(* budgets.                                                                *)
(***************************************************************************)
EXTENDS AgentLoop, HypothesisStore_proof, SequenceTheorems

(***************************************************************************)
(* Why the budgets hold.  While the calls of an answer run, those still to *)
(* come fit into the budget, and the clock has gone on since it was last   *)
(* read by one time limit for each call that has been answered.            *)
(***************************************************************************)
Busy == phase \in {"calls", "running", "replied", "saved"}

Paced ==
  /\ phase \in {"top", "llm", "answered"} \/ Busy => Len(steps) = step
  /\ phase \in {"llm", "answered"} \/ Busy => step < MaxSteps
  /\ phase = "llm" => now < MaxWall
  /\ phase = "answered" \/ Busy => answer \in Answers
  /\ phase = "answered" => results = <<>>
  /\ Busy =>
       /\ toolCalls + Len(answer) <= MaxToolCalls + Len(results)
       /\ Len(results) <= toolCalls
       /\ now < MaxWall + Len(results) * ToolTimeout
  /\ phase \in {"replied", "saved"} => results # <<>>
  /\ BudgetsHold

(***************************************************************************)
(* A child belongs to the call that comes next, and it outlives the loop   *)
(* only when the loop has died.                                            *)
(***************************************************************************)
OneChild ==
  /\ child # "none" => phase \in {"running", "died"} /\ Len(results) < Len(answer)
  /\ phase = "running" => Len(results) < Len(answer)

IInv == TypeOK /\ Paced /\ OneChild

LEMMA Constants ==
  /\ Answers \subseteq Seq(Calls) /\ \A c \in Calls : c.hyp \in Hyps
  /\ \A c \in Calls : c.status \in Status /\ c.method \in Methods
  /\ Agent \in Procs /\ User \in Procs /\ Agent # User /\ CanCrash
  /\ MaxSteps \in Nat /\ MaxSteps > 0 /\ MaxToolCalls \in Nat /\ MaxToolCalls > 0
  /\ MaxWall \in Nat /\ MaxWall > 0 /\ LlmMax \in Nat /\ ToolTimeout \in Nat
  /\ <<>> \in Seq(Calls)
BY AgentAssumption DEF ToolTimeout

(***************************************************************************)
(* Longest is as long as a request, and as long as the calls of any answer *)
(* that fits the budget.                                                   *)
(***************************************************************************)
LEMMA LongestBounds ==
  /\ Longest \in Nat /\ LlmMax <= Longest
  /\ \A n \in 0..MaxToolCalls : n * ToolTimeout <= Longest
<1> DEFINE Calling == MaxToolCalls * ToolTimeout
<1>1. Calling \in Nat
  BY Constants
<1>2. \A n \in 0..MaxToolCalls : n * ToolTimeout <= Calling
  <2> SUFFICES ASSUME NEW n \in 0..MaxToolCalls PROVE n * ToolTimeout <= Calling
    OBVIOUS
  <2>1. PICK d \in Nat : MaxToolCalls = n + d
    <3>1. MaxToolCalls - n \in Nat /\ MaxToolCalls = n + (MaxToolCalls - n)
      BY Constants
    <3> QED BY <3>1
  <2>2. Calling = n * ToolTimeout + d * ToolTimeout
    BY <2>1, Constants
  <2>3. d * ToolTimeout \in Nat /\ n * ToolTimeout \in Nat
    BY Constants
  <2> QED BY <2>2, <2>3
<1>3. PICK m \in {LlmMax, Calling} : \A y \in {LlmMax, Calling} : m >= y
  <2>1. CASE LlmMax >= Calling
    BY <2>1, <1>1, Constants
  <2>2. CASE ~(LlmMax >= Calling)
    <3>1. Calling >= LlmMax /\ Calling >= Calling
      BY <2>2, <1>1, Constants
    <3> QED BY <3>1
  <2> QED BY <2>1, <2>2
<1>4. Longest \in {LlmMax, Calling} /\ \A y \in {LlmMax, Calling} : Longest >= y
  BY <1>3 DEF Longest, Max
<1>5. Longest \in Nat /\ Longest >= LlmMax /\ Longest >= Calling
  BY <1>4, <1>1, Constants
<1> HIDE DEF Calling
<1>6. \A n \in 0..MaxToolCalls : n * ToolTimeout \in Nat
  BY Constants
<1> QED BY <1>1, <1>2, <1>5, <1>6, Constants

LEMMA InitIInv == ASSUME Init PROVE IInv
<1>1. Max({LlmMax, MaxToolCalls * ToolTimeout}) \in Nat
  BY LongestBounds DEF Longest
<1> QED
  BY <1>1, Constants, LongestBounds
  DEF Init, StoreInit, IInv, TypeOK, Paced, OneChild, Busy, BudgetsHold, Phases,
      ChildStates, StopReasons, Message

LEMMA StepTypes == ASSUME IInv, [Next]_vars PROVE TypeOK'
<1> USE Constants DEF IInv, TypeOK, OneChild, Paced, Busy, Phases, ChildStates, StopReasons,
        loopVars, storeVars
<1>1. CASE TopOfLoop
  BY <1>1 DEF TopOfLoop, Finish
<1>2. CASE Complete
  BY <1>2 DEF Complete, StopHere, Finish
<1>3. CASE RefuseCalls
  BY <1>3 DEF RefuseCalls, StopHere, Finish
<1>4. CASE DropAnswer
  BY <1>4 DEF DropAnswer, Finish
<1>5. CASE RunCalls
  BY <1>5 DEF RunCalls
<1>6. CASE EndStep
  BY <1>6 DEF EndStep, Finish
<1>7. CASE FinishLine
  BY <1>7 DEF FinishLine
<1>8. CASE Refuse
  BY <1>8 DEF Refuse, Reply, Invoking, Call, Message
<1>9. CASE Spawn
  BY <1>9 DEF Spawn, Invoking
<1>10. CASE Expire
  BY <1>10 DEF Expire, Reply, Call, Message, Release, Restrict
<1>11. CASE SaveEnvelope
  BY <1>11 DEF SaveEnvelope, Assign
<1>12. CASE LogTool
  BY <1>12 DEF LogTool
<1>13. ASSUME NEW t \in 0..LlmMax, ModelFails(t) PROVE TypeOK'
  BY <1>13 DEF ModelFails, Finish
<1>14. ASSUME NEW t \in 0..LlmMax, NEW a \in Answers, ModelAnswers(a, t) PROVE TypeOK'
  BY <1>14 DEF ModelAnswers, Message
<1>15. ASSUME NEW t \in 0..ToolTimeout, Collect(t) PROVE TypeOK'
  BY <1>15 DEF Collect, Reply, Call, Message
<1>16. CASE ChildStep
  <2>1. ASSUME NEW h \in Hyps, NEW rec, Hold(Agent, h, rec) PROVE Agent \in DOMAIN held'
    BY <2>1 DEF Hold, Assign
  <2>2. CASE ChildLoads
    <3>1. Call \in Calls
      BY <2>2 DEF ChildLoads, Call
    <3>2. Agent \in DOMAIN held'
      BY <2>1, <2>2, <3>1 DEF ChildLoads, Load, CmdSetStatus, CmdScore, CmdInit, CmdPropose
    <3> QED BY <2>2, <3>2 DEF ChildLoads
  <2>3. CASE ChildTruncates
    BY <2>3 DEF ChildTruncates, Truncate
  <2>4. CASE ChildWrites
    BY <2>4 DEF ChildWrites, Write, Release, Restrict
  <2>5. CASE ChildEditsNothing
    BY <2>5 DEF ChildEditsNothing
  <2>6. CASE ChildFails
    BY <2>6 DEF ChildFails, Release, Restrict
  <2> QED BY <1>16, <2>2, <2>3, <2>4, <2>5, <2>6 DEF ChildStep
<1>17. CASE LoopDies
  BY <1>17 DEF LoopDies
<1>18. CASE UserStep
  <2>1. Agent \in DOMAIN held' <=> Agent \in DOMAIN held
    BY <1>18 DEF UserStep, Command, CmdInit, CmdPropose, CmdScore, CmdSetStatus, Hold, Assign,
                 Truncate, Write, Crash, Release, Restrict
  <2> QED BY <1>18, <2>1 DEF UserStep
<1>19. CASE UNCHANGED vars
  BY <1>19 DEF vars
<1> QED
  BY <1>1, <1>2, <1>3, <1>4, <1>5, <1>6, <1>7, <1>8, <1>9, <1>10, <1>11, <1>12, <1>13,
     <1>14, <1>15, <1>16, <1>17, <1>18, <1>19 DEF Next, LoopStep

LEMMA OneMoreReply ==
  ASSUME NEW s \in Seq(BOOLEAN), NEW ok \in BOOLEAN
  PROVE  Len(Append(s, ok)) = Len(s) + 1 /\ Append(s, ok) # <<>>
BY AppendProperties

(***************************************************************************)
(* The reply to a call, however it came about, keeps the pace.             *)
(***************************************************************************)
LEMMA ReplyPaced ==
  ASSUME IInv, NEW ok, NEW t \in 0..ToolTimeout, Reply(ok, t),
         phase \in {"calls", "running"}, Len(results) < Len(answer), ok \in BOOLEAN
  PROVE  Paced'
<1> USE Constants DEF IInv, TypeOK, Paced, Busy, Reply
<1> DEFINE n == Len(results)
<1>1. n \in Nat /\ Len(answer) \in Nat /\ toolCalls \in Nat /\ n + 1 <= Len(answer)
  OBVIOUS
<1>2. n + 1 \in 0..MaxToolCalls
  BY <1>1
<1>3. (n + 1) * ToolTimeout <= Longest /\ n * ToolTimeout \in Nat
  <2>1. (n + 1) * ToolTimeout <= Longest
    BY <1>2, LongestBounds, Zenon
  <2>2. n * ToolTimeout \in Nat
    BY <1>1
  <2> QED BY <2>1, <2>2
<1>4. (n + 1) * ToolTimeout = n * ToolTimeout + ToolTimeout
  BY <1>1
<1>5. Len(results') = n + 1 /\ results' # <<>>
  <2>1. results \in Seq(BOOLEAN) /\ results' = Append(results, ok)
    OBVIOUS
  <2>2. Len(Append(results, ok)) = Len(results) + 1 /\ Append(results, ok) # <<>>
    BY <2>1, OneMoreReply
  <2> QED BY <2>1, <2>2
<1>6. now' < MaxWall + Len(results') * ToolTimeout
  <2>1. now < MaxWall + n * ToolTimeout
    OBVIOUS
  <2>2. now' = now + t /\ t <= ToolTimeout /\ t \in Nat /\ now \in Nat
    OBVIOUS
  <2> QED BY <2>1, <2>2, <1>3, <1>4, <1>5
<1>7. now' < MaxWall + Longest
  BY <1>6, <1>3, <1>4, <1>5, LongestBounds
<1> HIDE DEF n
<1>8. BudgetsHold'
  BY <1>1, <1>2, <1>5, <1>7 DEF BudgetsHold, n
<1> QED BY <1>1, <1>5, <1>6, <1>8 DEF n

LEMMA SomeReply ==
  ASSUME IInv, Refuse \/ Expire \/ \E t \in 0..ToolTimeout : Collect(t)
  PROVE  \E ok \in BOOLEAN, t \in 0..ToolTimeout :
           /\ Reply(ok, t)
           /\ phase \in {"calls", "running"} /\ Len(results) < Len(answer)
<1>1. CASE Refuse
  <2>1. 0 \in 0..ToolTimeout
    BY Constants
  <2> QED BY <1>1, <2>1 DEF Refuse, Invoking
<1>2. CASE Expire
  <2>1. ToolTimeout \in 0..ToolTimeout
    BY Constants
  <2> QED BY <1>2, <2>1 DEF Expire, IInv, OneChild
<1>3. ASSUME NEW t \in 0..ToolTimeout, Collect(t)
      PROVE  /\ Reply(child = "ok", t) /\ (child = "ok") \in BOOLEAN
             /\ phase = "running" /\ Len(results) < Len(answer)
  BY <1>3 DEF Collect, IInv, OneChild
<1> QED BY <1>1, <1>2, <1>3

LEMMA RepliesPaced ==
  ASSUME IInv, Refuse \/ Expire \/ \E t \in 0..ToolTimeout : Collect(t) PROVE Paced'
BY SomeReply, ReplyPaced

LEMMA StepPaced == ASSUME IInv, [Next]_vars PROVE Paced'
<1> USE Constants, LongestBounds DEF IInv, TypeOK, Paced, Busy, BudgetsHold, loopVars, storeVars
<1>1. CASE TopOfLoop
  BY <1>1 DEF TopOfLoop, Finish
<1>2. CASE Complete
  BY <1>2 DEF Complete, StopHere, Finish
<1>3. CASE RefuseCalls
  BY <1>3 DEF RefuseCalls, StopHere, Finish
<1>4. CASE DropAnswer
  BY <1>4 DEF DropAnswer, Finish
<1>5. CASE RunCalls
  BY <1>5 DEF RunCalls, Overspent, TooLate
<1>6. CASE EndStep
  <2>1. steps \in Seq([calls : Answers, results : Seq(BOOLEAN)]) /\ answer \in Answers
    BY <1>6 DEF EndStep
  <2>2. Len(steps') = Len(steps) + 1
    BY <1>6, <2>1 DEF EndStep
  <2>3. Len(steps') = step + 1 /\ step + 1 <= MaxSteps
    BY <1>6, <2>2 DEF EndStep
  <2> QED BY <1>6, <2>3 DEF EndStep, Finish
<1>7. CASE FinishLine
  BY <1>7 DEF FinishLine
<1>8. CASE Refuse
  BY <1>8, RepliesPaced, Zenon
<1>9. CASE Spawn
  BY <1>9 DEF Spawn, Invoking
<1>10. CASE Expire
  BY <1>10, RepliesPaced, Zenon
<1>11. CASE SaveEnvelope
  BY <1>11 DEF SaveEnvelope
<1>12. CASE LogTool
  BY <1>12 DEF LogTool
<1>13. ASSUME NEW t \in 0..LlmMax, ModelFails(t) PROVE Paced'
  BY <1>13 DEF ModelFails, Finish
<1>14. ASSUME NEW t \in 0..LlmMax, NEW a \in Answers, ModelAnswers(a, t) PROVE Paced'
  BY <1>14 DEF ModelAnswers
<1>15. ASSUME NEW t \in 0..ToolTimeout, Collect(t) PROVE Paced'
  BY <1>15, RepliesPaced, Zenon
<1>16. CASE ChildStep
  BY <1>16 DEF ChildStep, ChildLoads, ChildTruncates, ChildWrites, ChildEditsNothing, ChildFails
<1>17. CASE LoopDies
  BY <1>17 DEF LoopDies
<1>18. CASE UserStep
  BY <1>18 DEF UserStep
<1>19. CASE UNCHANGED vars
  BY <1>19 DEF vars
<1> QED
  BY <1>1, <1>2, <1>3, <1>4, <1>5, <1>6, <1>7, <1>8, <1>9, <1>10, <1>11, <1>12, <1>13,
     <1>14, <1>15, <1>16, <1>17, <1>18, <1>19 DEF Next, LoopStep

LEMMA StepOneChild == ASSUME IInv, [Next]_vars PROVE OneChild'
<1> USE DEF IInv, TypeOK, OneChild, loopVars, storeVars
<1>1. CASE TopOfLoop \/ Complete \/ RefuseCalls \/ DropAnswer \/ RunCalls \/ EndStep
  BY <1>1 DEF TopOfLoop, Complete, RefuseCalls, StopHere, DropAnswer, RunCalls, EndStep, Finish
<1>2. CASE FinishLine \/ Refuse \/ Spawn \/ Expire \/ SaveEnvelope \/ LogTool
  BY <1>2 DEF FinishLine, Refuse, Spawn, Expire, SaveEnvelope, LogTool, Reply, Invoking
<1>3. ASSUME NEW t, ModelFails(t) \/ Collect(t) \/ \E a \in Answers : ModelAnswers(a, t)
      PROVE  OneChild'
  BY <1>3 DEF ModelFails, Collect, ModelAnswers, Finish, Reply
<1>4. CASE ChildStep
  BY <1>4 DEF ChildStep, ChildLoads, ChildTruncates, ChildWrites, ChildEditsNothing, ChildFails
<1>5. CASE LoopDies \/ UserStep \/ UNCHANGED vars
  BY <1>5 DEF LoopDies, UserStep, vars
<1> QED BY <1>1, <1>2, <1>3, <1>4, <1>5 DEF Next, LoopStep

(***************************************************************************)
(* The state of a run keeps its types, and a record is in the hands of the *)
(* agent exactly while its child stores one.                               *)
(***************************************************************************)
THEOREM TypeCorrect == Spec => []TypeOK
<1>1. IInv /\ [Next]_vars => IInv'
  BY StepTypes, StepPaced, StepOneChild DEF IInv
<1>2. IInv => TypeOK
  BY DEF IInv
<1> QED BY InitIInv, <1>1, <1>2, PTL DEF Spec

(***************************************************************************)
(* No run makes more steps or tool calls than its budget allows, or lasts  *)
(* longer than the wall budget and one request or one answer's calls.      *)
(***************************************************************************)
THEOREM BudgetsCorrect == Spec => []BudgetsHold
<1>1. IInv /\ [Next]_vars => IInv'
  BY StepTypes, StepPaced, StepOneChild DEF IInv
<1>2. IInv => BudgetsHold
  BY DEF IInv, Paced
<1> QED BY InitIInv, <1>1, <1>2, PTL DEF Spec

(***************************************************************************)
(* A run of the agent is a run of HypothesisTools: its child is a tool, a  *)
(* time limit is a crash, and the loop itself touches no record.           *)
(***************************************************************************)
HeldIsFunction == held = [p \in DOMAIN held |-> held[p]]

LEMMA KeepsHeldFunction == ASSUME IInv, HeldIsFunction, [Next]_vars PROVE HeldIsFunction'
<1> USE DEF HeldIsFunction, storeVars, loopVars
<1>1. CASE LoopStep
  BY <1>1 DEF LoopStep, TopOfLoop, Complete, RefuseCalls, StopHere, DropAnswer, RunCalls, EndStep,
              FinishLine, Refuse, Spawn, Expire, SaveEnvelope, LogTool, ModelFails, ModelAnswers,
              Collect, Release, Restrict
<1>2. ASSUME NEW p, NEW h, NEW rec, Hold(p, h, rec) PROVE HeldIsFunction'
  BY <1>2 DEF Hold, Assign
<1>3. ASSUME NEW p, Truncate(p) \/ Write(p) \/ Crash(p) PROVE HeldIsFunction'
  BY <1>3 DEF Truncate, Write, Crash, Release, Restrict
<1>4. CASE ChildStep
  BY <1>4, <1>2, <1>3 DEF ChildStep, ChildLoads, Load, CmdScore, CmdSetStatus, CmdInit, CmdPropose,
     ChildTruncates, ChildWrites, ChildEditsNothing, ChildFails, Release, Restrict
<1>5. CASE UserStep
  BY <1>5, <1>2, <1>3 DEF UserStep, Command, CmdInit, CmdPropose, CmdScore, CmdSetStatus
<1>6. CASE LoopDies \/ UNCHANGED vars
  BY <1>6 DEF LoopDies, vars
<1> QED BY <1>1, <1>4, <1>5, <1>6 DEF Next

LEMMA SameTools ==
  /\ StoreInit = Workspace!StoreInit /\ storeVars = Workspace!storeVars
  /\ \A p, h : /\ Truncate(p) = Workspace!Truncate(p)
               /\ Write(p) = Workspace!Write(p)
               /\ Crash(p) = Workspace!Crash(p)
               /\ Command(p, h) = Workspace!Command(p, h)
<1>1. \A p, h, rec : Hold(p, h, rec) = Workspace!Hold(p, h, rec)
  BY DEF Hold, Workspace!Hold, Assign, Workspace!Assign
<1>2. \A h : Exists(h) = Workspace!Exists(h) /\ Loads(h) = Workspace!Loads(h)
  BY DEF Exists, Loads, Workspace!Exists, Workspace!Loads
<1>3. \A m : MakeDraft(m) = Workspace!MakeDraft(m)
  BY DEF MakeDraft, Workspace!MakeDraft
<1>4. \A rec, m : Proposed(rec, m) = Workspace!Proposed(rec, m) /\ Scored(rec) = Workspace!Scored(rec)
  BY DEF Proposed, Workspace!Proposed, Scored, Workspace!Scored
<1>5. \A from, to : CanTransition(from, to) = Workspace!CanTransition(from, to)
  BY DEF CanTransition, Workspace!CanTransition
<1>6. Status = Workspace!Status
  BY DEF Status, Workspace!Status
<1>7. \A p, h : Command(p, h) = Workspace!Command(p, h)
  BY <1>1, <1>2, <1>3, <1>4, <1>5, <1>6
  DEF Command, CmdInit, CmdPropose, CmdScore, CmdSetStatus, Workspace!Command,
      Workspace!CmdInit, Workspace!CmdPropose, Workspace!CmdScore, Workspace!CmdSetStatus
<1>8. \A f, x, v : Assign(f, x, v) = Workspace!Assign(f, x, v)
  BY DEF Assign, Workspace!Assign
<1>9. \A p : Release(p) = Workspace!Release(p)
  BY DEF Release, Workspace!Release, Restrict, Workspace!Restrict
<1>10. \A p : /\ Truncate(p) = Workspace!Truncate(p)
              /\ Write(p) = Workspace!Write(p)
              /\ Crash(p) = Workspace!Crash(p)
  BY <1>8, <1>9
  DEF Truncate, Workspace!Truncate, Write, Workspace!Write, Crash, Workspace!Crash
<1> QED BY <1>7, <1>10 DEF StoreInit, Workspace!StoreInit, storeVars, Workspace!storeVars

(***************************************************************************)
(* What a step of the run does to the records, if anything, is what one of *)
(* the two processes does with a tool.                                     *)
(***************************************************************************)
ToolStep(p) == (\E h \in Hyps : Command(p, h)) \/ Truncate(p) \/ Write(p) \/ Crash(p)

LEMMA StepIsTool ==
  ASSUME IInv, HeldIsFunction, [Next]_vars
  PROVE  UNCHANGED storeVars \/ \E p \in Procs : ToolStep(p)
<1> DEFINE Goal == UNCHANGED storeVars \/ \E p \in Procs : ToolStep(p)
<1> USE Constants DEF storeVars
<1>1. ASSUME NEW p \in Procs, ToolStep(p) PROVE Goal
  BY <1>1
<1>2. ASSUME held' = Release(Agent), UNCHANGED <<file, content>> PROVE Goal
  <2>1. CASE Agent \in DOMAIN held
    BY <1>2, <2>1, <1>1 DEF Crash, ToolStep
  <2>2. CASE Agent \notin DOMAIN held
    BY <1>2, <2>2 DEF Release, Restrict, HeldIsFunction
  <2> QED BY <2>1, <2>2
<1>3. CASE LoopStep
  <2>1. UNCHANGED storeVars \/ (held' = Release(Agent) /\ UNCHANGED <<file, content>>)
    BY <1>3 DEF LoopStep, TopOfLoop, Complete, RefuseCalls, StopHere, DropAnswer, RunCalls, EndStep,
                FinishLine, Refuse, Spawn, Expire, SaveEnvelope, LogTool, ModelFails, ModelAnswers,
                Collect
  <2> QED BY <2>1, <1>2
<1>4. CASE ChildStep
  <2>1. CASE ChildLoads
    <3>1. Call \in Calls
      BY <2>1 DEF ChildLoads, Call, IInv, TypeOK, OneChild
    <3>2. Command(Agent, Call.hyp)
      BY <2>1, <3>1 DEF ChildLoads, Load, Command
    <3> QED BY <3>1, <3>2, <1>1 DEF ToolStep
  <2>2. CASE ChildTruncates \/ ChildWrites
    BY <2>2, <1>1 DEF ChildTruncates, ChildWrites, ToolStep
  <2>3. CASE ChildEditsNothing \/ ChildFails
    BY <2>3, <1>2 DEF ChildEditsNothing, ChildFails
  <2> QED BY <1>4, <2>1, <2>2, <2>3 DEF ChildStep
<1>5. CASE UserStep
  BY <1>5, <1>1 DEF UserStep, ToolStep
<1>6. CASE LoopDies \/ UNCHANGED vars
  BY <1>6 DEF LoopDies, vars
<1> QED BY <1>3, <1>4, <1>5, <1>6 DEF Next

LEMMA StepIsTools == ASSUME IInv, HeldIsFunction, [Next]_vars PROVE [Workspace!Next]_storeVars
<1>1. ASSUME NEW p \in Procs, ToolStep(p) PROVE Workspace!Next
  BY <1>1, SameTools DEF Workspace!Next, ToolStep
<1> QED BY <1>1, StepIsTool

(***************************************************************************)
(* Whatever the model asks for, whenever a child is killed or the loop     *)
(* dies, the records only see what tools taking turns would do to them, as *)
(* long as it does not ask for search_cycle, which is none of the Tools.   *)
(***************************************************************************)
THEOREM AgentUsesTools == Spec => WorkspaceSpec
<1>1. IInv /\ HeldIsFunction /\ [Next]_vars => (IInv /\ HeldIsFunction)'
  BY StepTypes, StepPaced, StepOneChild, KeepsHeldFunction DEF IInv
<1>2. Init => IInv /\ HeldIsFunction /\ Workspace!StoreInit
  BY InitIInv, SameTools DEF Init, StoreInit, HeldIsFunction
<1>3. IInv /\ HeldIsFunction /\ [Next]_vars => [Workspace!Next]_(Workspace!storeVars)
  BY StepIsTools DEF storeVars, Workspace!storeVars
<1> QED BY <1>1, <1>2, <1>3, PTL DEF Spec, WorkspaceSpec, Workspace!Spec

(***************************************************************************)
(* What that means for the records.  Each step is one of the store, and a  *)
(* tool of the agent, like any other, holds what follows from the disk.    *)
(***************************************************************************)
LEMMA StepFollowsStore ==
  ASSUME IInv, HeldIsFunction, StoreTypeOK, [Next]_vars
  PROVE  FollowingStep /\ StoreStep
<1>1. ASSUME NEW p \in Procs, NEW h \in Hyps, Command(p, h)
      PROVE  FollowingStep /\ StoreStep
  BY <1>1, CommandFollows DEF FollowingStep, StoreStep
<1>2. ASSUME NEW p \in Procs, Truncate(p) \/ Write(p) \/ Crash(p)
      PROVE  FollowingStep /\ StoreStep
  BY <1>2 DEF FollowingStep, StoreStep, Stores, Dies, Crash
<1>3. CASE UNCHANGED storeVars
  BY <1>3 DEF FollowingStep, StoreStep
<1> QED BY <1>1, <1>2, <1>3, StepIsTool DEF ToolStep

InTurn == StoreTypeOK /\ HeldFollowsDisk

LEMMA TakesTurns ==
  ASSUME ~Overlap PROVE Spec => [](IInv /\ HeldIsFunction /\ InTurn)
<1>1. Init => IInv /\ HeldIsFunction /\ InTurn
  BY InitIInv, StoreAssumption
  DEF Init, StoreInit, HeldIsFunction, InTurn, StoreTypeOK, HeldFollowsDisk, FileState
<1>2. ASSUME IInv, HeldIsFunction, InTurn, [Next]_vars
      PROVE  (IInv /\ HeldIsFunction /\ InTurn)'
  <2>1. (IInv /\ HeldIsFunction)'
    BY <1>2, StepTypes, StepPaced, StepOneChild, KeepsHeldFunction DEF IInv
  <2>2. StoreTypeOK'
    BY <1>2, StepFollowsStore, StoreStepTypes DEF InTurn
  <2>3. HeldFollowsDisk'
    BY <1>2, StepFollowsStore, StepFollows DEF InTurn
  <2> QED BY <2>1, <2>2, <2>3 DEF InTurn
<1> QED BY <1>1, <1>2, PTL DEF Spec

(***************************************************************************)
(* Taking turns with its user, an agent stores what follows from the disk, *)
(* wherever its children are killed.                                       *)
(***************************************************************************)
THEOREM AgentHeldFollows == ASSUME ~Overlap PROVE Spec => []HeldFollowsDisk
<1>1. InTurn => HeldFollowsDisk
  BY DEF InTurn
<1> QED BY <1>1, TakesTurns, PTL

(***************************************************************************)
(* Its runs implement HypothesisLifecycle: no call moves a recorded status *)
(* outside the transition table, and a killed child is a stutter.          *)
(***************************************************************************)
THEOREM AgentKeepsLifecycle == ASSUME ~Overlap PROVE Spec => LifecycleSpec
<1>1. ASSUME Init PROVE Lifecycle!Init
  BY <1>1, StoreAssumption DEF Init, StoreInit, Lifecycle!Init, Record, Lifecycle!Status, Status
<1>2. ASSUME IInv, HeldIsFunction, InTurn, [Next]_vars
      PROVE  Lifecycle!Next \/ UNCHANGED [h \in DOMAIN content |-> content[h].status]
  BY <1>2, StepFollowsStore, StepKeepsLifecycle DEF InTurn
<1> QED BY <1>1, <1>2, TakesTurns, PTL DEF Spec, LifecycleSpec, Lifecycle!Spec

(***************************************************************************)
(* Nor does any call of it drop an entry of a record's scores[].           *)
(***************************************************************************)
THEOREM AgentKeepsScores == ASSUME ~Overlap PROVE Spec => ScoresSurvive
<1>1. ASSUME IInv, HeldIsFunction, InTurn, [Next]_vars
      PROVE  \A h \in DOMAIN content :
               /\ h \in DOMAIN content'
               /\ content[h].scored \subseteq content'[h].scored
  BY <1>1, StepFollowsStore, RecordsFollow DEF InTurn
<1> QED BY <1>1, TakesTurns, PTL DEF Spec, ScoresSurvive

(***************************************************************************)
(* Why the transcript is faithful.  Its lines are numbered, and a tool     *)
(* line refers to the envelope of its own number, which no later envelope  *)
(* replaces; the lines lag behind the messages by at most the message that *)
(* the loop is about to log.                                               *)
(***************************************************************************)
TranscriptLine ==
  [role : {"system", "user", "assistant", "tool", "finish"}, seq : Nat,
   ok : BOOLEAN \cup {"null"}, ref : Nat \cup {"null"}]

Told == Len(transcript) - (IF phase = "done" THEN 3 ELSE 2)

Numbered ==
  /\ transcript \in Seq(TranscriptLine)
  /\ \A i \in DOMAIN transcript :
       /\ transcript[i].seq = i - 1
       /\ transcript[i].role = "tool" => transcript[i].ref = i - 1
       /\ transcript[i].role = "finish" <=> (phase = "done" /\ i = Len(transcript))

InStep ==
  /\ Told \in {Len(messages) - 1, Len(messages)} /\ Told \in Nat
  /\ phase \in {"top", "llm", "calls", "running"} => Told = Len(messages)
  /\ phase \in {"answered", "replied", "saved"} => Told = Len(messages) - 1

Pending ==
  /\ phase = "answered" => Last(messages).role = "assistant"
  /\ phase \in {"replied", "saved"} =>
       Last(messages).role = "tool" /\ Last(messages).ok = Last(results)
  /\ phase = "saved" =>
       Len(transcript) \in DOMAIN envelopes /\ envelopes[Len(transcript)] = Last(results)
  /\ \A s \in DOMAIN envelopes :
       \/ s = Len(transcript) /\ phase \in {"saved", "died"}
       \/ s < Len(transcript) /\ transcript[s + 1].role = "tool"

Narrated ==
  /\ Numbered /\ InStep /\ Pending
  /\ \A i \in 1..Told : LineTells(i)
  /\ phase = "done" => Last(transcript).ok = Ok(reason)

LEMMA NarratedIsFaithful == ASSUME IInv, Narrated PROVE TranscriptFaithful
<1> USE DEF Narrated, Numbered, InStep, Told
<1>1. messages \in Seq(Message) /\ DOMAIN envelopes \subseteq Nat
  BY DEF IInv, TypeOK
<1>2. Len(transcript) \in DOMAIN transcript /\ Len(transcript) >= 2
  BY <1>1
<1>3. Finished <=> phase = "done"
  BY <1>2 DEF Finished, Last
<1>4. \A s \in DOMAIN envelopes : s = Len(transcript) \/ transcript[s + 1].role = "tool"
  BY DEF Pending
<1> QED BY <1>3, <1>4 DEF TranscriptFaithful

LEMMA InitNarrated == ASSUME Init PROVE Narrated
<1>1. transcript \in Seq(TranscriptLine) /\ Len(transcript) = 2
  BY DEF Init, TranscriptLine
<1> QED BY <1>1 DEF Init, Narrated, Numbered, InStep, Pending, Told

(***************************************************************************)
(* Appending a line leaves the ones before it as they are.                 *)
(***************************************************************************)
OneLineMore(role, ok, ref) ==
  /\ transcript' \in Seq(TranscriptLine) /\ Len(transcript') = Len(transcript) + 1
  /\ \A i \in 1..Len(transcript) : transcript'[i] = transcript[i]
  /\ transcript'[Len(transcript) + 1] =
       [role |-> role, seq |-> Len(transcript), ok |-> ok, ref |-> ref]

LEMMA LogAppends ==
  ASSUME NEW role \in {"assistant", "tool", "finish"}, NEW ok \in BOOLEAN \cup {"null"},
         NEW ref \in Nat \cup {"null"}, Log(role, ok, ref), Numbered
  PROVE  OneLineMore(role, ok, ref)
<1>1. Line(role, ok, ref) \in TranscriptLine
  BY DEF Line, TranscriptLine, Numbered
<1> QED BY <1>1, AppendProperties DEF Log, Line, Numbered, OneLineMore

LEMMA LastReply ==
  ASSUME NEW s \in Seq(BOOLEAN), NEW ok \in BOOLEAN PROVE Last(Append(s, ok)) = ok
BY AppendProperties DEF Last

LEMMA LoggedNarrated ==
  ASSUME IInv, Narrated, NEW role \in {"assistant", "tool"}, NEW ok, NEW ref,
         OneLineMore(role, ok, ref), UNCHANGED <<messages, envelopes>>,
         phase \in {"answered", "saved"}, phase' \in {"calls", "finishing"},
         Last(messages).role = role,
         phase = "saved" => role = "tool",
         role = "tool" => /\ ref = Len(transcript) /\ ok = Last(messages).ok
                          /\ ref \in DOMAIN envelopes /\ envelopes[ref] = ok
  PROVE  Narrated'
<1> DEFINE n == Len(messages)
<1>1. /\ transcript \in Seq(TranscriptLine) /\ messages \in Seq(Message)
      /\ n \in Nat /\ Len(transcript) = n + 1 /\ Told = n - 1 /\ n - 1 \in Nat
      /\ Told' = n /\ Len(transcript') = n + 2 /\ messages' = messages /\ n = Len(messages)
  BY DEF IInv, TypeOK, Narrated, Numbered, InStep, Told, OneLineMore
<1>2. Numbered'
  <2>1. DOMAIN transcript = 1..(n + 1) /\ DOMAIN transcript' = 1..(n + 2)
    BY <1>1 DEF OneLineMore
  <2>2. ASSUME NEW i \in 1..(n + 1)
        PROVE  transcript'[i] = transcript[i] /\ transcript[i].seq = i - 1
               /\ transcript[i].role # "finish"
               /\ (transcript[i].role = "tool" => transcript[i].ref = i - 1)
    BY <1>1, <2>1 DEF Narrated, Numbered, OneLineMore
  <2>3. transcript'[n + 2] = [role |-> role, seq |-> n + 1, ok |-> ok, ref |-> ref]
    BY <1>1 DEF OneLineMore
  <2>4. transcript'[n + 2].seq = (n + 2) - 1 /\ transcript'[n + 2].role # "finish"
        /\ (transcript'[n + 2].role = "tool" => transcript'[n + 2].ref = (n + 2) - 1)
    BY <1>1, <2>3
  <2>5. transcript' \in Seq(TranscriptLine) /\ phase' # "done"
    BY DEF OneLineMore
  <2>6. \A i \in 1..(n + 2) : i \in 1..(n + 1) \/ i = n + 2
    BY <1>1
  <2> QED BY <2>1, <2>2, <2>4, <2>5, <2>6 DEF Numbered
<1>3. InStep'
  BY <1>1 DEF InStep
<1>4. Pending'
  <2>1. ASSUME NEW s \in DOMAIN envelopes PROVE s < n + 2 /\ transcript'[s + 1].role = "tool"
    <3>1. CASE s = n + 1 /\ phase = "saved"
      BY <1>1, <3>1 DEF OneLineMore
    <3>2. CASE s < n + 1 /\ transcript[s + 1].role = "tool"
      <4>1. s + 1 \in 1..(n + 1)
        BY <1>1, <3>2 DEF IInv, TypeOK
      <4>2. transcript'[s + 1] = transcript[s + 1]
        BY <1>1, <4>1 DEF OneLineMore
      <4>3. s \in Nat /\ s < n + 2
        BY <1>1, <3>2 DEF IInv, TypeOK
      <4> QED BY <3>2, <4>2, <4>3
    <3> QED BY <1>1, <3>1, <3>2 DEF Narrated, Pending
  <2> QED BY <1>1, <2>1 DEF Pending
<1>5. ASSUME NEW i \in 1..n PROVE LineTells(i)'
  <2>1. CASE i = n
    BY <1>1, <2>1 DEF LineTells, OneLineMore, Last
  <2>2. CASE i # n
    BY <1>1, <2>2 DEF LineTells, OneLineMore, Narrated
  <2> QED BY <2>1, <2>2
<1> QED BY <1>1, <1>2, <1>3, <1>4, <1>5 DEF Narrated

LEMMA StepNarrated == ASSUME IInv, Narrated, [Next]_vars PROVE Narrated'
<1> DEFINE Story == <<messages, transcript, envelopes, results>>
<1>0. messages \in Seq(Message) /\ DOMAIN envelopes \subseteq Nat /\ transcript \in Seq(TranscriptLine)
  BY DEF IInv, TypeOK, Narrated, Numbered
<1>1. ASSUME UNCHANGED Story, UNCHANGED phase \/ phase' = "died" \/ UNCHANGED <<phase, reason>>,
             phase \notin {"done"} \/ UNCHANGED <<phase, reason>>
      PROVE  Narrated'
  BY <1>0, <1>1 DEF Narrated, Numbered, InStep, Pending, Told, LineTells
<1>2. ASSUME UNCHANGED Story, phase \in {"top", "llm", "calls"},
             phase' \in {"top", "llm", "running", "finishing"}
      PROVE  Narrated'
  BY <1>0, <1>2 DEF Narrated, Numbered, InStep, Pending, Told, LineTells
<1>3. CASE DropAnswer
  BY <1>0, <1>3 DEF DropAnswer, Finish, Narrated, Numbered, InStep, Pending, Told, LineTells
<1>4. ASSUME NEW t \in 0..LlmMax, NEW a \in Answers, ModelAnswers(a, t) PROVE Narrated'
  <2>1. messages' \in Seq(Message) /\ Len(messages') = Len(messages) + 1
    BY <1>0, <1>4 DEF ModelAnswers, Message
  <2>2. /\ \A i \in 1..Len(messages) : messages'[i] = messages[i]
        /\ messages'[Len(messages) + 1].role = "assistant"
    BY <1>0, <1>4 DEF ModelAnswers, Message
  <2> QED BY <1>0, <1>4, <2>1, <2>2
          DEF ModelAnswers, Narrated, Numbered, InStep, Pending, Told, LineTells, Last
<1>5. ASSUME NEW ok \in BOOLEAN, NEW t, Reply(ok, t), phase \in {"calls", "running"}, Call \in Calls
      PROVE  Narrated'
  <2>1. [role |-> "tool", call |-> Call, ok |-> ok] \in Message
    BY <1>5 DEF Message
  <2>2. /\ Len(messages') = Len(messages) + 1
        /\ \A i \in 1..Len(messages) : messages'[i] = messages[i]
        /\ messages'[Len(messages) + 1] = [role |-> "tool", call |-> Call, ok |-> ok]
    BY <1>0, <1>5, <2>1, AppendProperties DEF Reply
  <2>3. Last(results') = ok
    <3>1. results \in Seq(BOOLEAN) /\ results' = Append(results, ok)
      BY <1>5 DEF IInv, TypeOK, Reply
    <3> QED BY <3>1, OneMoreReply, LastReply
  <2>4. Last(messages').role = "tool" /\ Last(messages').ok = Last(results')
    BY <1>0, <2>2, <2>3 DEF Last
  <2> QED BY <1>0, <1>5, <2>2, <2>4
          DEF Reply, Narrated, Numbered, InStep, Pending, Told, LineTells
<1>6. CASE SaveEnvelope
  BY <1>0, <1>6 DEF SaveEnvelope, Assign, Narrated, Numbered, InStep, Pending, Told, LineTells
<1>7. ASSUME NEW r, StopHere(r) PROVE Narrated'
  <2>1. Log("assistant", "null", "null")
    BY <1>7 DEF StopHere
  <2>2. OneLineMore("assistant", "null", "null")
    BY <1>0, <2>1, LogAppends DEF Narrated
  <2> QED BY <1>7, <2>2, LoggedNarrated DEF StopHere, Finish, Narrated, Pending
<1>8. CASE RunCalls
  <2>1. Log("assistant", "null", "null")
    BY <1>8 DEF RunCalls
  <2>2. OneLineMore("assistant", "null", "null")
    BY <1>0, <2>1, LogAppends DEF Narrated
  <2> QED BY <1>8, <2>2, LoggedNarrated DEF RunCalls, Narrated, Pending
<1>9. CASE LogTool
  <2>1. Log("tool", Last(results), Len(transcript)) /\ Last(results) \in BOOLEAN
    BY <1>9 DEF LogTool, IInv, TypeOK, Paced, Last
  <2>2. OneLineMore("tool", Last(results), Len(transcript))
    BY <1>0, <2>1, LogAppends DEF Narrated
  <2> QED BY <1>9, <2>2, LoggedNarrated DEF LogTool, Narrated, Pending
<1>10. CASE FinishLine
  <2>1. Log("finish", Ok(reason), "null") /\ Ok(reason) \in BOOLEAN
    BY <1>10 DEF FinishLine, Ok
  <2>2. OneLineMore("finish", Ok(reason), "null")
    BY <1>0, <2>1, LogAppends DEF Narrated
  <2> QED BY <1>0, <1>10, <2>2
          DEF OneLineMore, FinishLine, Narrated, Numbered, InStep, Pending, Told, LineTells, Last
<1>11. CASE TopOfLoop \/ EndStep \/ Spawn \/ \E t \in 0..LlmMax : ModelFails(t)
  BY <1>2, <1>11 DEF TopOfLoop, EndStep, Spawn, Invoking, ModelFails, Finish
<1>12. CASE Complete \/ RefuseCalls
  BY <1>7, <1>12 DEF Complete, RefuseCalls
<1>13. CASE Refuse \/ Expire \/ \E t \in 0..ToolTimeout : Collect(t)
  <2>1. PICK ok \in BOOLEAN, t \in 0..ToolTimeout :
          Reply(ok, t) /\ phase \in {"calls", "running"} /\ Len(results) < Len(answer)
    BY <1>13, SomeReply
  <2>2. Call \in Calls
    BY <2>1, Constants DEF Call, IInv, TypeOK
  <2> QED BY <1>5, <2>1, <2>2
<1>14. CASE ChildStep \/ UserStep \/ LoopDies \/ UNCHANGED vars
  BY <1>14, <1>1 DEF ChildStep, ChildLoads, ChildTruncates, ChildWrites, ChildEditsNothing,
                     ChildFails, UserStep, LoopDies, loopVars, vars
<1> QED
  BY <1>3, <1>4, <1>6, <1>8, <1>9, <1>10, <1>11, <1>12, <1>13, <1>14 DEF Next, LoopStep

(***************************************************************************)
(* Wherever a run has been cut off, its transcript tells what happened in  *)
(* it, but for at most the last message, and its envelopes are those of    *)
(* the calls it tells of.                                                  *)
(***************************************************************************)
THEOREM TranscriptIsFaithful == Spec => []TranscriptFaithful
<1>1. IInv /\ Narrated /\ [Next]_vars => (IInv /\ Narrated)'
  BY StepTypes, StepPaced, StepOneChild, StepNarrated DEF IInv
<1>2. IInv /\ Narrated => TranscriptFaithful
  BY NarratedIsFaithful
<1> QED BY InitIInv, InitNarrated, <1>1, <1>2, PTL DEF Spec

(***************************************************************************)
(* Why every call is answered.  The last answer is Latest messages from    *)
(* the start; the replies to its calls so far are what comes after it, and *)
(* everything before it is answered in full.                               *)
(***************************************************************************)
Latest == Len(messages) - Len(results)

LatestPartly ==
  /\ Latest \in DOMAIN messages
  /\ messages[Latest].role = "assistant" /\ messages[Latest].calls = answer
  /\ \A j \in 1..Len(results) :
       messages[Latest + j].role = "tool" /\ messages[Latest + j].call = answer[j]

InFull(i) == messages[i].role # "tool" => RepliesFollow(i)

Conversation ==
  /\ \A i \in DOMAIN messages : messages[i].role = "tool" => Asked(i)
  /\ phase \in {"top", "llm"} => \A i \in DOMAIN messages : InFull(i)
  /\ phase = "answered" \/ Busy => LatestPartly /\ \A i \in 1..(Latest - 1) : InFull(i)

(***************************************************************************)
(* A new message does not disturb what was answered before it.             *)
(***************************************************************************)
OneMessageMore(m) ==
  /\ Len(messages') = Len(messages) + 1 /\ messages' \in Seq(Message)
  /\ \A i \in 1..Len(messages) : messages'[i] = messages[i]
  /\ messages'[Len(messages) + 1] = m
  /\ \A i \in 1..Len(messages) : (Asked(i) => Asked(i)') /\ (InFull(i) => InFull(i)')

LEMMA MessageAppends ==
  ASSUME NEW m \in Message, messages \in Seq(Message), messages' = Append(messages, m)
  PROVE  OneMessageMore(m)
<1>1. /\ Len(messages') = Len(messages) + 1 /\ messages' \in Seq(Message)
      /\ \A i \in 1..Len(messages) : messages'[i] = messages[i]
      /\ messages'[Len(messages) + 1] = m
  BY AppendProperties
<1>2. ASSUME NEW i \in 1..Len(messages), Asked(i) PROVE Asked(i)'
  BY <1>1, <1>2 DEF Asked
<1>3. ASSUME NEW i \in 1..Len(messages), InFull(i) PROVE InFull(i)'
  BY <1>1, <1>3 DEF InFull, RepliesFollow
<1> QED BY <1>1, <1>2, <1>3 DEF OneMessageMore

LEMMA StepConversation == ASSUME IInv, Conversation, [Next]_vars PROVE Conversation'
<1> DEFINE Talk == <<messages, answer, results>>
<1>0. messages \in Seq(Message) /\ results \in Seq(BOOLEAN)
      /\ answer \in Seq(Calls) /\ Len(results) <= Len(answer)
  BY Constants DEF IInv, TypeOK
<1>1. ASSUME UNCHANGED Talk,
             phase' \in {"finishing", "done", "died"} \/ UNCHANGED phase
             \/ (phase = "top" /\ phase' = "llm")
             \/ ((phase = "answered" \/ Busy) /\ Busy')
      PROVE  Conversation'
  BY <1>1 DEF Conversation, LatestPartly, Latest, InFull, Asked, RepliesFollow, Busy
<1>2. CASE EndStep
  <2>1. UNCHANGED Talk /\ Len(results) = Len(answer) /\ phase = "calls"
        /\ phase' \in {"top", "finishing"}
    BY <1>2 DEF EndStep, Finish
  <2>2. InFull(Latest)
    <3>1. LatestPartly
      BY <2>1 DEF Conversation, Busy
    <3>2. Latest + Len(answer) = Len(messages) /\ Latest \in Nat
      BY <1>0, <2>1, <3>1 DEF Latest, LatestPartly
    <3>3. ASSUME NEW j \in 1..Len(answer)
          PROVE  /\ Latest + j \in DOMAIN messages
                 /\ messages[Latest + j].role = "tool" /\ messages[Latest + j].call = answer[j]
      BY <1>0, <2>1, <3>1, <3>2 DEF LatestPartly
    <3>4. DOMAIN messages[Latest].calls = 1..Len(answer) /\ messages[Latest].calls = answer
      BY <1>0, <3>1 DEF LatestPartly
    <3> QED BY <3>3, <3>4 DEF InFull, RepliesFollow
  <2>3. ASSUME NEW i \in DOMAIN messages PROVE InFull(i)
    <3>1. CASE i > Latest
      <4>1. i - Latest \in 1..Len(results) /\ i = Latest + (i - Latest)
        BY <1>0, <2>1, <3>1 DEF Latest, Conversation, Busy, LatestPartly
      <4>2. messages[Latest + (i - Latest)].role = "tool"
        BY <4>1, <2>1 DEF Conversation, Busy, LatestPartly
      <4> QED BY <4>1, <4>2 DEF InFull
    <3>2. CASE i <= Latest
      BY <1>0, <2>1, <2>2, <3>2 DEF Conversation, Busy, LatestPartly, Latest
    <3> QED BY <1>0, <3>1, <3>2 DEF Latest
  <2> QED BY <2>1, <2>3 DEF Conversation, InFull, Asked, RepliesFollow, Busy
<1>3. ASSUME NEW t \in 0..LlmMax, NEW a \in Answers, ModelAnswers(a, t) PROVE Conversation'
  <2> DEFINE m == [role |-> "assistant", calls |-> a]
  <2>1. /\ messages' = Append(messages, m) /\ m \in Message /\ phase = "llm" /\ phase' = "answered"
        /\ answer' = a /\ results' = <<>>
    BY <1>3 DEF ModelAnswers, Message
  <2>2. OneMessageMore(m)
    BY <1>0, <2>1, MessageAppends
  <2>3. Latest' = Len(messages) + 1
    BY <1>0, <2>1, <2>2 DEF OneMessageMore, Latest
  <2>4. LatestPartly'
    BY <1>0, <2>1, <2>2, <2>3 DEF OneMessageMore, LatestPartly
  <2>5. \A i \in DOMAIN messages : (messages[i].role = "tool" => Asked(i)) /\ InFull(i)
    BY <2>1 DEF Conversation
  <2>6. DOMAIN messages = 1..Len(messages) /\ DOMAIN messages' = 1..(Len(messages) + 1)
    BY <1>0, <2>2 DEF OneMessageMore
  <2>7. \A i \in DOMAIN messages' : messages'[i].role = "tool" => Asked(i)'
    <3>1. messages'[Len(messages) + 1].role # "tool"
      BY <2>2 DEF OneMessageMore
    <3> QED BY <1>0, <2>2, <2>5, <2>6, <3>1 DEF OneMessageMore
  <2>8. \A i \in 1..(Latest' - 1) : InFull(i)'
    BY <1>0, <2>2, <2>3, <2>5, <2>6 DEF OneMessageMore
  <2> QED BY <2>1, <2>4, <2>7, <2>8 DEF Conversation, Busy
<1>4. CASE Refuse \/ Expire \/ \E t \in 0..ToolTimeout : Collect(t)
  <2>1. PICK ok \in BOOLEAN, t \in 0..ToolTimeout :
          Reply(ok, t) /\ phase \in {"calls", "running"} /\ Len(results) < Len(answer)
    BY <1>4, SomeReply
  <2> DEFINE m == [role |-> "tool", call |-> Call, ok |-> ok]
  <2>2. Call \in Calls /\ Call = answer[Len(results) + 1]
    BY <1>0, <2>1 DEF Call
  <2>3. messages' = Append(messages, m) /\ m \in Message /\ answer' = answer /\ phase' = "replied"
    BY <2>1, <2>2 DEF Reply, Message
  <2>4. Len(results') = Len(results) + 1
    <3>1. results' = Append(results, ok)
      BY <2>1 DEF Reply
    <3> QED BY <1>0, <3>1, OneMoreReply
  <2>5. OneMessageMore(m)
    BY <1>0, <2>3, MessageAppends
  <2>6. LatestPartly /\ \A i \in 1..(Latest - 1) : InFull(i)
    BY <2>1 DEF Conversation, Busy
  <2>7. /\ Latest' = Latest /\ Latest \in Nat /\ Latest \in 1..Len(messages)
        /\ Latest + Len(results) = Len(messages)
        /\ DOMAIN messages = 1..Len(messages) /\ DOMAIN messages' = 1..(Len(messages) + 1)
    BY <1>0, <2>4, <2>5, <2>6 DEF OneMessageMore, Latest, LatestPartly
  <2>8. LatestPartly'
    <3>1. messages'[Latest] = messages[Latest]
      BY <2>5, <2>7 DEF OneMessageMore
    <3>2. ASSUME NEW j \in 1..(Len(results) + 1)
          PROVE  messages'[Latest + j].role = "tool" /\ messages'[Latest + j].call = answer[j]
      <4>1. CASE j = Len(results) + 1
        <5>1. Latest + j = Len(messages) + 1
          BY <1>0, <2>7, <4>1
        <5>2. messages'[Latest + j] = m
          BY <5>1, <2>5 DEF OneMessageMore
        <5> QED BY <5>2, <2>2, <4>1
      <4>2. CASE j \in 1..Len(results)
        <5>1. messages'[Latest + j] = messages[Latest + j]
          BY <1>0, <2>5, <2>7, <4>2 DEF OneMessageMore
        <5> QED BY <5>1, <2>6, <4>2 DEF LatestPartly
      <4> QED BY <1>0, <4>1, <4>2
    <3> QED BY <2>3, <2>4, <2>6, <2>7, <3>1, <3>2 DEF LatestPartly
  <2>9. ASSUME NEW i \in Nat, i = Len(messages) + 1 PROVE Asked(i)'
    <3>1. i - Latest \in 1..Len(answer) /\ Latest \in 1..Len(messages)
      BY <1>0, <2>1, <2>7, <2>9
    <3>2. messages'[Latest].role = "assistant" /\ DOMAIN messages'[Latest].calls = 1..Len(answer)
      BY <1>0, <2>3, <2>7, <2>8 DEF LatestPartly
    <3>3. Latest \in 1..(i - 1)
      BY <1>0, <3>1, <2>9
    <3> QED BY <3>1, <3>2, <3>3 DEF Asked
  <2>10. ASSUME NEW i \in DOMAIN messages', messages'[i].role = "tool" PROVE Asked(i)'
    <3>1. CASE i = Len(messages) + 1
      BY <1>0, <2>9, <3>1
    <3>2. CASE i \in 1..Len(messages)
      BY <2>5, <2>7, <2>10, <3>2 DEF OneMessageMore, Conversation
    <3> QED BY <1>0, <2>7, <3>1, <3>2
  <2>11. \A i \in 1..(Latest' - 1) : InFull(i)'
    BY <1>0, <2>5, <2>6, <2>7 DEF OneMessageMore
  <2> QED BY <2>3, <2>8, <2>10, <2>11 DEF Conversation, Busy
<1>5. CASE TopOfLoop \/ Complete \/ RefuseCalls \/ DropAnswer \/ RunCalls \/ FinishLine \/ Spawn
  BY <1>5, <1>1 DEF TopOfLoop, Complete, RefuseCalls, StopHere, DropAnswer, RunCalls, FinishLine,
                    Spawn, Invoking, Finish, Busy
<1>6. CASE SaveEnvelope \/ LogTool \/ LoopDies \/ \E t \in 0..LlmMax : ModelFails(t)
  BY <1>6, <1>1 DEF SaveEnvelope, LogTool, LoopDies, ModelFails, Finish, Busy
<1>7. CASE ChildStep \/ UserStep \/ UNCHANGED vars
  BY <1>7, <1>1 DEF ChildStep, ChildLoads, ChildTruncates, ChildWrites, ChildEditsNothing,
                    ChildFails, UserStep, loopVars, vars
<1> QED BY <1>2, <1>3, <1>4, <1>5, <1>6, <1>7 DEF Next, LoopStep

(***************************************************************************)
(* The model is never asked to go on while a call of it has no reply, and  *)
(* never shown a reply to a call it did not make.                          *)
(***************************************************************************)
THEOREM CallsAreAnswered == Spec => []EveryCallAnswered
<1>1. IInv /\ Conversation /\ [Next]_vars => (IInv /\ Conversation)'
  BY StepTypes, StepPaced, StepOneChild, StepConversation DEF IInv
<1>2. Init => Conversation
  BY DEF Init, Conversation, Busy
<1>3. IInv /\ Conversation => EveryCallAnswered
  BY DEF EveryCallAnswered, Conversation, InFull
<1> QED BY InitIInv, <1>1, <1>2, <1>3, PTL DEF Spec

(***************************************************************************)
(* Why "succeeded" is true.  What any tool is about to store keeps a       *)
(* promotion that is on disk, so a promotion stays; and the child of a     *)
(* promotion holds a promoted record until it has stored it.               *)
(***************************************************************************)
Promoted(h) == h \in DOMAIN content /\ content[h].status = "promoted"

KeepsPromotion(h, rec) == rec \in Record /\ (Promoted(h) => rec.status = "promoted")

Settled ==
  /\ \A h \in DOMAIN content : content[h] \in Record
  /\ \A p, q \in DOMAIN held : p = q
  /\ \A p \in DOMAIN held :
       /\ KeepsPromotion(held[p].hyp, held[p].rec)
       /\ held[p].phase = "writing" => file[held[p].hyp] = "empty"

LEMMA CommandsKeepPromotion ==
  ASSUME NEW p, NEW h, Command(p, h), Settled, Loads(h) => h \in DOMAIN content,
         ~Exists(h) => h \notin DOMAIN content
  PROVE  \E rec : Hold(p, h, rec) /\ KeepsPromotion(h, rec)
<1>1. ASSUME NEW m \in Methods, ~Exists(h)
      PROVE  KeepsPromotion(h, MakeDraft(m)) /\ KeepsPromotion(h, Proposed(MakeDraft(m), m))
  BY <1>1 DEF KeepsPromotion, Promoted, MakeDraft, Proposed, Record, Status
<1>2. ASSUME NEW m \in Methods, Loads(h) PROVE KeepsPromotion(h, Proposed(content[h], m))
  BY <1>2 DEF Settled, KeepsPromotion, Promoted, Proposed, Record, Status
<1>3. ASSUME Loads(h) PROVE KeepsPromotion(h, Scored(content[h]))
  BY <1>3 DEF Settled, KeepsPromotion, Promoted, Scored, Record, Status
<1>4. ASSUME NEW s \in Status, Loads(h), CanTransition(content[h].status, s)
      PROVE  KeepsPromotion(h, [content[h] EXCEPT !.status = s])
  BY <1>4 DEF Settled, KeepsPromotion, Promoted, CanTransition, Record, Status
<1> QED BY <1>1, <1>2, <1>3, <1>4 DEF Command, CmdInit, CmdPropose, CmdScore, CmdSetStatus

OnDisk == DOMAIN content \subseteq DOMAIN file /\ \A h \in DOMAIN file : file[h] = "whole" => h \in DOMAIN content

LEMMA StepSettled ==
  ASSUME ~Overlap, IInv, Settled, OnDisk, [Next]_vars
  PROVE  /\ Settled' /\ OnDisk'
         /\ \A h : Promoted(h) => Promoted(h)'
<1> DEFINE Goal == Settled' /\ OnDisk' /\ \A h : Promoted(h) => Promoted(h)'
<1>1. ASSUME UNCHANGED storeVars PROVE Goal
  BY <1>1 DEF storeVars, Settled, OnDisk, KeepsPromotion, Promoted
<1>2. ASSUME NEW p, held' = Release(p), UNCHANGED <<file, content>> PROVE Goal
  BY <1>2 DEF Release, Restrict, Settled, OnDisk, KeepsPromotion, Promoted
<1>3. ASSUME NEW p, NEW h, Command(p, h) PROVE Goal
  <2>1. PICK rec : Hold(p, h, rec) /\ KeepsPromotion(h, rec)
    BY <1>3, CommandsKeepPromotion DEF OnDisk, Loads, Exists
  <2> QED BY <2>1 DEF Hold, Assign, Settled, OnDisk, KeepsPromotion, Promoted
<1>4. ASSUME NEW p, Truncate(p) PROVE Goal
  BY <1>4 DEF Truncate, Assign, Settled, OnDisk, KeepsPromotion, Promoted
<1>5. ASSUME NEW p, Write(p) PROVE Goal
  BY <1>5 DEF Write, Assign, Release, Restrict, Settled, OnDisk, KeepsPromotion, Promoted
<1>6. CASE LoopStep
  <2>1. UNCHANGED storeVars \/ (held' = Release(Agent) /\ UNCHANGED <<file, content>>)
    BY <1>6 DEF LoopStep, TopOfLoop, Complete, RefuseCalls, StopHere, DropAnswer, RunCalls, EndStep,
                FinishLine, Refuse, Spawn, Expire, SaveEnvelope, LogTool, ModelFails, ModelAnswers,
                Collect
  <2> QED BY <2>1, <1>1, <1>2
<1>7. CASE ChildLoads
  <2>1. Call \in Calls
    BY <1>7, Constants DEF ChildLoads, Call, IInv, TypeOK, OneChild
  <2>2. Command(Agent, Call.hyp)
    BY <1>7, <2>1, Constants DEF ChildLoads, Load, Command
  <2> QED BY <2>2, <1>3
<1>8. CASE ChildTruncates \/ ChildWrites \/ ChildEditsNothing \/ ChildFails
  BY <1>8, <1>1, <1>2, <1>4, <1>5 DEF ChildTruncates, ChildWrites, ChildEditsNothing, ChildFails
<1>9. CASE UserStep
  BY <1>9, <1>2, <1>3, <1>4, <1>5 DEF UserStep, Crash
<1>10. CASE LoopDies \/ UNCHANGED vars
  BY <1>10, <1>1 DEF LoopDies, vars
<1> QED BY <1>6, <1>7, <1>8, <1>9, <1>10 DEF Next, ChildStep

(***************************************************************************)
(* A call that met the criterion, and what it says of the disk.            *)
(***************************************************************************)
IsTrue(call) == call.tool = "hypothesis_set_status" => Promoted(call.hyp)

Truthful ==
  /\ \A i \in 1..Len(results) : IsSuccessCriterion(answer[i], results[i]) => IsTrue(answer[i])
  /\ phase \notin {"finishing", "done", "died"} => reason = "none"
  /\ (child \in {"storing", "ok"} /\ Call.tool = "hypothesis_set_status"
        /\ Call.status = "promoted") =>
       IF child = "storing"
         THEN held[Agent].hyp = Call.hyp /\ held[Agent].rec.status = "promoted"
         ELSE Promoted(Call.hyp)
  /\ SucceededIsTrue

LEMMA StepTruthful ==
  ASSUME ~Overlap, IInv, Settled, OnDisk, Truthful, [Next]_vars
  PROVE  Truthful'
<1> DEFINE Deeds == <<answer, results, steps>>
<1>0. /\ \A h : Promoted(h) => Promoted(h)'
      /\ Len(results) \in Nat /\ Len(answer) \in Nat /\ results \in Seq(BOOLEAN) /\ answer \in Seq(Calls)
      /\ steps \in Seq([calls : Answers, results : Seq(BOOLEAN)])
  BY StepSettled, Constants DEF IInv, TypeOK
<1>1. ASSUME UNCHANGED <<Deeds, child, held>>,
             UNCHANGED <<phase, reason>> \/ (phase' = "died" /\ UNCHANGED reason)
             \/ (phase' \in {"finishing", "done"} /\ reason' # "succeeded" /\ reason # "succeeded")
             \/ (phase = "finishing" /\ phase' = "done" /\ UNCHANGED reason)
             \/ (phase' \notin {"finishing", "done", "died"} /\ phase \notin {"finishing", "done", "died"}
                  /\ UNCHANGED reason)
      PROVE  Truthful'
  BY <1>0, <1>1 DEF Truthful, IsTrue, Promoted, SucceededIsTrue, Meets, Call, Last
<1>2. CASE TopOfLoop \/ DropAnswer \/ RunCalls \/ FinishLine \/ SaveEnvelope \/ LogTool \/ LoopDies
          \/ (UserStep /\ UNCHANGED held) \/ UNCHANGED vars \/ \E t \in 0..LlmMax : ModelFails(t)
  BY <1>1, <1>2 DEF TopOfLoop, DropAnswer, RunCalls, FinishLine, SaveEnvelope, LogTool, LoopDies,
     ModelFails, UserStep, Finish, Truthful, loopVars, storeVars, vars
<1>3. CASE Complete \/ RefuseCalls
  <2>1. PICK r \in {"completed", "budget_tool_calls"} : StopHere(r)
    BY <1>3 DEF Complete, RefuseCalls
  <2>2. /\ UNCHANGED <<answer, results, child, held>> /\ reason' = r /\ reason = "none" /\ phase' = "finishing"
        /\ steps' = Append(steps, [calls |-> answer, results |-> <<>>]) /\ answer \in Answers
        /\ child = "none"
    BY <2>1 DEF StopHere, Finish, Truthful, IInv, Paced, OneChild, storeVars
  <2>3. /\ Len(steps') = Len(steps) + 1 /\ \A k \in 1..Len(steps) : steps'[k] = steps[k]
        /\ steps'[Len(steps) + 1].results = <<>>
        /\ DOMAIN steps' = 1..(Len(steps) + 1) /\ DOMAIN steps = 1..Len(steps) /\ Len(steps) \in Nat
    <3>1. [calls |-> answer, results |-> <<>>] \in [calls : Answers, results : Seq(BOOLEAN)]
      BY <2>2
    <3> QED BY <1>0, <2>2, <3>1
  <2>4. \A k \in DOMAIN steps' : \A i \in DOMAIN steps'[k].results : ~Meets(steps'[k], i)
    <3>1. \A k \in 1..Len(steps) : \A i \in DOMAIN steps[k].results : ~Meets(steps[k], i)
      BY <2>2, <2>3 DEF Truthful, SucceededIsTrue
    <3>2. \A k \in DOMAIN steps' : k \in 1..Len(steps) \/ k = Len(steps) + 1
      BY <2>3
    <3> QED BY <2>3, <3>1, <3>2
  <2>5. SucceededIsTrue'
    BY <2>2, <2>4 DEF SucceededIsTrue, Meets, IsSuccessCriterion
  <2> QED BY <1>0, <2>2, <2>5 DEF Truthful, IsTrue
<1>4. CASE EndStep
  <2> DEFINE s == [calls |-> answer, results |-> results]
             Won == \E i \in DOMAIN answer : IsSuccessCriterion(answer[i], results[i])
  <2>1. /\ UNCHANGED <<answer, results, child, held, file, content>> /\ reason = "none" /\ child = "none"
        /\ Len(results) = Len(answer) /\ steps' = Append(steps, s)
        /\ IF Won THEN phase' = "finishing" /\ reason' = "succeeded"
                   ELSE phase' = "top" /\ reason' = reason
    BY <1>4 DEF EndStep, Finish, Truthful, IInv, OneChild, storeVars
  <2>2. /\ Len(steps') = Len(steps) + 1 /\ \A k \in 1..Len(steps) : steps'[k] = steps[k]
        /\ steps'[Len(steps) + 1] = s /\ Last(steps') = s
        /\ DOMAIN steps' = 1..(Len(steps) + 1) /\ DOMAIN steps = 1..Len(steps) /\ Len(steps) \in Nat
    <3>1. s \in [calls : Answers, results : Seq(BOOLEAN)]
      BY <1>0, <1>4 DEF EndStep, IInv, Paced, Busy
    <3> QED BY <1>0, <2>1, <3>1 DEF Last
  <2>3. DOMAIN answer = DOMAIN results /\ DOMAIN results = 1..Len(results)
    BY <1>0, <2>1
  <2>4. SucceededIsTrue'
    <3>1. CASE Won
      <4>1. PICK i \in DOMAIN answer : IsSuccessCriterion(answer[i], results[i])
        BY <3>1
      <4>2. IsTrue(answer[i])
        BY <2>3, <4>1 DEF Truthful
      <4>3. /\ i \in DOMAIN Last(steps').results
            /\ Meets(Last(steps'), i)
            /\ Last(steps').calls[i].tool = "hypothesis_set_status" =>
                 /\ Last(steps').calls[i].hyp \in DOMAIN content'
                 /\ content'[Last(steps').calls[i].hyp].status = "promoted"
        BY <2>1, <2>2, <2>3, <4>1, <4>2 DEF Meets, IsTrue, Promoted
      <4> QED BY <2>1, <3>1, <4>3 DEF SucceededIsTrue, Meets, IsSuccessCriterion
    <3>2. CASE ~Won
      <4>1. \A k \in 1..Len(steps) : \A i \in DOMAIN steps[k].results : ~Meets(steps[k], i)
        BY <2>1, <2>2 DEF Truthful, SucceededIsTrue
      <4>2. \A i \in DOMAIN s.results : ~Meets(s, i)
        BY <2>3, <3>2 DEF Meets
      <4>3. \A k \in DOMAIN steps' : k \in 1..Len(steps) \/ k = Len(steps) + 1
        BY <2>2
      <4>4. \A k \in DOMAIN steps' : \A i \in DOMAIN steps'[k].results : ~Meets(steps'[k], i)
        BY <2>2, <4>1, <4>2, <4>3
      <4> QED BY <2>1, <3>2, <4>4 DEF SucceededIsTrue, Meets, IsSuccessCriterion
    <3> QED BY <3>1, <3>2
  <2> QED BY <1>0, <2>1, <2>4 DEF Truthful, IsTrue
<1>5. ASSUME NEW t \in 0..LlmMax, NEW a \in Answers, ModelAnswers(a, t) PROVE Truthful'
  <2>1. results' = <<>> /\ UNCHANGED <<steps, reason, child>> /\ phase' = "answered" /\ reason = "none"
        /\ child = "none"
    BY <1>5 DEF ModelAnswers, Truthful, IInv, OneChild
  <2> QED BY <2>1 DEF Truthful, SucceededIsTrue, Meets, IsSuccessCriterion
<1>6. CASE Spawn
  BY <1>0, <1>6 DEF Spawn, Invoking, storeVars, Truthful, IsTrue, Promoted, SucceededIsTrue, Meets,
                    IsSuccessCriterion
<1>7. ASSUME NEW ok \in BOOLEAN, NEW t, Reply(ok, t), phase \in {"calls", "running"},
             Len(results) < Len(answer), child' = "none",
             IsSuccessCriterion(Call, ok) => IsTrue(Call)
      PROVE  Truthful'
  <2>1. /\ results' = Append(results, ok) /\ UNCHANGED <<answer, steps, reason>> /\ phase' = "replied"
        /\ reason = "none"
    BY <1>7 DEF Reply, Truthful
  <2>2. Len(results') = Len(results) + 1 /\ results'[Len(results) + 1] = ok
        /\ \A i \in 1..Len(results) : results'[i] = results[i]
    BY <1>0, <2>1, AppendProperties
  <2>3. ASSUME NEW i \in 1..(Len(results) + 1), IsSuccessCriterion(answer[i], results'[i])
        PROVE  IsTrue(answer[i])
    <3>1. CASE i = Len(results) + 1
      BY <1>7, <2>2, <2>3, <3>1 DEF Call
    <3>2. CASE i \in 1..Len(results)
      BY <2>2, <2>3, <3>2 DEF Truthful
    <3> QED BY <1>0, <3>1, <3>2
  <2>4. \A i : IsTrue(answer[i]) => IsTrue(answer[i])'
    BY <1>0, <2>1 DEF IsTrue
  <2>5. SucceededIsTrue'
    BY <2>1 DEF Truthful, SucceededIsTrue, Meets, IsSuccessCriterion
  <2> QED BY <1>7, <2>1, <2>2, <2>3, <2>4, <2>5 DEF Truthful
<1>8. CASE Refuse \/ Expire
  BY <1>7, <1>8 DEF Refuse, Invoking, Expire, IInv, OneChild, IsSuccessCriterion
<1>9. ASSUME NEW t \in 0..ToolTimeout, Collect(t) PROVE Truthful'
  <2>1. Reply(child = "ok", t) /\ (child = "ok") \in BOOLEAN /\ phase = "running" /\ child' = "none"
        /\ Len(results) < Len(answer)
    BY <1>9 DEF Collect, IInv, OneChild
  <2>2. IsSuccessCriterion(Call, child = "ok") => IsTrue(Call)
    BY <1>9 DEF Collect, IsSuccessCriterion, IsTrue, Truthful
  <2> QED BY <1>7, <2>1, <2>2
<1>10. ASSUME UNCHANGED loopVars,
              (child' \in {"storing", "ok"} /\ Call.tool = "hypothesis_set_status"
                 /\ Call.status = "promoted") =>
                IF child' = "storing"
                  THEN held'[Agent].hyp = Call.hyp /\ held'[Agent].rec.status = "promoted"
                  ELSE Promoted(Call.hyp)'
       PROVE  Truthful'
  BY <1>0, <1>10 DEF loopVars, Truthful, IsTrue, Promoted, SucceededIsTrue, Meets, Call
<1>11. CASE ChildLoads
  <2>1. ASSUME Call.tool = "hypothesis_set_status", Call.status = "promoted"
        PROVE  held'[Agent].hyp = Call.hyp /\ held'[Agent].rec.status = "promoted"
    <3>1. CmdSetStatus(Agent, Call.hyp, "promoted")
      BY <1>11, <2>1 DEF ChildLoads, Load
    <3>2. content[Call.hyp] \in Record
      BY <3>1 DEF CmdSetStatus, Loads, Exists, Settled, OnDisk
    <3>3. [content[Call.hyp] EXCEPT !.status = "promoted"].status = "promoted"
      BY <3>2 DEF Record
    <3> QED BY <3>1, <3>3 DEF CmdSetStatus, Hold, Assign
  <2> QED BY <1>10, <1>11, <2>1 DEF ChildLoads
<1>12. CASE ChildTruncates
  <2>1. Agent \in DOMAIN held /\ held' = [held EXCEPT ![Agent].phase = "writing"]
    BY <1>12 DEF ChildTruncates, Truncate
  <2>2. held'[Agent] = [held[Agent] EXCEPT !.phase = "writing"]
    BY <2>1
  <2>3. held'[Agent].hyp = held[Agent].hyp /\ held'[Agent].rec = held[Agent].rec
    BY <2>2
  <2> QED BY <1>10, <1>12, <2>3 DEF ChildTruncates, Truthful
<1>13. CASE ChildWrites
  <2>1. file[held[Agent].hyp] = "empty" /\ content' = Assign(content, held[Agent].hyp, held[Agent].rec)
    BY <1>13 DEF ChildWrites, Write, Settled
  <2>2. Call' = Call /\ UNCHANGED loopVars /\ child = "storing" /\ child' = "ok"
    BY <1>13 DEF ChildWrites, loopVars, Call
  <2>3. ASSUME Call.tool = "hypothesis_set_status", Call.status = "promoted" PROVE Promoted(Call.hyp)'
    <3>1. held[Agent].hyp = Call.hyp /\ held[Agent].rec.status = "promoted"
      BY <2>2, <2>3 DEF Truthful
    <3> QED BY <2>1, <2>2, <3>1 DEF Assign, Promoted
  <2> QED BY <1>10, <2>2, <2>3
<1>14. CASE ChildEditsNothing \/ ChildFails
  BY <1>10, <1>14 DEF ChildEditsNothing, EditsRecord, EditingTools, ChildFails
<1>15. CASE UserStep
  <2>1. Agent \in DOMAIN held => held'[Agent].hyp = held[Agent].hyp /\ held'[Agent].rec = held[Agent].rec
    BY <1>15, Constants DEF UserStep, Command, CmdInit, CmdPropose, CmdScore, CmdSetStatus, Hold, Assign,
                            Truncate, Write, Crash, Release, Restrict
  <2>2. UNCHANGED <<child, loopVars>> /\ (child = "storing" => Agent \in DOMAIN held)
    BY <1>15 DEF UserStep, IInv, TypeOK
  <2> QED BY <1>0, <1>10, <2>1, <2>2 DEF Truthful, loopVars, Call
<1> QED
  BY <1>2, <1>3, <1>4, <1>5, <1>6, <1>8, <1>9, <1>11, <1>12, <1>13, <1>14, <1>15
  DEF Next, LoopStep, ChildStep

(***************************************************************************)
(* With tools that take turns, a run that says "succeeded" had a call that *)
(* met the criterion, and a promotion it rests on is on disk and stays.    *)
(***************************************************************************)
THEOREM SuccessIsTrue == ASSUME ~Overlap PROVE Spec => []SucceededIsTrue
<1>1. Init => Settled /\ OnDisk /\ Truthful
  BY StoreAssumption DEF Init, StoreInit, Settled, OnDisk, Truthful, SucceededIsTrue
<1>2. IInv /\ Settled /\ OnDisk /\ Truthful /\ [Next]_vars => (IInv /\ Settled /\ OnDisk /\ Truthful)'
  BY StepTypes, StepPaced, StepOneChild, StepSettled, StepTruthful DEF IInv
<1>3. Truthful => SucceededIsTrue
  BY DEF Truthful
<1> QED BY InitIInv, <1>1, <1>2, <1>3, PTL DEF Spec
=============================================================================
