----------------------------- MODULE AgentLoop -----------------------------
(***************************************************************************)
(* One run of the Python agent: a language model is asked for tool calls,  *)
(* the bridge runs each of them as a child process with a time limit, and  *)
(* every step is written to a transcript.  The children edit the records   *)
(* of HypothesisStore, as the user's own tools do at the same time; a      *)
(* child that runs into its time limit is killed wherever it is, and the   *)
(* loop itself may die (a full disk, an exception nothing catches).        *)
(***************************************************************************)
EXTENDS HypothesisStore, Integers, SequencesExt, FiniteSetsExt

CONSTANTS
  Agent,           \* the child process of the bridge, one at a time
  User,            \* somebody else's tool in the same workspace
  Hyps,            \* the hypothesis ids in use
  Calls,           \* the tool calls the model may ask for
  Answers,         \* its answers: sequences of calls, <<>> for plain text
  MaxSteps, MaxToolCalls, MaxWall,   \* the three budgets of the config
  LlmMax           \* the longest a request to the model takes

(***************************************************************************)
(* What a call names: a tool that edits a record; validate, which can end  *)
(* the run; one of the tools that edit no record ("other": hypothesis_show *)
(* and _list, hypothesis_ensure, which makes the directories around them,  *)
(* decode, score, rank and the like); or a name off the allow-list.        *)
(* search_cycle is none of them: a child that searches is the scheduler of *)
(* SearchCycle, and the records it ingests are treated there.              *)
(***************************************************************************)
EditingTools == {"hypothesis_init", "hypothesis_propose", "hypothesis_score",
                 "hypothesis_set_status"}
Tools == EditingTools \cup {"validate", "other", "denied"}

ASSUME AgentAssumption ==
  /\ Agent \in Procs /\ User \in Procs /\ Agent # User
  /\ CanCrash
  /\ Calls \subseteq [tool : Tools, hyp : Hyps, status : Status, method : Methods]
  /\ Answers \subseteq Seq(Calls)
  /\ MaxSteps \in Nat \ {0} /\ MaxToolCalls \in Nat \ {0}
  /\ MaxWall \in Nat \ {0} /\ LlmMax \in Nat

VARIABLES
  phase,       \* where the loop stands, see Phases
  step,        \* step_index
  now,         \* clock() - started
  answer,      \* assistant.tool_calls of the current step
  results,     \* the outcomes of its calls so far (invocation.ok)
  toolCalls,   \* tool_calls
  child,       \* what the child process is doing, see ChildStates
  messages,    \* the conversation, after the system and user messages
  steps,       \* the AgentSteps of the result
  transcript,  \* the lines of the .jsonl file
  envelopes,   \* envelopes[seq]: the envelope file saved for line seq
  reason       \* stop_reason

loopVars == <<phase, step, now, answer, results, toolCalls, messages, steps,
              transcript, envelopes, reason>>
vars == <<storeVars, child, loopVars>>

Phases == {"top", "llm", "answered", "calls", "running", "replied", "saved",
           "finishing", "done", "died"}
ChildStates == {"none", "started", "storing", "ok", "failed"}
StopReasons == {"completed", "succeeded", "budget_steps", "budget_tool_calls",
                "budget_wall", "error"}

(***************************************************************************)
(* The command line gives every tool the whole wall budget of the run.     *)
(***************************************************************************)
ToolTimeout == MaxWall

Ok(r) == r \in {"completed", "succeeded"}

Line(role, ok, ref) ==
  [role |-> role, seq |-> Len(transcript), ok |-> ok, ref |-> ref]

Log(role, ok, ref) == transcript' = Append(transcript, Line(role, ok, ref))

\* Faulty variant: the reply of the tool is not looked at.
IsSuccessByName(call, ok) ==
  \/ call.tool = "validate"
  \/ call.tool = "hypothesis_set_status" /\ call.status = "promoted"

(***************************************************************************)
(* validate, or a promotion, that the tool reports as done.                *)
(***************************************************************************)
IsSuccessCriterion(call, ok) ==
  /\ ok
  /\ \/ call.tool = "validate"
     \/ call.tool = "hypothesis_set_status" /\ call.status = "promoted"

Init ==
  /\ StoreInit
  /\ phase = "top" /\ step = 0 /\ now = 0 /\ toolCalls = 0
  /\ answer = <<>> /\ results = <<>> /\ messages = <<>> /\ steps = <<>>
  /\ child = "none" /\ reason = "none"
  /\ envelopes = [s \in {} |-> TRUE]
  /\ transcript = << [role |-> "system", seq |-> 0, ok |-> "null", ref |-> "null"],
                     [role |-> "user",   seq |-> 1, ok |-> "null", ref |-> "null"] >>

-----------------------------------------------------------------------------
(***************************************************************************)
(* The loop.                                                               *)
(***************************************************************************)
Finish(r) == phase' = "finishing" /\ reason' = r

TopOfLoop ==
  /\ phase = "top"
  /\ IF step = MaxSteps THEN Finish("budget_steps")
     ELSE IF now >= MaxWall THEN Finish("budget_wall")
     ELSE phase' = "llm" /\ UNCHANGED reason
  /\ UNCHANGED <<storeVars, child, step, now, answer, results, toolCalls,
                 messages, steps, transcript, envelopes>>

ModelAnswers(a, t) ==
  /\ phase = "llm"
  /\ now' = now + t
  /\ answer' = a
  /\ results' = <<>>
  /\ messages' = Append(messages, [role |-> "assistant", calls |-> a])
  /\ phase' = "answered"
  /\ UNCHANGED <<storeVars, child, step, toolCalls, steps, transcript,
                 envelopes, reason>>

ModelFails(t) ==
  /\ phase = "llm"
  /\ now' = now + t
  /\ Finish("error")
  /\ UNCHANGED <<storeVars, child, step, answer, results, toolCalls, messages,
                 steps, transcript, envelopes>>

(***************************************************************************)
(* Without tool calls the answer ends the run; calls beyond the budget end *)
(* it too, and none of them runs.  Both are logged as a step.              *)
(***************************************************************************)
StopHere(r) ==
  /\ phase = "answered"
  /\ steps' = Append(steps, [calls |-> answer, results |-> <<>>])
  /\ Log("assistant", "null", "null")
  /\ Finish(r)
  /\ UNCHANGED <<storeVars, child, step, now, answer, results, toolCalls,
                 messages, envelopes>>

Complete == answer = <<>> /\ StopHere("completed")

Overspent == answer # <<>> /\ toolCalls + Len(answer) > MaxToolCalls

RefuseCalls == Overspent /\ StopHere("budget_tool_calls")

\* Faulty variant: the clock is read at the top of the loop only.
NeverLate == FALSE

(***************************************************************************)
(* The second look at the clock: an answer that came too late is neither a *)
(* step nor a line of the transcript.                                      *)
(***************************************************************************)
TooLate == now >= MaxWall

DropAnswer ==
  /\ phase = "answered" /\ answer # <<>> /\ ~Overspent /\ TooLate
  /\ Finish("budget_wall")
  /\ UNCHANGED <<storeVars, child, step, now, answer, results, toolCalls,
                 messages, steps, transcript, envelopes>>

RunCalls ==
  /\ phase = "answered" /\ answer # <<>> /\ ~Overspent /\ ~TooLate
  /\ Log("assistant", "null", "null")
  /\ phase' = "calls"
  /\ UNCHANGED <<storeVars, child, step, now, answer, results, toolCalls,
                 messages, steps, envelopes, reason>>

EndStep ==
  /\ phase = "calls" /\ Len(results) = Len(answer)
  /\ steps' = Append(steps, [calls |-> answer, results |-> results])
  /\ IF \E i \in DOMAIN answer : IsSuccessCriterion(answer[i], results[i])
       THEN Finish("succeeded") /\ UNCHANGED step
       ELSE phase' = "top" /\ step' = step + 1 /\ UNCHANGED reason
  /\ UNCHANGED <<storeVars, child, now, answer, results, toolCalls, messages,
                 transcript, envelopes>>

FinishLine ==
  /\ phase = "finishing"
  /\ Log("finish", Ok(reason), "null")
  /\ phase' = "done"
  /\ UNCHANGED <<storeVars, child, step, now, answer, results, toolCalls,
                 messages, steps, envelopes, reason>>

-----------------------------------------------------------------------------
(***************************************************************************)
(* One tool call.  The bridge refuses what is not on its allow-list        *)
(* without starting anything; otherwise it waits for the child.            *)
(***************************************************************************)
Call == answer[Len(results) + 1]

Invoking == phase = "calls" /\ Len(results) < Len(answer)

Reply(ok, t) ==
  /\ results' = Append(results, ok)
  /\ toolCalls' = toolCalls + 1
  /\ messages' = Append(messages, [role |-> "tool", call |-> Call, ok |-> ok])
  /\ now' = now + t
  /\ phase' = "replied"
  /\ UNCHANGED <<step, answer, steps, transcript, envelopes, reason>>

\* Faulty variant: a refused call gets no reply, only the others do.
RefuseSilently ==
  /\ Invoking /\ Call.tool = "denied"
  /\ results' = Append(results, FALSE)
  /\ phase' = "replied"
  /\ UNCHANGED <<storeVars, child, step, now, answer, toolCalls, messages, steps,
                 transcript, envelopes, reason>>

Refuse ==
  /\ Invoking /\ Call.tool = "denied"
  /\ Reply(FALSE, 0)
  /\ UNCHANGED <<storeVars, child>>

Spawn ==
  /\ Invoking /\ Call.tool # "denied"
  /\ phase' = "running" /\ child' = "started"
  /\ UNCHANGED <<storeVars, step, now, answer, results, toolCalls, messages,
                 steps, transcript, envelopes, reason>>

Collect(t) ==
  /\ phase = "running" /\ child \in {"ok", "failed"}
  /\ Reply(child = "ok", t)
  /\ child' = "none"
  /\ UNCHANGED storeVars

\* Faulty variant: the bridge stops waiting and leaves the child alive.
ExpireUnkilled ==
  /\ phase = "running"
  /\ Reply(FALSE, ToolTimeout)
  /\ child' = "none"
  /\ UNCHANGED storeVars

\* Faulty variant: the bridge is made without a timeout.
ExpireNever == FALSE /\ UNCHANGED vars

(***************************************************************************)
(* TimeoutExpired: the child is killed wherever it stands, even after it   *)
(* has stored its record, and the model is told that the tool failed.      *)
(***************************************************************************)
Expire ==
  /\ phase = "running"
  /\ Reply(FALSE, ToolTimeout)
  /\ child' = "none"
  /\ held' = Release(Agent)
  /\ UNCHANGED <<file, content>>

\* Faulty variant: the envelope file is named before the line it belongs to.
SaveEnvelopeEarly ==
  /\ phase = "replied"
  /\ envelopes' = Assign(envelopes, Len(transcript) - 1, Last(results))
  /\ phase' = "saved"
  /\ UNCHANGED <<storeVars, child, step, now, answer, results, toolCalls,
                 messages, steps, transcript, reason>>

SaveEnvelope ==
  /\ phase = "replied"
  /\ envelopes' = Assign(envelopes, Len(transcript), Last(results))
  /\ phase' = "saved"
  /\ UNCHANGED <<storeVars, child, step, now, answer, results, toolCalls,
                 messages, steps, transcript, reason>>

LogTool ==
  /\ phase = "saved"
  /\ Log("tool", Last(results), Len(transcript))
  /\ phase' = "calls"
  /\ UNCHANGED <<storeVars, child, step, now, answer, results, toolCalls,
                 messages, steps, envelopes, reason>>

(***************************************************************************)
(* The child: a command of HypothesisStore, or a tool that edits nothing.  *)
(* It goes on when the loop dies.                                          *)
(***************************************************************************)
EditsRecord(call) == call.tool \in EditingTools

\* Faulty variant: the status is set without require_transition.
LoadAny(call) ==
  \/ call.tool = "hypothesis_set_status" /\ CmdSetAnyStatus(Agent, call.hyp, call.status)
  \/ call.tool = "hypothesis_score"      /\ CmdScore(Agent, call.hyp)
  \/ call.tool = "hypothesis_init"       /\ CmdInit(Agent, call.hyp, call.method)
  \/ call.tool = "hypothesis_propose"    /\ CmdPropose(Agent, call.hyp, call.method)

Load(call) ==
  \/ call.tool = "hypothesis_set_status" /\ CmdSetStatus(Agent, call.hyp, call.status)
  \/ call.tool = "hypothesis_score"      /\ CmdScore(Agent, call.hyp)
  \/ call.tool = "hypothesis_init"       /\ CmdInit(Agent, call.hyp, call.method)
  \/ call.tool = "hypothesis_propose"    /\ CmdPropose(Agent, call.hyp, call.method)

ChildLoads ==
  /\ child = "started" /\ EditsRecord(Call)
  /\ Load(Call)
  /\ child' = "storing"
  /\ UNCHANGED loopVars

ChildTruncates ==
  /\ child = "storing"
  /\ Truncate(Agent)
  /\ UNCHANGED <<child, loopVars>>

ChildWrites ==
  /\ child = "storing"
  /\ Write(Agent)
  /\ child' = "ok"
  /\ UNCHANGED loopVars

ChildEditsNothing ==
  /\ child = "started" /\ ~EditsRecord(Call)
  /\ child' = "ok"
  /\ UNCHANGED <<storeVars, loopVars>>

(***************************************************************************)
(* Any error of the tool, a refused transition or an unreadable record     *)
(* among them, and any crash of it: whatever it held is not written.       *)
(***************************************************************************)
ChildFails ==
  /\ child \in {"started", "storing"}
  /\ child' = "failed"
  /\ held' = Release(Agent)
  /\ UNCHANGED <<file, content, loopVars>>

-----------------------------------------------------------------------------
LoopDies ==
  /\ phase \notin {"done", "died"}
  /\ phase' = "died"
  /\ UNCHANGED <<storeVars, child, step, now, answer, results, toolCalls,
                 messages, steps, transcript, envelopes, reason>>

UserStep ==
  /\ \/ \E h \in Hyps : Command(User, h)
     \/ Truncate(User) \/ Write(User) \/ Crash(User)
  /\ UNCHANGED <<child, loopVars>>

LoopStep ==
  \/ TopOfLoop \/ Complete \/ RefuseCalls \/ DropAnswer \/ RunCalls \/ EndStep
  \/ FinishLine \/ Refuse \/ Spawn \/ Expire \/ SaveEnvelope \/ LogTool
  \/ \E t \in 0..LlmMax : ModelFails(t) \/ \E a \in Answers : ModelAnswers(a, t)
  \/ \E t \in 0..ToolTimeout : Collect(t)

ChildStep ==
  ChildLoads \/ ChildTruncates \/ ChildWrites \/ ChildEditsNothing \/ ChildFails

Next == LoopStep \/ ChildStep \/ UserStep \/ LoopDies

(***************************************************************************)
(* The loop is sequential code that is always runnable: a request to the   *)
(* model and a wait for a child both end after a bounded time.  Nothing is *)
(* asked of the children or of the user.                                   *)
(***************************************************************************)
Spec == Init /\ [][Next]_vars /\ WF_vars(LoopStep)

-----------------------------------------------------------------------------
Message ==
  [role : {"assistant"}, calls : Answers] \cup
  [role : {"tool"}, call : Calls, ok : BOOLEAN]

TypeOK ==
  /\ phase \in Phases /\ child \in ChildStates
  /\ reason \in StopReasons \cup {"none"}
  /\ step \in 0..MaxSteps /\ now \in Nat /\ toolCalls \in Nat
  /\ answer \in Answers \cup {<<>>}
  /\ results \in Seq(BOOLEAN) /\ Len(results) <= Len(answer)
  /\ messages \in Seq(Message)
  /\ steps \in Seq([calls : Answers, results : Seq(BOOLEAN)])
  /\ DOMAIN envelopes \subseteq Nat
  /\ child = "storing" <=> Agent \in DOMAIN held

(***************************************************************************)
(* A record the agent's child is storing is stored by the rules of the     *)
(* workspace: the loop, its time limits and its death add no behaviour     *)
(* that two tools taking turns do not have, so what HypothesisTools proves *)
(* holds for a workspace that an agent edits.  It is not said of an agent  *)
(* that calls search_cycle, for that tool makes a record afresh over what  *)
(* a killed child left, where parcae-hypothesis gives up                   *)
(* (AdvancedStatusPreserved of SearchCycle).                               *)
(***************************************************************************)
Workspace == INSTANCE HypothesisTools

WorkspaceSpec == Workspace!Spec

(***************************************************************************)
(* What is sent to the model is a conversation it accepts: the calls of    *)
(* every earlier answer have their replies right behind it, in the order   *)
(* asked, and there is no reply that nothing asked for.                    *)
(***************************************************************************)
RepliesFollow(i) ==
  \A j \in DOMAIN messages[i].calls :
    /\ i + j \in DOMAIN messages
    /\ messages[i + j].role = "tool"
    /\ messages[i + j].call = messages[i].calls[j]

Asked(i) ==
  \E j \in 1..(i - 1) :
    messages[j].role = "assistant" /\ i - j \in DOMAIN messages[j].calls

EveryCallAnswered ==
  phase = "llm" =>
    \A i \in DOMAIN messages :
      IF messages[i].role = "tool" THEN Asked(i) ELSE RepliesFollow(i)

(***************************************************************************)
(* The transcript tells what happened, wherever the loop died: line i + 2  *)
(* is about message i, and at most the last message lacks its line; a tool *)
(* line has the outcome the model was told and refers to an envelope with  *)
(* that outcome; at most one envelope belongs to no line.                  *)
(***************************************************************************)
Finished == Last(transcript).role = "finish"

LineTells(i) ==
  LET line == transcript[i + 2] IN
    /\ line.role = messages[i].role
    /\ line.role = "tool" =>
         /\ line.ok = messages[i].ok
         /\ line.ref \in DOMAIN envelopes /\ envelopes[line.ref] = line.ok

TranscriptFaithful ==
  LET told == Len(transcript) - (IF Finished THEN 3 ELSE 2) IN
    /\ \A i \in DOMAIN transcript : transcript[i].seq = i - 1
    /\ told \in {Len(messages) - 1, Len(messages)}
    /\ \A i \in 1..told : LineTells(i)
    /\ \A s \in DOMAIN envelopes :
         s = Len(transcript) \/ transcript[s + 1].role = "tool"
    /\ Finished <=> phase = "done"
    /\ Finished => Last(transcript).ok = Ok(reason)

(***************************************************************************)
(* "succeeded" is said of a run in which a call met the criterion, and of  *)
(* no other; if that call was a promotion, the record is promoted on disk  *)
(* and stays so, whatever the user's tools do next.                        *)
(***************************************************************************)
Meets(s, i) == IsSuccessCriterion(s.calls[i], s.results[i])

SucceededIsTrue ==
  IF reason = "succeeded"
    THEN \E i \in DOMAIN Last(steps).results :
           /\ Meets(Last(steps), i)
           /\ LET call == Last(steps).calls[i] IN
                call.tool = "hypothesis_set_status" =>
                  call.hyp \in DOMAIN content /\ content[call.hyp].status = "promoted"
    ELSE \A k \in DOMAIN steps : \A i \in DOMAIN steps[k].results : ~Meets(steps[k], i)

(***************************************************************************)
(* The budgets.  Steps and calls are never exceeded; the clock is read     *)
(* between answers and before their calls, so a run may outlast its wall   *)
(* budget by one request to the model or by the calls of one answer.       *)
(***************************************************************************)
Longest == Max({LlmMax, MaxToolCalls * ToolTimeout})

BudgetsHold ==
  /\ toolCalls <= MaxToolCalls
  /\ Len(steps) <= MaxSteps
  /\ now < MaxWall + Longest

(***************************************************************************)
(* Every run ends, with a reason or by dying, even if each child hangs.    *)
(***************************************************************************)
RunEnds == <>(phase \in {"done", "died"})
=============================================================================
