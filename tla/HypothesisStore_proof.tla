----------------------- MODULE HypothesisStore_proof -----------------------
(***************************************************************************)
(* Lemmas about the store of hypothesis records that the proofs about the  *)
(* tools and about the search cycle share: what each step of a process     *)
(* does to the records, for any processes, ids and methods.                *)
(***************************************************************************)
EXTENDS HypothesisStore, TLAPS

(***************************************************************************)
(* What a tool computes from a record is a record, and follows from it.    *)
(***************************************************************************)
LEMMA RecordTypes ==
  /\ \A m \in Methods : MakeDraft(m) \in Record
  /\ \A rec \in Record, m \in Methods : Proposed(rec, m) \in Record
  /\ \A rec \in Record : Scored(rec) \in Record
  /\ \A rec \in Record, s \in Status : [rec EXCEPT !.status = s] \in Record
BY DEF MakeDraft, Proposed, Scored, Record, Status

LEMMA ToolsFollow ==
  /\ \A rec \in Record, m \in Methods :
       Reach(rec.status, Proposed(rec, m).status) /\ Proposed(rec, m).scored = rec.scored
  /\ \A rec \in Record :
       Reach(rec.status, Scored(rec).status) /\ rec.scored \subseteq Scored(rec).scored
  /\ \A rec \in Record, s \in Status :
       CanTransition(rec.status, s) =>
         /\ Reach(rec.status, [rec EXCEPT !.status = s].status)
         /\ [rec EXCEPT !.status = s].scored = rec.scored
<1>1. \A from, to \in Status : CanTransition(from, to) => Reach(from, to)
  BY DEF CanTransition, Reach
<1>2. ASSUME NEW rec \in Record, NEW m \in Methods
      PROVE  /\ Reach(rec.status, Proposed(rec, m).status)
             /\ Proposed(rec, m).scored = rec.scored
  <2>1. Proposed(rec, m).status = IF rec.status = "draft" THEN "proposed" ELSE rec.status
    BY DEF Proposed, Record
  <2>2. CanTransition(rec.status, Proposed(rec, m).status)
    BY <2>1 DEF CanTransition
  <2> QED BY <1>1, <2>1, <2>2 DEF Proposed, Record, Status
<1>3. ASSUME NEW rec \in Record
      PROVE  /\ Reach(rec.status, Scored(rec).status)
             /\ rec.scored \subseteq Scored(rec).scored
  <2>1. Scored(rec).status = IF rec.status \in {"draft", "proposed"} THEN "scored" ELSE rec.status
    BY DEF Scored, Record
  <2>2. CASE rec.status = "draft"
    BY <2>1, <2>2 DEF Reach, CanTransition, Status, Scored, Record
  <2>3. CASE rec.status # "draft"
    <3>1. CanTransition(rec.status, Scored(rec).status)
      BY <2>1, <2>3 DEF CanTransition
    <3> QED BY <1>1, <2>1, <3>1 DEF Scored, Record, Status
  <2> QED BY <2>2, <2>3
<1>4. ASSUME NEW rec \in Record, NEW s \in Status, CanTransition(rec.status, s)
      PROVE  /\ Reach(rec.status, [rec EXCEPT !.status = s].status)
             /\ [rec EXCEPT !.status = s].scored = rec.scored
  BY <1>1, <1>4 DEF Record
<1> QED BY <1>2, <1>3, <1>4

(***************************************************************************)
(* A command makes its process hold a record that follows from the disk.   *)
(***************************************************************************)
LEMMA CommandFollows ==
  ASSUME StoreTypeOK, NEW p \in Procs, NEW h, Command(p, h)
  PROVE  \E rec \in Record : Hold(p, h, rec) /\ Follows(h, rec)
<1> DEFINE Goal == \E rec \in Record : Hold(p, h, rec) /\ Follows(h, rec)
<1>1. Loads(h) => h \in DOMAIN content /\ content[h] \in Record
  BY DEF Loads, Exists, StoreTypeOK
<1>2. ~Exists(h) => h \notin DOMAIN content
  BY DEF Exists, StoreTypeOK
<1>3. ASSUME NEW m \in Methods, ~Exists(h)
      PROVE  Follows(h, MakeDraft(m)) /\ Follows(h, Proposed(MakeDraft(m), m))
  BY <1>2, <1>3 DEF MakeDraft, Proposed, Follows
<1>4. ASSUME NEW m \in Methods, CmdInit(p, h, m) PROVE Goal
  BY <1>3, <1>4, RecordTypes DEF CmdInit
<1>5. ASSUME NEW m \in Methods, CmdPropose(p, h, m) PROVE Goal
  <2>1. CASE ~Exists(h) /\ Hold(p, h, Proposed(MakeDraft(m), m))
    BY <1>3, <2>1, RecordTypes
  <2>2. CASE Loads(h) /\ Hold(p, h, Proposed(content[h], m))
    <3>1. Follows(h, Proposed(content[h], m))
      BY <1>1, <2>2, ToolsFollow DEF Follows
    <3> QED BY <1>1, <2>2, <3>1, RecordTypes
  <2> QED BY <1>5, <2>1, <2>2 DEF CmdPropose
<1>6. ASSUME CmdScore(p, h) PROVE Goal
  <2>1. Follows(h, Scored(content[h]))
    BY <1>1, <1>6, ToolsFollow DEF CmdScore, Follows
  <2> QED BY <1>1, <1>6, <2>1, RecordTypes DEF CmdScore
<1>7. ASSUME NEW s \in Status, CmdSetStatus(p, h, s) PROVE Goal
  <2>1. Follows(h, [content[h] EXCEPT !.status = s])
    BY <1>1, <1>7, ToolsFollow DEF CmdSetStatus, Follows
  <2> QED BY <1>1, <1>7, <2>1, RecordTypes DEF CmdSetStatus
<1> QED BY <1>4, <1>5, <1>6, <1>7 DEF Command

-----------------------------------------------------------------------------
(***************************************************************************)
(* A step of anybody, seen from the store; and one that makes a process    *)
(* hold only what follows from the disk.                                   *)
(***************************************************************************)
Stores(p) == Truncate(p) \/ Write(p)
Dies(p) == CanCrash /\ held' = Release(p) /\ UNCHANGED <<file, content>>

StoreStep ==
  \/ UNCHANGED storeVars
  \/ \E p \in Procs : Stores(p) \/ Dies(p) \/ \E h : \E rec \in Record : Hold(p, h, rec)

FollowingStep ==
  \/ UNCHANGED storeVars
  \/ \E p \in Procs :
       Stores(p) \/ Dies(p) \/ \E h : \E rec \in Record : Hold(p, h, rec) /\ Follows(h, rec)

LEMMA StoreStepTypes ==
  ASSUME StoreTypeOK, StoreStep
  PROVE  StoreTypeOK' /\ DOMAIN file \subseteq DOMAIN file'
<1> USE DEF StoreTypeOK
<1> DEFINE Goal == StoreTypeOK' /\ DOMAIN file \subseteq DOMAIN file'
<1>1. CASE UNCHANGED storeVars
  BY <1>1 DEF storeVars
<1>2. ASSUME NEW p \in Procs, NEW h, NEW rec \in Record, Hold(p, h, rec) PROVE Goal
  BY <1>2 DEF Hold, Assign
<1>3. ASSUME NEW p \in Procs, Truncate(p) PROVE Goal
  BY <1>3 DEF Truncate, Assign, FileState
<1>4. ASSUME NEW p \in Procs, Write(p) PROVE Goal
  BY <1>4 DEF Write, Assign, FileState, Release, Restrict
<1>5. ASSUME NEW p \in Procs, Dies(p) PROVE Goal
  BY <1>5 DEF Dies, Release, Restrict
<1> QED BY <1>1, <1>2, <1>3, <1>4, <1>5 DEF StoreStep, Stores

LEMMA StepFollows ==
  ASSUME ~Overlap, StoreTypeOK, HeldFollowsDisk, FollowingStep
  PROVE  HeldFollowsDisk'
<1>1. ASSUME NEW p \in Procs, NEW h, NEW rec \in Record, Hold(p, h, rec), Follows(h, rec)
      PROVE  HeldFollowsDisk'
  <2>1. /\ DOMAIN held' = {p}
        /\ held'[p] = [hyp |-> h, rec |-> rec, phase |-> "loaded"]
        /\ UNCHANGED <<file, content>>
    BY <1>1 DEF Hold, Assign
  <2> QED BY <1>1, <2>1 DEF HeldFollowsDisk, Follows
<1>2. ASSUME NEW p \in Procs, Truncate(p) PROVE HeldFollowsDisk'
  BY <1>2 DEF Truncate, HeldFollowsDisk, Follows, Assign, StoreTypeOK
<1>3. ASSUME NEW p \in Procs, Write(p) PROVE HeldFollowsDisk'
  <2>1. DOMAIN held' = {}
    BY <1>3 DEF Write, Release, Restrict, HeldFollowsDisk
  <2> QED BY <2>1 DEF HeldFollowsDisk
<1>4. ASSUME NEW p \in Procs, Dies(p) PROVE HeldFollowsDisk'
  BY <1>4 DEF Dies, Release, Restrict, HeldFollowsDisk, Follows
<1>5. CASE UNCHANGED storeVars
  BY <1>5 DEF storeVars, HeldFollowsDisk, Follows
<1> QED BY <1>1, <1>2, <1>3, <1>4, <1>5 DEF FollowingStep, Stores

(***************************************************************************)
(* Only a write changes what has been recorded, and, taking turns, only to *)
(* what the writing process holds; so a record stays, may reach its new    *)
(* status, and keeps its scores.                                           *)
(***************************************************************************)
LEMMA OnlyWritesRecord ==
  ASSUME HeldFollowsDisk, StoreStep
  PROVE  \/ UNCHANGED content
         \/ \E p \in DOMAIN held : content' = Assign(content, held[p].hyp, held[p].rec)
<1>1. ASSUME NEW p \in Procs, Write(p)
      PROVE  p \in DOMAIN held /\ content' = Assign(content, held[p].hyp, held[p].rec)
  BY <1>1 DEF Write, HeldFollowsDisk
<1> QED BY <1>1 DEF StoreStep, Stores, Truncate, Dies, Hold, storeVars

LEMMA RecordsFollow ==
  ASSUME StoreTypeOK, HeldFollowsDisk, StoreStep, NEW h \in DOMAIN content
  PROVE  /\ h \in DOMAIN content'
         /\ Reach(content[h].status, content'[h].status)
         /\ content[h].scored \subseteq content'[h].scored
<1>1. CASE UNCHANGED content
  BY <1>1 DEF StoreTypeOK, Record, Reach, CanTransition
<1>2. ASSUME NEW p \in DOMAIN held, content' = Assign(content, held[p].hyp, held[p].rec)
      PROVE  /\ h \in DOMAIN content'
             /\ Reach(content[h].status, content'[h].status)
             /\ content[h].scored \subseteq content'[h].scored
  <2>1. CASE h = held[p].hyp
    BY <1>2, <2>1 DEF Assign, HeldFollowsDisk, Follows
  <2>2. CASE h # held[p].hyp
    BY <1>2, <2>2 DEF Assign, StoreTypeOK, Record, Reach, CanTransition
  <2> QED BY <2>1, <2>2
<1> QED BY <1>1, <1>2, OnlyWritesRecord

(***************************************************************************)
(* Every write creates a record as a draft or a proposal, or follows the   *)
(* transition table; any other step of the store is a stutter.             *)
(***************************************************************************)
LEMMA StepKeepsLifecycle ==
  ASSUME StoreTypeOK, HeldFollowsDisk, StoreStep
  PROVE  Lifecycle!Next \/ UNCHANGED [h \in DOMAIN content |-> content[h].status]
<1> DEFINE life == [h \in DOMAIN content |-> content[h].status]
<1>1. CASE UNCHANGED content
  BY <1>1
<1>2. ASSUME NEW p \in DOMAIN held, content' = Assign(content, held[p].hyp, held[p].rec)
      PROVE  Lifecycle!Next
  <2> DEFINE h == held[p].hyp
             s == held[p].rec.status
  <2>1. s \in Status /\ Follows(h, held[p].rec)
    BY <1>2 DEF StoreTypeOK, HeldFollowsDisk, Record
  <2>2. /\ DOMAIN content' = DOMAIN content \cup {h}
        /\ \A x \in DOMAIN content' :
             content'[x] = IF x = h THEN held[p].rec ELSE content[x]
    BY <1>2 DEF Assign
  <2>3. life' = [x \in DOMAIN life \cup {h} |-> IF x = h THEN s ELSE life[x]]
    BY <2>2
  <2>4. CASE h \notin DOMAIN content
    BY <2>1, <2>2, <2>3, <2>4
    DEF Lifecycle!Next, Lifecycle!Create, Lifecycle!Status, Status, Follows
  <2>5. CASE h \in DOMAIN content
    <3>1. life' = [life EXCEPT ![h] = s]
      BY <2>3, <2>5
    <3>2. Lifecycle!Reach(life[h], s)
      BY <2>1, <2>5 DEF Follows, Reach, Lifecycle!Reach, CanTransition,
                        Lifecycle!CanTransition, Status, Lifecycle!Status
    <3> QED BY <2>1, <2>2, <2>5, <3>1, <3>2
            DEF Lifecycle!Next, Lifecycle!Advance, Lifecycle!Status, Status
  <2> QED BY <2>4, <2>5
<1> QED BY <1>1, <1>2, OnlyWritesRecord

(***************************************************************************)
(* A file is only truncated by the process that is about to write it, and, *)
(* where nobody dies, that process does.                                   *)
(***************************************************************************)
Written(h) == \E p \in DOMAIN held : held[p].hyp = h /\ held[p].phase = "writing"

LEMMA StepKeepsReadable ==
  ASSUME ~CanCrash, StoreTypeOK, HeldFollowsDisk, UnreadableOnlyWhileStored, StoreStep
  PROVE  UnreadableOnlyWhileStored'
<1> USE DEF UnreadableOnlyWhileStored, Written, Loads, Exists
<1>1. ASSUME NEW p \in Procs, NEW h, NEW rec \in Record, Hold(p, h, rec)
      PROVE  UnreadableOnlyWhileStored'
  <2>1. /\ UNCHANGED file
        /\ p \notin DOMAIN held
        /\ \A q \in DOMAIN held : q \in DOMAIN held' /\ held'[q] = held[q]
    BY <1>1 DEF Hold, Assign
  <2>2. \A g : Written(g) => Written(g)'
    BY <2>1
  <2> QED BY <2>1, <2>2
<1>2. ASSUME NEW p \in Procs, Truncate(p) PROVE UnreadableOnlyWhileStored'
  <2>1. /\ p \in DOMAIN held /\ DOMAIN held' = DOMAIN held
        /\ held'[p].hyp = held[p].hyp /\ held'[p].phase = "writing"
        /\ held[p].phase = "loaded" /\ \A q \in DOMAIN held : q = p
        /\ file' = Assign(file, held[p].hyp, "empty")
    BY <1>2 DEF Truncate, StoreTypeOK, HeldFollowsDisk
  <2>2. \A h \in DOMAIN file' :
          h # held[p].hyp => h \in DOMAIN file /\ file'[h] = file[h]
    BY <2>1 DEF Assign
  <2>3. \A h : ~Written(h)
    BY <2>1
  <2>4. \A h : h = held[p].hyp => Written(h)'
    BY <2>1
  <2>5. ASSUME NEW h \in DOMAIN file' PROVE Loads(h)' \/ Written(h)'
    <3>1. CASE h = held[p].hyp
      BY <2>4, <3>1
    <3>2. CASE h # held[p].hyp
      BY <2>2, <2>3, <3>2
    <3> QED BY <3>1, <3>2
  <2> QED BY <2>5
<1>3. ASSUME NEW p \in Procs, Write(p) PROVE UnreadableOnlyWhileStored'
  <2>1. /\ p \in DOMAIN held /\ \A q \in DOMAIN held : q = p
        /\ file' = Assign(file, held[p].hyp, "whole")
    BY <1>3 DEF Write, HeldFollowsDisk
  <2>2. \A h \in DOMAIN file' :
          IF h = held[p].hyp THEN file'[h] = "whole"
                             ELSE h \in DOMAIN file /\ file'[h] = file[h]
    BY <2>1 DEF Assign
  <2>3. \A h : h # held[p].hyp => ~Written(h)
    BY <2>1
  <2> QED BY <2>2, <2>3
<1>4. ASSUME NEW p \in Procs, Dies(p) PROVE FALSE
  BY <1>4 DEF Dies
<1>5. CASE UNCHANGED storeVars
  BY <1>5 DEF storeVars
<1> QED BY <1>1, <1>2, <1>3, <1>4, <1>5 DEF StoreStep, Stores
=============================================================================
