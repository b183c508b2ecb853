-------------------------- MODULE HypothesisStore --------------------------
(***************************************************************************)
(* The hypothesis records of one workspace, one JSON file each, and the    *)
(* tools that edit them (parcae-hypothesis init, propose, score and        *)
(* set-status).  Every tool is a process that loads a record, changes it   *)
(* in memory and stores it; HypothesisRecord::store truncates the file in  *)
(* place and then writes the body, and nothing locks the file.             *)
(***************************************************************************)
EXTENDS HypothesisStatus, Functions

CONSTANTS
  Procs,       \* the processes that edit records
  Methods,     \* transform envelopes, the "method" of a record
  Saved,       \* the records a workspace may hold before any tool runs
  Overlap,     \* may two processes hold records at the same time?
  CanCrash     \* may a process die between its load and the end of its store?

(***************************************************************************)
(* A record, reduced to the fields whose life the properties are about:    *)
(* scored collects the methods for which scores[] has an entry.            *)
(***************************************************************************)
Record == [status : Status, method : Methods, scored : SUBSET Methods]

ASSUME StoreAssumption ==
  /\ Overlap \in BOOLEAN /\ CanCrash \in BOOLEAN
  /\ \A saved \in Saved : \A h \in DOMAIN saved : saved[h] \in Record

VARIABLES
  file,        \* file[h]: what is at hypotheses/<h>.json
  content,     \* content[h]: the last complete body written there
  held         \* held[p]: what process p has loaded and is about to store

storeVars == <<file, content, held>>

(***************************************************************************)
(* "whole": content[h] can be loaded.  "empty": truncated (or cut short),  *)
(* not valid JSON.  "mixed": the bodies of two overlapping stores, the     *)
(* longer one showing behind the shorter; not valid JSON either.           *)
(***************************************************************************)
FileState == {"whole", "empty", "mixed"}

Assign(f, x, v) == [y \in DOMAIN f \cup {x} |-> IF y = x THEN v ELSE f[y]]
Release(p) == Restrict(held, DOMAIN held \ {p})

Exists(h) == h \in DOMAIN file
Loads(h) == Exists(h) /\ file[h] = "whole"

StoreInit ==
  /\ content \in Saved
  /\ file = [h \in DOMAIN content |-> "whole"]
  /\ held = [p \in {} |-> p]

(***************************************************************************)
(* Process p has loaded or made a record and goes on to store rec at h.    *)
(***************************************************************************)
Hold(p, h, rec) ==
  /\ p \notin DOMAIN held
  /\ Overlap \/ DOMAIN held = {}
  /\ held' = Assign(held, p, [hyp |-> h, rec |-> rec, phase |-> "loaded"])
  /\ UNCHANGED <<file, content>>

MakeDraft(m) == [status |-> "draft", method |-> m, scored |-> {}]

(***************************************************************************)
(* cmd_init refuses a file that exists, readable or not.                   *)
(***************************************************************************)
CmdInit(p, h, m) ==
  /\ ~Exists(h)
  /\ Hold(p, h, MakeDraft(m))

\* Faulty variant: a new method starts the scores again.
ProposedAfresh(rec, m) ==
  [rec EXCEPT !.method = m, !.scored = {},
              !.status = IF rec.status = "draft" THEN "proposed" ELSE rec.status]

(***************************************************************************)
(* cmd_propose: a new record, or a new method for an old one.  Only a      *)
(* draft changes status, and nothing else of an old record is reset.       *)
(***************************************************************************)
Proposed(rec, m) ==
  [rec EXCEPT !.method = m,
              !.status = IF rec.status = "draft" THEN "proposed" ELSE rec.status]

CmdPropose(p, h, m) ==
  \/ ~Exists(h) /\ Hold(p, h, Proposed(MakeDraft(m), m))
  \/ Loads(h) /\ Hold(p, h, Proposed(content[h], m))

(***************************************************************************)
(* cmd_score appends an entry for the record's method and takes a draft or *)
(* a proposal to "scored"; a decided record keeps its status.              *)
(***************************************************************************)
Scored(rec) ==
  [rec EXCEPT !.scored = @ \cup {rec.method},
              !.status = IF rec.status \in {"draft", "proposed"}
                           THEN "scored" ELSE rec.status]

CmdScore(p, h) ==
  /\ Loads(h)
  /\ Hold(p, h, Scored(content[h]))

\* Faulty variant: set-status without require_transition.
CmdSetAnyStatus(p, h, s) ==
  /\ Loads(h)
  /\ Hold(p, h, [content[h] EXCEPT !.status = s])

(***************************************************************************)
(* cmd_set_status: require_transition, then set_status.                    *)
(***************************************************************************)
CmdSetStatus(p, h, s) ==
  /\ Loads(h)
  /\ CanTransition(content[h].status, s)
  /\ Hold(p, h, [content[h] EXCEPT !.status = s])

(***************************************************************************)
(* One parcae-hypothesis command of process p on hypothesis h.             *)
(***************************************************************************)
Command(p, h) ==
  \/ \E m \in Methods : CmdInit(p, h, m) \/ CmdPropose(p, h, m)
  \/ CmdScore(p, h)
  \/ \E s \in Status : CmdSetStatus(p, h, s)

\* Faulty variant: the stream is opened without std::ios::trunc.
OpenWithoutTrunc(p) ==
  /\ p \in DOMAIN held
  /\ held[p].phase = "loaded"
  /\ file' = IF Exists(held[p].hyp) THEN file ELSE Assign(file, held[p].hyp, "empty")
  /\ held' = [held EXCEPT ![p].phase = "writing"]
  /\ UNCHANGED content

(***************************************************************************)
(* HypothesisRecord::store: opening the stream truncates the file.         *)
(***************************************************************************)
Truncate(p) ==
  /\ p \in DOMAIN held
  /\ held[p].phase = "loaded"
  /\ file' = Assign(file, held[p].hyp, "empty")
  /\ held' = [held EXCEPT ![p].phase = "writing"]
  /\ UNCHANGED content

(***************************************************************************)
(* The body goes out from offset 0.  If another process has written since  *)
(* this one truncated, a body shorter than what is there leaves a tail.    *)
(***************************************************************************)
Write(p) ==
  /\ p \in DOMAIN held
  /\ held[p].phase = "writing"
  /\ LET h == held[p].hyp IN
       \/ /\ file' = Assign(file, h, "whole")
          /\ content' = Assign(content, h, held[p].rec)
       \/ /\ file[h] # "empty"
          /\ file' = Assign(file, h, "mixed")
          /\ UNCHANGED content
  /\ held' = Release(p)

(***************************************************************************)
(* The process is killed: what it held is gone, the file stays as it is.   *)
(***************************************************************************)
Crash(p) ==
  /\ CanCrash
  /\ p \in DOMAIN held
  /\ held' = Release(p)
  /\ UNCHANGED <<file, content>>

-----------------------------------------------------------------------------
(***************************************************************************)
(* Types: a file is in one of the three states, the ones that load hold a  *)
(* record, and a process holds one record on its way to disk.              *)
(***************************************************************************)
StoreTypeOK ==
  /\ DOMAIN content \subseteq DOMAIN file
  /\ \A h \in DOMAIN file :
       file[h] \in FileState /\ (file[h] = "whole" => h \in DOMAIN content)
  /\ \A h \in DOMAIN content : content[h] \in Record
  /\ DOMAIN held \subseteq Procs
  /\ \A p \in DOMAIN held :
       held[p] \in [hyp : {held[p].hyp}, rec : Record, phase : {"loaded", "writing"}]

(***************************************************************************)
(* The workspace keeps the promise of HypothesisLifecycle: no sequence of  *)
(* init, propose, score and set-status, whoever issues it and wherever a   *)
(* process dies, makes a recorded status leave the transition table, and   *)
(* no search that ingests over existing records takes a decision back.  It *)
(* needs the tools to take turns (Overlap = FALSE): nothing locks a file.  *)
(***************************************************************************)
Lifecycle ==
  INSTANCE HypothesisLifecycle
    WITH life <- [h \in DOMAIN content |-> content[h].status]

LifecycleSpec == Lifecycle!Spec

(***************************************************************************)
(* Why it holds: as long as the tools take turns, what a process is about  *)
(* to store still follows from what is on disk, however long ago it loaded *)
(* it: the record it replaces may reach its status and has no score that   *)
(* it lacks, and while the file is empty nobody has anything else to write.*)
(***************************************************************************)
Follows(h, rec) ==
  IF h \in DOMAIN content
    THEN /\ Reach(content[h].status, rec.status)
         /\ content[h].scored \subseteq rec.scored
    ELSE rec.status \in {"draft", "proposed"}

HeldFollowsDisk ==
  /\ \A p, q \in DOMAIN held : p = q
  /\ \A p \in DOMAIN held :
       /\ Follows(held[p].hyp, held[p].rec)
       /\ held[p].phase = "writing" =>
            held[p].hyp \in DOMAIN file /\ file[held[p].hyp] = "empty"

(***************************************************************************)
(* scores[] is append-only over the whole life of a record: neither a new  *)
(* proposal for the same id nor a decision nor a search that ingests over  *)
(* the record again drops an entry.                                        *)
(***************************************************************************)
ScoresSurvive ==
  [][\A h \in DOMAIN content :
       /\ h \in DOMAIN content'
       /\ content[h].scored \subseteq content'[h].scored]_storeVars

(***************************************************************************)
(* Where no process dies and the tools take turns, a record that no tool   *)
(* can load is being stored at this very moment; so a scan or an ingest    *)
(* that fails to load one has met a store in progress, never a remainder.  *)
(***************************************************************************)
UnreadableOnlyWhileStored ==
  \A h \in DOMAIN file :
    \/ Loads(h)
    \/ \E p \in DOMAIN held : held[p].hyp = h /\ held[p].phase = "writing"
=============================================================================
