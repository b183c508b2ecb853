-------------------------- MODULE HypothesisTools --------------------------
(***************************************************************************)
(* Several people or agents running parcae-hypothesis on one workspace.    *)
(***************************************************************************)
EXTENDS HypothesisStore

CONSTANT Hyps    \* the hypothesis ids given on the command lines

Next ==
  \E p \in Procs :
    \/ \E h \in Hyps : Command(p, h)
    \/ Truncate(p)
    \/ Write(p)
    \/ Crash(p)

Spec == StoreInit /\ [][Next]_storeVars

-----------------------------------------------------------------------------
(***************************************************************************)
(* Types: a file is in one of the three states, the ones that load hold a  *)
(* record, and a process holds one record on its way to disk.              *)
(***************************************************************************)
TypeOK ==
  /\ StoreTypeOK
  /\ \A p \in DOMAIN held : held[p].hyp \in Hyps
=============================================================================
