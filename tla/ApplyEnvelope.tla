--------------------------- MODULE ApplyEnvelope ---------------------------
(***************************************************************************)
(* An envelope names what to apply: a transform of the catalog, a recipe   *)
(* of them, or a theory.  It is routed to one of the three, and the others *)
(* do not run.  The device has kernels of its own that do the same, a      *)
(* search scores the transforms and theories there by counting, and a      *)
(* composition of theories is fused to one or left a recipe.               *)
(***************************************************************************)
EXTENDS StreamCipher, FusedHist, CandidateExport, DslFuse

VARIABLE route      \* "catalog", "compose", "theory", "device", "count", "export" or "fuse"

envelopeVars ==
  <<route, streamVars, composeVars, searchVars, deviceVars, countVars, exportVars, fuseVars>>

StreamIdle ==
  /\ cipher = CHOOSE c \in Ciphers : TRUE
  /\ plain = CHOOSE t \in Plains : TRUE
  /\ pass = "start" /\ secret = <<>> /\ trace = <<>>
  /\ kernel = Called(plain, Zeros(Len(plain)))

ComposeIdle ==
  /\ recipe = 1 /\ message = CHOOSE m \in Messages : TRUE
  /\ phase = "start" /\ calls = <<>>
  /\ memory = CallerBuffers(message)

TheoryIdle == theory = NoTheory /\ TheoryAtSource /\ FusedIdle

DeviceIdle ==
  /\ job = 1 /\ devStep = "called" /\ ran = 0 /\ devMem = <<>>
  /\ launch = NoLaunch /\ threads = <<>> /\ hostOut = FreshOut

FuseIdle == composition = NoComposition /\ FuseAtSource

EnvelopeInit ==
  \/ route = "catalog" /\ StreamInit /\ ComposeIdle /\ TheoryIdle /\ DeviceIdle
       /\ CountIdle /\ ExportIdle /\ FuseIdle
  \/ route = "compose" /\ StreamIdle /\ ComposeInit /\ TheoryIdle /\ DeviceIdle
       /\ CountIdle /\ ExportIdle /\ FuseIdle
  \/ route = "theory" /\ StreamIdle /\ ComposeIdle /\ SearchInit /\ DeviceIdle
       /\ CountIdle /\ ExportIdle /\ FuseIdle
  \/ route = "device" /\ StreamIdle /\ ComposeIdle /\ TheoryIdle /\ DeviceInit
       /\ CountIdle /\ ExportIdle /\ FuseIdle
  \/ route = "count" /\ StreamIdle /\ ComposeIdle /\ TheoryIdle /\ DeviceIdle
       /\ CountInit /\ ExportIdle /\ FuseIdle
  \/ route = "export" /\ StreamIdle /\ ComposeIdle /\ TheoryIdle /\ DeviceIdle
       /\ CountIdle /\ ExportInit /\ FuseIdle
  \/ route = "fuse" /\ StreamIdle /\ ComposeIdle /\ TheoryIdle /\ DeviceIdle
       /\ CountIdle /\ ExportIdle /\ FuseInit

EnvelopeNext ==
  /\ UNCHANGED route
  /\ \/ route = "catalog" /\ StreamNext
        /\ UNCHANGED <<composeVars, searchVars, deviceVars, countVars, exportVars, fuseVars>>
     \/ route = "compose" /\ ComposeNext
        /\ UNCHANGED <<streamVars, searchVars, deviceVars, countVars, exportVars, fuseVars>>
     \/ route = "theory" /\ SearchNext
        /\ UNCHANGED <<streamVars, composeVars, deviceVars, countVars, exportVars, fuseVars>>
     \/ route = "device" /\ DeviceNext
        /\ UNCHANGED <<streamVars, composeVars, searchVars, countVars, exportVars, fuseVars>>
     \/ route = "count" /\ CountNext
        /\ UNCHANGED <<streamVars, composeVars, searchVars, deviceVars, exportVars, fuseVars>>
     \/ route = "export" /\ ExportNext
        /\ UNCHANGED <<streamVars, composeVars, searchVars, deviceVars, countVars, fuseVars>>
     \/ route = "fuse" /\ FuseNext
        /\ UNCHANGED <<streamVars, composeVars, searchVars, deviceVars, countVars, exportVars>>

EnvelopeSpec == EnvelopeInit /\ [][EnvelopeNext]_envelopeVars

-----------------------------------------------------------------------------
(***************************************************************************)
(* The counts that a search scores a candidate by are those of the text    *)
(* that the candidate decrypts to, for the transforms of the catalog, for  *)
(* the theories and for batches launched one after the other.              *)
(***************************************************************************)
CountsAsDecoded == CatalogAsDecoded /\ LanesAsDecoded /\ LaunchesAsDecoded

(***************************************************************************)
(* Whatever form a compiled source takes, it does what the source says: a  *)
(* theory folded, hoisted, normalised or as bytecode, and a composition of *)
(* theories put into one expression or left a recipe.  A form may be       *)
(* without a value only where the source is, or an inverse in an inverse   *)
(* was hoisted.                                                            *)
(***************************************************************************)
CompiledAsMeant == FormsAgree /\ FusedAsMeant
=============================================================================
