--------------------------- MODULE MCBatchRunner ---------------------------
(***************************************************************************)
(* Four candidates on three cores: chunks of two, so that the third worker *)
(* has nothing to do and is not launched.                                  *)
(***************************************************************************)
EXTENDS BatchRunner

MCIds == {0, 1}
MCValues == {0, 1}
=============================================================================
