--------------------------- MODULE MCSearchCycle ---------------------------
(***************************************************************************)
(* Small searches for TLC.  c3 and v3 are methods of two families with the *)
(* same params, c5 is another point of the grid, a1 is one outside it.     *)
(***************************************************************************)
EXTENDS SearchCycle, TLC

CONSTANTS c3, c5, v3, a1, h1

MCHash == c3 :> c3 @@ v3 :> c3 @@ c5 :> c5 @@ a1 :> a1
MCScore == c3 :> 2 @@ c5 :> 1 @@ v3 :> 3 @@ a1 :> 4

(***************************************************************************)
(* Nothing, one decided record, or one that waits for a decision.          *)
(***************************************************************************)
Saved1(s, m) == [h \in {h1} |-> [status |-> s, method |-> m, scored |-> {}]]
MCSaved == {[h \in {} |-> c3], Saved1("rejected", c3), Saved1("promoted", a1),
            Saved1("scored", c5)}

Option(limit, utc) ==
  [limit |-> limit, utc |-> utc, wall |-> FALSE, validate |-> FALSE,
   promotedStop |-> FALSE, inline |-> << >>]

(***************************************************************************)
(* Two iterations, with every early stop a run may be asked for or none;   *)
(* one iteration, so that a second run meets the batch of the first; and   *)
(* one with the prior given in the job.                                    *)
(***************************************************************************)
MCOptions ==
  {[Option(2, 0) EXCEPT !.promotedStop = b, !.wall = b, !.validate = b] : b \in BOOLEAN}
  \cup {Option(1, 0), [Option(1, 0) EXCEPT !.inline = <<EmptyPrior>>]}
=============================================================================
