-------------------------- MODULE MCTheoryPipeline --------------------------
(***************************************************************************)
(* Small workloads for TLC.  a and b are two chunks of the specialized     *)
(* theory T1, d and e of T2, which runs as S0; b and e have a candidate    *)
(* outside the domain of their theory; wide has more candidates than a.    *)
(***************************************************************************)
EXTENDS TheoryPipeline, TLC

CONSTANTS a, b, d, e, wide, T1, T2

MCTheoryOf == a :> T1 @@ b :> T1 @@ wide :> T1 @@ d :> T2 @@ e :> T2
MCSize == a :> 1 @@ b :> 1 @@ wide :> 2 @@ d :> 1 @@ e :> 1

(***************************************************************************)
(* No chunk is longer than one before it in its call, and no specialized   *)
(* theory shares the scratch with rejected candidates of another theory:   *)
(* these workloads are Served.                                             *)
(***************************************************************************)
MCWorkloads ==
  {{<<a, b>>, <<a>>, <<b, a, a>>}, {<<wide, a>>, <<a>>, << >>},
   {<<d, e>>, <<e, d>>, <<e>>}, {<<a, a>>, <<d, d>>}}

\* The second chunk of a call is longer than what the scratch has room for.
MCGrowing == {{<<a, wide>>}}

\* The theories of two jobs take turns on one scratch.
MCShared == {{<<b>>, <<d, d>>}}
=============================================================================
