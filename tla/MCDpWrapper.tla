---------------------------- MODULE MCDpWrapper ----------------------------
(***************************************************************************)
(* The fragment adapter with the rates 8000 and 9600 divided by 1600, so   *)
(* that a datapump fragment of 5 samples is 5 or 6 samples of the host.    *)
(* Rate 4 (6400) has no converter, so creating for it fails.               *)
(***************************************************************************)
EXTENDS DpWrapper

MCPairs ==
  { << 5, 6 >>, << 6, 5 >> }

=============================================================================
