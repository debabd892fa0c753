---------------------------- MODULE MCCallProg ------------------------------
(***************************************************************************)
(* Call progress with a second of 2 samples and blocks of 3, so that every *)
(* timeout can run out on the first, a middle or the last sample of a      *)
(* block, and dial strings with each modifier the dialler reports.         *)
(***************************************************************************)
EXTENDS CallProg

MCScripts ==
  { << "DONE" >>,
    << "CALLING_TONE", "WAIT_DIALTONE", "DONE" >>,
    << "WAIT_ANSWER", "COMMAND" >>,
    << "WAIT_DIALTONE", "WAIT_ANSWER", "DONE" >>,
    << "WAIT_BONG", "DONE" >> }

=============================================================================
