----------------------------- MODULE DialScript -----------------------------
(***************************************************************************)
(* What the call-progress supervisor relies on of the dialler: a dial      *)
(* string is a script of codes, each reported once and in order, of which  *)
(* the last is reported for ever after.  CallProg models its dialler this  *)
(* way; Dialer shows that src/dialer/Dialer.c is one.                      *)
(***************************************************************************)
EXTENDS Naturals, Sequences

CONSTANT Scripts          \* the scripts dial strings stand for

VARIABLES
  live,                   \* a dialler is prepared
  todo,                   \* the codes it has still to report
  code                    \* what DialerProgress last returned

Init == live = FALSE /\ todo = << >> /\ code = "NONE"

Create ==
  /\ ~live /\ live'
  /\ code' = "NONE"
  /\ todo' \in Scripts

\* The buffer is full and there is nothing to report.
Busy == live /\ code' = "BUSY" /\ UNCHANGED << live, todo >>

\* The next code, or the last one once more.
Report ==
  /\ live
  /\ code' = Head(todo)
  /\ todo' = IF Len(todo) > 1 THEN Tail(todo) ELSE todo
  /\ UNCHANGED live

Abort == live /\ live' = FALSE /\ todo' = << >> /\ UNCHANGED code

Next == Create \/ Busy \/ Report \/ Abort

vars == << live, todo, code >>

Spec == Init /\ [][Next]_vars

=============================================================================
