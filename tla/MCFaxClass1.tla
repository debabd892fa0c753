---------------------------- MODULE MCFaxClass1 ----------------------------
(***************************************************************************)
(* A small fax call for TLC: two rate codes with blocks of two and of four *)
(* bytes around the padding of three; a frame that is not final, one that  *)
(* is, and one too long for the queue; an empty page, one with a DLE, and  *)
(* one in which the host may pause after a zero.                           *)
(***************************************************************************)
EXTENDS FaxClass1

MCCodes == { 24, 145 }
MCBytesPerBlock == [code \in MCCodes |-> IF code = 24 THEN 2 ELSE 4]
MCMessages == { << 255, 3, 65 >>, << 255, 19, 65 >>, << 255, 19, 16, 1, 1, 1 >> }
MCPages == { << >>, << 5, 16 >>, << 5, 0, 9 >> }
MCGarbage == { [dir |-> "rx", mod |-> 2, lastNul |-> TRUE],
               [dir |-> "tx", mod |-> 0, lastNul |-> FALSE] }
MCDamaged == { 1, 3 }
MCThird == { 3 }
MCNone == { }
MCNoBytes == [code \in MCNone |-> 1]
MCOneGarbage == { [dir |-> "rx", mod |-> 2, lastNul |-> TRUE] }
MCSplits == { 2, 4 }
=============================================================================
