------------------------------ MODULE MCDialer ------------------------------
(***************************************************************************)
(* The dialler over every string of up to two characters after the mode    *)
(* letter, a few longer ones (of one less than the buffer's length, of     *)
(* exactly it and of one more), and countries that differ in what they     *)
(* permit.  A tone lasts a buffer and a half, a pulse two polls of break   *)
(* and one of make.                                                        *)
(***************************************************************************)
EXTENDS Dialer

Alphabet == {"1", "0", "*", "A", ",", "W", "@", "$", "^", ";", "!", "T", "P", "x"}

MCStrings ==
  {<< >>, << "1" >>} \cup {<< m >> : m \in {"T", "P"}}
  \cup {<< m, a >> : m \in {"T", "P"}, a \in Alphabet}
  \cup {<< m, a, b >> : m \in {"T", "P"}, a \in Alphabet, b \in Alphabet}
  \cup { << "P", "9", "T", "*", ";" >>,
         << "T", "1", ",", ",", ",", "2" >>,
         << "P", "2", "!", "3", "W", "7" >>,
         << "T", "1", "P", "1", "T", "1" >>,
         << "P", "1", "*", "#", "^", "4", "@" >>,
         << "T", "1", "1", "1", "1", "1", "1" >>,
         << "T", "1", "1", "1", "1", "1", "1", "1" >>,
         << "P", "1", "2", "W", "3", "!", "4", ";" >>,
         << "P", "1", ",", "2", "T", "W", "3", "4" >>,
         << "T", "1", "1", "1", "1", "1", "1", "1", "1" >> }

MCStringsFull == { << "T", "1", "1" >> }

Country(validation, abcd, mixed, calling, pattern) ==
  [ tone |-> TRUE, validation |-> validation, abcd |-> abcd, mixed |-> mixed,
    calling |-> calling, pattern |-> pattern ]

MCCountries ==
  { Country(FALSE, FALSE, FALSE, 1, 1),
    Country(TRUE, FALSE, FALSE, 2, 2),
    Country(TRUE, TRUE, TRUE, 3, 3) }

=============================================================================
