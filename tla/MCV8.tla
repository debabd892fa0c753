-------------------------------- MODULE MCV8 --------------------------------
(***************************************************************************)
(* V.8 calls.  A message is four words here and eight or more in the       *)
(* source, so that the deadlines, of 360 and 210 words there, are scaled   *)
(* to a few messages: enough for an exchange with a damaged word, and      *)
(* short enough for every deadline to pass in some call.                   *)
(***************************************************************************)
EXTENDS V8Call

End(kind, want, mods, fn, digital, v92) ==
  [kind |-> kind, want |-> want, mods |-> mods, fn |-> fn,
   digital |-> digital, v92 |-> v92]

\* What v8_create makes of an end, for V.34, V.90 and V.92.
Org34 == End("v8", "V34", {"V34", "V32"}, "data", FALSE, FALSE)
Org90 == End("v8", "V90", Modulations, "data", FALSE, FALSE)
Org92 == End("v8", "V92", Modulations, "data", FALSE, TRUE)
Ans34 == End("v8", "V34", {"V34", "V32"}, "data", FALSE, FALSE)

\* Ends of other makes that follow the same procedure.
Far32 == End("v8", "V32", {"V32"}, "data", FALSE, FALSE)
FarServer == End("v8", "V90", Modulations, "data", TRUE, FALSE)
FarFax == End("v8", "V34", {"V34"}, "fax", FALSE, FALSE)
FarNone == End("v8", "V34", {}, "data", FALSE, FALSE)
Far(kind) == End(kind, "V34", {}, "data", FALSE, FALSE)

MCForged == { NOISE, CJ }
AnyForged == { NOISE, CJ, MARK }

MCCalls ==
  { [org |-> Org90, ans |-> Ans34], [org |-> Org92, ans |-> Ans34],
    [org |-> Far32, ans |-> Ans34], [org |-> Org34, ans |-> Far32],
    [org |-> FarFax, ans |-> Ans34], [org |-> Org34, ans |-> FarNone],
    [org |-> Org90, ans |-> FarServer], [org |-> Org34, ans |-> Far("mute")],
    [org |-> Org34, ans |-> Far("tone")],
    [org |-> Org92, ans |-> Far("QCA1a")],
    [org |-> Org92, ans |-> Far("QCA1d")] }

=============================================================================
