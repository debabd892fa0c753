------------------------------ MODULE V8Words ------------------------------
(***************************************************************************)
(* src/v8: the messages of the V.8 negotiation, and what each end makes of *)
(* the one it received.                                                    *)
(*                                                                         *)
(* A word is one 10-bit character.  The three words of modulations and the *)
(* words after them (protocol, PSTN access, PCM availability) are one word *)
(* of kind "mods": the set of modulations, and whether the access word and *)
(* the PCM word together say "digital" (digital_connection # 0 and         *)
(* pcm_indication = 1).  Extensions (ext1, ext2, the lists) are not set by *)
(* v8_create and are left out, and so are the modulations below V.32.      *)
(***************************************************************************)
EXTENDS Integers, Sequences

Modulations == { "V90", "V34", "V32" }
Functions == { "data", "fax" }

Word(k, fn, mods, digital) ==
  [k |-> k, fn |-> fn, mods |-> mods, digital |-> digital]
Plain(k) == Word(k, "none", {}, FALSE)
ONES == Plain("ones")             \* V8_SEQ_PREAMBLE_0 and V8_HS_WORD_ANY
MARK == Plain("mark")             \* V8_SEQ_PREAMBLE_1 and V8_HS_MARK_MSG
NOISE == Plain("noise")           \* a word of no message
CJ == Plain("CJ")
Fn(f) == Word("fn", f, {}, FALSE)
Mods(m, d) == Word("mods", "none", m, d)

\* initTxSequence: cm says the function called for and the modulations.
initTxSequence(cm) ==
  << ONES, MARK, Fn(cm.fn), Mods(cm.mods, cm.digital) >>

\* The words of kind k of a received message.
Of(msg, k) == { msg[i] : i \in { j \in DOMAIN msg : msg[j].k = k } }
First(msg, k) ==
  msg[CHOOSE i \in DOMAIN msg :
        msg[i].k = k /\ \A j \in DOMAIN msg : msg[j].k = k => i <= j]
Last(msg, k) ==
  msg[CHOOSE i \in DOMAIN msg :
        msg[i].k = k /\ \A j \in DOMAIN msg : msg[j].k = k => j <= i]

\* Whether the answering end accepts the function: it looks at the first
\* function word only.  The calling end looks at every one.
AnsMatched(cm, msg) == Of(msg, "fn") # {} /\ First(msg, "fn").fn = cm.fn
OrgMatched(cm, msg) == Fn(cm.fn) \in Of(msg, "fn")

\* The modulations of cm that every word of modulations in msg has.
Masked(mods, msg) == { m \in mods : \A w \in Of(msg, "mods") : m \in w.mods }

\* rebuildJMSequence: the modulations both ends have, or none at all when
\* the function is not accepted.  When the message has no word of
\* modulations, JM has none either.  "digital" is what the tail words say of
\* the answering end's line; this code's own always say it is not.
rebuildJMSequence(cm, msg) ==
  IF AnsMatched(cm, msg) /\ Of(msg, "mods") = {}
    THEN << ONES, MARK, Fn(cm.fn) >>
    ELSE << ONES, MARK, Fn(cm.fn),
            Mods(IF AnsMatched(cm, msg) THEN Masked(cm.mods, msg) ELSE {},
                 cm.digital) >>

\* V8UpdateModemParameters: this end's modulations, masked by the message it
\* received; V.90 needs the other end to be digital.  Without a matching
\* function the mask is not applied.
UpdateKeepPcm(cm, matched, msg) ==
  IF ~matched THEN cm.mods
  ELSE Masked(cm.mods \ {"V90"}, msg) \cup (cm.mods \cap {"V90"})
V8UpdateModemParameters(cm, matched, msg) ==
  IF ~matched THEN cm.mods
  ELSE Masked(cm.mods \ {"V90"}, msg)
       \cup { m \in cm.mods \cap {"V90"} :
                /\ Of(msg, "mods") # {}
                /\ m \in Last(msg, "mods").mods
                /\ Last(msg, "mods").digital }

\* v8_process, V8_OK: the datapump asked for.
ChoosePump(want, quick, mods) ==
  CASE quick -> want
    [] ~quick /\ "V90" \in mods -> "V90"
    [] ~quick /\ "V90" \notin mods /\ "V34" \in mods -> "V34"
    [] ~quick /\ mods \cap {"V90", "V34"} = {} /\ "V32" \in mods -> "V32"
    [] OTHER -> "none"

=============================================================================
