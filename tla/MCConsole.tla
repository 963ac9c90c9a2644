------------------------------ MODULE MCConsole ------------------------------
(* Console on a small instance. *)
EXTENDS Console

MCKeys == {<<FALSE, "d">>, <<FALSE, "bksp">>, <<FALSE, "caps">>, <<TRUE, "enter">>}

Ctl == <<TRUE, "ctl">>
Shift == <<FALSE, "shift">>

MCChords == {{}, {Shift}, {Ctl, Shift}}

MCTexts == {<<"d", "nl">>}

Symmetry == Permutations(Readers)
=============================================================================
