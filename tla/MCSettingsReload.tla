--------------------------- MODULE MCSettingsReload -------------------------
(* Instances of SettingsReload for model checking.                         *)
EXTENDS SettingsReload

(* One field at a time, and several of one settings page at once.          *)
OneFieldPatches == {{"categories_dir"}, {"mgmt_port"}, {"ui_language", "adblock"}}
PagePatches     == {{"categories_dir", "mgmt_port"}, {"ui_language", "adblock"}}

(* Handlers only differ by name: whichever has the first PUT is called     *)
(* First.  A process that dies before it is one that has just started.     *)
First == CHOOSE h \in Handlers : TRUE
InTurn == serial = 0 => restarts' = 0 /\ \A h \in Handlers \ {First} : pc'[h] = "idle"
InTurnSpec == Init /\ [][Next /\ InTurn]_vars /\ Fairness
=============================================================================
