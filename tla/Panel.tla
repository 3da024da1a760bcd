-------------------------------- MODULE Panel --------------------------------
(***************************************************************************)
(* What a sidebar promises its user, whatever React batches or delays: a   *)
(* panel and a sheet, each open or closed.  A step opens or closes one of  *)
(* them, never both; closing or opening the panel is saved in the same     *)
(* step, and the sheet is never saved.  A reload forgets the two and keeps *)
(* what was saved.                                                         *)
(***************************************************************************)
CONSTANT DefaultOpen

VARIABLES
    panel,   \* the desktop panel is open
    sheet,   \* the mobile sheet is open
    saved    \* the saved state of the panel: "none", "true" or "false"

panelVars == <<panel, sheet, saved>>

AsString(b) == IF b THEN "true" ELSE "false"

Init ==
    /\ panel = DefaultOpen
    /\ sheet = FALSE
    /\ saved = "none"

FlipPanel == panel' = ~panel /\ saved' = AsString(~panel) /\ UNCHANGED sheet
FlipSheet == sheet' = ~sheet /\ UNCHANGED <<panel, saved>>
Expire    == saved' = "none" /\ UNCHANGED <<panel, sheet>>
Reload    == panel' = DefaultOpen /\ sheet' = FALSE /\ UNCHANGED saved

Next == FlipPanel \/ FlipSheet \/ Expire \/ Reload

Spec == Init /\ [][Next]_panelVars
=============================================================================
