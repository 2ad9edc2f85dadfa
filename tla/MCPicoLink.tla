----------------------------- MODULE MCPicoLink -----------------------------
(* PicoLink on a small panel: what interacts varies together. *)
EXTENDS PicoLink

MCGroups == {{"key", "rc", "rth"}, {"arm", "key"}, {"pay1Arm", "pay1Fire"},
             {"crosshair", "button1"}, {"pay1Arm", "crosshair", "cable"},
             {"key", "bus", "battery", "screens"}, {"screens", "cable"}}

\* Status and acknowledgement of a searchlight.
MCData == {<<100, 20, 0>>, <<>>}

\* Below, within and above the range.
MCSliders == {-1, 50, 101}

=============================================================================
