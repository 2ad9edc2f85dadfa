------------------------------- MODULE MCParts -------------------------------
(* Values for the constants of Parts. *)
EXTENDS Parts

Ask(i, anim) == [button |-> i, colour |-> <<0, 128, 255>>, anim |-> anim]

MCPlans == {<<>>, <<Ask(0, BlinkSlow)>>, <<Ask(0, BlinkFast)>>, <<Ask(0, Pulse)>>,
            <<Ask(1, Off), [level |-> 100]>>}

MCRequests == {[mask |-> {"led2"}, state |-> {"led2"}],
               [mask |-> {"led2", "led3"}, state |-> {"led3"}]}

Figures(op) == [op: {op}, x: {-2, 0, 3}, y: {-1, 0, 4}, w: {0, 1, 3, 6, 9}, h: {1, 4, 5, 8},
                r: {0, 1, 2, 9}]

Glyph1 == {<<0, 0>>, <<1, 1>>, <<4, 6>>}
Glyph2 == {<<2, 0>>, <<3, 5>>}

MCCalls ==
  [op: {"rect"}, x: -3..7, y: {-2, 0, 5}, w: -1..11, h: {0, 1, 4, 9}]
  \cup Figures("rrect") \cup Figures("frame")
  \cup [op: {"string"}, x: {-3, 0, 1}, y: {-9, -1, 0}, size: {1, 2},
        lines: {<<<<Glyph1, Glyph2>>, <<Glyph2>>>>}]
  \cup [op: {"bitmap"}, x: {-1, 0, 3}, y: {-1, 0, 3}, w: {2, 5}, h: {3},
        bits: {{}, {<<0, 0>>, <<1, 2>>}}]

=============================================================================
