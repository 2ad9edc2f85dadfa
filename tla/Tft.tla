-------------------------------- MODULE Tft --------------------------------
(***************************************************************************)
(* The ST7735 driver (screen_st7735.c) and the rounded rectangles of       *)
(* screen_display.c: every call becomes address windows that the controller*)
(* fills pixel by pixel, wrapping round inside a window.  The RAM of the   *)
(* controller is larger than the panel and holds it at an offset.  Calls   *)
(* come from screen_task alone; the backlight is set by cdc_task as well.  *)
(* Coordinates are far from the ends of an int16_t.                        *)
(***************************************************************************)
EXTENDS Integers, Sequences, SequencesExt

CONSTANTS
  Width, Height,   \* ST7735_WIDTH and ST7735_HEIGHT, 128 in the firmware
  XStart, YStart,  \* XSTART and YSTART, where the panel begins in the RAM
  Calls,           \* the calls screen_task makes
  Levels           \* the brightnesses the Pi asks for

\* Rectangles, rounded ones filled or not, text in one of three sizes, bitmaps.
Drawing ==
  [op: {"rect"}, x: Int, y: Int, w: Int, h: Int] \cup
  [op: {"rrect", "frame"}, x: Int, y: Int, w: Int, h: Int, r: Int] \cup
  [op: {"string"}, x: Int, y: Int, size: 1..3, lines: Seq(Seq(SUBSET ((0..4) \X (0..6))))] \cup
  [op: {"bitmap"}, x: Int, y: Int, w: Nat, h: Nat, bits: SUBSET (Nat \X Nat)]

ASSUME TftAssumption ==
  /\ Width \in 1..128 /\ Height \in 1..128 /\ XStart \in 0..4 /\ YStart \in 0..4
  /\ Levels \subseteq 0..255 /\ Calls \subseteq Drawing

VARIABLES
  stage,   \* how far st7735_init is
  pwm,     \* the duty of the backlight
  call,    \* the call in progress
  floods,  \* the windows it has still to fill
  ram      \* the pixels written by it, and their colours

tftVars == <<stage, pwm, call, floods, ram>>

\* The steps of st7735_init: reset, wake up, set up, switch on, clear, and
\* seventeen more in which the backlight goes up.
Cleared == 5
Ready   == Cleared + 17
Ramp(k) == IF k = 17 THEN 255 ELSE 16 * (k - 1)

NoDrawing == [op |-> "none"]
EmptyRam == [p \in {} |-> "fg"]

TftTypeOK ==
  /\ stage \in 0..Ready /\ pwm \in 0..255 /\ call \in Calls \cup {NoDrawing}
  /\ DOMAIN ram \subseteq (0..255) \X (0..255)

-----------------------------------------------------------------------------
\* st7735_set_backlight: the cube of the level.
Backlight(level) == (level * level * level) \div (255 * 255)

\* A window of the RAM and how many pixels of which colour go to it.
Flood(x0, y0, x1, y1, n, colour) ==
  [x0 |-> (x0 + XStart) % 256, y0 |-> (y0 + YStart) % 256,
   x1 |-> (x1 + XStart) % 256, y1 |-> (y1 + YStart) % 256, n |-> n, colour |-> colour]

\* A bug: the right and lower edges are clipped before the left and upper ones.
FillRectFault(x, y, w, h, colour) ==
  LET cx == IF x < 0 THEN 0 ELSE x
      cy == IF y < 0 THEN 0 ELSE y
      cw == IF x + w > Width THEN Width - x ELSE w
      ch == IF y + h > Height THEN Height - y ELSE h
  IN  IF x >= Width \/ y >= Height \/ cw <= 0 \/ ch <= 0 THEN <<>>
      ELSE <<Flood(cx, cy, cx + cw - 1, cy + ch - 1, cw * ch, colour)>>

\* A rectangle, clipped to the panel.
FillRect(x, y, w, h, colour) ==
  LET cx == IF x < 0 THEN 0 ELSE x
      cy == IF y < 0 THEN 0 ELSE y
      w1 == IF x < 0 THEN w + x ELSE w
      h1 == IF y < 0 THEN h + y ELSE h
      cw == IF cx + w1 > Width THEN Width - cx ELSE w1
      ch == IF cy + h1 > Height THEN Height - cy ELSE h1
  IN  IF x >= Width \/ y >= Height \/ w1 <= 0 \/ h1 <= 0 THEN <<>>
      ELSE <<Flood(cx, cy, cx + cw - 1, cy + ch - 1, cw * ch, colour)>>

DrawPixel(x, y, colour) ==
  IF x < 0 \/ x >= Width \/ y < 0 \/ y >= Height THEN <<>> ELSE <<Flood(x, y, x, y, 1, colour)>>

HLine(x, y, len, colour) == FillRect(x, y, len, 1, colour)
VLine(x, y, len, colour) == FillRect(x, y, 1, len, colour)

\* The radius of a corner is at most half of either side.
Radius(w, h, r) == LET r1 == IF r > w \div 2 THEN w \div 2 ELSE r
                   IN  IF r1 > h \div 2 THEN h \div 2 ELSE r1

FillRRect(x, y, w, h, r0, colour) ==
  LET r == Radius(w, h, r0)
      Rows(i) == HLine(x + r - 1 - i, y + i, w - 2 * (r - 1 - i), colour) \o
                 HLine(x + r - 1 - i, y + h - 1 - i, w - 2 * (r - 1 - i), colour)
  IN  IF w <= 0 \/ h <= 0 THEN <<>>
      ELSE IF r0 <= 0 THEN FillRect(x, y, w, h, colour)
      ELSE FillRect(x, y + r, w, h - 2 * r, colour) \o FlattenSeq([k \in 1..r |-> Rows(k - 1)])

DrawRRect(x, y, w, h, r0, colour) ==
  LET r == IF r0 <= 0 THEN 0 ELSE Radius(w, h, r0)
      Corners(i) == FlattenSeq([k \in 1..4 |->
                      DrawPixel(IF k \in {1, 3} THEN x + r - 1 - i ELSE x + w - r + i,
                                IF k \in {1, 2} THEN y + i ELSE y + h - 1 - i, colour)])
  IN  IF w <= 0 \/ h <= 0 THEN <<>>
      ELSE HLine(x + r, y, w - 2 * r, colour) \o HLine(x + r, y + h - 1, w - 2 * r, colour) \o
           VLine(x, y + r, h - 2 * r, colour) \o VLine(x + w - 1, y + r, h - 2 * r, colour) \o
           FlattenSeq([k \in 1..r |-> Corners(k - 1)])

\* A glyph is five columns of seven bits, the lowest bit on top: here the set
\* of its bits, <<column, row>>.  A column of background follows it.
DrawChar(x, y, glyph, fg, bg, size) ==
  LET Cell(col, row) ==
        LET colour == IF <<col, row>> \in glyph THEN fg ELSE bg
        IN  IF size = 1 THEN DrawPixel(x + col, y + row, colour)
                        ELSE FillRect(x + col * size, y + row * size, size, size, colour)
  IN  FlattenSeq([k \in 1..42 |-> Cell((k - 1) \div 7, (k - 1) % 7)])

\* Lines of glyphs, one below the other.
DrawString(x, y, lines, fg, bg, size) ==
  FlattenSeq([l \in 1..Len(lines) |-> FlattenSeq([k \in 1..Len(lines[l]) |->
    DrawChar(x + (k - 1) * 6 * size, y + (l - 1) * 8 * size, lines[l][k], fg, bg, size)])])

\* A bitmap, row by row.
DrawBitmap(x, y, bits, w, h, fg, bg) ==
  FlattenSeq([k \in 1..(w * h) |->
    LET col == (k - 1) % w row == (k - 1) \div w
    IN  DrawPixel(x + col, y + row, IF <<col, row>> \in bits THEN fg ELSE bg)])

\* The windows of a call.
Windows(c) ==
  CASE c.op = "rect"   -> FillRect(c.x, c.y, c.w, c.h, "fg")
    [] c.op = "rrect"  -> FillRRect(c.x, c.y, c.w, c.h, c.r, "fg")
    [] c.op = "frame"  -> DrawRRect(c.x, c.y, c.w, c.h, c.r, "fg")
    [] c.op = "string" -> DrawString(c.x, c.y, c.lines, "fg", "bg", c.size)
    [] c.op = "bitmap" -> DrawBitmap(c.x, c.y, c.bits, c.w, c.h, "fg", "bg")

-----------------------------------------------------------------------------
TftInit == stage = 0 /\ pwm = 0 /\ call = NoDrawing /\ floods = <<>> /\ ram = EmptyRam

\* A step of st7735_init, which takes most of a second: the backlight, dark at
\* first, is raised once the picture is there.
InitStep ==
  /\ stage < Ready /\ stage' = stage + 1
  /\ pwm' = IF stage = 0 THEN 0 ELSE IF stage >= Cleared THEN Backlight(Ramp(stage' - Cleared)) ELSE pwm
  /\ UNCHANGED <<call, floods, ram>>

\* cdc_task passes a brightness frame on, whatever screen_task is doing.
SetBacklight(level) == pwm' = Backlight(level) /\ UNCHANGED <<stage, call, floods, ram>>

\* screen_task makes a call.
DrawCall(c) ==
  /\ stage = Ready /\ floods = <<>> /\ call = NoDrawing
  /\ call' = c /\ floods' = Windows(c) /\ ram' = EmptyRam
  /\ UNCHANGED <<stage, pwm>>

\* The pixels of a window that are written; the controller starts over when it
\* is full.
Pixels(f) ==
  LET w == f.x1 - f.x0 + 1
      h == f.y1 - f.y0 + 1
  IN  {<<f.x0 + (k % w), f.y0 + ((k \div w) % h)>> : k \in 0..(f.n - 1)}

Over(r, S, colour) == [p \in S \cup DOMAIN r |-> IF p \in S THEN colour ELSE r[p]]

\* A window is set and filled.
FillWindow ==
  /\ floods # <<>> /\ floods' = Tail(floods)
  /\ ram' = Over(ram, Pixels(Head(floods)), Head(floods).colour)
  /\ UNCHANGED <<stage, pwm, call>>

CallDone == call # NoDrawing /\ floods = <<>> /\ call' = NoDrawing /\ ram' = EmptyRam /\ UNCHANGED <<stage, pwm, floods>>

TftNext == \/ InitStep \/ FillWindow \/ CallDone
           \/ \E level \in Levels : SetBacklight(level)
           \/ \E c \in Calls : DrawCall(c)

-----------------------------------------------------------------------------
\* What a call should draw: the colour of the point <<i, j>> of the figure,
\* whose corner is at <<c.x, c.y>>, or "none".
ToEdge(i, w) == IF i < w - 1 - i THEN i ELSE w - 1 - i

InShape(c, i, j) == LET r == IF c.r <= 0 THEN 0 ELSE Radius(c.w, c.h, c.r)
                    IN  /\ i \in 0..(c.w - 1) /\ j \in 0..(c.h - 1)
                        /\ ToEdge(i, c.w) + ToEdge(j, c.h) >= r - 1

Figure(c, i, j) ==
  CASE c.op = "rect"  -> IF i \in 0..(c.w - 1) /\ j \in 0..(c.h - 1) THEN "fg" ELSE "none"
    [] c.op = "rrect" -> IF InShape(c, i, j) THEN "fg" ELSE "none"
    [] c.op = "frame" -> IF InShape(c, i, j) /\ ~(/\ InShape(c, i - 1, j) /\ InShape(c, i + 1, j)
                                                  /\ InShape(c, i, j - 1) /\ InShape(c, i, j + 1))
                           THEN "fg" ELSE "none"
    [] c.op = "string" ->
         LET row  == j \div (8 * c.size) + 1
             col  == i \div (6 * c.size) + 1
             here == <<(i \div c.size) % 6, (j \div c.size) % 8>>
         IN  IF row \in DOMAIN c.lines /\ col \in DOMAIN c.lines[row] /\ here[2] < 7
               THEN IF here \in c.lines[row][col] THEN "fg" ELSE "bg" ELSE "none"
    [] c.op = "bitmap" -> IF i \in 0..(c.w - 1) /\ j \in 0..(c.h - 1)
                            THEN IF <<i, j>> \in c.bits THEN "fg" ELSE "bg" ELSE "none"

\* A finished call has written the part of its figure that lies on the panel,
\* each point in its colour, and nothing besides.
DrawsFigure ==
  call # NoDrawing /\ floods = <<>> =>
    LET drawn == {p \in (0..(Width - 1)) \X (0..(Height - 1)) :
                    Figure(call, p[1] - call.x, p[2] - call.y) # "none"}
    IN  ram = [q \in {<<p[1] + XStart, p[2] + YStart>> : p \in drawn} |->
                 Figure(call, q[1] - XStart - call.x, q[2] - YStart - call.y)]

=============================================================================
