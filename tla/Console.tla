------------------------------- MODULE Console -------------------------------
(***************************************************************************)
(* The boot console, kernel/screen/bootscreen/boot.c and layout.c: the     *)
(* frame buffer is cut into screens, each with a cursor, pixels and a copy *)
(* of what was printed.                                                    *)
(*                                                                         *)
(* Positions are exact, in pixels; colours and glyphs are left out.  What  *)
(* a call draws and copies is kept as the rectangle it touched.            *)
(***************************************************************************)
EXTENDS Integers, Sequences

CONSTANTS
    GLYPH, GAP,         \* 8 and 2, times the font scale
    BS_BUF_SIZE, BS_MAX_PIXELS,
    Screens,            \* the screens in use, of BS1 .. BS4
    Displays            \* sizes [w, h] of frame buffers

ASSUME ConsoleAssumption ==
    /\ GLYPH \in Nat \ {0} /\ GAP \in Nat
    /\ BS_BUF_SIZE \in Nat \ {0} /\ BS_MAX_PIXELS \in Nat
    /\ Screens \subseteq {"BS1", "BS2", "BS3", "BS4"} /\ "BS1" \in Screens
    /\ Displays \subseteq [w : Nat \ {0}, h : Nat \ {0}]

VARIABLES
    display,        \* [w, h], constant
    screen,         \* bs.Screens
    active_screen,
    drawn           \* the rectangles the last call copied to the frame buffer,
                    \* each [on, x, y, w, h] with the screen it was copied from

convars == <<display, screen, active_screen, drawn>>

line_h == GLYPH + GAP

\* A static array of BS_MAX_PIXELS bounds a screen.
bs_size_clamp(w, h) ==
    IF w = 0 THEN 0 ELSE IF w * h <= BS_MAX_PIXELS THEN h ELSE BS_MAX_PIXELS \div w

bs_setup_screen(pixels, x, y, w, h) ==
    [x |-> x, y |-> y, width |-> w, height |-> bs_size_clamp(w, h), pixels |-> pixels,
     cursor_x |-> 0, cursor_y |-> 0, buf_len |-> 0, visible |-> TRUE]

\* BS3 gets its pixels from bootscreen_bs3_init_backbuffer.
bootscreen_layout_init(d) ==
    LET half == d.w \div 2
        mid  == d.h \div 2
    IN  [BS1 |-> bs_setup_screen(TRUE, 0, 0, half, d.h),
         BS2 |-> bs_setup_screen(TRUE, half, 0, half, mid),
         BS3 |-> bs_setup_screen(FALSE, 0, 0, d.w, d.h),
         BS4 |-> bs_setup_screen(TRUE, half, mid, half, d.h - mid)]

ConsoleInit ==
    /\ display \in Displays
    /\ screen = bootscreen_layout_init(display)
    /\ active_screen = "BS1"
    /\ drawn = {}

bootscreen_bs3_init_backbuffer ==
    /\ ~screen.BS3.pixels
    /\ screen' = [screen EXCEPT !.BS3.pixels = TRUE]
    /\ UNCHANGED <<display, active_screen, drawn>>

\* bs_flush_rect: the rectangle, cut off at the edges of the screen, is
\* copied row by row to where the screen lies; below the screen there is no
\* row.  The length of a row is a difference of u32.
\* Fault: nothing is cut off.
clip_not(a, limit) == a
clip(a, limit) == IF a > limit THEN limit ELSE a
bs_flush_rect(n, x, y, w, h) ==
    LET s     == screen[n]
        end_x == clip(x + w, s.width)
        end_y == clip(y + h, s.height)
    IN  IF s.pixels /\ y < end_y
        THEN {[on |-> n, x |-> s.x + x, y |-> s.y + y, w |-> end_x - x, h |-> end_y - y]}
        ELSE {}
bs_flush(n) == bs_flush_rect(n, 0, 0, screen[n].width, screen[n].height)

\* bs_scroll: up by one line, or a blank screen if no line fits; then the
\* screen is flushed.
bs_scroll(s) ==
    IF ~s.pixels \/ line_h >= s.height THEN [s EXCEPT !.cursor_x = 0, !.cursor_y = 0]
    ELSE [s EXCEPT !.cursor_x = 0, !.cursor_y = s.height - line_h]

wraps(s) == s.cursor_x + GLYPH >= s.width
newline(s) == [s EXCEPT !.cursor_x = 0, !.cursor_y = s.cursor_y + line_h]
out_of_space(s) == s.cursor_y + line_h >= s.height

logs(s) == s.buf_len < BS_BUF_SIZE - 1

\* The glyph is flushed where it was drawn, the screen again if it scrolled.
bs_putchar(c) ==
    LET s    == screen[active_screen]
        at   == IF c = "newline" \/ wraps(s) THEN newline(s) ELSE s
        next == IF c = "newline" THEN at ELSE [at EXCEPT !.cursor_x = at.cursor_x + GLYPH]
        full == out_of_space(next)
        end  == IF full THEN bs_scroll(next) ELSE next
    IN  /\ IF ~s.visible THEN UNCHANGED <<screen, drawn>>
           ELSE /\ screen' = [screen EXCEPT ![active_screen] =
                       [end EXCEPT !.buf_len = IF logs(s) THEN s.buf_len + 1 ELSE s.buf_len]]
                /\ drawn' = (IF c = "newline" THEN {}
                             ELSE bs_flush_rect(active_screen, at.cursor_x, at.cursor_y, GLYPH, GLYPH))
                            \cup (IF full THEN bs_flush(active_screen) ELSE {})
        /\ UNCHANGED <<display, active_screen>>

bs_clear(n) ==
    /\ screen' = [screen EXCEPT ![n].cursor_x = 0, ![n].cursor_y = 0, ![n].buf_len = 0]
    /\ drawn' = bs_flush(n)
    /\ UNCHANGED <<display, active_screen>>

bs_switch_screen(n) == active_screen' = n /\ UNCHANGED <<display, screen, drawn>>

bs_screens_visible(n, on) ==
    /\ screen' = [screen EXCEPT ![n].visible = on]
    /\ UNCHANGED <<display, active_screen, drawn>>

\* bs_putpixel: putpixel keeps to the frame buffer, but not to the screen.
bs_putpixel(x, y) ==
    LET s == screen[active_screen] IN
    /\ s.visible
    /\ drawn' = IF s.x + x < display.w /\ s.y + y < display.h
                THEN {[on |-> "display", x |-> s.x + x, y |-> s.y + y, w |-> 1, h |-> 1]} ELSE {}
    /\ UNCHANGED <<display, screen, active_screen>>

ConsoleNext ==
    \/ bootscreen_bs3_init_backbuffer
    \/ \E c \in {"newline", "glyph"} : bs_putchar(c)
    \/ \E n \in Screens : bs_clear(n) \/ bs_switch_screen(n)
    \/ \E n \in Screens, on \in BOOLEAN : bs_screens_visible(n, on)
    \/ \E x \in {0, display.w - 1}, y \in {0, display.h} : bs_putpixel(x, y)

ConsoleSpec == ConsoleInit /\ [][ConsoleNext]_convars
-----------------------------------------------------------------------------
\* Whatever is printed where, what a screen copies to the frame buffer lies
\* inside the frame buffer and inside that screen, and no row has a length
\* below zero: a glyph on the last line and one on a screen narrower than a
\* glyph included.  bs_putpixel keeps to the frame buffer only: a screen that
\* is not the last one lets it paint over its neighbour.
DrawnInside ==
    \A r \in drawn :
        /\ r.w >= 0
        /\ r.x + r.w <= display.w /\ r.y + r.h <= display.h
        /\ r.on # "display" =>
              LET s == screen[r.on] IN
              /\ s.x <= r.x /\ r.x + r.w <= s.x + s.width
              /\ s.y <= r.y /\ r.y + r.h <= s.y + s.height

\* The pixels of a screen fit its array, and so do the ones scrolling moves:
\* after any character the next line still lies on the screen.
CursorInside ==
    \A n \in Screens : LET s == screen[n] IN
        /\ n # "BS3" => s.width * s.height <= BS_MAX_PIXELS
        /\ s.cursor_x <= s.width \/ s.cursor_x <= GLYPH
        /\ s.height > line_h => s.cursor_y + line_h <= s.height

\* The copy of a screen keeps room for its terminator.
CopyEnds == \A n \in Screens : screen[n].buf_len + 1 <= BS_BUF_SIZE

\* Cursor, pixels and the copy of the text stay inside what belongs to them.
ScreenSound == DrawnInside /\ CursorInside /\ CopyEnds
=============================================================================
