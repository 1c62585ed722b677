------------------------------ MODULE Terminal ------------------------------
(***************************************************************************)
(* The terminal the console writes to (Flanterm's flanterm.c) on top of    *)
(* the framebuffer backend, and the kernel's framebuffer driver that feeds *)
(* it.  The context t is one record; a byte is a number, and every handler *)
(* is an operator from the context to the context it leaves.  The values   *)
(* of a control sequence are u32 numbers with the bound U32Max, of which   *)
(* MaxEsc are kept; OscSize is the size of the OSC buffer.                 *)
(***************************************************************************)
EXTENDS Framebuffer, TLC

CONSTANTS MaxEsc, U32Max, OscSize,
          Events,      \* the events the console may hand to the driver
          MaxEvents    \* bound: events between boot and the end of a run

VARIABLES term,        \* the context; NoTerm when there is none
          written,     \* events written so far (bound of the model)
          flushed      \* the last call flushed the queue to the pixels

NoTerm == [none |-> TRUE]

ESC == 27
Letter == [A |-> 65, B |-> 66, C |-> 67, D |-> 68, E |-> 69, F |-> 70,
           G |-> 71, H |-> 72, J |-> 74, K |-> 75, L |-> 76, M |-> 77,
           P |-> 80, S |-> 83, T |-> 84, X |-> 88, Z |-> 90, a |-> 97,
           b |-> 98, c |-> 99, d |-> 100, e |-> 101, f |-> 102, h |-> 104,
           l |-> 108, m |-> 109, n |-> 110, q |-> 113, r |-> 114, s |-> 115,
           u |-> 117]
Default == -1      \* (size_t)-1: no colour was chosen
TrueColour == -2   \* (size_t)-2: a colour that bold does not alter
BadPoint == 2097152    \* stands for UINT64_MAX, above any code point
DecSpecial == 1

-----------------------------------------------------------------------------
Saved(t) == [bold |-> t.bold, bg_bold |-> t.bg_bold, reverse |-> t.reverse,
             origin |-> t.origin, charset |-> t.charset, charsets |-> t.charsets,
             primary |-> t.primary, bg |-> t.bg, text_fg |-> t.text_fg,
             text_bg |-> t.text_bg, text_fg_default |-> t.text_fg_default,
             text_bg_default |-> t.text_bg_default, x |-> t.x, y |-> t.y]

(* The state after power on or a full reset.  The part of the saved state  *)
(* the backend keeps (colours and cursor) survives it, and so do the OSC   *)
(* buffer and the values of the last control sequence.                     *)
Ground == [autoflush |-> TRUE, cursor_enabled |-> TRUE, scroll_enabled |-> TRUE,
           wrap_enabled |-> TRUE, origin |-> FALSE, csi |-> FALSE,
           escape |-> FALSE, osc |-> FALSE, osc_escape |-> FALSE,
           rrr |-> FALSE, discard_next |-> FALSE, bold |-> FALSE,
           bg_bold |-> FALSE, reverse |-> FALSE, dec_private |-> FALSE,
           insert_mode |-> FALSE, unhandled |-> FALSE, remaining |-> 0,
           g_select |-> 0, charsets |-> <<0, DecSpecial>>, charset |-> 1,
           offset |-> 0, n_esc |-> 0, saved_x |-> 0, saved_y |-> 0,
           primary |-> Default, bg |-> Default, last_char |-> Blank,
           last_graphic |-> FALSE, top |-> 0, bottom |-> Rows]

flanterm_context_reinit(t) ==
    LET g == Ground @@ t
    IN  [g EXCEPT !.saved.bold = FALSE, !.saved.bg_bold = FALSE,
                  !.saved.reverse = FALSE, !.saved.origin = FALSE,
                  !.saved.charset = 1, !.saved.charsets = Ground.charsets,
                  !.saved.primary = Default, !.saved.bg = Default]

save_state(t) == [t EXCEPT !.saved = Saved(t)]
restore_state(t) == t.saved @@ t

-----------------------------------------------------------------------------
(* Colours.  In reverse video the two layers are exchanged: what is chosen *)
(* for the text is painted on the background and the other way round.      *)
OnFg(t, isFg) == isFg # t.reverse
Paint(t, fgLayer, colour) == IF fgLayer THEN SetFg(t, colour) ELSE SetBg(t, colour)
PaintDefault(t, fgLayer, bright) ==
    CASE fgLayer /\ bright -> SetFg(t, DefaultFgBright)
      [] fgLayer /\ ~bright -> SetFg(t, DefaultFg)
      [] ~fgLayer /\ bright -> SetBg(t, DefaultBgBright)
      [] OTHER -> SetBgDefault(t)
Chosen(t, isFg) == IF isFg THEN t.primary ELSE t.bg
Choose(t, isFg, v) == IF isFg THEN [t EXCEPT !.primary = v] ELSE [t EXCEPT !.bg = v]
Bright(t, isFg) == IF isFg THEN t.bold ELSE t.bg_bold
Unswapped(t, F(_)) ==
    IF t.reverse THEN swap_palette(F(swap_palette(t))) ELSE F(t)

(* SGR 0: everything back to the defaults.                                 *)
SgrReset(t) ==
    LET plain == IF t.reverse THEN swap_palette(t) ELSE t
    IN  SetFg(SetBgDefault([plain EXCEPT !.reverse = FALSE, !.bold = FALSE,
                                !.bg_bold = FALSE, !.primary = Default,
                                !.bg = Default]), DefaultFg)

(* SGR 1, 5, 22 and 25: the brightness of a layer; a true colour keeps its *)
(* own.                                                                    *)
SgrBright(t, isFg, on) ==
    LET s == IF isFg THEN [t EXCEPT !.bold = on] ELSE [t EXCEPT !.bg_bold = on]
        v == Chosen(t, isFg)
    IN  CASE v = TrueColour -> s
          [] v = Default -> PaintDefault(s, OnFg(s, isFg), on)
          [] OTHER -> Paint(s, OnFg(s, isFg), v + (IF on THEN 8 ELSE 0))

(* SGR 30-37, 40-47, 90-97, 100-107: a colour of the palette.              *)
SgrColour(t, isFg, v, bright) ==
    Paint(Choose(t, isFg, v), OnFg(t, isFg),
          v + (IF bright \/ Bright(t, isFg) THEN 8 ELSE 0))

(* SGR 39 and 49, and the two reset calls of the interface.                *)
SgrDefault(t, isFg) ==
    Unswapped(Choose(t, isFg, Default),
              LAMBDA s: PaintDefault(s, isFg, Bright(t, isFg)))

(* SGR 7 and 27.                                                           *)
SgrReverse(t, on) ==
    IF t.reverse = on THEN t ELSE [swap_palette(t) EXCEPT !.reverse = on]

(* SGR 38 and 48 at value i: the context and the last value they consumed; *)
(* a sequence that is too short ends the whole command.                    *)
SgrExtended(t, i, isFg) ==
    LET s == Choose(t, isFg, TrueColour)
        fgLayer == OnFg(t, isFg)
        byte(k) == t.esc[k] % 256
    IN  IF i + 1 >= t.n_esc THEN <<t, t.n_esc>>
        ELSE IF t.esc[i + 1] = 2 THEN
             IF i + 4 >= t.n_esc THEN <<t, t.n_esc>>
             ELSE <<Paint(s, fgLayer, Rgb + byte(i + 2) * 65536
                                          + byte(i + 3) * 256 + byte(i + 4)), i + 4>>
        ELSE IF t.esc[i + 1] = 5 THEN
             IF i + 2 >= t.n_esc THEN <<t, t.n_esc>>
             ELSE LET col == t.esc[i + 2]
                  IN  <<IF col >= 256 THEN t
                        ELSE Paint(s, fgLayer, IF col < 16 THEN col
                                               ELSE Rgb + 16777216 + col), i + 2>>
        ELSE <<t, i + 1>>

SgrValue(t, i) ==
    LET v == t.esc[i]
    IN  CASE v = 0 -> <<SgrReset(t), i>>
          [] v \in {1, 22} -> <<SgrBright(t, TRUE, v = 1), i>>
          [] v \in {5, 25} -> <<SgrBright(t, FALSE, v = 5), i>>
          [] v \in {7, 27} -> <<SgrReverse(t, v = 7), i>>
          [] v \in 30 .. 37 -> <<SgrColour(t, TRUE, v - 30, FALSE), i>>
          [] v \in 40 .. 47 -> <<SgrColour(t, FALSE, v - 40, FALSE), i>>
          [] v \in 90 .. 97 -> <<SgrColour(t, TRUE, v - 90, TRUE), i>>
          [] v \in 100 .. 107 -> <<SgrColour(t, FALSE, v - 100, TRUE), i>>
          [] v \in {39, 49} -> <<SgrDefault(t, v = 39), i>>
          [] v \in {38, 48} -> SgrExtended(t, i, v = 38)
          [] OTHER -> <<t, i>>

RECURSIVE SgrFrom(_, _)
SgrFrom(t, i) ==
    IF i >= t.n_esc THEN t
    ELSE LET r == SgrValue(t, i) IN SgrFrom(r[1], r[2] + 1)

sgr(t) == IF t.n_esc = 0 THEN SgrReset(t) ELSE SgrFrom(t, 0)

-----------------------------------------------------------------------------
(* Modes, private modes, OSC strings and the control characters.  No       *)
(* callback is registered by the kernel, so replies are left out.          *)
DecMode(t, v, set) ==
    CASE v = 6 -> set_cursor_pos([t EXCEPT !.origin = set], 0,
                                 IF set THEN t.top ELSE 0)
      [] v = 7 -> [t EXCEPT !.wrap_enabled = set]
      [] v = 25 -> [t EXCEPT !.cursor_enabled = set]
      [] v = 1049 -> IF set THEN clear(save_state(t), TRUE)
                     ELSE restore_state(clear(t, TRUE))
      [] OTHER -> t

dec_private_parse(t, c) ==
    LET s == [t EXCEPT !.dec_private = FALSE]
    IN  IF c \notin {Letter.h, Letter.l} THEN s
        ELSE FoldLeft(LAMBDA u, i: DecMode(u, t.esc[i], c = Letter.h),
                      s, Upto(0, t.n_esc - 1))

mode_toggle(t, c) ==
    IF t.n_esc > 0 /\ t.esc[0] = 4 THEN [t EXCEPT !.insert_mode = (c = Letter.h)]
    ELSE t

(* The context, and whether the byte belongs to the OSC string.            *)
osc_parse(t, c) ==
    LET closed == [t EXCEPT !.osc = FALSE, !.osc_escape = FALSE]
    IN  CASE t.osc_escape /\ c = 92 -> <<[closed EXCEPT !.escape = FALSE], TRUE>>
          [] t.osc_escape /\ c # 92 -> <<closed, FALSE>>
          [] ~t.osc_escape /\ c = ESC -> <<[t EXCEPT !.osc_escape = TRUE], TRUE>>
          [] ~t.osc_escape /\ c = 7 -> <<[closed EXCEPT !.escape = FALSE], TRUE>>
          [] OTHER -> <<[t EXCEPT !.osc_n = IF @ < OscSize THEN @ + 1 ELSE @], TRUE>>

(* One line down: at the bottom margin the region scrolls instead.         *)
LineFeed(t, x, y) ==
    IF y = t.bottom - 1 THEN set_cursor_pos(scroll(t), x, y)
    ELSE IF y < Rows - 1 THEN set_cursor_pos(t, x, y + 1) ELSE t

execute_c0(t, c) ==
    LET x == CursorX(t)
        y == CursorY(t)
    IN  CASE c = 8 -> IF x > 0 THEN set_cursor_pos(t, x - 1, y) ELSE t
          [] c = 9 -> set_cursor_pos(t, (x \div 8 + 1) * 8, y)
          [] c \in {10, 11, 12} -> LineFeed(t, x, y)
          [] c = 13 -> set_cursor_pos(t, 0, y)
          [] c \in {14, 15} -> [t EXCEPT !.charset = IF c = 14 THEN 2 ELSE 1]
          [] OTHER -> t

-----------------------------------------------------------------------------
(* Control sequences.  A digit extends the current value unless the value  *)
(* or the number of values is at its limit.                                *)
CsiDigit(t, d) ==
    LET v == t.esc[t.n_esc]
    IN  IF t.n_esc = MaxEsc THEN t
        ELSE IF v > U32Max \div 10 THEN [t EXCEPT !.rrr = TRUE]
        ELSE [t EXCEPT !.rrr = TRUE,
                       !.esc[t.n_esc] = IF v * 10 > U32Max - d THEN U32Max
                                        ELSE v * 10 + d]

(* The end of a value: the context, and whether the byte was a separator.  *)
CsiSeparator(t, c) ==
    CASE t.rrr -> <<[t EXCEPT !.n_esc = @ + 1, !.rrr = FALSE], c = 59>>
      [] ~t.rrr /\ c = 59 ->
           <<IF t.n_esc = MaxEsc THEN t
             ELSE [t EXCEPT !.esc[t.n_esc] = 0, !.n_esc = @ + 1], TRUE>>
      [] OTHER -> <<t, FALSE>>

(* Values that were not given, and zeros where zero has no meaning, become *)
(* the default of the command.                                             *)
CsiDefaults(t, c) ==
    LET d == IF c \in {Letter.J, Letter.K, Letter.q, Letter.m, Letter.c, 93}
             THEN 0 ELSE 1
    IN  [t EXCEPT !.esc = [i \in 0 .. MaxEsc - 1 |->
            IF i >= t.n_esc \/ (d # 0 /\ t.esc[i] = 0) THEN d ELSE t.esc[i]]]

Lesser(a, b) == IF a < b THEN a ELSE b
Greater(a, b) == IF a > b THEN a ELSE b

(* The commands that move the cursor; in origin mode rows are counted from *)
(* the top margin and the cursor stays inside the region.                  *)
RowAt(t, v) ==
    LET first == IF t.origin THEN t.top ELSE 0
        count == IF t.origin THEN t.bottom - t.top ELSE Rows
    IN  first + Lesser(v - 1, count - 1)
CsiMove(t, c) ==
    LET n == t.esc[0]
        x == CursorX(t)
        y == CursorY(t)
        up == Greater(y - n, IF t.origin THEN t.top ELSE 0)
        down == Lesser(y + n, (IF t.origin THEN t.bottom ELSE Rows) - 1)
    IN  CASE c = Letter.A -> set_cursor_pos(t, x, up)
          [] c = Letter.F -> set_cursor_pos(t, 0, up)
          [] c \in {Letter.B, Letter.e} -> set_cursor_pos(t, x, down)
          [] c = Letter.E -> set_cursor_pos(t, 0, down)
          [] c \in {Letter.C, Letter.a} -> set_cursor_pos(t, Lesser(x + n, Cols - 1), y)
          [] c = Letter.D -> set_cursor_pos(t, Greater(x - n, 0), y)
          [] c = Letter.d -> set_cursor_pos(t, x, RowAt(t, n))
          [] c \in {Letter.G, 96} -> set_cursor_pos(t, Lesser(n - 1, Cols - 1), y)
          [] c \in {Letter.H, Letter.f} ->
               set_cursor_pos(t, Lesser(t.esc[1] - 1, Cols - 1), RowAt(t, n))
          [] c = Letter.s -> [t EXCEPT !.saved_x = x, !.saved_y = y]
          [] OTHER -> set_cursor_pos(t, t.saved_x, t.saved_y)    \* u
Moves == {Letter.A, Letter.F, Letter.B, Letter.e, Letter.E, Letter.C, Letter.a,
          Letter.D, Letter.d, Letter.G, 96, Letter.H, Letter.f, Letter.s, Letter.u}

Times(t, n, F(_)) == FoldLeft(LAMBDA s, i: F(s), t, Upto(1, n))
Blanks(t, n) == Times(t, n, LAMBDA s: raw_putchar(s, Blank))

(* Insert and delete lines (a region that starts at the cursor) and scroll *)
(* the region.                                                             *)
CsiScroll(t, c) ==
    LET y == CursorY(t)
        n == t.esc[0]
        inside == t.top <= y /\ y < t.bottom
        region(s, count, F(_)) ==
            [Times([s EXCEPT !.top = y], count, F) EXCEPT !.top = t.top]
    IN  CASE c = Letter.M -> IF inside THEN region(t, Lesser(n, t.bottom - y), scroll) ELSE t
          [] c = Letter.L -> IF inside THEN region(t, Lesser(n, t.bottom - y), revscroll) ELSE t
          [] c = Letter.S -> Times(t, Lesser(n, t.bottom - t.top), scroll)
          [] OTHER -> Times(t, Lesser(n, t.bottom - t.top), revscroll)   \* T

(* Erase in the display and in the line: from the cursor on, up to and     *)
(* including the cursor, or all of it.                                     *)
EraseLine(t, y, from, to) == Blanks(set_cursor_pos(t, from, y), to - from + 1)
EraseLines(t, first, last) ==
    FoldLeft(LAMBDA s, y: EraseLine(s, y, 0, Cols - 1), t, Upto(first, last))
CsiErase(t, c) ==
    LET x == CursorX(t)
        y == CursorY(t)
        v == t.esc[0]
        back(s) == set_cursor_pos(s, x, y)
    IN  CASE c = Letter.K /\ v = 0 -> back(EraseLine(t, y, x, Cols - 1))
          [] c = Letter.K /\ v = 1 -> back(EraseLine(t, y, 0, x))
          [] c = Letter.K /\ v = 2 -> back(EraseLine(t, y, 0, Cols - 1))
          [] c = Letter.J /\ v = 0 ->
               back(EraseLines(EraseLine(t, y, x, Cols - 1), y + 1, Rows - 1))
          [] c = Letter.J /\ v = 1 -> back(EraseLine(EraseLines(t, 0, y - 1), y, 0, x))
          [] c = Letter.J /\ v \in {2, 3} -> clear(t, FALSE)
          [] OTHER -> t

(* Make room for n characters at the cursor.                               *)
Shift(t, n) ==
    LET x == CursorX(t)
        y == CursorY(t)
        k == Lesser(n, Cols - x)
    IN  FoldLeft(LAMBDA s, i: move_character(s, i, y, i - k, y),
                 t, Reverse(Upto(x + k, Cols - 1)))
insert_shift(t, n) == IF t.insert_mode /\ n > 0 THEN Shift(t, n) ELSE t

CsiEdit(t, c) ==
    LET x == CursorX(t)
        y == CursorY(t)
        n == Lesser(t.esc[0], Cols - x)
        closed == FoldLeft(LAMBDA s, i: move_character(s, i - n, y, i, y),
                           t, Upto(x + n, Cols - 1))
    IN  CASE c = 64 ->
               set_cursor_pos(Blanks(set_cursor_pos(Shift(t, n), x, y), n), x, y)
          [] c = Letter.P ->
               set_cursor_pos(Blanks(set_cursor_pos(closed, Cols - n, y), n), x, y)
          [] OTHER -> set_cursor_pos(Blanks(set_cursor_pos(t, x, y), n), x, y)   \* X

(* Mutant: an empty or inverted region is accepted.                        *)
MutMargins(t) ==
    LET top == IF t.n_esc > 0 THEN t.esc[0] - 1 ELSE 0
        bottom == IF t.n_esc > 1 THEN t.esc[1] ELSE Rows
        bad == top >= Rows \/ bottom > Rows
    IN  set_cursor_pos([t EXCEPT !.top = IF bad THEN 0 ELSE top,
                                 !.bottom = IF bad THEN Rows ELSE bottom], 0, 0)

(* The scroll region; one that is not well formed is the whole screen.     *)
CsiMargins(t) ==
    LET top == IF t.n_esc > 0 THEN t.esc[0] - 1 ELSE 0
        bottom == IF t.n_esc > 1 THEN t.esc[1] ELSE Rows
        bad == top >= Rows \/ bottom > Rows \/ top >= bottom - 1
        s == [t EXCEPT !.top = IF bad THEN 0 ELSE top,
                       !.bottom = IF bad THEN Rows ELSE bottom]
    IN  set_cursor_pos(s, 0, IF s.origin THEN s.top ELSE 0)

(* Repeat the last graphic character.                                      *)
CsiRepeat(t) ==
    IF ~t.last_graphic THEN t
    ELSE Times(t, Lesser(t.esc[0], Cols),
               LAMBDA s: raw_putchar(insert_shift(s, 1), t.last_char))

(* A final byte.  Nothing scrolls and everything wraps while a command     *)
(* runs, except the repeat.                                                *)
CsiCommand(t, c) ==
    LET quiet == [t EXCEPT !.scroll_enabled = FALSE, !.wrap_enabled = TRUE]
        loud(s) == [s EXCEPT !.scroll_enabled = t.scroll_enabled,
                             !.wrap_enabled = t.wrap_enabled]
    IN  CASE c \in Moves -> loud(CsiMove(quiet, c))
          [] c \in {Letter.M, Letter.L, Letter.S, Letter.T} -> loud(CsiScroll(quiet, c))
          [] c \in {Letter.J, Letter.K} -> loud(CsiErase(quiet, c))
          [] c \in {64, Letter.P, Letter.X} -> loud(CsiEdit(quiet, c))
          [] c = Letter.m -> sgr(t)
          [] c = Letter.r -> loud(CsiMargins(quiet))
          [] c \in {Letter.l, Letter.h} -> mode_toggle(t, c)
          [] c = Letter.b -> CsiRepeat(t)
          [] OTHER -> t

CsiEnd(t) == [t EXCEPT !.csi = FALSE, !.escape = FALSE]
CsiAbort(t) == [t EXCEPT !.csi = FALSE, !.offset = 0, !.unhandled = FALSE]

control_sequence_parse(t, c) ==
    LET sep == CsiSeparator(t, c)
        s == CsiDefaults(sep[1], c)
        final == c \in 64 .. 126
    IN  CASE t.offset = 2 /\ c = 91 -> CsiEnd([t EXCEPT !.discard_next = TRUE])
          [] t.offset = 2 /\ c = 63 -> [t EXCEPT !.dec_private = TRUE]
          [] c < 32 /\ c # ESC -> execute_c0(t, c)
          [] c \in 48 .. 57 -> CsiDigit(t, c - 48)
          [] OTHER ->
               IF sep[2] THEN sep[1]
               ELSE IF s.dec_private THEN
                    IF c \in 32 .. 47
                    THEN [s EXCEPT !.dec_private = FALSE, !.unhandled = TRUE]
                    ELSE CsiEnd(dec_private_parse(s, c))
               ELSE IF c = ESC THEN CsiAbort(s)
               ELSE IF s.unhandled THEN
                    IF final THEN CsiEnd([s EXCEPT !.unhandled = FALSE]) ELSE s
               ELSE IF final THEN CsiEnd(CsiCommand(s, c))
               ELSE [s EXCEPT !.unhandled = TRUE]

-----------------------------------------------------------------------------
(* A byte after ESC.                                                       *)
EscapeCommand(t, c) ==
    LET x == CursorX(t)
        y == CursorY(t)
        done(s) == [s EXCEPT !.escape = FALSE]
    IN  CASE c = ESC -> [t EXCEPT !.offset = 0]
          [] c = 93 -> [t EXCEPT !.osc_escape = FALSE, !.osc = TRUE, !.osc_n = 0]
          [] c = 91 -> [t EXCEPT !.esc = [i \in 0 .. MaxEsc - 1 |-> 0], !.n_esc = 0,
                                 !.rrr = FALSE, !.unhandled = FALSE, !.csi = TRUE]
          [] c = 55 -> done(save_state(t))
          [] c = 56 -> done(restore_state(t))
          [] c = Letter.c ->
               LET plain == IF t.reverse THEN swap_palette(t) ELSE t
                   reset == SetFg(SetBgDefault(flanterm_context_reinit(plain)), DefaultFg)
               IN  done(save_state(clear(reset, TRUE)))
          [] c = Letter.D -> done(LineFeed(t, x, y))
          [] c = Letter.E ->
               done(IF y = t.bottom - 1 \/ y < Rows - 1 THEN LineFeed(t, 0, y)
                    ELSE set_cursor_pos(t, 0, y))
          [] c = Letter.M ->
               done(IF y = t.top THEN set_cursor_pos(revscroll(t), x, y)
                    ELSE IF y > 0 THEN set_cursor_pos(t, x, y - 1) ELSE t)
          [] c \in {40, 41} -> done([t EXCEPT !.g_select = c - 39])
          [] OTHER -> done(t)

escape_parse(t, c) ==
    LET s == [t EXCEPT !.offset = @ + 1]
        osc == osc_parse(s, c)
        u == IF s.osc THEN [osc[1] EXCEPT !.offset = 1] ELSE s
    IN  IF s.osc /\ osc[2] THEN osc[1]
        ELSE IF u.csi THEN control_sequence_parse(u, c)
        ELSE EscapeCommand(u, c)

(* A graphic character: room for it, the character, and what a repeat      *)
(* would print.                                                            *)
Graphic(t, c) ==
    raw_putchar([t EXCEPT !.last_char = c, !.last_graphic = TRUE], c)
DecGlyphs == {96, 48, 45, 44, 46, 97} \cup 102 .. 104 \cup 106 .. 110
             \cup {113} \cup 115 .. 122 \cup {126, 95, 43, 123, 125}
Replacement == 254

(* Of the character tables only what the parser tells apart is kept: the   *)
(* glyph of a code point (some have one), and the width of those without:  *)
(* none for combining marks, two for wide ones.                            *)
Known == {233, 8364}
Combining == {769}
Wide == {12354, 128512}
unicode_to_cp437(point) == IF point \in Known THEN 128 + (point % 64) ELSE Default
mk_wcwidth(point) ==
    IF point \in Combining THEN 0 ELSE IF point \in Wide THEN 2 ELSE 1

CodePoint(t, point) ==
    LET glyph == unicode_to_cp437(point)
        width == mk_wcwidth(point)
    IN  IF glyph # Default THEN Graphic(insert_shift(t, 1), glyph)
        ELSE IF width = 0 THEN t
        ELSE Blanks(Graphic(insert_shift(t, width), Replacement), width - 1)

(* A byte outside an escape sequence and outside a UTF-8 sequence.         *)
PlainByte(t, c) ==
    LET s == IF c <= 31 \/ c = 127 THEN [t EXCEPT !.g_select = 0] ELSE t
        u == IF (c <= 31 /\ c # ESC) \/ c = 127
             THEN [s EXCEPT !.last_graphic = FALSE] ELSE s
    IN  CASE s.g_select # 0 ->
               [s EXCEPT !.g_select = 0,
                         !.charsets[s.g_select] = CASE c = Letter.B -> 0
                                                    [] c = 48 -> DecSpecial
                                                    [] OTHER -> @]
          [] s.g_select = 0 /\ c \in {0, 127} -> u
          [] s.g_select = 0 /\ c = ESC -> [u EXCEPT !.offset = 0, !.escape = TRUE]
          [] s.g_select = 0 /\ c < 32 /\ c \notin {0, ESC} -> execute_c0(u, c)
          [] OTHER ->
               LET v == insert_shift(u, 1)
               IN  Graphic(v, IF c >= 128 THEN Replacement
                              ELSE IF v.charsets[v.charset] = DecSpecial
                                      /\ c \in DecGlyphs THEN 128 + c
                              ELSE c)

(* The first byte of a UTF-8 sequence, or another byte.                    *)
StartByte(t, c) ==
    LET lead(n, v) == [t EXCEPT !.g_select = 0, !.remaining = n, !.code_point = v]
    IN  CASE ~t.escape /\ c \in 194 .. 223 -> lead(1, (c % 32) * 64)
          [] ~t.escape /\ c \in 224 .. 239 -> lead(2, (c % 16) * 4096)
          [] ~t.escape /\ c \in 240 .. 244 -> lead(3, (c % 8) * 262144)
          [] t.escape -> escape_parse(t, c)
          [] OTHER -> PlainByte(t, c)

(* A byte while a UTF-8 sequence is open.  A byte that cannot continue it  *)
(* prints one replacement character and is taken as the start of the next: *)
(* the byte goes on to StartByte.  A complete sequence above U+10FFFF      *)
(* prints nothing.                                                         *)
Taken(t) == [state |-> t, goesOn |-> FALSE]
GoesOn(t) == [state |-> t, goesOn |-> TRUE]
Continue(t, c) ==
    LET left == t.remaining - 1
        point == IF t.code_point >= BadPoint THEN BadPoint
                 ELSE t.code_point + (c % 64) * 64 ^ left
        s == [t EXCEPT !.remaining = left, !.code_point = point]
    IN  IF c \div 64 # 2 THEN
             LET u == [t EXCEPT !.remaining = 0, !.code_point = 0]
             IN  GoesOn(IF t.code_point > 1114111 THEN u
                        ELSE raw_putchar(insert_shift(u, 1), Replacement))
        ELSE IF point > 1114111 THEN Taken(s)
        ELSE IF (left = 1 /\ point < 2048) \/ (left = 2 /\ point < 65536) THEN
             Taken([Graphic(insert_shift(s, 1), Replacement) EXCEPT !.code_point = BadPoint])
        ELSE IF left # 0 THEN Taken(s)
        ELSE IF point \in 55296 .. 57343 THEN GoesOn(s)
        ELSE Taken(CodePoint(s, point))
ByteAfter(r, c) == IF r.goesOn THEN StartByte(r.state, c) ELSE r.state

flanterm_putchar(t, c) ==
    IF t.discard_next \/ c \in {24, 26}
    THEN [t EXCEPT !.discard_next = FALSE, !.escape = FALSE, !.csi = FALSE,
                   !.remaining = 0, !.osc = FALSE, !.osc_escape = FALSE,
                   !.g_select = 0, !.last_graphic = FALSE]
    ELSE ByteAfter(IF ~t.escape /\ t.remaining # 0 THEN Continue(t, c) ELSE GoesOn(t), c)

(* The calls of the interface the driver makes: text, a colour of the      *)
(* palette, and back to the default, each followed by a flush when         *)
(* autoflush is on.                                                        *)
AutoFlush(t) == IF t.autoflush THEN double_buffer_flush(t) ELSE t
flanterm_write(t, bytes) == AutoFlush(FoldLeft(flanterm_putchar, t, bytes))
flanterm_set_text(t, isFg, colour) ==
    IF colour.color >= 8 THEN t
    ELSE AutoFlush(Paint(Choose(t, isFg, colour.color), OnFg(t, isFg),
                         colour.color + (IF colour.bright THEN 8 ELSE 0)))
flanterm_reset_text(t, isFg) == AutoFlush(SgrDefault(t, isFg))

-----------------------------------------------------------------------------
(* The context as flanterm_fb_init leaves it: blank cells drawn, and the   *)
(* cursor on the first of them.                                            *)
FreshCell == [c |-> Blank, fg |-> DefaultFg, bg |-> 0, fgd |-> FALSE, bgd |-> TRUE]
Zeroed == Ground @@
    [x |-> 0, y |-> 0, old_x |-> 0, old_y |-> 0, queue |-> <<>>,
     grid |-> [i \in Cells |-> FreshCell], text |-> [i \in Cells |-> FreshCell],
     map |-> [i \in Cells |-> 0], shown |-> [i \in Cells |-> Resolve(FreshCell)],
     text_fg |-> DefaultFg, text_bg |-> 0, text_fg_default |-> FALSE,
     text_bg_default |-> TRUE, code_point |-> 0, osc_n |-> 0,
     esc |-> [i \in 0 .. MaxEsc - 1 |-> 0]]
Fresh == full_refresh(flanterm_context_reinit(Zeroed @@ [saved |-> Saved(Zeroed)]))

TermInit == term = NoTerm /\ written = 0 /\ flushed = FALSE

FramebufferInit ==
    /\ term = NoTerm
    /\ term' = [flanterm_reset_text(flanterm_reset_text(Fresh, FALSE), TRUE)
                   EXCEPT !.autoflush = FALSE]
    /\ flushed' = TRUE
    /\ UNCHANGED written

FramebufferWriteEvent(e) ==
    /\ term # NoTerm
    /\ written < MaxEvents
    /\ written' = written + 1
    /\ LET coloured == flanterm_set_text(flanterm_set_text(term, FALSE, e.bg), TRUE, e.fg)
           out == flanterm_write(coloured, e.msg)
       IN  term' = flanterm_reset_text(flanterm_reset_text(out, FALSE), TRUE)
    /\ flushed' = term'.autoflush

FramebufferFlush ==
    /\ term # NoTerm
    /\ term' = double_buffer_flush(term)
    /\ flushed' = TRUE
    /\ UNCHANGED written

FramebufferDeinit ==
    /\ term # NoTerm
    /\ term' = NoTerm
    /\ flushed' = FALSE
    /\ UNCHANGED written

TermNext ==
    \/ FramebufferInit
    \/ \E e \in Events: FramebufferWriteEvent(e)
    \/ FramebufferFlush
    \/ FramebufferDeinit

-----------------------------------------------------------------------------
(* Whatever bytes arrive, the cursor is on the screen (or just past the    *)
(* last column, before a wrap), the scroll region is a region of the       *)
(* screen, and no parser index leaves its buffer: flanterm.c indexes       *)
(* esc_values, osc_buf and the grid with them.                             *)
CursorAndParserInBounds ==
    term # NoTerm =>
        /\ term.x \in 0 .. Cols /\ term.y \in 0 .. Rows - 1
        /\ term.saved.x \in 0 .. Cols /\ term.saved.y \in 0 .. Rows - 1
        /\ 0 <= term.top /\ term.top < term.bottom /\ term.bottom <= Rows
        /\ term.n_esc <= MaxEsc /\ term.osc_n <= OscSize
        /\ ~term.escape => ~term.csi /\ ~term.osc

(* The queue of changed cells loses nothing: a cell is queued once, every  *)
(* queue item is the current one of its cell, and queue and grid together  *)
(* hold the text an immediate-mode terminal would hold.                    *)
QueueMirrorsText ==
    term # NoTerm =>
        /\ \A i \in Cells: term.map[i] # 0 => term.queue[term.map[i]].at = i
        /\ \A k \in DOMAIN term.queue: term.map[term.queue[k].at] = k
        /\ \A i \in Cells: Resolve(Latest(term, i)) = Resolve(term.text[i])

(* After a flush the pixels show the text, with the cell under an enabled  *)
(* cursor inverted and no cursor left behind anywhere else.                *)
ScreenShowsText ==
    term # NoTerm /\ flushed =>
        \A i \in Cells:
            term.shown[i] = Resolve(IF term.cursor_enabled /\ term.x < Cols
                                       /\ i = term.y * Cols + term.x
                                    THEN Swapped(term.text[i]) ELSE term.text[i])

(* Text, queue and pixels agree, whatever was written and scrolled before. *)
ScreenFollowsText == QueueMirrorsText /\ ScreenShowsText
=============================================================================
