----------------------------- MODULE Framebuffer -----------------------------
(***************************************************************************)
(* The framebuffer backend of the terminal (Flanterm's fb.c): a grid of    *)
(* cells, a queue of cells that changed since the last flush, a map from a *)
(* cell to its queue item, and the pixels.  Every operation is an operator *)
(* from the context record t to the context record the C code leaves.      *)
(*                                                                         *)
(* A cell is a number y * Cols + x.  A queue item is [at, ch]; map[i] is 0 *)
(* when cell i is not queued.  A colour is a number: 0..7 the palette,     *)
(* 8..15 the bright palette, then the four default colours, and from Rgb   *)
(* on the true colours.  shown[i] is the pair of colours and the glyph the *)
(* pixels of cell i show; text is the reference the queue is compared      *)
(* with: the screen an immediate-mode terminal would have.                 *)
(***************************************************************************)
EXTENDS Integers, Sequences, SequencesExt

CONSTANTS Cols, Rows

ASSUME GridAssumption == Cols \in Nat \ {0} /\ Rows \in Nat \ {0}

Cells == 0 .. Rows * Cols - 1
DefaultFg == 16
DefaultFgBright == 17
DefaultBg == 18
DefaultBgBright == 19
Rgb == 20
Blank == 32

Upto(a, b) == [k \in 1 .. b - a + 1 |-> a + k - 1]

-----------------------------------------------------------------------------
(* The colours of a cell on the screen: a default colour of either kind is *)
(* the default background (there is no canvas: the pool allocator forces   *)
(* it off).                                                                *)
Resolve(ch) == [c |-> ch.c,
                fg |-> IF ch.fgd THEN DefaultBg ELSE ch.fg,
                bg |-> IF ch.bgd THEN DefaultBg ELSE ch.bg]

plot_char(t, ch, x, y) ==
    IF x >= Cols \/ y >= Rows THEN t
    ELSE [t EXCEPT !.shown[y * Cols + x] = Resolve(ch)]

Swapped(ch) == [ch EXCEPT !.fg = ch.bg, !.bg = ch.fg,
                          !.fgd = ch.bgd, !.bgd = ch.fgd]

compare_char(a, b) ==
    /\ a.c = b.c /\ a.fgd = b.fgd /\ a.bgd = b.bgd
    /\ a.fgd \/ a.fg = b.fg
    /\ a.bgd \/ a.bg = b.bg

(* Mutant: the comparison with the grid comes first, queued or not.        *)
MutPush(t, ch, x, y) ==
    LET i == y * Cols + x
    IN  IF x >= Cols \/ y >= Rows \/ compare_char(t.grid[i], ch) THEN t
        ELSE IF t.map[i] # 0 THEN [t EXCEPT !.queue[t.map[i]].ch = ch]
        ELSE [t EXCEPT !.queue = Append(@, [at |-> i, ch |-> ch]),
                       !.map[i] = Len(t.queue) + 1]

(* A cell that is queued already is changed in its queue item; one that    *)
(* would show what the grid holds is not queued; a full queue drops it.    *)
push_to_queue(t, ch, x, y) ==
    LET i == y * Cols + x
    IN  IF x >= Cols \/ y >= Rows THEN t
        ELSE IF t.map[i] # 0 THEN [t EXCEPT !.queue[t.map[i]].ch = ch]
        ELSE IF compare_char(t.grid[i], ch) \/ Len(t.queue) = Rows * Cols
        THEN t
        ELSE [t EXCEPT !.queue = Append(@, [at |-> i, ch |-> ch]),
                       !.map[i] = Len(t.queue) + 1]

(* What a cell holds: its queue item, or the grid.                         *)
Latest(t, i) == IF t.map[i] # 0 THEN t.queue[t.map[i]].ch ELSE t.grid[i]

Styled(t, c) == [c |-> c, fg |-> t.text_fg, bg |-> t.text_bg,
                 fgd |-> t.text_fg_default, bgd |-> t.text_bg_default]

PushRow(t, y) ==
    FoldLeft(LAMBDA s, x: push_to_queue(s, Styled(t, Blank), x, y),
             t, Upto(0, Cols - 1))

(* One line up inside the scroll region, with a blank line at the bottom.  *)
scroll(t) ==
    LET moved == FoldLeft(LAMBDA s, i: push_to_queue(s, Latest(s, i),
                                         (i - Cols) % Cols, (i - Cols) \div Cols),
                          t, Upto((t.top + 1) * Cols, t.bottom * Cols - 1))
        line(i) == i \div Cols
    IN  [PushRow(moved, t.bottom - 1) EXCEPT !.text =
            [i \in Cells |->
                IF line(i) = t.bottom - 1 THEN Styled(t, Blank)
                ELSE IF t.top <= line(i) /\ line(i) < t.bottom
                THEN t.text[i + Cols] ELSE t.text[i]]]

(* One line down, from the last cell to the first.                         *)
revscroll(t) ==
    LET moved == FoldLeft(LAMBDA s, i: push_to_queue(s, Latest(s, i),
                                         (i + Cols) % Cols, (i + Cols) \div Cols),
                          t, Reverse(Upto(t.top * Cols, (t.bottom - 1) * Cols - 1)))
        line(i) == i \div Cols
    IN  [PushRow(moved, t.top) EXCEPT !.text =
            [i \in Cells |->
                IF line(i) = t.top THEN Styled(t, Blank)
                ELSE IF t.top < line(i) /\ line(i) < t.bottom
                THEN t.text[i - Cols] ELSE t.text[i]]]

clear(t, move) ==
    LET blank == FoldLeft(LAMBDA s, i: push_to_queue(s, Styled(t, Blank),
                                                     i % Cols, i \div Cols),
                          t, Upto(0, Rows * Cols - 1))
    IN  [blank EXCEPT !.text = [i \in Cells |-> Styled(t, Blank)],
                      !.x = IF move THEN 0 ELSE @,
                      !.y = IF move THEN 0 ELSE @]

(* A coordinate past the edge is the edge; one that wrapped below zero is  *)
(* zero.  A negative number here stands for a size_t above SIZE_MAX / 2.   *)
Clamp(v, n) == IF v < 0 THEN 0 ELSE IF v >= n THEN n - 1 ELSE v
set_cursor_pos(t, x, y) == [t EXCEPT !.x = Clamp(x, Cols), !.y = Clamp(y, Rows)]
CursorX(t) == IF t.x >= Cols THEN Cols - 1 ELSE t.x
CursorY(t) == IF t.y >= Rows THEN Rows - 1 ELSE t.y

move_character(t, new_x, new_y, old_x, old_y) ==
    IF old_x >= Cols \/ old_y >= Rows \/ new_x >= Cols \/ new_y >= Rows THEN t
    ELSE [push_to_queue(t, Latest(t, old_y * Cols + old_x), new_x, new_y)
             EXCEPT !.text[new_y * Cols + new_x] = t.text[old_y * Cols + old_x]]

(* The colour setters.  The default background is not a colour but a flag. *)
SetFg(t, colour) == [t EXCEPT !.text_fg = colour, !.text_fg_default = FALSE]
SetBg(t, colour) == [t EXCEPT !.text_bg = colour, !.text_bg_default = FALSE]
SetBgDefault(t) == [t EXCEPT !.text_bg_default = TRUE]

swap_palette(t) ==
    [t EXCEPT !.text_fg = t.text_bg, !.text_bg = t.text_fg,
              !.text_fg_default = t.text_bg_default,
              !.text_bg_default = t.text_fg_default]

(* The cell under the cursor is drawn with its colours exchanged, and is   *)
(* taken out of the queue (its item stays, without a map entry).           *)
draw_cursor(t) ==
    LET i == t.y * Cols + t.x
        q == t.map[i]
        drawn == plot_char(t, Swapped(Latest(t, i)), t.x, t.y)
    IN  IF t.x >= Cols \/ t.y >= Rows THEN t
        ELSE IF q = 0 THEN drawn
        ELSE [drawn EXCEPT !.grid[i] = t.queue[q].ch, !.map[i] = 0]

FlushItem(t, item) ==
    IF t.map[item.at] = 0 THEN t
    ELSE [plot_char(t, item.ch, item.at % Cols, item.at \div Cols)
             EXCEPT !.grid[item.at] = item.ch, !.map[item.at] = 0]

(* Mutant: only a cursor that moved is redrawn, not one that was hidden.   *)
MutRedraw(t) ==
    IF <<t.old_x, t.old_y>> # <<t.x, t.y>> /\ t.old_x < Cols /\ t.old_y < Rows
    THEN plot_char(t, t.grid[t.old_y * Cols + t.old_x], t.old_x, t.old_y)
    ELSE t

RedrawOldCursor(t) ==
    IF /\ <<t.old_x, t.old_y>> # <<t.x, t.y>> \/ ~t.cursor_enabled
       /\ t.old_x < Cols /\ t.old_y < Rows
    THEN plot_char(t, t.grid[t.old_y * Cols + t.old_x], t.old_x, t.old_y)
    ELSE t

double_buffer_flush(t) ==
    LET cursor == IF t.cursor_enabled THEN draw_cursor(t) ELSE t
        items == FoldLeft(FlushItem, cursor, t.queue)
    IN  [RedrawOldCursor(items) EXCEPT !.old_x = t.x, !.old_y = t.y,
                                       !.queue = <<>>]

(* A character goes to the cursor; a cursor past the last column wraps     *)
(* first, and scrolls at the bottom margin.                                *)
Wrapped(t) ==
    IF t.x < Cols THEN t
    ELSE IF t.wrap_enabled /\ (t.y < t.bottom - 1 \/ t.scroll_enabled)
    THEN IF t.y + 1 = t.bottom THEN [scroll(t) EXCEPT !.x = 0]
         ELSE [t EXCEPT !.x = 0, !.y = Clamp(t.y + 1, Rows)]
    ELSE [t EXCEPT !.x = Cols - 1]

PutAtCursor(t, c) ==
    [push_to_queue(t, Styled(t, c), t.x, t.y) EXCEPT
        !.text[t.y * Cols + t.x] = Styled(t, c), !.x = t.x + 1]
raw_putchar(t, c) == PutAtCursor(Wrapped(t), c)

(* The whole screen again from the grid, with the cursor on top.           *)
full_refresh(t) ==
    LET cells == FoldLeft(LAMBDA s, i: plot_char(s, t.grid[i],
                                                 i % Cols, i \div Cols),
                          t, Upto(0, Rows * Cols - 1))
    IN  IF t.cursor_enabled THEN draw_cursor(cells) ELSE cells
=============================================================================
