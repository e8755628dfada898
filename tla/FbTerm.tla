------------------------------- MODULE FbTerm -------------------------------
(***************************************************************************)
(* The frame buffer back end of the terminal: kernel/src/backends/fb.c.    *)
(*                                                                         *)
(* A changed cell is not drawn at once: it goes into a queue, which has    *)
(* room for one item per cell, and map tells which item is a cell's.  A    *)
(* flush draws the queue into the frame buffer, only the pixels that       *)
(* change if the colours stay, and moves the cursor, which is a cell drawn *)
(* with its colours exchanged.                                             *)
(***************************************************************************)
EXTENDS Screen, Sequences

CONSTANTS
    Pixels, Font,   \* the pixels of a cell, and those that a character sets
    Colours, Trans, \* the colours; Trans lets the canvas show through
    CANVAS,         \* the colour of the canvas
    Default, Black, \* the text's colour at first; the colour 0
    MAX_X, MAX_CALLS \* bounds on the cursor's column and on the calls

Pens == Colours \cup {Trans}

FbTermNumbers ==
    /\ ScreenNumbers
    /\ {MAX_X, MAX_CALLS} \subseteq Nat /\ MAX_X >= cols
    /\ {Default, Black, CANVAS} \subseteq Colours /\ Trans \notin Colours
    /\ Font \in [Chars -> SUBSET Pixels]

VARIABLES
    grid,           \* the cells as of the last flush
    queue, map,     \* changed cells, and the place of each in the queue (0: none)
    fb,             \* the picture of each cell in the frame buffer
    cursor_x, cursor_y, old_cursor_x, old_cursor_y,
    shows_cursor,   \* cursor_enabled
    text_fg, text_bg, saved_state,
    margins,        \* scroll_top_margin, scroll_bottom_margin, scroll_enabled
    open, calls     \* whether the client is inside flanterm_write; calls so far

fbvars == <<grid, queue, map, fb, cursor_x, cursor_y, old_cursor_x, old_cursor_y, shows_cursor,
            text_fg, text_bg, saved_state, margins, open, calls>>

-----------------------------------------------------------------------------
Show(pen) == IF pen = Trans THEN CANVAS ELSE pen
plot_char(ch) == [p \in Pixels |-> IF p \in Font[ch.c] THEN Show(ch.fg) ELSE Show(ch.bg)]

(* Only the pixels in which the two characters differ. *)
plot_char_fast(picture, old, ch) ==
    [p \in Pixels |-> IF (p \in Font[old.c]) = (p \in Font[ch.c]) THEN picture[p]
                      ELSE plot_char(ch)[p]]

Inverted(ch) == [ch EXCEPT !.fg = ch.bg, !.bg = ch.fg]

(* The queue and the map, as a record; a cell as it will be drawn. *)
Buffers == [queue |-> queue, map |-> map]
Current(b, i) == IF b.map[i] # 0 THEN b.queue[b.map[i]].c ELSE grid[i]

(* The screen that the buffers stand for. *)
scr == [cells |-> [i \in Cells |-> Current(Buffers, i)], x |-> cursor_x, y |-> cursor_y,
        fg |-> text_fg, bg |-> text_bg, saved |-> saved_state,
        top |-> margins.top, bottom |-> margins.bottom, scroll_enabled |-> margins.scroll_enabled]

push_to_queue(b, ch, x, y) ==
    LET i == At(x, y)
    IN  IF x >= cols \/ y >= rows THEN b
        ELSE IF b.map[i] # 0 THEN [b EXCEPT !.queue[b.map[i]].c = ch]
        ELSE IF grid[i] = ch THEN b
        ELSE [queue |-> Append(b.queue, [x |-> x, y |-> y, c |-> ch]),
              map |-> [b.map EXCEPT ![i] = Len(b.queue) + 1]]

(* Loops of pushes: of n cells from the first one on, in the direction of  *)
(* the loop, each a row against it; and of n empty cells.                  *)
Empty == [c |-> Space, fg |-> text_fg, bg |-> text_bg]
PushShifted(b, first, n, dir) ==
    LET after[k \in 0 .. n] ==
            IF k = 0 THEN b
            ELSE LET q == after[k - 1]
                     i == first + dir * (k - 1)
                     to == i - dir * cols
                 IN  push_to_queue(q, Current(q, i), to % cols, to \div cols)
    IN  after[n]
PushEmpty(b, first, n) ==
    LET after[k \in 0 .. n] ==
            IF k = 0 THEN b
            ELSE LET to == first + k - 1
                 IN  push_to_queue(after[k - 1], Empty, to % cols, to \div cols)
    IN  after[n]

(* The cells of the region that a scroll moves. *)
Moved == IF margins.bottom > margins.top THEN (margins.bottom - margins.top - 1) * cols ELSE 0

scrolled(b) ==
    PushEmpty(PushShifted(b, (margins.top + 1) * cols, Moved, 1), (margins.bottom - 1) * cols, cols)
revscrolled(b) ==
    PushEmpty(PushShifted(b, (margins.bottom - 1) * cols - 1, Moved, -1), margins.top * cols, cols)

-----------------------------------------------------------------------------
FbTermInit ==
    /\ grid = [i \in Cells |-> [c |-> Space, fg |-> Default, bg |-> Trans]]
    /\ queue = <<>> /\ map = [i \in Cells |-> 0]
    /\ fb = [i \in Cells |-> plot_char(IF i = 0 THEN Inverted(grid[0]) ELSE grid[i])]
    /\ cursor_x = 0 /\ cursor_y = 0 /\ old_cursor_x = 0 /\ old_cursor_y = 0
    /\ shows_cursor = TRUE
    /\ text_fg = Default /\ text_bg = Trans
    /\ saved_state = [x |-> 0, y |-> 0, fg |-> Black, bg |-> Black]
    /\ margins = [top |-> 0, bottom |-> rows, scroll_enabled |-> TRUE]
    /\ open = FALSE /\ calls = 0

(* A call from flanterm.c, inside flanterm_write. *)
Call ==
    /\ calls < MAX_CALLS /\ calls' = calls + 1 /\ open' = TRUE
    /\ UNCHANGED <<grid, fb, old_cursor_x, old_cursor_y>>
Buffer(b) == queue' = b.queue /\ map' = b.map
SameText == UNCHANGED <<shows_cursor, text_fg, text_bg, saved_state, margins>>
SameCursor == UNCHANGED <<cursor_x, cursor_y>>

flanterm_fb_scroll == Call /\ Buffer(scrolled(Buffers)) /\ SameText /\ SameCursor
flanterm_fb_revscroll == Call /\ Buffer(revscrolled(Buffers)) /\ SameText /\ SameCursor

flanterm_fb_clear(move) ==
    /\ Call /\ Buffer(PushEmpty(Buffers, 0, rows * cols)) /\ SameText
    /\ cursor_x' = (IF move THEN 0 ELSE cursor_x) /\ cursor_y' = (IF move THEN 0 ELSE cursor_y)

flanterm_fb_set_cursor_pos(x, y) ==
    /\ Call /\ SameText /\ UNCHANGED <<queue, map>>
    /\ cursor_x' = (IF x < 0 THEN 0 ELSE IF x >= cols THEN cols - 1 ELSE x)
    /\ cursor_y' = (IF y < 0 THEN 0 ELSE IF y >= rows THEN rows - 1 ELSE y)

flanterm_fb_move_character(new_x, new_y, old_x, old_y) ==
    /\ Call /\ SameText /\ SameCursor
    /\ Buffer(IF old_x >= cols \/ old_y >= rows \/ new_x >= cols \/ new_y >= rows THEN Buffers
              ELSE push_to_queue(Buffers, Current(Buffers, At(old_x, old_y)), new_x, new_y))

(* The row is capped by the number of columns. *)
Capped(y) == IF y >= cols THEN cols - 1 ELSE y

flanterm_fb_raw_putchar(c) ==
    LET ch == [c |-> c, fg |-> text_fg, bg |-> text_bg]
        wraps == cursor_x >= cols /\ (cursor_y < margins.bottom - 1 \/ margins.scroll_enabled)
        scrolls == wraps /\ cursor_y + 1 = margins.bottom
        x == IF wraps THEN 0 ELSE cursor_x
        down == IF wraps /\ ~scrolls THEN cursor_y + 1 ELSE cursor_y
        y == IF wraps THEN Capped(down) ELSE down
    IN  /\ Call /\ SameText /\ x < MAX_X
        /\ Buffer(push_to_queue(IF scrolls THEN scrolled(Buffers) ELSE Buffers, ch, x, y))
        /\ cursor_x' = x + 1 /\ cursor_y' = y

(* set_text_fg, set_text_bg and their variants, with the colour each finds; *)
(* swap_palette; what flanterm.c itself keeps in the context.              *)
SetText(fg, bg) ==
    /\ Call /\ text_fg' = fg /\ text_bg' = bg
    /\ UNCHANGED <<queue, map, shows_cursor, saved_state, margins>> /\ SameCursor

flanterm_fb_swap_palette == SetText(text_bg, text_fg)

SetContext(enabled, region) ==
    /\ Call /\ shows_cursor' = enabled /\ margins' = region
    /\ UNCHANGED <<queue, map, text_fg, text_bg, saved_state>> /\ SameCursor

flanterm_fb_save_state ==
    /\ Call /\ saved_state' = [x |-> cursor_x, y |-> cursor_y, fg |-> text_fg, bg |-> text_bg]
    /\ UNCHANGED <<queue, map, shows_cursor, text_fg, text_bg, margins>> /\ SameCursor

flanterm_fb_restore_state ==
    /\ Call
    /\ cursor_x' = saved_state.x /\ cursor_y' = saved_state.y
    /\ text_fg' = saved_state.fg /\ text_bg' = saved_state.bg
    /\ UNCHANGED <<queue, map, shows_cursor, saved_state, margins>>

-----------------------------------------------------------------------------
(* draw_cursor, on the buffers, the grid and the frame buffer. *)
draw_cursor(d) ==
    IF cursor_x >= cols \/ cursor_y >= rows THEN d
    ELSE LET i == At(cursor_x, cursor_y)
             ch == IF d.map[i] # 0 THEN queue[d.map[i]].c ELSE d.grid[i]
         IN  [d EXCEPT !.fb[i] = plot_char(Inverted(ch)), !.grid[i] = ch, !.map[i] = 0]

Display == [grid |-> grid, map |-> map, fb |-> fb]

(* An item of the queue whose colours are not compared. *)
FlushItem_fast(d, q) ==
    LET i == At(q.x, q.y)
    IN  IF d.map[i] = 0 THEN d
        ELSE [d EXCEPT !.fb[i] = plot_char_fast(@, d.grid[i], q.c), !.grid[i] = q.c, !.map[i] = 0]

FlushItem(d, q) ==
    LET i == At(q.x, q.y)
        old == d.grid[i]
    IN  IF d.map[i] = 0 THEN d
        ELSE [d EXCEPT !.fb[i] = IF q.c.bg = old.bg /\ q.c.fg = old.fg
                                 THEN plot_char_fast(@, old, q.c) ELSE plot_char(q.c),
                       !.grid[i] = q.c, !.map[i] = 0]

WipeCursor(d) ==
    IF /\ old_cursor_x # cursor_x \/ old_cursor_y # cursor_y \/ ~shows_cursor
       /\ old_cursor_x < cols /\ old_cursor_y < rows
    THEN LET i == At(old_cursor_x, old_cursor_y) IN [d EXCEPT !.fb[i] = plot_char(d.grid[i])]
    ELSE d

(* The queue is drawn in its order. *)
DrawQueue(d) ==
    LET after[k \in 0 .. Len(queue)] == IF k = 0 THEN d ELSE FlushItem(after[k - 1], queue[k])
    IN  after[Len(queue)]

(* The end of flanterm_write. *)
flanterm_fb_double_buffer_flush ==
    LET drawn == IF shows_cursor THEN draw_cursor(Display) ELSE Display
        done == WipeCursor(DrawQueue(drawn))
    IN  /\ open /\ open' = FALSE
        /\ grid' = done.grid /\ map' = done.map /\ fb' = done.fb /\ queue' = <<>>
        /\ old_cursor_x' = cursor_x /\ old_cursor_y' = cursor_y
        /\ SameText /\ SameCursor /\ UNCHANGED calls

(* Called by the client between writes. *)
flanterm_fb_full_refresh ==
    LET plain == [Display EXCEPT !.fb = [i \in Cells |-> plot_char(grid[i])]]
        done == IF shows_cursor THEN draw_cursor(plain) ELSE plain
    IN  /\ ~open
        /\ grid' = done.grid /\ map' = done.map /\ fb' = done.fb
        /\ UNCHANGED <<queue, old_cursor_x, old_cursor_y, open, calls>> /\ SameText /\ SameCursor

(* Every top margin: the terminal moves it to the cursor's row for a while. *)
Regions == [top : 0 .. rows - 1, bottom : 2 .. rows, scroll_enabled : BOOLEAN]

FbTermNext ==
    \/ \E c \in Chars : flanterm_fb_raw_putchar(c)
    \/ flanterm_fb_scroll \/ flanterm_fb_revscroll
    \/ \E move \in BOOLEAN : flanterm_fb_clear(move)
    \/ \E x \in -1 .. cols, y \in -1 .. rows : flanterm_fb_set_cursor_pos(x, y)
    \/ \E new_x, old_x \in 0 .. cols : flanterm_fb_move_character(new_x, get_y(scr), old_x, get_y(scr))
    \/ \E pen \in Pens : SetText(pen, text_bg) \/ SetText(text_fg, pen)
    \/ flanterm_fb_swap_palette
    \/ SetContext(~shows_cursor, margins)
    \/ \E region \in Regions : SetContext(shows_cursor, region)
    \/ flanterm_fb_save_state \/ flanterm_fb_restore_state
    \/ flanterm_fb_double_buffer_flush \/ flanterm_fb_full_refresh

FbTermSpec == FbTermInit /\ [][FbTermNext]_fbvars

-----------------------------------------------------------------------------
(* Types of fb.c's context: queue items lie on the screen, and the cursor  *)
(* stays within the larger of the two dimensions, as raw_putchar caps the  *)
(* row with the number of columns.                                         *)
TypeOK ==
    /\ \A i \in Cells : grid[i] \in [c : Chars, fg : Pens, bg : Pens]
    /\ queue \in Seq([x : 0 .. cols - 1, y : 0 .. rows - 1, c : [c : Chars, fg : Pens, bg : Pens]])
    /\ map \in [Cells -> 0 .. Len(queue)]
    /\ cursor_x \in 0 .. MAX_X /\ {text_fg, text_bg} \subseteq Pens
    /\ cursor_y \in 0 .. (IF rows > cols THEN rows ELSE cols) - 1

(* The queue never holds two items of a cell, so that it does not outgrow  *)
(* its room; and the map points from each cell to its own item.            *)
QueueFits ==
    /\ Len(queue) <= rows * cols
    /\ \A i \in Cells : map[i] # 0 => At(queue[map[i]].x, queue[map[i]].y) = i
    /\ \A k \in 1 .. Len(queue) : map[At(queue[k].x, queue[k].y)] = k

(* After a flush, or a refresh, the frame buffer shows every cell as it    *)
(* is, and the cursor in its place and nowhere else: no pixel is stale,    *)
(* although a flush draws only what it takes to have changed.              *)
FlushShowsGrid ==
    ~open =>
        \A i \in Cells :
            fb[i] = plot_char(IF shows_cursor /\ cursor_x < cols /\ cursor_y < rows
                                 /\ i = At(cursor_x, cursor_y)
                              THEN Inverted(grid[i]) ELSE grid[i])

(* Every call does to that screen what flanterm.c expects of it, and a     *)
(* flush or a refresh changes none of it.                                  *)
ImplementsScreen ==
    /\ flanterm_fb_double_buffer_flush \/ flanterm_fb_full_refresh => scr' = scr
    /\ \A c \in Chars : flanterm_fb_raw_putchar(c) => scr' = raw_putchar(scr, c)
    /\ flanterm_fb_scroll => scr' = scroll(scr)
    /\ flanterm_fb_revscroll => scr' = revscroll(scr)
    /\ \A move \in BOOLEAN : flanterm_fb_clear(move) => scr' = clear(scr, move)
    /\ \A new_x, old_x \in 0 .. cols :
           flanterm_fb_move_character(new_x, get_y(scr), old_x, get_y(scr)) =>
               scr' = move_character(scr, new_x, get_y(scr), old_x, get_y(scr))
    /\ flanterm_fb_save_state => scr' = save_state(scr)
    /\ flanterm_fb_restore_state => scr' = restore_state(scr)

(* All of it: the queue of changed cells fits its room, every call does to *)
(* the screen what flanterm.c expects of it, and after a flush the frame   *)
(* buffer shows every cell and the cursor, with no stale pixel.  (Where    *)
(* other parts of the terminal move, fbvars does not change.)              *)
FlushExact ==
    /\ [](TypeOK /\ QueueFits /\ FlushShowsGrid)
    /\ [][fbvars' # fbvars => ImplementsScreen]_fbvars
=============================================================================
