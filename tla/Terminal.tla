------------------------------ MODULE Terminal ------------------------------
(***************************************************************************)
(* The prompt engine of tau-cli-term-raw with the screen of tau-term-screen *)
(* and the event loop of tau-cli-term: three threads and a terminal.        *)
(*   - The input thread reads keys, edits the line, keeps the menu block,   *)
(*     hands the terminal to an editor and takes it back, and waits in      *)
(*     redraw_sync.                                                         *)
(*   - The renderer thread prints blocks, grows a live block, finishes it,  *)
(*     and changes earlier blocks under invalidate_screen.                  *)
(*   - The redraw thread lays out the state, diffs it against what it       *)
(*     believes is on the terminal, and writes.                             *)
(* `st` is SharedState, and a step on it is one critical section.  The      *)
(* terminal is its rows, scrolled-out ones first, and its cursor's row; the *)
(* last `height` rows are the screen.  A changed row is written whole.      *)
(***************************************************************************)
EXTENDS LineEditor, Zones

CONSTANTS
    Sessions,       \* what a user does to a terminal:
                    \*   [sizes: the first <<width, height>>, then others,
                    \*    status: a status block is pinned below the prompt,
                    \*    keys, pastes, bindings: what is pressed,
                    \*    presses, calls: bounds of the two threads' calls]
    Drafts,         \* what an editor leaves in the prompt's file
    Outputs,        \* the texts that are printed
    Lives           \* what a live block shows, one after the other

VARIABLES
    st,             \* SharedState
    notified,       \* the coalesced notification of the redraw thread
    rd,             \* the redraw thread: its place, its frame, its Screen
    tty,            \* the terminal
    main,           \* the input thread
    painter,        \* the renderer thread: its live block, what it owes
    session,        \* what the user does
    budget,         \* presses and calls left
    drawn,          \* the last sync generation a frame was captured at
    strayed         \* what of the terminal is other than Screen believes

vars == << st, notified, rd, tty, main, painter, session, budget, drawn, strayed >>

Most(a, b) == IF a > b THEN a ELSE b

Monus(a, b) == Most(a - b, 0)

-----------------------------------------------------------------------------
(* Layout.                                                                  *)

(* One more character of a text: a new row at a newline or a full row.      *)
PutCell(rows, ch, width) ==
    LET row == Last(rows)
    IN  CASE ch = NL -> Append(rows, << >>)
          [] ch # NL /\ row # << >> /\ Cols(row) + ColsOf[ch] > width -> Append(rows, << ch >>)
          [] OTHER -> Append(Front(rows), Append(row, ch))

LayoutLines(text, width, preserve_last_newline) ==
    LET rows == FoldLeft(LAMBDA acc, ch : PutCell(acc, ch, width), << << >> >>, text)
    IN  IF ~preserve_last_newline /\ Len(rows) > 1 /\ Last(text) = NL THEN Front(rows) ELSE rows

(* The rows of a block are filled to the width. *)
LayoutBlock(text, width) ==
    LET Filled(row) == row \o [i \in 1..Monus(width, Cols(row)) |-> " "]
        rows == LayoutLines(text, width, FALSE)
    IN  [i \in DOMAIN rows |-> Filled(rows[i])]

LayoutIdList(z, zone, width) ==
    FoldLeft(LAMBDA acc, text : acc \o LayoutBlock(text, width), << >>, Shown(z, zone))

CursorOf(s) == BufferPosition(s.e.buffer, s.e.cursor, s.e.width)

(* The prompt and the buffer, down to the row the cursor is in. *)
InputLines(s) ==
    LET rows == LayoutLines(Prompt \o s.e.buffer, s.e.width, TRUE)
    IN  rows \o [i \in 1..Monus(CursorOf(s).row + 1, Len(rows)) |-> << >>]

LayoutAll(s) ==
    LET Of(zone) == LayoutIdList(s.z, zone, s.e.width)
        history  == Of("history")
        above    == history \o Of("above_active") \o Of("above_sticky")
    IN  [all |-> above \o InputLines(s) \o Of("suggestions") \o Of("below"),
         live_start |-> Len(history),
         cursor_row |-> Len(above) + CursorOf(s).row]

-----------------------------------------------------------------------------
(* The terminal, and Screen's writing to it: p is the pair of the Screen    *)
(* and the terminal.                                                        *)

TopOf(t, height) == Len(t.rows) - height

CrLf(t) ==
    IF t.at = Len(t.rows) THEN [rows |-> Append(t.rows, << >>), at |-> t.at + 1]
    ELSE [t EXCEPT !.at = @ + 1]

CrLfs(t, n) == FoldLeft(LAMBDA acc, i : CrLf(acc), t, [i \in 1..n |-> i])

MoveUp(t, n, height) == [t EXCEPT !.at = Most(@ - n, TopOf(t, height) + 1)]

WriteRow(t, row) == [t EXCEPT !.rows[t.at] = row]

(* The rows from a place down are cleared. *)
ClearFrom(t, at) == [t EXCEPT !.rows = [i \in DOMAIN @ |-> IF i < at THEN @[i] ELSE << >>]]

ClearScreen(t, height) ==
    [ClearFrom(t, TopOf(t, height) + 1) EXCEPT !.at = TopOf(t, height) + 1]

Pair(screen, t) == [screen |-> screen, t |-> t]

MoveTo(p, row, height) ==
    Pair([p.screen EXCEPT !.cursor_row = row],
         IF row < p.screen.cursor_row THEN MoveUp(p.t, p.screen.cursor_row - row, height)
         ELSE CrLfs(p.t, row - p.screen.cursor_row))

LineAt(lines, i) == IF i \in DOMAIN lines THEN lines[i] ELSE << >>

(* The differential update of the visible rows. *)
Update(p, desired, cursor, height) ==
    LET old == p.screen.lines
        Row(acc, r) ==
            LET extra == r = Len(desired) /\ Len(old) > Len(desired)
                to    == MoveTo(acc, r - 1, height)
                wrote == WriteRow(to.t, desired[r])
            IN  IF LineAt(old, r) = desired[r] /\ ~extra THEN acc
                ELSE Pair(to.screen, IF extra THEN ClearFrom(wrote, wrote.at + 1) ELSE wrote)
        done == MoveTo(FoldLeft(Row, p, [r \in DOMAIN desired |-> r]), cursor, height)
    IN  Pair([done.screen EXCEPT !.lines = desired], done.t)

(* The rows that changed are written in order and scroll the terminal.      *)
RenderScrolling(p, all, prev, height, cursor) ==
    LET old     == p.screen.lines
        new_top == Monus(Len(all), height)
        changed == {i \in 1..Most(Len(all), prev + Len(old)) :
                       (IF i > prev THEN LineAt(old, i - prev) ELSE << >>) # LineAt(all, i)}
        start   == Most(Min(changed), prev + 1)
        past    == Monus(start, prev + height)
        at_start == IF past = 0 THEN MoveTo(p, start - 1 - prev, height)
                    ELSE Pair([p.screen EXCEPT !.cursor_row = height - 1],
                              CrLfs(p.t, Monus(height - 1, p.screen.cursor_row) + past))
        Row(acc, i) ==
            LET down == IF i = start THEN acc.t ELSE CrLf(acc.t)
                row  == IF i = start THEN acc.screen.cursor_row
                        ELSE Min({acc.screen.cursor_row + 1, height - 1})
            IN  Pair([acc.screen EXCEPT !.cursor_row = row], WriteRow(down, LineAt(all, i)))
        wrote   == FoldLeft(Row, at_start,
                            [k \in 1..(Max(changed) - start + 1) |-> start + k - 1])
        done    == MoveTo(wrote, Monus(cursor, new_top), height)
    IN  IF changed = {} THEN MoveTo(p, Monus(cursor, new_top), height)
        ELSE Pair([done.screen EXCEPT !.lines = SubSeq(all, new_top + 1, Len(all))], done.t)

(* Where full_render leaves the cursor, in rows of the screen. *)
FullCursor(f, height) ==
    Monus(f.live_start, Monus(Len(f.all), height)) + Monus(f.cursor_row, f.live_start)

(* The screen and the scrollback are cleared and every row is written.      *)
FullRender(p, f, height) ==
    LET blank   == [rows |-> [i \in 1..height |-> << >>], at |-> 1]
        Row(t, i) == WriteRow(IF i = 1 THEN t ELSE CrLf(t), f.all[i])
        wrote   == FoldLeft(Row, blank, [i \in DOMAIN f.all |-> i])
        last    == Min({Len(f.all), height}) - 1
        visible == Monus(Len(f.all), height)
    IN  Pair([lines |-> SubSeq(f.all, visible + 1, Len(f.all)),
              cursor_row |-> Monus(f.cursor_row, visible)],
             MoveUp(wrote, Monus(last, FullCursor(f, height)), height))

-----------------------------------------------------------------------------
(* Initial state: the terminal has text above, and the cursor anywhere.     *)

Init ==
    \E s \in Sessions, at \in 1..2 :
        LET w == s.sizes[1][1]
            h == s.sizes[1][2]
            z == IF s.status THEN PushZone(NewBlock(EmptyZones, << "-" >>), "below", 0)
                 ELSE EmptyZones
        IN  /\ st = [z |-> z, e |-> EmptyLine(w), height |-> h, shutdown |-> FALSE,
                     external_paused |-> FALSE, invalidate_screen |-> FALSE,
                     sync_requested |-> 0, sync_completed |-> 0, pending_raw |-> 0]
            /\ notified = TRUE
            /\ rd = [pc |-> "check", frame |-> None, screen |-> [lines |-> << >>, cursor_row |-> 0],
                     prev_width |-> w, prev_height |-> h, prev_visible_start |-> 0]
            /\ tty = [rows |-> [i \in 1..h |-> << >>], at |-> IF at = 1 THEN 1 ELSE h]
            /\ main = [pc |-> "read", event |-> None, menu_block_id |-> None, result |-> None,
                       target |-> 0]
            /\ painter = [live |-> None, shows |-> 0, owes |-> None]
            /\ session = s
            /\ budget = [presses |-> s.presses, calls |-> s.calls]
            /\ drawn = 0
            /\ strayed = {}

-----------------------------------------------------------------------------
(* The redraw thread: redraw_loop.                                          *)

RdVars == << notified, main, painter, session, budget >>

(* The shutdown flag is looked at before anything is waited for. *)
RdCheck ==
    /\ rd.pc = "check"
    /\ rd' = IF st.shutdown THEN [rd EXCEPT !.pc = "final", !.frame = LayoutAll(st)]
             ELSE IF st.sync_completed < st.sync_requested THEN [rd EXCEPT !.pc = "take"]
             ELSE [rd EXCEPT !.pc = "recv"]
    /\ UNCHANGED << st, notified, tty, main, painter, session, budget, drawn, strayed >>

RdRecv ==
    /\ rd.pc = "recv"
    /\ notified
    /\ notified' = FALSE
    /\ rd' = [rd EXCEPT !.pc = "take"]
    /\ UNCHANGED << st, tty, main, painter, session, budget, drawn, strayed >>

(* While the terminal is released nothing is drawn and syncs are let go. *)
RdPaused ==
    /\ rd.pc = "take"
    /\ st.external_paused
    /\ st' = [st EXCEPT !.sync_completed = st.sync_requested]
    /\ drawn' = st.sync_requested
    /\ rd' = [rd EXCEPT !.pc = "check"]
    /\ UNCHANGED << RdVars, tty, strayed >>

RdTake ==
    /\ rd.pc = "take"
    /\ ~st.external_paused
    /\ rd' = [rd EXCEPT !.pc = "draw",
                        !.frame = LayoutAll(st) @@
                                  [width |-> st.e.width, height |-> st.height,
                                   force_full |-> st.invalidate_screen,
                                   sync_gen |-> st.sync_requested]]
    /\ st' = [st EXCEPT !.invalidate_screen = FALSE, !.pending_raw = 0]
    /\ UNCHANGED << RdVars, tty, drawn, strayed >>

(* The frame by the path it calls for. *)
Rendered(f) ==
    LET start  == Monus(Len(f.all), f.height)
        full   == f.force_full \/ f.width # rd.prev_width \/ f.height # rd.prev_height
        p      == Pair(rd.screen, tty)
    IN  CASE full -> FullRender(p, f, f.height)
          [] ~full /\ start > rd.prev_visible_start ->
                RenderScrolling(p, f.all, rd.prev_visible_start, f.height, f.cursor_row)
          [] OTHER ->
                Update(p, SubSeq(f.all, start + 1, Len(f.all)), Monus(f.cursor_row, start),
                       f.height)

(* The frames that leave the terminal other than Screen believes: a full    *)
(* one whose live area is taller than the screen, and a scrolling one that  *)
(* ends in an empty row.  What is printed above a live area taller than the *)
(* screen does not reach the scrollback.                                    *)
Strays(f) ==
    LET start == Monus(Len(f.all), f.height)
        full  == f.force_full \/ f.width # rd.prev_width \/ f.height # rd.prev_height
        lost  == IF full THEN Min({FullCursor(f, f.height), f.height - 1}) # Monus(f.cursor_row, start)
                 ELSE start > rd.prev_visible_start /\ Last(f.all) = << >>
    IN  (IF full THEN {} ELSE strayed) \cup (IF lost THEN {"screen"} ELSE {})
            \cup (IF f.live_start < start THEN {"scrollback"} ELSE {})

RdDraw ==
    /\ rd.pc = "draw"
    /\ LET f == rd.frame
           r == Rendered(f)
       IN  /\ tty' = r.t
           /\ rd' = [rd EXCEPT !.pc = "complete", !.screen = r.screen, !.prev_width = f.width,
                               !.prev_height = f.height,
                               !.prev_visible_start = Monus(Len(f.all), f.height)]
           /\ strayed' = Strays(f)
           /\ drawn' = f.sync_gen
    /\ UNCHANGED << RdVars, st >>

(* Fault: what was asked for while the frame was drawn is answered too. *)
RdCompleteAll ==
    /\ rd.pc = "complete"
    /\ st' = [st EXCEPT !.sync_completed = st.sync_requested]
    /\ rd' = [rd EXCEPT !.pc = "check", !.frame = None]
    /\ UNCHANGED << RdVars, tty, drawn, strayed >>

(* No more is answered than was asked for when the frame was captured. *)
RdComplete ==
    /\ rd.pc = "complete"
    /\ st' = [st EXCEPT !.sync_completed = Most(@, rd.frame.sync_gen)]
    /\ rd' = [rd EXCEPT !.pc = "check", !.frame = None]
    /\ UNCHANGED << RdVars, tty, drawn, strayed >>

(* The last frame, and the cursor below it. *)
RdFinal ==
    /\ rd.pc = "final"
    /\ LET f     == rd.frame
           start == Monus(Len(f.all), st.height)
           r     == Update(Pair(rd.screen, tty), SubSeq(f.all, start + 1, Len(f.all)),
                           Monus(f.cursor_row, start), st.height)
       IN  tty' = CrLfs(r.t, Len(f.all) - f.cursor_row)
    /\ st' = [st EXCEPT !.sync_completed = st.sync_requested]
    /\ drawn' = st.sync_requested
    /\ rd' = [rd EXCEPT !.pc = "done", !.frame = None]
    /\ UNCHANGED << RdVars, strayed >>

Redraw == RdCheck \/ RdRecv \/ RdPaused \/ RdTake \/ RdDraw \/ RdComplete \/ RdFinal

-----------------------------------------------------------------------------
(* The input thread: get_next_event of both crates.                         *)

MainVars == << rd, painter, session, drawn, strayed >>

Reads(event) ==
    /\ main.pc = "read"
    /\ budget.presses > 0
    /\ budget' = [budget EXCEPT !.presses = @ - 1]
    /\ notified' = TRUE
    /\ main' = [main EXCEPT !.pc = IF event \in {None, "BackTab"} THEN "read" ELSE "menu",
                            !.event = event]

PressKey(key) ==
    LET g == HandleKey(st.e, key)
    IN  /\ Reads(g.event)
        /\ st' = [st EXCEPT !.e = g.e]
        /\ UNCHANGED << MainVars, tty >>

(* A paste goes in whole and submits nothing. *)
Paste(text) ==
    /\ Reads("BufferChanged")
    /\ st' = [st EXCEPT !.e = Insert(@, text)]
    /\ UNCHANGED << MainVars, tty >>

(* The terminal changes size, and what it shows is rubble until the next    *)
(* full render; back at the size of the last frame, it is not rendered.     *)
Resize(size) ==
    /\ size # << st.e.width, st.height >>
    /\ Reads("Resize")
    /\ strayed' = IF size = << rd.prev_width, rd.prev_height >>
                  THEN strayed \cup {"screen"} ELSE strayed
    /\ st' = [st EXCEPT !.e.width = size[1], !.height = size[2]]
    /\ tty' = [rows |-> [i \in 1..size[2] |-> << "?" >>], at |-> size[2]]
    /\ UNCHANGED << rd, painter, session, drawn >>

PressBinding(action) ==
    /\ Reads(action)
    /\ UNCHANGED << MainVars, st, tty >>

(* The menu as a block. *)
MenuBlock(menu) ==
    FoldLeft(LAMBDA acc, i : acc \o << IF menu.selected = i THEN "*" ELSE " ", "m", NL >>, << >>,
             [i \in DOMAIN menu.candidates |-> i])

MenuSynced(z) ==
    LET menu == st.e.completion
        id   == IF main.menu_block_id = None THEN Allocated(z) ELSE main.menu_block_id
    IN  CASE menu # None /\ main.menu_block_id = None ->
                << PushZone(NewBlock(z, MenuBlock(menu)), "suggestions", id), id >>
          [] menu # None /\ main.menu_block_id # None ->
                << SetBlock(z, id, MenuBlock(menu)), id >>
          [] menu = None /\ main.menu_block_id # None -> << RemoveBlock(z, id), None >>
          [] OTHER -> << z, None >>

(* What follows the menu: history, an external program, the end, or the     *)
(* next key.                                                                *)
AfterMenu ==
    CASE main.event \in {"ExternalEditor", "insert"} -> "pause"
      [] main.event \in {"prompt-next", "prompt-previous", "fast-toggle"} -> "sync"
      [] main.event = "Eof" -> "drop"
      [] OTHER -> "read"

SyncMenu ==
    /\ main.pc = "menu"
    /\ LET m == MenuSynced(st.z)
           e == CASE main.event = "prompt-next" -> TriggerHistoryStep(st.e, 1)
                  [] main.event = "prompt-previous" -> TriggerHistoryStep(st.e, -1)
                  [] OTHER -> st.e
       IN  /\ st' = [st EXCEPT !.z = m[1], !.e = e]
           /\ main' = [main EXCEPT !.menu_block_id = m[2], !.pc = AfterMenu]
    /\ notified' = (notified \/ AfterMenu = "read")
    /\ UNCHANGED << MainVars, tty, budget >>

(* pause_for_external: the flag, then the terminal. *)
Pause ==
    /\ main.pc = "pause"
    /\ st' = [st EXCEPT !.external_paused = TRUE]
    /\ main' = [main EXCEPT !.pc = "clear"]
    /\ UNCHANGED << MainVars, notified, tty, budget >>

Clear ==
    /\ main.pc = "clear"
    /\ tty' = ClearScreen(tty, st.height)
    /\ main' = [main EXCEPT !.pc = "external"]
    /\ UNCHANGED << MainVars, st, notified, budget >>

(* The program paints what it likes, and fails or leaves a text. *)
External ==
    /\ main.pc = "external"
    /\ \E text \in Drafts \cup {None} : main' = [main EXCEPT !.pc = "restore", !.result = text]
    /\ tty' = [tty EXCEPT !.rows = [i \in DOMAIN @ |->
                                       IF i > TopOf(tty, st.height) THEN << "?" >> ELSE @[i]],
                          !.at = Len(tty.rows)]
    /\ UNCHANGED << MainVars, st, notified, budget >>

Restore ==
    /\ main.pc = "restore"
    /\ tty' = ClearScreen(tty, st.height)
    /\ main' = [main EXCEPT !.pc = "resume"]
    /\ UNCHANGED << MainVars, st, notified, budget >>

(* resume_after_external. *)
Resume ==
    /\ main.pc = "resume"
    /\ st' = [st EXCEPT !.external_paused = FALSE, !.invalidate_screen = TRUE]
    /\ notified' = TRUE
    /\ main' = [main EXCEPT !.pc = "apply"]
    /\ UNCHANGED << MainVars, tty, budget >>

(* The prompt is replaced, or the output goes in at the cursor. *)
Apply ==
    /\ main.pc = "apply"
    /\ LET e == st.e
           text == main.result
       IN  st' = [st EXCEPT !.e =
             CASE text = None -> e
               [] text # None /\ main.event = "insert" ->
                    SetBuffer(e, SubSeq(e.buffer, 1, e.cursor) \o text
                                 \o SubSeq(e.buffer, e.cursor + 1, Len(e.buffer)),
                              e.cursor + Len(text))
               [] OTHER -> SetBuffer(e, text, Len(text))]
    /\ main' = [main EXCEPT !.pc = "sync", !.result = None]
    /\ UNCHANGED << MainVars, notified, tty, budget >>

(* redraw_sync. *)
SyncAsks ==
    /\ main.pc = "sync"
    /\ st' = [st EXCEPT !.sync_requested = @ + 1]
    /\ main' = [main EXCEPT !.pc = "notify", !.target = st.sync_requested + 1]
    /\ UNCHANGED << MainVars, notified, tty, budget >>

SyncNotifies ==
    /\ main.pc = "notify"
    /\ notified' = TRUE
    /\ main' = [main EXCEPT !.pc = "waiting"]
    /\ UNCHANGED << MainVars, st, tty, budget >>

SyncReturns ==
    /\ main.pc = "waiting"
    /\ st.sync_completed >= main.target
    /\ main' = [main EXCEPT !.pc = "read"]
    /\ UNCHANGED << MainVars, st, notified, tty, budget >>

(* Fault: the redraw thread is not woken to see the flag. *)
DropQuietly ==
    /\ main.pc = "drop"
    /\ st' = [st EXCEPT !.shutdown = TRUE]
    /\ main' = [main EXCEPT !.pc = "join"]
    /\ UNCHANGED << MainVars, notified, tty, budget >>

(* Term::drop. *)
Drop ==
    /\ main.pc = "drop"
    /\ st' = [st EXCEPT !.shutdown = TRUE]
    /\ notified' = TRUE
    /\ main' = [main EXCEPT !.pc = "join"]
    /\ UNCHANGED << MainVars, tty, budget >>

Join ==
    /\ main.pc = "join"
    /\ rd.pc = "done"
    /\ main' = [main EXCEPT !.pc = "gone"]
    /\ UNCHANGED << MainVars, st, notified, tty, budget >>

Input ==
    \/ \E key \in session.keys : PressKey(key)
    \/ \E text \in session.pastes : Paste(text)
    \/ \E i \in DOMAIN session.sizes : Resize(session.sizes[i])
    \/ \E action \in session.bindings : PressBinding(action)

MainStep ==
    \/ SyncMenu \/ Pause \/ Clear \/ External \/ Restore \/ Resume \/ Apply
    \/ SyncAsks \/ SyncNotifies \/ SyncReturns \/ Drop \/ Join

-----------------------------------------------------------------------------
(* The renderer thread: the calls an event makes, one at a time.            *)

PainterVars == << rd, tty, main, session, drawn, strayed >>

Paints(z) ==
    /\ painter.owes = None
    /\ budget.calls > 0
    /\ budget' = [budget EXCEPT !.calls = @ - 1]
    /\ st' = [st EXCEPT !.z = z]

PrintText(text) ==
    /\ Paints(PrintOutput(st.z, text))
    /\ notified' = TRUE
    /\ UNCHANGED << PainterVars, painter >>

(* A live block appears or grows, and then is redrawn. *)
Stream ==
    /\ painter.shows < Len(Lives)
    /\ LET id == IF painter.live = None THEN Allocated(st.z) ELSE painter.live
       IN  /\ Paints(IF painter.live = None
                     THEN PushZone(NewBlock(st.z, Lives[1]), "above_active", id)
                     ELSE SetBlock(st.z, id, Lives[painter.shows + 1]))
           /\ painter' = [live |-> id, shows |-> painter.shows + 1, owes |-> [call |-> "redraw"]]
    /\ UNCHANGED << PainterVars, notified >>

(* The live block goes, and then what it said is printed. *)
Finish ==
    /\ painter.live # None
    /\ Paints(RemoveBlock(st.z, painter.live))
    /\ painter' = [live |-> None, shows |-> 0, owes |-> [call |-> "print", text |-> Lives[painter.shows]]]
    /\ UNCHANGED << PainterVars, notified >>

(* An earlier block is shown or hidden, and then the screen is invalidated. *)
Toggle ==
    /\ st.z.history # << >>
    /\ \E text \in Outputs \cup {<< >>} : Paints(SetBlock(st.z, Head(st.z.history), text))
    /\ painter' = [painter EXCEPT !.owes = [call |-> "invalidate"]]
    /\ UNCHANGED << PainterVars, notified >>

Escape ==
    /\ painter.owes = None
    /\ budget.calls > 0
    /\ budget' = [budget EXCEPT !.calls = @ - 1]
    /\ st' = [st EXCEPT !.pending_raw = @ + 1]
    /\ notified' = TRUE
    /\ UNCHANGED << PainterVars, painter >>

Pays ==
    /\ painter.owes # None
    /\ notified' = TRUE
    /\ st' = CASE painter.owes.call = "redraw" -> st
               [] painter.owes.call = "invalidate" -> [st EXCEPT !.invalidate_screen = TRUE]
               [] painter.owes.call = "print" ->
                    [st EXCEPT !.z = PrintOutput(@, painter.owes.text)]
    /\ painter' = [painter EXCEPT !.owes = None]
    /\ UNCHANGED << PainterVars, budget >>

Painter == (\E text \in Outputs : PrintText(text)) \/ Stream \/ Finish \/ Toggle \/ Escape

-----------------------------------------------------------------------------
Next == Redraw \/ Input \/ MainStep \/ Painter \/ Pays

Spec == Init /\ [][Next]_vars

(* When the three threads can take a step.                                  *)
RedrawCan == rd.pc \notin {"recv", "done"} \/ (rd.pc = "recv" /\ notified)

MainCan ==
    CASE main.pc = "waiting" -> st.sync_completed >= main.target
      [] main.pc = "join"    -> rd.pc = "done"
      [] OTHER               -> main.pc \notin {"read", "gone"}

PaysCan == painter.owes # None

(* The threads run; the user and the session need not say more.  These are  *)
(* WF_vars(Redraw), WF_vars(MainStep) and WF_vars(Pays), written with the   *)
(* actions' guards: each step of them changes the thread's own variable,    *)
(* and nothing else does while the thread can take a step.                  *)
FairSpec ==
    /\ Spec
    /\ []<>~RedrawCan \/ []<><< rd' # rd >>_vars
    /\ []<>~MainCan \/ []<><< main' # main >>_vars
    /\ []<>~PaysCan \/ []<><< painter' # painter >>_vars

-----------------------------------------------------------------------------
(* Properties.                                                              *)

(* Every thread has done what it had to, and waits.                         *)
Quiet ==
    /\ rd.pc = "recv"
    /\ ~notified
    /\ main.pc \in {"read", "waiting"}
    /\ painter.owes = None

(* The first row of a layout on the screen, and the row the cursor is in.   *)
Start(f) == Monus(Len(f.all), st.height) + 1

CursorRow(f) == Most(f.cursor_row + 1, Start(f))

(* Row i of the layout is that of the terminal which is as far from the     *)
(* cursor's.                                                                *)
OnScreen(f, i) == LineAt(tty.rows, tty.at + i - CursorRow(f))

(* The screen shows the last rows of the layout and nothing below them, and *)
(* the cursor is in the row the layout puts it in.                          *)
ShownFrom(f, start, end) ==
    /\ \A i \in start..Len(f.all) : OnScreen(f, i) = f.all[i]
    /\ \A k \in (end + 1)..Len(tty.rows) : tty.rows[k] = << >>
    /\ end <= Len(tty.rows)
    /\ start > 1 => end = Len(tty.rows)

IsShown(f) == ShownFrom(f, Start(f), tty.at + Len(f.all) - CursorRow(f))

ScreenIsCurrent == IsShown(LayoutAll(st))

(* The rows above the screen were scrolled out, in their order: what was    *)
(* said is still there to be scrolled back to.                              *)
FoundAbove(all, start) ==
    LET Found(n, row) == IF n < start /\ all[n] = row THEN n + 1 ELSE n
    IN  FoldLeft(Found, 1, SubSeq(tty.rows, 1, TopOf(tty, st.height))) = start

IsKept(f) == FoundAbove(f.all, Start(f))

ScrollbackIsComplete == IsKept(LayoutAll(st))

(* A sync is answered for no more than a frame has shown, or was let go.    *)
SyncIsHonest == st.sync_completed <= drawn

(* What is typed over an earlier line is kept in its slot; only a candidate *)
(* of the menu is in the buffer alone.                                      *)
EditsAreKept ==
    st.e.history_nav # None =>
        LET kept == st.e.history_nav.entries[st.e.history_nav.index]
        IN  \/ st.e.buffer = kept
            \/ \E n \in 0..Len(kept) : Contains(BuildCandidates(kept, n), st.e.buffer)

(* The terminal is faithful: once the threads are quiet the screen and the  *)
(* scrollback show the state -- but for the frames of Strays --, a sync     *)
(* is answered by a frame that knew of it, and an edit of an earlier line   *)
(* is not lost by stepping through the others.                              *)
TerminalIsFaithful ==
    /\ Quiet /\ "screen" \notin strayed => ScreenIsCurrent
    /\ Quiet /\ strayed = {} => ScrollbackIsComplete
    /\ SyncIsHonest
    /\ EditsAreKept
    /\ st.e.cursor \in 0..Len(st.e.buffer)

(* Whatever happens is shown: the threads come to rest, redraw_sync returns *)
(* even while the terminal is released or shut down, and the end of the     *)
(* input ends the redraw thread.                                            *)
TerminalSettles ==
    /\ []<>(Quiet \/ main.pc = "gone")
    /\ main.pc = "waiting" ~> main.pc # "waiting"
    /\ main.pc = "join" ~> main.pc = "gone"

=============================================================================
