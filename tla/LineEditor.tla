----------------------------- MODULE LineEditor -----------------------------
(***************************************************************************)
(* The line editor of tau-cli-term-raw: the input buffer, its cursor, the   *)
(* navigation through earlier lines and the completion menu, as operators   *)
(* on the record `e`                                                        *)
(*   [buffer, cursor, sticky_col, input_history, history_nav, completion,   *)
(*    width].                                                               *)
(* A buffer is a sequence of characters and positions count characters.     *)
(***************************************************************************)
EXTENDS Integers, Sequences, SequencesExt, FiniteSetsExt

CONSTANTS
    Prompt,         \* the cells of the left prompt
    ColsOf,         \* the columns of each character but the newline
    Commands,       \* the slash commands, in their order
    ArgItems,       \* what the argument of a command can be, in its order
    Paths,          \* the files, in the order of their names
    None

NL == "\n"

Cols(cells) == FoldLeft(LAMBDA n, c : n + ColsOf[c], 0, cells)

EmptyLine(w) ==
    [buffer |-> << >>, cursor |-> 0, sticky_col |-> None, input_history |-> << >>,
     history_nav |-> None, completion |-> None, width |-> w]

-----------------------------------------------------------------------------
(* Where a character is on the screen.                                      *)

(* The row and column after one more character. *)
Advance(at, ch, width) ==
    IF ch = NL THEN [row |-> at.row + 1, col |-> 0]
    ELSE LET over == at.col > 0 /\ at.col + ColsOf[ch] > width
             col  == IF over THEN ColsOf[ch] ELSE at.col + ColsOf[ch]
             row  == IF over THEN at.row + 1 ELSE at.row
         IN  IF col >= width THEN [row |-> row + col \div width, col |-> col % width]
             ELSE [row |-> row, col |-> col]

BufferPosition(buffer, n, width) ==
    FoldLeft(LAMBDA at, ch : Advance(at, ch, width),
             [row |-> Cols(Prompt) \div width, col |-> Cols(Prompt) % width],
             SubSeq(buffer, 1, n))

LastRow(e) == BufferPosition(e.buffer, Len(e.buffer), e.width).row

(* The place nearest to a row and column that the cursor can be in. *)
CursorAt(e, row, col) ==
    Min({n \in 0..Len(e.buffer) :
            LET at == BufferPosition(e.buffer, n, e.width)
            IN  \/ n = Len(e.buffer)
                \/ at.row > row
                \/ at.row = row /\ (at.col >= col \/ e.buffer[n + 1] = NL)})

-----------------------------------------------------------------------------
(* The cursor.                                                              *)

WriteCursor(e, n) == [e EXCEPT !.cursor = n, !.sticky_col = None]

(* The column a vertical motion aims for; it is remembered. *)
TargetCol(e) ==
    IF e.sticky_col # None THEN e.sticky_col
    ELSE BufferPosition(e.buffer, e.cursor, e.width).col

Sticking(e) == [e EXCEPT !.sticky_col = TargetCol(e)]

(* A row up or down inside the buffer, when there is one. *)
MayMoveVertical(e, delta) ==
    BufferPosition(e.buffer, e.cursor, e.width).row + delta \in 0..LastRow(e)

MoveVertical(e, delta) ==
    [Sticking(e) EXCEPT !.cursor =
        CursorAt(e, BufferPosition(e.buffer, e.cursor, e.width).row + delta, TargetCol(e))]

-----------------------------------------------------------------------------
(* Edits.                                                                   *)

(* The edited copy of the line navigated to is kept in its slot. *)
SyncToHistoryNav(e) ==
    IF e.history_nav = None THEN e
    ELSE [e EXCEPT !.history_nav.entries[e.history_nav.index] = e.buffer]

(* The characters from..e.cursor are replaced by text. *)
Spliced(e, from, to, text) ==
    SyncToHistoryNav(WriteCursor(
        [e EXCEPT !.buffer = SubSeq(@, 1, from) \o text \o SubSeq(@, to + 1, Len(@))],
        from + Len(text)))

(* What the menu offers for a buffer: files for a word that begins with a   *)
(* directory, commands for "/...", and what a command takes for its one     *)
(* argument, matches of a prefix before others.                             *)
Has(text, part) ==
    \E i \in 0..Len(text) - Len(part) : SubSeq(text, i + 1, i + Len(part)) = part

AfterLast(text, ch) ==
    LET places == {i \in DOMAIN text : text[i] = ch}
    IN  IF places = {} THEN 0 ELSE Max(places)

PathCandidates(before, token, after) ==
    LET dir == SubSeq(token, 1, AfterLast(token, "/"))
        partial == SubSeq(token, Len(dir) + 1, Len(token))
        Fits(path) ==
            LET name == SubSeq(path, Len(dir) + 1, Len(path))
            IN  /\ IsPrefix(token, path)
                /\ AfterLast(name, "/") = 0
                /\ IsPrefix(<< "." >>, name) => IsPrefix(<< "." >>, partial)
        found == SelectSeq(Paths, Fits)
    IN  [i \in DOMAIN found |-> before \o found[i] \o after]

ArgCandidates(cmd, rest) ==
    LET arg   == SelectSeq(rest, LAMBDA ch : ch # " ")
        blank == {i \in DOMAIN rest : rest[i] = " "}
        one   == arg = << >> \/ blank = 1..(Len(rest) - Len(arg))
        items == IF one /\ cmd \in DOMAIN ArgItems THEN ArgItems[cmd] ELSE << >>
        found == SelectSeq(items, LAMBDA item : IsPrefix(arg, item))
                 \o SelectSeq(items, LAMBDA item : ~IsPrefix(arg, item) /\ Has(item, arg))
    IN  [i \in DOMAIN found |-> cmd \o << " " >> \o found[i]]

BuildCandidates(buffer, cursor) ==
    LET from  == Max({0} \cup {i \in 1..cursor : buffer[i] \in {" ", NL}})
        to    == Min({Len(buffer)} \cup {i - 1 : i \in {k \in (cursor + 1)..Len(buffer) :
                                                           buffer[k] \in {" ", NL}}})
        token == SubSeq(buffer, from + 1, cursor)
        blank == {i \in DOMAIN buffer : buffer[i] = " "}
    IN  CASE IsPrefix(<< ".", "/" >>, token) \/ IsPrefix(<< ".", ".", "/" >>, token) ->
                PathCandidates(SubSeq(buffer, 1, from), token, SubSeq(buffer, to + 1, Len(buffer)))
          [] ~IsPrefix(<< "/" >>, buffer) -> << >>
          [] blank = {} -> SelectSeq(Commands, LAMBDA cmd : IsPrefix(buffer, cmd))
          [] OTHER -> ArgCandidates(SubSeq(buffer, 1, Min(blank) - 1),
                                    SubSeq(buffer, Min(blank) + 1, Len(buffer)))

(* The menu is worked out anew for the buffer; a preview becomes final. *)
RefreshCompletion(e) ==
    LET found == BuildCandidates(e.buffer, e.cursor)
    IN  [e EXCEPT !.completion =
            IF found # << >>
            THEN [candidates |-> found, selected |-> None, original_buffer |-> e.buffer,
                  original_cursor |-> e.cursor]
            ELSE None]

Insert(e, text) == RefreshCompletion(Spliced(e, e.cursor, e.cursor, text))

(* Ctrl-W: back over blanks, then to the blank before. *)
WordStart(e) ==
    LET solid == {i \in 1..e.cursor : e.buffer[i] \notin {" ", NL}}
        last  == IF solid = {} THEN 0 ELSE Max(solid)
        blank == {i \in 1..last : e.buffer[i] = " "}
    IN  IF blank = {} THEN 0 ELSE Max(blank)

SetBuffer(e, text, cursor) ==
    WriteCursor([e EXCEPT !.buffer = text, !.history_nav = None, !.completion = None],
                Min({cursor, Len(text)}))

-----------------------------------------------------------------------------
(* Lines already submitted.                                                 *)

(* A line is remembered and the prompt is fresh; nothing of an empty line. *)
PushHistoryEntry(e, line) ==
    IF line = << >> THEN e
    ELSE WriteCursor([e EXCEPT !.input_history = Append(@, line), !.buffer = << >>], 0)

EnterHistoryNav(e) ==
    IF e.input_history = << >> THEN e
    ELSE LET entries == Append(e.input_history, e.buffer)
             there   == [e EXCEPT !.buffer = entries[Len(entries) - 1],
                                  !.history_nav = [entries |-> entries,
                                                   index |-> Len(entries) - 1]]
         IN  [there EXCEPT !.cursor = CursorAt(there, LastRow(there), e.sticky_col)]

AdvanceHistoryNav(e, delta) ==
    LET nav == e.history_nav
        to  == nav.index + delta
        on  == [e EXCEPT !.history_nav.index = to, !.buffer = nav.entries[to]]
    IN  CASE to < 1 -> e
          [] to > Len(nav.entries) ->
                PushHistoryEntry([e EXCEPT !.history_nav = None], Last(nav.entries))
          [] OTHER ->
                [on EXCEPT !.cursor =
                    CursorAt(on, IF delta < 0 THEN LastRow(on) ELSE 0, e.sticky_col)]

StepHistory(e, delta) ==
    LET s == Sticking(e)
    IN  IF s.history_nav # None THEN AdvanceHistoryNav(s, delta)
        ELSE IF delta < 0 THEN EnterHistoryNav(s)
        ELSE PushHistoryEntry([s EXCEPT !.buffer = << >>], s.buffer)

TriggerHistoryStep(e, delta) == StepHistory([e EXCEPT !.completion = None], delta)

-----------------------------------------------------------------------------
(* The completion menu.                                                     *)

(* Forwards from nothing to the first candidate, backwards from the first   *)
(* one to nothing.                                                          *)
NextSelected(menu, delta) ==
    LET len == Len(menu.candidates)
    IN  CASE menu.selected = None -> IF delta > 0 THEN 1 ELSE len
          [] menu.selected = 1 /\ delta < 0 -> None
          [] OTHER -> ((menu.selected - 1 + delta) % len) + 1

CycleCompletion(e, delta) ==
    LET menu == e.completion
        new  == NextSelected(menu, delta)
        text == IF new = None THEN menu.original_buffer ELSE menu.candidates[new]
    IN  WriteCursor([e EXCEPT !.completion.selected = new, !.buffer = text],
                    IF new = None THEN menu.original_cursor ELSE Len(text))

DismissCompletion(e) ==
    LET menu == e.completion
        shut == [e EXCEPT !.completion = None]
    IN  IF menu.selected = None THEN shut
        ELSE WriteCursor([shut EXCEPT !.buffer = menu.original_buffer], menu.original_cursor)

-----------------------------------------------------------------------------
(* handle_key: the editor after a key, and the event it surfaces.           *)

Gives(e, ev) == [e |-> e, event |-> ev]

Edited(e) == Gives(e, "BufferChanged")

Untouched(e) == Gives(e, None)

Moved(e, stepped) ==
    \/ stepped.buffer # e.buffer
    \/ stepped.history_nav \notin {None, e.history_nav}

(* Up and Down: the menu, then a row of the buffer, then another line. *)
Vertical(e, delta) ==
    LET stepped == StepHistory(e, delta)
    IN  CASE e.completion # None -> Edited(CycleCompletion(e, delta))
          [] MayMoveVertical(e, delta) -> Edited(MoveVertical(e, delta))
          [] OTHER -> Gives(stepped, IF Moved(e, stepped) THEN "BufferChanged" ELSE None)

Submit(e) ==
    IF e.completion # None /\ e.completion.selected # None
    THEN Gives([e EXCEPT !.completion = None], "CompletionAccept")
    ELSE Gives([PushHistoryEntry(
                   [e EXCEPT !.completion = None, !.history_nav = None], e.buffer)
                EXCEPT !.buffer = << >>], "Line")

HandleKey(e, key) ==
    CASE key = "S-Enter"   -> Edited(Insert(e, << NL >>))
      [] key = "Enter"     -> Submit(e)
      [] key = "C-d"       -> IF e.buffer = << >> THEN Gives(e, "Eof") ELSE Untouched(e)
      [] key = "C-c"       -> IF e.buffer = << >> THEN Gives(e, "Eof")
                              ELSE Edited(SetBuffer(e, << >>, 0))
      [] key = "C-u"       -> Edited(RefreshCompletion(Spliced(e, 0, e.cursor, << >>)))
      [] key = "C-w"       -> IF e.cursor = 0 THEN Untouched(e)
                              ELSE Edited(RefreshCompletion(
                                       Spliced(e, WordStart(e), e.cursor, << >>)))
      [] key \in {"C-a", "Home"} -> Untouched(WriteCursor(e, 0))
      [] key \in {"C-e", "End"}  -> Untouched(WriteCursor(e, Len(e.buffer)))
      [] key = "C-j"       -> Edited(TriggerHistoryStep(e, 1))
      [] key = "C-k"       -> Edited(TriggerHistoryStep(e, -1))
      [] key = "Backspace" -> IF e.cursor = 0 THEN Untouched(e)
                              ELSE Edited(RefreshCompletion(
                                       Spliced(e, e.cursor - 1, e.cursor, << >>)))
      [] key = "Delete"    -> IF e.cursor = Len(e.buffer) THEN Untouched(e)
                              ELSE Edited(RefreshCompletion(
                                       Spliced(e, e.cursor, e.cursor + 1, << >>)))
      [] key = "Left"      -> Untouched(IF e.cursor = 0 THEN e ELSE WriteCursor(e, e.cursor - 1))
      [] key = "Right"     -> Untouched(IF e.cursor = Len(e.buffer) THEN e
                                        ELSE WriteCursor(e, e.cursor + 1))
      [] key = "Up"        -> Vertical(e, -1)
      [] key = "Down"      -> Vertical(e, 1)
      [] key = "Tab"       -> IF e.completion = None THEN Untouched(e)
                              ELSE Edited(CycleCompletion(e, 1))
      [] key = "BackTab"   -> IF e.completion = None THEN Gives(e, "BackTab")
                              ELSE Edited(CycleCompletion(e, -1))
      [] key = "Esc"       -> IF e.completion = None THEN Untouched(e)
                              ELSE Edited(DismissCompletion(e))
      [] key = "C-g"       -> Gives(e, "ExternalEditor")
      [] OTHER             -> Edited(Insert(e, << key >>))

=============================================================================
