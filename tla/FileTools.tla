----------------------------- MODULE FileTools -----------------------------
(* What the file tools of tau-ext-shell make of a file: edit replaces      *)
(* matches of a text, apply_patch matches the chunks of a patch against    *)
(* lines, read and shell cut what is too long.  Pure operators; the module *)
(* ShellExtension calls them.                                              *)
EXTENDS Integers, FiniteSetsExt, SequencesExt, TLC

CONSTANTS
  MaxLines,  \* MAX_OUTPUT_LINES
  MaxBytes   \* MAX_OUTPUT_BYTES

ASSUME FileToolsAssumption == MaxLines \in Nat \ {0} /\ MaxBytes \in Nat \ {0}

Failed(why) == [ok |-> FALSE, why |-> why]

Concat(parts) == FoldLeft(LAMBDA a, b : a \o b, <<>>, parts)

-----------------------------------------------------------------------------
(* edit: a text is a sequence of characters, "nl" ends a line.  A position *)
(* is the number of characters before it.                                  *)
Upto(n) == [i \in 1..n |-> i]

LineStarts(text) ==
  <<0>> \o SelectSeq(Upto(Len(text) - 1), LAMBDA i : text[i] = "nl")

OffsetOfLine(text, line) ==
  IF line \in DOMAIN LineStarts(text) THEN LineStarts(text)[line] ELSE Len(text)

(* An edit names the lines it looks at; count 0 is up to the last one.     *)
RangeOf(text, edit) ==
  [from |-> OffsetOfLine(text, edit.start),
   to |-> OffsetOfLine(text, IF edit.count = 0 THEN Len(LineStarts(text)) + 1
                             ELSE edit.start + edit.count)]

MatchesOf(text, edit) ==
  LET range == RangeOf(text, edit)
      size  == Len(edit.old)
  IN SelectSeq([i \in 1..range.to - size - range.from + 1 |-> range.from + i - 1],
               LAMBDA p : SubSeq(text, p + 1, p + size) = edit.old)

(* The first matches, as many as were asked for.                           *)
ReplacementsOf(text, edit) ==
  LET found == MatchesOf(text, edit)
      taken == SubSeq(found, 1, IF Len(found) < edit.max THEN Len(found) ELSE edit.max)
  IN [i \in DOMAIN taken |-> [from |-> taken[i], to |-> taken[i] + Len(edit.old), new |-> edit.new]]

(* Two replacements overlap when the later one starts before the other     *)
(* ends; the same place twice is an overlap too.                           *)
Overlap(all) ==
  \E i, j \in DOMAIN all : i # j /\ all[i].from <= all[j].from /\ all[j].from < all[i].to

(* Fault: one more is removed than was matched.                            *)
SpliceMore(text, r) == SubSeq(text, 1, r.from) \o r.new \o SubSeq(text, r.to + 2, Len(text))

Splice(text, r) == SubSeq(text, 1, r.from) \o r.new \o SubSeq(text, r.to + 1, Len(text))

(* Replaced from the end of the file to its start.                         *)
EditFile(text, edits) ==
  LET all == Concat([i \in DOMAIN edits |-> ReplacementsOf(text, edits[i])])
  IN CASE edits = <<>> \/ (\E i \in DOMAIN edits : edits[i].old = <<>>) -> Failed("arguments")
       [] all = <<>> -> Failed("no matches")
       [] Overlap(all) -> Failed("overlapping")
       [] OTHER ->
            [ok |-> TRUE, count |-> Len(all),
             text |-> FoldLeft(Splice, text,
                        SortSeq(all, LAMBDA a, b : a.from > b.from))]

-----------------------------------------------------------------------------
(* apply_patch: the text of a patch, line by line.  A line is a tag and    *)
(* what follows it: "add", "delete", "update", "move" with a path, "@@"    *)
(* with a context line or None, "+", "-", " " with a line of the file, and *)
(* "eof".                                                                  *)
None == <<>>
NoPath == ""

AddHunk(path, lines) == [op |-> "add", path |-> path, lines |-> lines]
DeleteHunk(path) == [op |-> "delete", path |-> path]
UpdateHunk(path, dest, chunks) ==
  [op |-> "update", path |-> path, dest |-> dest, chunks |-> chunks]

Chunk(context) == [context |-> context, old |-> <<>>, new |-> <<>>, changed |-> FALSE]

Headers == {"add", "delete", "update", "move", "eof"}

(* The hunk that is open takes the line, or the patch is refused.          *)
OpenChunk(hunk, context) == [hunk EXCEPT !.chunks = Append(@, Chunk(context))]

IntoChunk(hunk, tag, line) ==
  [hunk EXCEPT !.chunks[Len(hunk.chunks)] =
     [@ EXCEPT !.old = IF tag = "+" THEN @ ELSE Append(@, line),
               !.new = IF tag = "-" THEN @ ELSE Append(@, line),
               !.changed = @ \/ tag # " "]]

(* A hunk may be closed when it holds what its kind needs.                 *)
Complete(hunk) ==
  CASE hunk.op = "add"    -> hunk.lines # <<>>
    [] hunk.op = "update" -> hunk.chunks # <<>> /\ \A i \in DOMAIN hunk.chunks : hunk.chunks[i].changed
    [] OTHER              -> TRUE

Refused == <<[op |-> "refused"]>>

IsRefused(hunks) == hunks # <<>> /\ hunks[1].op = "refused"

(* One line of the body.  "eof" is a header of no operation, so a patch    *)
(* that uses it is refused.                                                *)
TakeLine(hunks, line) ==
  LET tag   == line[1]
      open  == hunks # <<>>
      hunk  == Last(hunks)
      begin == CASE tag = "add"    -> <<AddHunk(line[2], <<>>)>>
                 [] tag = "delete" -> <<DeleteHunk(line[2])>>
                 [] tag = "update" -> <<UpdateHunk(line[2], NoPath, <<>>)>>
                 [] OTHER          -> Refused
      into(h) == Append(Front(hunks), h)
  IN CASE IsRefused(hunks) -> Refused
       [] tag = "move" /\ open /\ hunk.op = "update" /\ hunk.chunks = <<>> /\ hunk.dest = NoPath ->
            into([hunk EXCEPT !.dest = line[2]])
       [] tag \in Headers ->
            IF (open => Complete(hunk)) /\ begin # Refused THEN hunks \o begin ELSE Refused
       [] ~open \/ hunk.op = "delete" -> Refused
       [] hunk.op = "add" -> IF tag = "+" THEN into([hunk EXCEPT !.lines = Append(@, line[2])]) ELSE Refused
       [] tag = "@@" -> IF hunk.chunks = <<>> \/ Last(hunk.chunks).changed
                        THEN into(OpenChunk(hunk, line[2])) ELSE Refused
       [] hunk.chunks = <<>> -> Refused
       [] OTHER -> into(IntoChunk(hunk, tag, line[2]))

ParsePatch(lines) ==
  LET hunks == FoldLeft(TakeLine, <<>>, lines)
  IN IF hunks = <<>> \/ IsRefused(hunks) \/ ~Complete(Last(hunks)) THEN Failed("patch")
     ELSE [ok |-> TRUE, hunks |-> hunks]

-----------------------------------------------------------------------------
(* The chunks of an update.  A line of a file is <<before, text, after>>:  *)
(* the spaces around a text, which a match may leave out of account.       *)
Blank == <<0, "", 0>>

TrimEnd(line) == IF line[2] = "" THEN Blank ELSE <<line[1], line[2], 0>>

Trim(line) == <<0, line[2], 0>>

(* A line matches exactly, or but for the spaces after it, or around it.   *)
Alike(manner, line) == <<line, TrimEnd(line), Trim(line)>>[manner]

PlacesOf(lines, pattern, start, manner) ==
  {p \in start..Len(lines) - Len(pattern) :
     \A i \in DOMAIN pattern : Alike(manner, lines[p + i]) = Alike(manner, pattern[i])}

(* The first place from "start" on in the strictest manner that has one,   *)
(* as a set of at most one place.                                          *)
SeekSequence(lines, pattern, start) ==
  LET manners == {m \in 1..3 : PlacesOf(lines, pattern, start, m) # {}}
  IN IF pattern = <<>> THEN {start}
     ELSE {Min(PlacesOf(lines, pattern, start, Min(manners))) : m \in manners}

EndsBlank(lines) == lines # <<>> /\ Last(lines) = Blank

WithoutBlank(lines) == IF EndsBlank(lines) THEN Front(lines) ELSE lines

Replacement(from, size, new) == [from |-> from, to |-> from + size, new |-> new]

(* Where a chunk's old lines are, when they are looked for from one of     *)
(* "starts", and the index the next chunk is looked for from.              *)
PlacedFrom(lines, starts, chunk) ==
  {[index |-> p + Len(chunk.old), replacement |-> Replacement(p, Len(chunk.old), chunk.new)] :
     p \in UNION {SeekSequence(lines, chunk.old, start) : start \in starts}}

WithoutBlankEnd(chunk) == [chunk EXCEPT !.old = WithoutBlank(@), !.new = WithoutBlank(@)]

(* One chunk: its context is looked for, then its old lines, then these    *)
(* without a blank last line; without old lines it goes to the end.        *)
PlacesFor(lines, index, chunk) ==
  LET starts == IF chunk.context = None THEN {index}
                ELSE {p + 1 : p \in SeekSequence(lines, <<chunk.context>>, index)}
      placed == PlacedFrom(lines, starts, chunk)
  IN CASE chunk.old = <<>> ->
            {[index |-> s, replacement |-> Replacement(Len(WithoutBlank(lines)), 0, chunk.new)] : s \in starts}
       [] chunk.old # <<>> /\ placed = {} /\ EndsBlank(chunk.old) ->
            PlacedFrom(lines, starts, WithoutBlankEnd(chunk))
       [] OTHER -> placed

TakeChunk(lines, plan, chunk) ==
  LET places == IF plan.ok THEN PlacesFor(lines, plan.index, chunk) ELSE {}
      place  == CHOOSE p \in places : TRUE
  IN IF places = {} THEN [plan EXCEPT !.ok = FALSE]
     ELSE [ok |-> TRUE, index |-> place.index, all |-> Append(plan.all, place.replacement)]

PlanOf(lines, chunks) ==
  FoldLeft(LAMBDA plan, chunk : TakeChunk(lines, plan, chunk),
           [ok |-> TRUE, index |-> 0, all |-> <<>>], chunks)

(* Sorted by place, those of one place in the order of the chunks.         *)
InOrder(all) ==
  LET order == SortSeq(Upto(Len(all)), LAMBDA i, j :
                 all[i].from < all[j].from \/ (all[i].from = all[j].from /\ i < j))
  IN [k \in DOMAIN all |-> all[order[k]]]

(* Replaced from the end of the file to its start; lines past the end are  *)
(* not there to be removed.                                                *)
ReplaceLines(lines, all) == FoldLeft(Splice, lines, Reverse(InOrder(all)))

(* An updated file ends with a newline.                                    *)
UpdateLines(lines, chunks) ==
  LET plan == PlanOf(lines, chunks)
      new  == ReplaceLines(lines, plan.all)
  IN IF ~plan.ok THEN Failed("lines") ELSE [ok |-> TRUE, lines |-> WithoutBlank(new)]

-----------------------------------------------------------------------------
(* The files of a workspace, path to lines.  A change is what is reported  *)
(* of a hunk that was applied.                                             *)
Put(files, path, lines) == [x \in DOMAIN files \cup {path} |-> IF x = path THEN lines ELSE files[x]]

Without(files, path) == [x \in DOMAIN files \ {path} |-> files[x]]

Change(status, path, from, old, new) ==
  [status |-> status, path |-> path, from |-> from, old |-> old, new |-> new]

ContentOf(files, path) == IF path \in DOMAIN files THEN files[path] ELSE <<>>

Applied(files, change) == [ok |-> TRUE, files |-> files, change |-> change]

ApplyHunk(files, hunk) ==
  CASE hunk.op = "add" ->
         Applied(Put(files, hunk.path, hunk.lines),
                 Change("A", hunk.path, hunk.path, ContentOf(files, hunk.path), hunk.lines))
    [] hunk.op # "add" /\ hunk.path \notin DOMAIN files -> Failed("no such file")
    [] hunk.op = "delete" /\ hunk.path \in DOMAIN files ->
         Applied(Without(files, hunk.path), Change("D", hunk.path, hunk.path, files[hunk.path], <<>>))
    [] OTHER ->
         LET old  == files[hunk.path]
             made == UpdateLines(old, hunk.chunks)
         IN CASE ~made.ok -> made
              [] made.ok /\ hunk.dest = NoPath ->
                   Applied(Put(files, hunk.path, made.lines),
                           Change("M", hunk.path, hunk.path, old, made.lines))
              [] OTHER ->
                   Applied(Without(Put(files, hunk.dest, made.lines), hunk.path),
                           Change("M", hunk.dest, hunk.path, old, made.lines))

-----------------------------------------------------------------------------
(* What is shown of a long text, given the sizes of its lines in bytes.  A *)
(* text of n lines has n - 1 separators.                                   *)
TextSize(sizes) == FoldLeft(LAMBDA a, b : a + b, Len(sizes) - 1, sizes)

Fits(sizes) == Len(sizes) <= MaxLines /\ TextSize(sizes) <= MaxBytes

(* The last lines that fit, each with its separator; the first is reported.*)
TailFits(sizes, from) ==
  /\ Len(sizes) - from + 1 <= MaxLines
  /\ TextSize(SubSeq(sizes, from, Len(sizes))) + 1 <= MaxBytes

TailStart(sizes) ==
  IF Fits(sizes) THEN 1
  ELSE Min({Len(sizes) + 1} \cup {i \in DOMAIN sizes : \A j \in i..Len(sizes) : TailFits(sizes, j)})

(* The same from the start, without the separator before the first line.   *)
HeadFits(sizes, to) ==
  to <= MaxLines /\ TextSize(SubSeq(sizes, 1, to)) + (IF to = 1 THEN 1 ELSE 0) <= MaxBytes

HeadEnd(sizes) ==
  IF Fits(sizes) THEN Len(sizes)
  ELSE Max({0} \cup {i \in DOMAIN sizes : \A j \in 1..i : HeadFits(sizes, j)})

(* read: a window of the lines is numbered, then cut at the caps.  A line  *)
(* that is too long for what is left is shown in part, and is the last.    *)
NumberSize == 2

WindowOf(sizes, start, count) ==
  [i \in 1..(IF count = 0 \/ start + count - 1 > Len(sizes) THEN Len(sizes) - start + 1 ELSE count)
     |-> sizes[start + i - 1] + NumberSize]

(* The separator is subtracted twice: of what is left and of the line.     *)
LineFits(window, i) ==
  LET before == TextSize(SubSeq(window, 1, i - 1)) + (IF i = 1 THEN 1 ELSE 0)
      comma  == IF i = 1 THEN 0 ELSE 1
  IN window[i] + comma <= MaxBytes - before - comma

WholeLines(window) ==
  Max({0} \cup {i \in DOMAIN window : i <= MaxLines /\ \A j \in 1..i : LineFits(window, j)})

Shown(from, lines, part, truncated) ==
  [ok |-> TRUE, from |-> from, lines |-> lines, part |-> part, truncated |-> truncated]

ReadLines(sizes, start, count) ==
  LET window == WindowOf(sizes, start, count)
      whole  == WholeLines(window)
      used   == IF whole = 0 THEN 0 ELSE TextSize(SubSeq(window, 1, whole)) + 1
      part   == whole < MaxLines /\ used < MaxBytes
  IN CASE sizes # <<>> /\ start > Len(sizes) -> Failed("past end of file")
       [] sizes # <<>> /\ start <= Len(sizes) /\ ~Fits(window) ->
            Shown(start, whole + (IF part THEN 1 ELSE 0), part, TRUE)
       [] OTHER -> Shown(start, Len(window), FALSE, FALSE)
=============================================================================
