-------------------------- MODULE MCShellExtension --------------------------
(* Plans for ShellExtension: programs that run together, and the file      *)
(* tools over small files.                                                 *)
EXTENDS ShellExtension

Run(stdout, stderr, child) ==
  [out |-> stdout, err |-> stderr, child |-> child, closes |-> FALSE, hangs |-> FALSE,
   starts |-> TRUE, status |-> 0, limit |-> 1]

Hanging(program) == [program EXCEPT !.hangs = TRUE]
Closing(program) == [program EXCEPT !.closes = TRUE]
Ending(program, status) == [program EXCEPT !.status = status]

Shell(program) == [kind |-> "shell", program |-> program]
User(program) == [kind |-> "user", program |-> program]
Grep(program) == [kind |-> "grep", program |-> program]
Session == [kind |-> "session"]
Configure(valid) == [kind |-> "configure", valid |-> valid]
Read(path, start, count) == [kind |-> "read", path |-> path, start |-> start, count |-> count]
WriteTo(path, text) == [kind |-> "write", path |-> path, text |-> text]
EditOf(path, edits) == [kind |-> "edit", path |-> path, edits |-> edits]
PatchOf(lines) == [kind |-> "patch", patch |-> lines]

NoFiles == [p \in {} |-> <<>>]
Plan(frames, before) == [frames |-> frames, files |-> before]

(* Programs: more lines than a pipe takes, on both streams; a child that   *)
(* outlives sh; one that hangs until the timeout; more matches than asked. *)
ProgramPlans ==
  {Plan(<<User(Run(<<4>>, <<>>, "back")), Grep(Run(<<7, 9>>, <<>>, "none")),
          User(Hanging(Run(<<>>, <<>>, "fore")))>>, NoFiles),
   Plan(<<Configure(FALSE), Shell(Hanging(Run(<<4>>, <<2>>, "fore"))), Session,
          Shell(Closing(Ending(Run(<<4, 5>>, <<>>, "back"), 1)))>>, NoFiles),
   Plan(<<User(Run(<<3>>, <<>>, "own")), Session, Shell([Run(<<>>, <<>>, "none") EXCEPT !.starts = FALSE])>>, NoFiles),
   Plan(<<Grep(Ending(Run(<<>>, <<5>>, "none"), 2)), Shell(Run(<<9, 9, 4, 2>>, <<>>, "none"))>>, NoFiles),
   Plan(<<User(Run(<<20, 4>>, <<7, 6>>, "back"))>>, NoFiles)}

(* Reads of files whose lines, or bytes, are about as many as are shown.   *)
ReadPlans ==
  {Plan(<<Read("f", start, count)>>, [p \in {"f"} |-> sizes]) :
     sizes \in UNION {[1..n -> {0, 6, 19, 30}] : n \in 0..4}, start \in 1..2, count \in 0..2}

Texts == {<<"a", "b", "nl", "a", "b">>, <<"a", "a", "nl", "a", "nl">>, <<"b", "nl", "nl", "a">>}
Old == {<<"a">>, <<"b">>, <<"a", "b">>, <<"nl">>, <<"a", "nl">>}
Edit(old, new, max, start, count) ==
  [old |-> old, new |-> new, max |-> max, start |-> start, count |-> count]
Edits == {Edit(o, n, 2, s, c) : o \in Old, n \in {<<>>, <<"x", "y">>}, s \in 1..2, c \in 0..1}

EditPlans ==
  {Plan(<<EditOf("f", e)>>, [p \in {"f"} |-> text]) :
     text \in Texts, e \in {<<a>> : a \in Edits} \cup {<<a, b>> : a \in Edits, b \in {Edit(o, <<"z">>, 1, 1, 0) : o \in Old}}}

(* Lines of a file: one is indented, one ends with a space, one is blank.  *)
A == <<0, "a", 0>>
B == <<0, "b", 0>>
FileLines == {<<A, B>>, <<A, <<2, "b", 0>>, A>>, <<<<0, "a", 1>>, B, Blank>>, <<Blank, A, A>>}
Body == {<<"@@", None>>, <<"@@", A>>, <<"+", B>>, <<"-", A>>, <<" ", B>>, <<" ", Blank>>}
Bodies == {<<<<"@@", None>>, a, b>> : a \in Body, b \in Body}
  \cup {<<<<"@@", x>>, <<"-", A>>, c, a, b>> : x \in {None, B}, c \in {<<"@@", None>>, <<"+", B>>}, a \in Body, b \in Body}
  \cup {<<<<"@@", x>>, a>> : x \in {None, A}, a \in Body}

(* A chunk without old lines stands alone: beside another chunk it may be  *)
(* put where that one removes a blank last line (README).                  *)
Separate(patch) ==
  LET parsed == ParsePatch(patch)
  IN parsed.ok =>
       \A i \in DOMAIN parsed.hunks :
         LET h == parsed.hunks[i]
         IN h.op = "update" /\ Len(h.chunks) > 1 => \A k \in DOMAIN h.chunks : h.chunks[k].old # <<>>

Update(body) == <<<<"update", "f">>>> \o body
Moved(body) == <<<<"update", "f">>, <<"move", "g">>>> \o body
AddFile(path) == <<<<"add", path>>, <<"+", A>>>>
Patches ==
  {Update(b) : b \in Bodies} \cup {Moved(b) : b \in Bodies}
  \cup {AddFile("g") \o Update(b) \o <<<<"delete", "g">>>> : b \in Bodies}
  \cup {Update(b) \o <<<<"eof">>>> : b \in Bodies}
  \cup {AddFile("f") \o <<<<"delete", "g">>>> \o AddFile("g"), AddFile("g") \o <<<<"move", "f">>>>,
        <<<<"add", "g">>>>, <<<<"delete", "f">>, <<"+", A>>>>}

PatchPlans ==
  {Plan(<<PatchOf(patch)>>, [p \in {"f"} |-> lines]) : lines \in FileLines, patch \in {q \in Patches : Separate(q)}}

(* Calls that wait for each other, and a file that is not there.           *)
MixedPlans ==
  {Plan(<<WriteTo("g", <<A>>), PatchOf(Update(<<<<"@@", None>>, <<"+", B>>>>) \o <<<<"delete", "h">>>>),
          EditOf("h", <<Edit(<<"a">>, <<>>, 1, 1, 0)>>), Read("h", 1, 0)>>, [p \in {"f"} |-> <<A, B>>])}

MCPlans == ProgramPlans \cup ReadPlans \cup EditPlans \cup PatchPlans \cup MixedPlans
=============================================================================
