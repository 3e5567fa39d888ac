--------------------------- MODULE ShellExtension ---------------------------
(* tau-ext-shell: a reader takes frames from the harness and starts one    *)
(* worker thread per call, bounded by a semaphore; the workers run the     *)
(* file tools or child processes and send what they found over one channel *)
(* to a writer.  The processes a command starts, their pipes and their     *)
(* process group belong to the operating system.                           *)
EXTENDS FileTools

CONSTANTS
  Permits,  \* Semaphore::new
  PipeSize, \* lines a pipe takes before its writer blocks
  MaxFrames, \* bound on the frames of a plan
  Plans     \* what the harness may send: frames, and the files before them

(* A frame is a call of a tool, a command of the user, or a message.  A    *)
(* command comes with the program it runs: the sizes of the lines "out"    *)
(* and "err" that it writes; a "child": "fore" (sh waits for it), "back"   *)
(* or "own" (in a session of its own) or "none"; closes: sh closes its     *)
(* output before it ends; hangs: nothing of it ends by itself.             *)
FileKinds == {"read", "write", "edit", "patch"}
ProgramKinds == {"grep", "shell", "user"}
AgentKinds == FileKinds \cup {"grep", "shell"}
MutatingKinds == {"write", "edit", "patch", "shell"}
CallKinds == FileKinds \cup ProgramKinds

ASSUME ShellAssumption ==
  /\ Permits \in Nat \ {0} /\ PipeSize \in Nat \ {0}
  /\ MaxFrames \in Nat
  /\ \A p \in Plans :
       /\ DOMAIN p = {"frames", "files"} /\ Len(p.frames) <= MaxFrames
       /\ p.frames \in Seq({p.frames[i] : i \in DOMAIN p.frames})
       /\ \A i \in DOMAIN p.frames :
            p.frames[i].kind \in ProgramKinds =>
              p.frames[i].program.out \in Seq(Nat) /\ p.frames[i].program.err \in Seq(Nat)

VARIABLES
  plan,    \* the one of Plans that happens
  next,    \* frames the reader has read
  reader,  \* "read", "ack" (of the last frame), "join" (the writer) or "done"
  permits, \* Semaphore.state
  worker,  \* frame to where its worker thread is
  process, \* frame to what the operating system has for its program
  got,     \* frame to the lines of each pipe that were read
  task,    \* frame to the hunks that are left, and the changes made
  files,   \* the workspace
  out,     \* the channel to the writer
  wire     \* what the writer has written

vars == <<plan, next, reader, permits, worker, process, got, task, files, out, wire>>

Streams == {"out", "err"}
Frames == DOMAIN plan.frames
Calls == {c \in Frames : plan.frames[c].kind \in CallKinds}
Program(c) == plan.frames[c].program

NoProcess == [live |-> {}, killed |-> FALSE, shut |-> FALSE,
              pipe |-> [s \in Streams |-> <<>>], wrote |-> [s \in Streams |-> 0]]

Init ==
  /\ plan \in Plans
  /\ next = 0 /\ reader = "read" /\ permits = Permits
  /\ worker = [c \in Frames |-> "none"]
  /\ process = [c \in Frames |-> NoProcess]
  /\ got = [c \in Frames |-> [s \in Streams |-> <<>>]]
  /\ task = [c \in Frames |-> [todo |-> <<>>, changes |-> <<>>]]
  /\ files = plan.files
  /\ out = <<>> /\ wire = <<>>

-----------------------------------------------------------------------------
(* Events and answers.                                                     *)
Event(kind, c) == [kind |-> kind, id |-> c]
Answer(c, ok, body) == [kind |-> "answer", id |-> c, ok |-> ok, body |-> body]
Progress(c, s, line) == [kind |-> "progress", id |-> c, stream |-> s, line |-> line]

Sent == wire \o out
IsAnswered(c) == \E i \in DOMAIN Sent : Sent[i].kind = "answer" /\ Sent[i].id = c
AnswersOnWire == {wire[i].id : i \in {j \in DOMAIN wire : wire[j].kind = "answer"}}

Send(events) == out' = out \o events
GoesTo(c, pc) == worker' = [worker EXCEPT ![c] = pc]

(* A worker sends what it found; its permit is dropped after that.         *)
Answers(c, ok, body) == GoesTo(c, "leave") /\ Send(<<Answer(c, ok, body)>>)

(* The shell tool's progress event goes out together with its answer.      *)
AnswersShell(c, ok, body) ==
  GoesTo(c, "leave") /\ Send(<<Event("running", c), Answer(c, ok, body)>>)

-----------------------------------------------------------------------------
(* The harness sends a mutating tool call when nothing else runs, and no   *)
(* other call while one runs (ToolScheduler); the user is not held back.   *)
Sendable(c) ==
  LET kind == plan.frames[c].kind
  IN \A b \in Calls : b < c /\ plan.frames[b].kind \in AgentKinds /\ kind \in AgentKinds
       /\ MutatingKinds \cap {kind, plan.frames[b].kind} # {} => b \in AnswersOnWire

NextFrame == reader = "read" /\ next < Len(plan.frames) /\ Sendable(next + 1) /\ next' = next + 1

(* Fault: the permit is taken by the worker, when it runs.                 *)
ReadCallUnbounded(c) ==
  /\ NextFrame /\ c = next + 1 /\ c \in Calls
  /\ permits' = permits /\ GoesTo(c, "start")
  /\ reader' = IF plan.frames[c].kind = "user" THEN "ack" ELSE "read"
  /\ UNCHANGED <<plan, process, got, task, files, out, wire>>

(* A call waits for a permit, and the reader with it.                      *)
ReadCall(c) ==
  /\ NextFrame /\ c = next + 1 /\ c \in Calls
  /\ permits > 0 /\ permits' = permits - 1
  /\ GoesTo(c, "start")
  /\ reader' = IF plan.frames[c].kind = "user" THEN "ack" ELSE "read"
  /\ UNCHANGED <<plan, process, got, task, files, out, wire>>

(* A call of a tool comes without a log id; a command of the user is       *)
(* acknowledged once its worker was started.                               *)
AckEvent ==
  /\ reader = "ack" /\ reader' = "read" /\ Send(<<Event("ack", next)>>)
  /\ UNCHANGED <<plan, next, permits, worker, process, got, task, files, wire>>

(* The skills and AGENTS.md files are announced by the reader itself.      *)
ReadMessage(c) ==
  /\ NextFrame /\ c = next + 1
  /\ CASE plan.frames[c].kind = "session" ->
            Send(<<Event("skill", c), Event("agents_md", c), Event("context_ready", c), Event("ack", c)>>)
       [] plan.frames[c].kind = "configure" ->
            Send(IF plan.frames[c].valid THEN <<>> ELSE <<Event("config_error", c)>>)
       [] OTHER -> FALSE
  /\ UNCHANGED <<plan, reader, permits, worker, process, got, task, files, wire>>

(* Disconnect, or the end of the input: the reader waits for the writer.   *)
ReadEnd ==
  /\ reader = "read" /\ next = Len(plan.frames) /\ reader' = "join"
  /\ UNCHANGED <<plan, next, permits, worker, process, got, task, files, out, wire>>

Write ==
  /\ out # <<>> /\ reader # "done"
  /\ wire' = Append(wire, Head(out)) /\ out' = Tail(out)
  /\ UNCHANGED <<plan, next, reader, permits, worker, process, got, task, files>>

(* The writer ends when the last sender is gone.                           *)
Join ==
  /\ reader = "join" /\ out = <<>> /\ \A c \in Calls : worker[c] \in {"none", "done"}
  /\ reader' = "done"
  /\ UNCHANGED <<plan, next, permits, worker, process, got, task, files, out, wire>>

Leave(c) ==
  /\ worker[c] = "leave" /\ GoesTo(c, "done") /\ permits' = permits + 1
  /\ UNCHANGED <<plan, next, reader, process, got, task, files, out, wire>>

-----------------------------------------------------------------------------
(* The file tools.                                                         *)
Starts(c, kind) == worker[c] = "start" /\ plan.frames[c].kind = kind

ReadFile(c) ==
  LET f == plan.frames[c]
  IN /\ Starts(c, "read")
     /\ IF f.path \in DOMAIN files
        THEN LET shown == ReadLines(files[f.path], f.start, f.count) IN Answers(c, shown.ok, shown)
        ELSE Answers(c, FALSE, Failed("no such file"))
     /\ UNCHANGED <<plan, next, reader, permits, process, got, task, files, wire>>

WriteFile(c) ==
  LET f == plan.frames[c]
  IN /\ Starts(c, "write")
     /\ files' = Put(files, f.path, f.text)
     /\ Answers(c, TRUE, <<Change("M", f.path, f.path, ContentOf(files, f.path), f.text)>>)
     /\ UNCHANGED <<plan, next, reader, permits, process, got, task, wire>>

(* edit reads the file, and writes it when that changes it.                *)
EditLoads(c) ==
  LET f    == plan.frames[c]
      made == EditFile(files[f.path], f.edits)
  IN /\ Starts(c, "edit")
     /\ IF f.path \notin DOMAIN files \/ ~made.ok
        THEN Answers(c, FALSE, <<>>) /\ UNCHANGED task
        ELSE /\ GoesTo(c, "store") /\ UNCHANGED out
             /\ task' = [task EXCEPT ![c].changes =
                           <<Change("M", f.path, f.path, files[f.path], made.text)>>]
     /\ UNCHANGED <<plan, next, reader, permits, process, got, files, wire>>

EditStores(c) ==
  LET change == task[c].changes[1]
  IN /\ worker[c] = "store"
     /\ files' = Put(files, change.path, change.new)
     /\ Answers(c, TRUE, task[c].changes)
     /\ UNCHANGED <<plan, next, reader, permits, process, got, task, wire>>

(* apply_patch parses the whole patch, then applies one hunk at a time.    *)
PatchStarts(c) ==
  LET parsed == ParsePatch(plan.frames[c].patch)
  IN /\ Starts(c, "patch")
     /\ IF parsed.ok
        THEN /\ GoesTo(c, "hunk") /\ UNCHANGED out
             /\ task' = [task EXCEPT ![c].todo = parsed.hunks]
        ELSE Answers(c, FALSE, <<>>) /\ UNCHANGED task
     /\ UNCHANGED <<plan, next, reader, permits, process, got, files, wire>>

(* The hunk that fails ends it; what was done stays done and is reported,  *)
(* in the display of the answer: its message to the agent does not say.    *)
PatchApplies(c) ==
  LET step == ApplyHunk(files, Head(task[c].todo))
  IN /\ worker[c] = "hunk" /\ task[c].todo # <<>>
     /\ IF step.ok
        THEN /\ files' = step.files /\ UNCHANGED <<worker, out>>
             /\ task' = [task EXCEPT ![c] = [todo |-> Tail(@.todo), changes |-> Append(@.changes, step.change)]]
        ELSE Answers(c, FALSE, task[c].changes) /\ UNCHANGED <<files, task>>
     /\ UNCHANGED <<plan, next, reader, permits, process, got, wire>>

PatchEnds(c) ==
  /\ worker[c] = "hunk" /\ task[c].todo = <<>>
  /\ Answers(c, TRUE, task[c].changes)
  /\ UNCHANGED <<plan, next, reader, permits, process, got, task, files, wire>>

-----------------------------------------------------------------------------
(* A program and its pipes.  sh is the leader of a new session; the child  *)
(* holds the pipes it inherited.                                           *)
Family(p) == {"sh"} \cup (IF p.child = "none" THEN {} ELSE {"child"})
GroupOf(p) == {"sh"} \cup (IF p.child \in {"fore", "back"} THEN {"child"} ELSE {})

Lines(c, s) == IF s = "out" THEN Program(c).out ELSE Program(c).err
Written(c) == \A s \in Streams : process[c].wrote[s] = Len(Lines(c, s))

Holders(c) == process[c].live \ (IF process[c].shut THEN {"sh"} ELSE {})
Eof(c, s) == process[c].pipe[s] = <<>> /\ Holders(c) = {}
Dead(c) == "sh" \notin process[c].live

Kill(c, victims) ==
  process' = [process EXCEPT ![c].live = @ \ victims, ![c].killed = @ \/ "sh" \in process[c].live \cap victims]

ProgramWrites(c, s) ==
  LET p == process[c]
  IN /\ "sh" \in p.live /\ ~p.shut
     /\ p.wrote[s] < Len(Lines(c, s)) /\ Len(p.pipe[s]) < PipeSize
     /\ process' = [process EXCEPT ![c].wrote[s] = @ + 1,
                                   ![c].pipe[s] = Append(@, Lines(c, s)[p.wrote[s] + 1])]
     /\ UNCHANGED <<plan, next, reader, permits, worker, got, task, files, out, wire>>

ProgramCloses(c) ==
  /\ "sh" \in process[c].live /\ ~process[c].shut /\ Program(c).closes /\ Written(c)
  /\ process' = [process EXCEPT ![c].shut = TRUE]
  /\ UNCHANGED <<plan, next, reader, permits, worker, got, task, files, out, wire>>

ProgramEnds(c, who) ==
  /\ who \in process[c].live /\ ~Program(c).hangs
  /\ who = "sh" => /\ Written(c) /\ (Program(c).closes => process[c].shut)
                   /\ Program(c).child = "fore" => "child" \notin process[c].live
  /\ process' = [process EXCEPT ![c].live = @ \ {who}]
  /\ UNCHANGED <<plan, next, reader, permits, worker, got, task, files, out, wire>>

NoStatus == -1

(* The status a wait returns; a process that was killed has none.          *)
Status(c) == IF process[c].killed THEN NoStatus ELSE Program(c).status

(* One pipe is read to its end by a thread of its own; what a command of   *)
(* the user writes is sent on at once.                                     *)
Drain(c, s) ==
  LET pipe == process[c].pipe[s]
      kind == plan.frames[c].kind
  IN /\ kind \in {"shell", "user"} \/ (kind = "grep" /\ s = "err" /\ worker[c] \in {"output", "output limited"})
     /\ worker[c] # "start" /\ pipe # <<>>
     /\ process' = [process EXCEPT ![c].pipe[s] = Tail(@)]
     /\ got' = [got EXCEPT ![c][s] = Append(@, Head(pipe))]
     /\ Send(IF kind = "user" THEN <<Progress(c, s, Head(pipe))>> ELSE <<>>)
     /\ UNCHANGED <<plan, next, reader, permits, worker, task, files, wire>>

StartsProgram(c, pc) ==
  /\ Program(c).starts /\ GoesTo(c, pc)
  /\ process' = [process EXCEPT ![c].live = Family(Program(c))]
  /\ UNCHANGED <<plan, next, reader, permits, got, task, files, out, wire>>

NotStarted(c) ==
  /\ ~Program(c).starts
  /\ IF plan.frames[c].kind = "shell" THEN AnswersShell(c, FALSE, Failed("start"))
     ELSE Answers(c, FALSE, Failed("start"))
  /\ UNCHANGED <<plan, next, reader, permits, process, got, task, files, wire>>

Spawn(c) ==
  \/ Starts(c, "shell") /\ (StartsProgram(c, "collect") \/ NotStarted(c))
  \/ Starts(c, "user") /\ (StartsProgram(c, "waiting") \/ NotStarted(c))
  \/ Starts(c, "grep") /\ (StartsProgram(c, "stdout") \/ NotStarted(c))

(* The last lines of a text, and the number of the first one shown.        *)
Tailed(lines) ==
  [from |-> TailStart(lines), lines |-> SubSeq(lines, TailStart(lines), Len(lines))]

-----------------------------------------------------------------------------
(* The shell tool: both pipes are read to their end, for as long as the    *)
(* timeout; then sh is waited for, without one.                            *)
ShellCollected(c) ==
  /\ worker[c] = "collect" /\ \A s \in Streams : Eof(c, s)
  /\ GoesTo(c, "wait")
  /\ UNCHANGED <<plan, next, reader, permits, process, got, task, files, out, wire>>

ShellEnds(c) ==
  /\ worker[c] = "wait" /\ Dead(c)
  /\ AnswersShell(c, Status(c) = 0, [note |-> "none", status |-> Status(c),
                                     out |-> Tailed(got[c]["out"]), err |-> Tailed(got[c]["err"])])
  /\ UNCHANGED <<plan, next, reader, permits, process, got, task, files, wire>>

TimeoutReport ==
  [note |-> "timeout", status |-> NoStatus, out |-> Tailed(<<>>), err |-> Tailed(<<>>)]

(* The timeout kills sh, not its group, and drops what was read.           *)
ShellTimesOut(c) ==
  /\ worker[c] = "collect"
  /\ Kill(c, {"sh"})
  /\ AnswersShell(c, FALSE, TimeoutReport)
  /\ UNCHANGED <<plan, next, reader, permits, got, task, files, wire>>

-----------------------------------------------------------------------------
(* A command of the user: a thread waits for sh; the timeout kills the     *)
(* group; then both pipes are read to their end, without a timeout.        *)
UserCommandEnds(c) ==
  /\ worker[c] = "waiting" /\ Dead(c) /\ GoesTo(c, "join")
  /\ UNCHANGED <<plan, next, reader, permits, process, got, task, files, out, wire>>

(* Fault: the timeout kills sh alone.                                      *)
UserTimesOutAlone(c) ==
  /\ worker[c] = "waiting"
  /\ Kill(c, {"sh"}) /\ GoesTo(c, "join killed")
  /\ UNCHANGED <<plan, next, reader, permits, got, task, files, out, wire>>

UserTimesOut(c) ==
  /\ worker[c] = "waiting"
  /\ Kill(c, GroupOf(Program(c))) /\ GoesTo(c, "join killed")
  /\ UNCHANGED <<plan, next, reader, permits, got, task, files, out, wire>>

(* "[stderr]" stands before what was written there, a note after it all.   *)
MarkerLine == 8
NoteLine == 9

Merged(c, cancelled) ==
  got[c]["out"] \o (IF got[c]["err"] = <<>> THEN <<>> ELSE <<MarkerLine>> \o got[c]["err"])
    \o (IF cancelled THEN <<NoteLine>> ELSE <<>>)

(* Fault: the answer does not wait for the threads that read the pipes.    *)
UserAnswersEarly(c) ==
  LET cancelled == worker[c] = "join killed"
  IN /\ worker[c] \in {"join", "join killed"}
     /\ Answers(c, ~cancelled, [status |-> Status(c), out |-> Tailed(Merged(c, cancelled))])
     /\ UNCHANGED <<plan, next, reader, permits, process, got, task, files, wire>>

UserAnswers(c) ==
  LET cancelled == worker[c] = "join killed"
  IN /\ worker[c] \in {"join", "join killed"} /\ \A s \in Streams : Eof(c, s)
     /\ Answers(c, ~cancelled, [status |-> Status(c), out |-> Tailed(Merged(c, cancelled))])
     /\ UNCHANGED <<plan, next, reader, permits, process, got, task, files, wire>>

-----------------------------------------------------------------------------
(* grep reads what rg prints up to one match past the limit, kills it      *)
(* there, and only then reads its errors; nothing of it has a timeout.     *)
GrepReads(c) ==
  LET pipe == process[c].pipe["out"]
  IN /\ worker[c] = "stdout" /\ pipe # <<>>
     /\ process' = [process EXCEPT ![c].pipe["out"] = Tail(@)]
     /\ IF Len(got[c]["out"]) < Program(c).limit
        THEN got' = [got EXCEPT ![c]["out"] = Append(@, Head(pipe))] /\ UNCHANGED worker
        ELSE GoesTo(c, "kill") /\ UNCHANGED got
     /\ UNCHANGED <<plan, next, reader, permits, task, files, out, wire>>

GrepKills(c) ==
  /\ worker[c] = "kill"
  /\ Kill(c, {"sh"}) /\ GoesTo(c, "output limited")
  /\ UNCHANGED <<plan, next, reader, permits, got, task, files, out, wire>>

GrepStdoutEnds(c) ==
  /\ worker[c] = "stdout" /\ Eof(c, "out") /\ GoesTo(c, "output")
  /\ UNCHANGED <<plan, next, reader, permits, process, got, task, files, out, wire>>

GrepAnswers(c) ==
  LET found == got[c]["out"]
  IN /\ worker[c] \in {"output", "output limited"} /\ Eof(c, "err") /\ Dead(c)
     /\ IF Status(c) = 2 THEN Answers(c, FALSE, Failed("ripgrep"))
        ELSE Answers(c, TRUE, [ok |-> TRUE, lines |-> SubSeq(found, 1, HeadEnd(found)),
                               limited |-> worker[c] = "output limited", cut |-> ~Fits(found)])
     /\ UNCHANGED <<plan, next, reader, permits, process, got, task, files, wire>>

-----------------------------------------------------------------------------
FileWorker(c) ==
  \/ ReadFile(c) \/ WriteFile(c) \/ EditLoads(c) \/ EditStores(c)
  \/ PatchStarts(c) \/ PatchApplies(c) \/ PatchEnds(c)

Worker(c) ==
  \/ Spawn(c)
  \/ ShellCollected(c) \/ ShellEnds(c) \/ ShellTimesOut(c)
  \/ UserCommandEnds(c) \/ UserTimesOut(c) \/ UserAnswers(c)
  \/ GrepReads(c) \/ GrepKills(c) \/ GrepStdoutEnds(c) \/ GrepAnswers(c)
  \/ Leave(c)

Reader == (\E c \in Frames : ReadCall(c) \/ ReadMessage(c)) \/ AckEvent \/ ReadEnd \/ Join

System(c) ==
  (\E s \in Streams : ProgramWrites(c, s)) \/ ProgramCloses(c) \/ (\E w \in {"sh", "child"} : ProgramEnds(c, w))

Next ==
  \/ Reader \/ Write
  \/ \E c \in Calls : FileWorker(c) \/ Worker(c) \/ \E s \in Streams : Drain(c, s)
  \/ \E c \in {d \in Calls : plan.frames[d].kind \in ProgramKinds} : System(c)

Spec == Init /\ [][Next]_vars

(* A file tool waits for nothing: its step can be taken whenever it has    *)
(* begun and has not answered.                                             *)
CanGoOn(c) ==
  c \in Calls /\ plan.frames[c].kind \in FileKinds /\ worker[c] \notin {"none", "leave", "done"}

(* Every thread runs on, and every program that does not hang: the timers  *)
(* are steps of the worker.                                                *)
Fairness ==
  /\ \A c \in 1..MaxFrames : []<>~CanGoOn(c) \/ []<><<c \in Calls /\ FileWorker(c)>>_vars
  /\ WF_vars(Reader) /\ WF_vars(Write)
  /\ \A c \in 1..MaxFrames : WF_vars(c \in Calls /\ Worker(c))
  /\ \A c \in 1..MaxFrames, s \in Streams : WF_vars(c \in Calls /\ Drain(c, s))
  /\ \A c \in 1..MaxFrames : WF_vars(c \in Calls /\ plan.frames[c].kind \in ProgramKinds /\ System(c))

FairSpec == Spec /\ Fairness

-----------------------------------------------------------------------------
TypeOK ==
  /\ next \in 0..MaxFrames /\ reader \in {"read", "ack", "join", "done"} /\ permits \in 0..Permits
  /\ \A c \in Frames :
       /\ process[c].live \subseteq {"sh", "child"}
       /\ \A s \in Streams : Len(process[c].pipe[s]) <= PipeSize

(* Every call whose worker is through is answered, once and after          *)
(* everything else that is said of it, and a worker holds one of the       *)
(* permits until it has left.                                              *)
AnsweredOnce ==
  /\ TypeOK
  /\ permits + Cardinality({c \in Calls : worker[c] \notin {"none", "done"}}) = Permits
  /\ \A c \in Calls : worker[c] \in {"leave", "done"} <=> IsAnswered(c)
  /\ \A i, j \in DOMAIN Sent :
       i < j /\ Sent[i].kind = "answer" /\ Sent[j].kind # "ack" => Sent[i].id # Sent[j].id

Streamed(c, s) ==
  LET events == SelectSeq(Sent, LAMBDA e : e.kind = "progress" /\ e.id = c /\ e.stream = s)
  IN [i \in DOMAIN events |-> events[i].line]

(* A text is shown whole, or the last lines of it with the number of the   *)
(* first one.                                                              *)
ShowsEndOf(shown, text) ==
  /\ shown.lines = SubSeq(text, shown.from, Len(text))
  /\ shown.from > 1 => ~Fits(text)

ShellAnswerIsWhole(c, answer) ==
  answer.body.note = "none" =>
    /\ answer.body.status = Program(c).status /\ ShowsEndOf(answer.body.out, Program(c).out)
    /\ ShowsEndOf(answer.body.err, Program(c).err)

UserAnswerIsWhole(c, answer) ==
  LET err  == Streamed(c, "err")
      text == Streamed(c, "out") \o (IF err = <<>> THEN <<>> ELSE <<MarkerLine>> \o err)
  IN /\ \A s \in Streams : IF answer.ok THEN Streamed(c, s) = Lines(c, s)
                            ELSE IsPrefix(Streamed(c, s), Lines(c, s))
     /\ ShowsEndOf(answer.body.out, IF answer.ok THEN text ELSE Append(text, NoteLine))

GrepAnswerIsWhole(c, answer) ==
  LET lines == Program(c).out
      found == SubSeq(lines, 1, IF answer.body.limited THEN Program(c).limit ELSE Len(lines))
  IN /\ answer.body.limited = (Len(lines) > Program(c).limit)
     /\ IsPrefix(answer.body.lines, found) /\ (answer.body.lines # found => answer.body.cut)

ReadAnswerIsWhole(c, answer) ==
  LET f      == plan.frames[c]
      window == WindowOf(plan.files[f.path], f.start, f.count)
  IN /\ answer.body.from = f.start /\ (window # <<>> => answer.body.lines > 0)
     /\ answer.body.lines < Len(window) \/ answer.body.part => answer.body.truncated
     /\ ~answer.body.part => Fits(SubSeq(window, 1, answer.body.lines))

(* What an answer shows is all the program wrote or the file holds, in     *)
(* order, or the end of it that fits, and then it says so; a command of    *)
(* the user has streamed everything its answer repeats.                    *)
OutputIsWhole ==
  \A i \in DOMAIN Sent :
    LET answer == Sent[i]
        c      == answer.id
        f      == plan.frames[c]
    IN answer.kind = "answer" =>
         CASE f.kind = "shell" /\ f.program.starts -> ShellAnswerIsWhole(c, answer)
           [] f.kind = "user" /\ f.program.starts -> UserAnswerIsWhole(c, answer)
           [] f.kind = "grep" /\ answer.ok -> GrepAnswerIsWhole(c, answer)
           [] f.kind = "read" /\ answer.ok -> ReadAnswerIsWhole(c, answer)
           [] OTHER -> TRUE

(* The reference for a replacement in a text: what stood between the       *)
(* replaced places is where it was, moved by what was put before it.       *)
ReplacedExactly(old, all, new) ==
  LET places   == ToSet(all)
      moved(p) == FoldSet(LAMBDA r, sum : sum + Len(r.new) - (r.to - r.from), p,
                          {r \in places : r.to <= p})
      kept     == {i \in DOMAIN old : \A r \in places : i <= r.from \/ i > r.to}
  IN /\ Len(new) = moved(Len(old))
     /\ \A i \in kept : new[moved(i - 1) + 1] = old[i]
     /\ \A r \in places : SubSeq(new, moved(r.to) - Len(r.new) + 1, moved(r.to)) = r.new

ChangeIsExact(f, i, change) ==
  CASE f.kind = "edit" ->
         LET all == Concat([k \in DOMAIN f.edits |-> ReplacementsOf(change.old, f.edits[k])])
         IN ReplacedExactly(change.old, all, change.new)
    [] f.kind = "patch" /\ change.status = "M" ->
         LET all == PlanOf(change.old, ParsePatch(f.patch).hunks[i].chunks).all
         IN \E new \in {change.new, Append(change.new, Blank)} : ReplacedExactly(change.old, all, new)
    [] OTHER -> TRUE

Reported(was, change) ==
  IF change.status = "D" THEN Without(was, change.path)
  ELSE Put(IF change.from = change.path THEN was ELSE Without(was, change.from), change.path, change.new)

ReportsOf(answer) ==
  IF answer.kind = "answer" /\ plan.frames[answer.id].kind \in {"write", "edit", "patch"}
  THEN answer.body ELSE <<>>

(* The workspace is what the answers, of the calls that failed too, report *)
(* to have changed in it, and each change replaces exactly the lines that  *)
(* were matched.                                                           *)
FilesAreAsReported ==
  LET reports == Concat([i \in DOMAIN Sent |-> ReportsOf(Sent[i])])
  IN /\ (\A c \in Calls : worker[c] \notin {"hunk", "store"}) =>
          files = FoldLeft(Reported, plan.files, reports)
     /\ \A i \in DOMAIN Sent : \A k \in DOMAIN ReportsOf(Sent[i]) :
          ChangeIsExact(plan.frames[Sent[i].id], k, ReportsOf(Sent[i])[k])

(* What an answer says is so: of the output of a program, of what a file   *)
(* holds, and of what was made of the workspace.                           *)
AnswersAreTrue == OutputIsWhole /\ FilesAreAsReported

(* Every call that was read is answered to the harness, whatever the other *)
(* workers wait for, and the extension ends; programs that hang are ended  *)
(* by the timeout.                                                         *)
CallsComeBack ==
  /\ \A c \in 1..MaxFrames : (c \in Calls /\ c <= next) ~> (c \in AnswersOnWire)
  /\ <>(reader = "done")
=============================================================================
