------------------------------ MODULE Clients ------------------------------
(***************************************************************************)
(* The harness daemon and the terminal UIs attached to its socket: the      *)
(* event loop that accepts clients, serves their requests, publishes what   *)
(* happens and replays it to those who come late; the chat of each UI, its  *)
(* renderer (Transcript) and the thread that sends drafts; the files that   *)
(* outlive both.  The agent and the tools are what their events make of     *)
(* them; how prompts reach them is the matter of PromptDispatch.            *)
(*                                                                          *)
(* Sockets are reliable and in order.  A frame that changes nothing on any  *)
(* screen is published without being sent.                                  *)
(***************************************************************************)
EXTENDS Transcript, ModelSettings

CONSTANTS
    Uis,            \* the terminals
    Scenarios,      \* what users and agent may do: see TypeOK
    MaxPrompts      \* bound: the prompts one daemon sends to its agent

VARIABLES
    daemon,         \* the harness process
    file,           \* harness.json5 of the state directory
    cli,            \* cli.json of the state directory
    to,             \* [ui -> what it has sent]
    from,           \* [ui -> what it has not rendered]
    ui,             \* [ui -> the chat]
    thread,         \* [ui -> its debounce_loop]
    heard,          \* the drafts published, of each UI
    seen,           \* [ui -> the events rendered], kept where settings change
    scenario, left  \* what may happen, and how often still

vars == << daemon, file, cli, to, from, ui, thread, heard, seen, scenario, left >>

NoSpid == 0

(* CliState::default. *)
DefaultCli == [diff |-> FALSE, thinking |-> TRUE, stats |-> FALSE, tools |-> "full"]

-----------------------------------------------------------------------------
(* Events.                                                                  *)

PromptSubmitted(text) == [t |-> "UiPromptSubmitted", text |-> text, user |-> TRUE]
PromptCreated(spid) == [t |-> "SessionPromptCreated", spid |-> spid, user |-> TRUE]
Started(session, new) == [t |-> "SessionStarted", session |-> session, new |-> new]
ContextReady == [t |-> "ExtensionContextReady"]
Extension(t) == [t |-> t, extension |-> "shell"]
Updated(job) ==
    [t |-> "AgentResponseUpdated", spid |-> job.spid, text |-> job.text,
     thinking |-> "thought", user |-> TRUE]
Finished(spid, text, thinking, calls, user) ==
    [t |-> "AgentResponseFinished", spid |-> spid, text |-> text, thinking |-> thinking,
     stats |-> "tokens", calls |-> calls, user |-> user]
CallEnded(t, call, diff) == [t |-> t, call |-> call, diff |-> diff]

(* session_id_for_event: what goes to the log of the session. *)
Persisted(e, session) ==
    \/ e.t \in {"UiPromptSubmitted", "SessionPromptQueued", "SessionPromptSteered",
                "SessionPromptCreated", "SessionStarted", "AgentResponseFinished", "ToolResult",
                "ToolError", "ExtensionContextReady"}
    \/ e.t = "ShellCommandFinished" /\ e.session = session

(* Fault: a call that failed is no fact of the transcript. *)
ShouldReplayNoErrors(e) ==
    \/ e.t \in {"UiPromptSubmitted", "SessionPromptSteered", "ToolResult",
                "ShellCommandFinished", "SessionStarted", "ExtensionContextReady"}
    \/ e.t = "AgentResponseFinished" /\ (e.text # Absent \/ e.thinking \notin {Absent, ""})

(* should_replay_session_event_to_late_subscriber *)
ShouldReplay(e) ==
    \/ e.t \in {"UiPromptSubmitted", "SessionPromptSteered", "ToolResult", "ToolError",
                "ShellCommandFinished", "SessionStarted", "ExtensionContextReady"}
    \/ e.t = "AgentResponseFinished" /\ (e.text # Absent \/ e.thinking \notin {Absent, ""})

(* What replay_harness_info finds in the event log. *)
Lifecycle(e) == e.t \in {"HarnessInfo", "ExtensionStarting", "ExtensionReady"}

-----------------------------------------------------------------------------
(* The daemon.                                                              *)

(* run_harness_daemon after its start, in session 0 with one extension. *)
NewDaemon(owner, h) ==
    [phase |-> "up", owner |-> owner, exits |-> TRUE, attached |-> FALSE,
     backlog |-> << >>, conns |-> [u \in Uis |-> "none"], subs |-> {},
     drift |-> [u \in Uis |-> {}],
     session |-> 0, ready |-> TRUE, h |-> h, context |-> None,
     log |-> << Started(0, FALSE), ContextReady >>,
     infos |-> << Extension("ExtensionStarting"), Extension("ExtensionReady") >>,
     spid |-> NoSpid, last_spid |-> NoSpid, calls |-> {}, queue |-> << >>, jobs |-> << >>,
     canceled |-> {}, dropped |-> {}, sub |-> 0, shells |-> {}]

NoDaemon == [NewDaemon({}, LoadModelList(NoFile)) EXCEPT !.phase = "none"]

client_writers(d) == {u \in Uis : d.conns[u] \in {"open", "served"}}

(* The test at the top of run_event_loop. *)
Leaves(d) == d.exits /\ d.attached /\ client_writers(d) = {}

Runs == daemon.phase = "up" /\ ~Leaves(daemon)

Busy(d) == d.spid # NoSpid \/ d.calls # {}

(* What a status bar shows. *)
Selection(d) ==
    [model |-> d.h.model, role |-> d.h.role, context |-> d.context,
     effort |-> d.h.params.effort, tier |-> d.h.params.tier,
     verbosity |-> d.h.params.verbosity, summary |-> d.h.params.summary,
     roles |-> RolesAvailable(d.h).roles, efforts |-> EffortsFor(d.h.model)]

Fields == DOMAIN Selection(NoDaemon)

Announced(e) ==
    CASE e.t = "HarnessModelSelected" -> {"model", "role"}
      [] e.t = "HarnessContextUsageChanged" -> {"context"}
      [] e.t = "HarnessEffortChanged" -> {"effort"}
      [] e.t = "HarnessServiceTierChanged" -> {"tier"}
      [] e.t = "HarnessVerbosityChanged" -> {"verbosity"}
      [] e.t = "HarnessThinkingSummaryChanged" -> {"summary"}
      [] e.t = "HarnessRolesAvailable" -> {"roles"}
      [] e.t = "HarnessEffortsAvailable" -> {"efforts"}
      [] OTHER -> {}

Told(out) == UNION {Announced(out[i]) : i \in DOMAIN out}

(* What changed without a word: no UI can know. *)
Unsaid(d, now, out) ==
    {f \in Fields : Selection(d)[f] # Selection(now)[f]} \ Told(out)

(* commit_event: to the logs, then to every subscriber. *)
Publish(now, out) ==
    /\ daemon' = [now EXCEPT
           !.log = @ \o SelectSeq(out, LAMBDA e : Persisted(e, now.session)),
           !.infos = @ \o SelectSeq(out, Lifecycle),
           !.drift = [u \in Uis |-> (@[u] \ Told(out)) \union Unsaid(daemon, now, out)]]
    /\ from' = [u \in Uis |-> IF u \in daemon.subs /\ ui[u].phase = "chat"
                              THEN from[u] \o out ELSE from[u]]

-----------------------------------------------------------------------------
(* The requests of a UI: the daemon after it, and what is published.        *)

With(d, out) == [d |-> d, out |-> out]

(* send_prompt_to_agent_for *)
Dispatched(d, text) ==
    [d EXCEPT !.last_spid = @ + 1, !.spid = d.last_spid + 1,
              !.jobs = Append(@, [spid |-> d.last_spid + 1, text |-> text, said |-> FALSE])]

Dispatch(d, text) ==
    With(Dispatched(d, text), << PromptSubmitted(text), PromptCreated(d.last_spid + 1) >>)

(* try_advance_queue *)
Advance(d) ==
    IF Busy(d) \/ ~d.ready \/ d.queue = << >> THEN With(d, << >>)
    ELSE Dispatch([d EXCEPT !.queue = Tail(@)], Head(d.queue))

SubmitPrompt(d, m) ==
    CASE m.session # d.session -> With(d, << Info >>)
      [] m.session = d.session /\ (Busy(d) \/ ~d.ready) ->
             With([d EXCEPT !.queue = Append(@, m.text)],
                  << [t |-> "SessionPromptQueued", text |-> m.text] >>)
      [] OTHER -> Dispatch(d, m.text)

CancelPrompt(d, m) ==
    CASE m.session # d.session -> With(d, << >>)
      [] m.session = d.session /\ d.spid = NoSpid -> With(d, << Info >>)
      [] OTHER -> With([d EXCEPT !.canceled = @ \union {d.spid}, !.dropped = @ \union {d.spid},
                                 !.spid = NoSpid, !.queue = << >>],
                       << Info >>)

(* switch_session: whatever the old one waits for is dropped. *)
SwitchSession(d, m) ==
    With([d EXCEPT !.session = m.session, !.ready = FALSE, !.log = << >>,
                   !.dropped = @ \union {d.spid}, !.spid = NoSpid, !.calls = {}, !.queue = << >>, !.context = None, !.sub = 0],
         << Started(m.session, TRUE) >>)

ShellCommand(d, m) ==
    With([d EXCEPT !.shells = @ \union {[command |-> m.command, session |-> m.session,
                                         output |-> << >>]}],
         << [t |-> "UiShellCommand", command |-> m.command] >>)

(* Fault: the UI leaves, and so does the daemon. *)
DetachRequestIgnored(d) == d

DetachRequest(d) == [d EXCEPT !.exits = FALSE]

HandleClientEvent(d, m) ==
    CASE m.t = "UiPromptSubmitted" -> SubmitPrompt(d, m)
      [] m.t = "UiCancelPrompt" -> CancelPrompt(d, m)
      [] m.t = "UiSwitchSession" -> SwitchSession(d, m)
      [] m.t = "UiShellCommand" -> ShellCommand(d, m)
      [] m.t = "UiDetachRequest" -> With(DetachRequest(d), << >>)
      [] OTHER -> With(d, << >>)

(* A picked model or role starts with an unknown context usage. *)
Selected(d, done) ==
    [d EXCEPT !.h = done.h,
              !.context = IF "context" \in Told(done.out) THEN None ELSE @]

ReplaySession(d) == SelectSeq(d.log, ShouldReplay)

ReplayAll(d) == ReplaySession(d) \o d.infos \o ReplayHarnessInfo(d.h, d.context)

-----------------------------------------------------------------------------
(* run_event_loop.                                                          *)

(* accept_client *)
Accept ==
    /\ Runs
    /\ daemon.backlog # << >>
    /\ daemon' = [daemon EXCEPT !.conns[Head(daemon.backlog)] = "open", !.attached = TRUE,
                                !.backlog = Tail(@)]
    /\ UNCHANGED << file, cli, to, from, ui, thread, heard, seen, scenario, left >>

Received(u, t) ==
    /\ Runs
    /\ daemon.conns[u] \in {"open", "served"}
    /\ to[u] # << >>
    /\ Head(to[u]).t \in t
    /\ to' = [to EXCEPT ![u] = Tail(@)]
    /\ UNCHANGED << cli, ui, thread, seen, scenario, left >>

(* The replay, which says everything but the service tier. *)
Subscribe(u) ==
    LET out == ReplayAll(daemon)
    IN  /\ Received(u, {"Subscribe"})
        /\ daemon.conns[u] = "open"
        /\ daemon' = [daemon EXCEPT !.subs = @ \union {u},
               !.drift[u] = IF daemon.h.params.tier = None THEN {} ELSE {"tier"}]
        /\ from' = [from EXCEPT ![u] = IF ui[u].phase = "chat" THEN @ \o out ELSE @]
        /\ UNCHANGED << file, heard >>

ClientEvents == {"UiPromptSubmitted", "UiCancelPrompt", "UiSwitchSession", "UiShellCommand",
                 "UiDetachRequest", "UiPromptDraft"}

ClientEvent(u) ==
    LET m == Head(to[u])
        done == HandleClientEvent(daemon, m)
    IN  /\ Received(u, ClientEvents)
        /\ daemon.conns[u] = "open"
        /\ Publish(done.d, done.out)
        /\ heard' = IF m.t = "UiPromptDraft" THEN [heard EXCEPT ![u] = m.text] ELSE heard
        /\ UNCHANGED file

ClientSetting(u) ==
    LET done == HandleSetting(daemon.h, file, Head(to[u]))
    IN  /\ Received(u, SettingRequests)
        /\ daemon.conns[u] = "open"
        /\ Publish(Selected(daemon, done), done.out)
        /\ file' = done.file
        /\ UNCHANGED heard

(* Its socket stays until the end of the stream is read. *)
Disconnect(u) ==
    /\ Received(u, {"Disconnect"})
    /\ daemon.conns[u] = "open"
    /\ daemon' = [daemon EXCEPT !.conns[u] = "served", !.subs = @ \ {u}]
    /\ UNCHANGED << file, heard, from >>

(* Fault: a client already served keeps its writer. *)
HandleDisconnectServed(d, u) ==
    IF d.conns[u] = "served" THEN d
    ELSE [d EXCEPT !.conns[u] = "closed", !.subs = @ \ {u}]

(* Fault: what the client has asked for outlives it. *)
HandleDisconnectSubs(d, u) == [d EXCEPT !.conns[u] = "closed"]

HandleDisconnectOf(d, u) == [d EXCEPT !.conns[u] = "closed", !.subs = @ \ {u}]

Disconnected(u) ==
    /\ Received(u, {"EOF"})
    /\ daemon' = HandleDisconnectOf(daemon, u)
    /\ UNCHANGED << file, heard, from >>

(* The last client has left.  Who connects now is not accepted. *)
Exit ==
    /\ daemon.phase = "up"
    /\ Leaves(daemon)
    /\ daemon' = [daemon EXCEPT !.phase = "exited"]
    /\ UNCHANGED << file, cli, to, from, ui, thread, heard, seen, scenario, left >>

-----------------------------------------------------------------------------
(* The agent, the tools and the extensions.                                 *)

AgentVars == << file, cli, to, ui, thread, heard, seen, scenario, left >>

(* Published as it comes, whatever has become of the prompt. *)
AgentUpdates ==
    /\ Runs
    /\ daemon.jobs # << >>
    /\ ~Head(daemon.jobs).said
    /\ Publish([daemon EXCEPT !.jobs[1].said = TRUE], << Updated(Head(daemon.jobs)) >>)
    /\ UNCHANGED AgentVars

(* After its calls a turn needs another prompt, and there is a bound. *)
Calls == IF daemon.last_spid < MaxPrompts THEN {<< >>} \union scenario.calls ELSE {<< >>}

UsageChanged(d) == IF d.context = "used" THEN << >> ELSE << ContextUsageChanged("used") >>

(* handle_agent_response_finished *)
AgentFinishes(text, thinking, calls) ==
    LET job  == Head(daemon.jobs)
        over == [daemon EXCEPT !.jobs = Tail(@), !.context = "used"]
        ends == [over EXCEPT !.spid = NoSpid, !.calls = Range(calls)]
        next == Advance(ends)
        said == Finished(job.spid, text, thinking, calls, TRUE)
    IN  /\ Runs
        /\ daemon.jobs # << >>
        /\ \/ /\ job.spid \in daemon.canceled
              /\ Publish([daemon EXCEPT !.jobs = Tail(@), !.canceled = @ \ {job.spid}], << >>)
           \/ /\ job.spid \notin daemon.canceled
              /\ job.spid # daemon.spid
              /\ Publish(over, UsageChanged(daemon) \o << Info >>)
           \/ /\ job.spid \notin daemon.canceled
              /\ job.spid = daemon.spid
              /\ Publish(next.d, UsageChanged(daemon) \o << said >> \o next.out)
        /\ UNCHANGED AgentVars

(* What the prompts that wait become when a turn goes on. *)
Steer(d) ==
    With([Dispatched(d, IF d.queue = << >> THEN "more" ELSE Last(d.queue)) EXCEPT !.queue = << >>],
         [i \in DOMAIN d.queue |-> [t |-> "SessionPromptSteered", text |-> d.queue[i]]]
             \o << PromptCreated(d.last_spid + 1) >>)

ToolEnds(call, t) ==
    LET ends == [daemon EXCEPT !.calls = @ \ {call}]
        next == IF ends.calls = {} THEN Steer(ends) ELSE With(ends, << >>)
    IN  /\ Runs
        /\ call \in daemon.calls
        /\ call = "delegate" => daemon.sub = 3
        /\ Publish(IF call = "delegate" THEN [next.d EXCEPT !.sub = 0] ELSE next.d,
                   << CallEnded(t, call, call = "edit" /\ t = "ToolResult") >> \o next.out)
        /\ UNCHANGED AgentVars

(* A delegate calls a tool, reports, and gets its result. *)
SubAgentSteps ==
    LET out == << Finished("sub", Absent, Absent, << "sub" >>, FALSE),
                  [t |-> "ToolDelegateProgress", call |-> "delegate"],
                  CallEnded("ToolResult", "sub", FALSE) >>
    IN  /\ Runs
        /\ "delegate" \in daemon.calls
        /\ daemon.sub < 3
        /\ Publish([daemon EXCEPT !.sub = @ + 1], << out[daemon.sub + 1] >>)
        /\ UNCHANGED AgentVars

ShellProgresses(s) ==
    /\ Runs
    /\ s \in daemon.shells
    /\ s.output = << >>
    /\ Publish([daemon EXCEPT !.shells = (@ \ {s}) \union {[s EXCEPT !.output = << "line" >>]}],
               << [t |-> "ShellCommandProgress", command |-> s.command, chunk |-> "line"] >>)
    /\ UNCHANGED AgentVars

ShellFinishes(s) ==
    /\ Runs
    /\ s \in daemon.shells
    /\ s.output # << >>
    /\ Publish([daemon EXCEPT !.shells = @ \ {s}],
               << [t |-> "ShellCommandFinished", command |-> s.command, session |-> s.session,
                   output |-> s.output, label |-> "ok"] >>)
    /\ UNCHANGED AgentVars

(* The extensions have read what the session's directory offers. *)
SessionInitialized ==
    LET next == Advance([daemon EXCEPT !.ready = TRUE])
    IN  /\ Runs
        /\ ~daemon.ready
        /\ Publish(next.d, << ContextReady >> \o next.out)
        /\ UNCHANGED AgentVars

Agent ==
    \/ AgentUpdates
    \/ /\ daemon.jobs # << >>
       /\ \E text \in {Head(daemon.jobs).text, Absent}, thinking \in {Absent, "thought"},
             calls \in Calls :
             /\ text = Absent => calls # << >>
             /\ AgentFinishes(text, thinking, calls)
    \/ \E call \in daemon.calls, t \in {"ToolResult", "ToolError"} : ToolEnds(call, t)
    \/ SubAgentSteps
    \/ \E s \in daemon.shells : ShellProgresses(s) \/ ShellFinishes(s)
    \/ SessionInitialized

-----------------------------------------------------------------------------
(* The chat.                                                                *)

NoUi ==
    [phase |-> "none", owner |-> FALSE, session |-> 0, exit |-> "none",
     buffer |-> None, epoch |-> 0, pending |-> << >>, done |-> FALSE,
     r |-> NewRenderer(DefaultCli)]

NewUi(owner, session) ==
    [NoUi EXCEPT !.phase = "chat", !.owner = owner, !.session = session, !.r = NewRenderer(cli)]

(* run_chat connects and asks for every event; the listener queues it. *)
Connect(d, u) == [d EXCEPT !.backlog = Append(@, u), !.conns[u] = "backlog"]

Opens(u, owner) ==
    /\ ui[u].phase = "none"
    /\ ui' = [ui EXCEPT ![u] = NewUi(owner, 0)]
    /\ to' = [to EXCEPT ![u] = << [t |-> "Subscribe"] >>]
    /\ thread' = [thread EXCEPT ![u].pc = "wait"]
    /\ UNCHANGED << file, cli, from, heard, seen, scenario, left >>

(* start_daemon: a harness of its own. *)
Start(u) ==
    /\ u \in scenario.owners
    /\ daemon.phase \in {"none", "exited"}
    /\ Opens(u, TRUE)
    /\ daemon' = Connect(NewDaemon({u}, LoadModelList(file)), u)

(* --attach: the session is the one the harness was started for. *)
Attach(u) ==
    /\ u \in scenario.guests
    /\ daemon.phase = "up"
    /\ Opens(u, FALSE)
    /\ daemon' = Connect(daemon, u)

(* Whether a frame reaches the daemon, or a socket without one. *)
Alive(u) == daemon.phase = "up" /\ daemon.conns[u] # "none"

Sends(u, frame) == to' = [to EXCEPT ![u] = IF Alive(u) THEN Append(@, frame) ELSE @]

Leave(u, exit) == [ui[u] EXCEPT !.phase = "leaving", !.exit = exit, !.done = TRUE]

(* Submission ends the draft before the prompt is sent. *)
Submit(u, text) ==
    LET ended == [ui[u] EXCEPT !.epoch = @ + 1, !.pending = << >>, !.buffer = None]
    IN  /\ Sends(u, [t |-> "UiPromptSubmitted", text |-> text, session |-> ui[u].session])
        /\ ui' = [ui EXCEPT ![u] = IF Alive(u) THEN ended
                                   ELSE [Leave(u, "quit") EXCEPT !.epoch = @ + 1,
                                             !.pending = << >>, !.buffer = None]]

Command(u, frame) == Sends(u, frame) /\ UNCHANGED ui

(* /new: the chat knows the new session before the harness does. *)
New(u) ==
    /\ Sends(u, [t |-> "UiSwitchSession", session |-> left])
    /\ ui' = [ui EXCEPT ![u].session = left]

(* Every level there is, and the next one the model has. *)
Efforts == << "off", "minimal", "low", "medium", "high", "xhigh" >>

NextIn(level, allowed) ==
    LET at   == CHOOSE i \in DOMAIN Efforts : Efforts[i] = level
        turn == SubSeq(Efforts, at + 1, Len(Efforts)) \o SubSeq(Efforts, 1, at)
    IN  FirstOf(SelectSeq(turn, LAMBDA x : Contains(allowed, x)), level)

(* BackTab, FastToggle and RoleCycle go by what the renderer has heard. *)
CycleEffort(u) ==
    LET next == NextIn(ui[u].r.effort, ui[u].r.efforts)
    IN  /\ ui[u].r.efforts # << >>
        /\ next # ui[u].r.effort
        /\ Command(u, [t |-> "UiSetEffort", level |-> next])

ToggleFast(u) ==
    Command(u, [t |-> "UiSetServiceTier",
                tier |-> IF ui[u].r.tier = "fast" THEN None ELSE "fast"])

CycleRole(u) ==
    LET roles == ui[u].r.roles
        at    == {i \in DOMAIN roles : roles[i] = ui[u].r.role}
        next  == IF at = {} THEN roles[1]
                 ELSE roles[((CHOOSE i \in at : TRUE) % Len(roles)) + 1]
    IN  /\ roles # << >>
        /\ Command(u, [t |-> "UiRoleSelect", role |-> next])

(* /set goes to the renderer, behind what the socket reader has put there;  *)
(* what it has not read yet might as well be sent later.                    *)
SetSetting(u, set) ==
    /\ from' = [from EXCEPT ![u] = Append(@, set)]
    /\ UNCHANGED << to, ui >>

(* Every change of the buffer replaces the draft. *)
Type(u, text) ==
    /\ text # ui[u].buffer
    /\ ui' = [ui EXCEPT ![u].buffer = text, ![u].pending = << [epoch |-> ui[u].epoch, text |-> text] >>]
    /\ UNCHANGED to

Quit(u) == ui' = [ui EXCEPT ![u] = Leave(u, "quit")] /\ UNCHANGED to

Detach(u) ==
    /\ Sends(u, [t |-> "UiDetachRequest"])
    /\ ui' = [ui EXCEPT ![u] = Leave(u, "detach")]

(* The terminal is gone, and the process with it. *)
Crash(u) ==
    /\ Sends(u, [t |-> "EOF"])
    /\ ui' = [ui EXCEPT ![u] = [NoUi EXCEPT !.phase = "gone", !.exit = "crash"]]

Key(u, key) ==
    \/ key.t = "prompt" /\ Submit(u, key.text)
    \/ key.t = "type" /\ Type(u, key.text)
    \/ key.t = "/new" /\ New(u)
    \/ key.t = "/cancel" /\ Command(u, [t |-> "UiCancelPrompt", session |-> ui[u].session])
    \/ key.t = "/quit" /\ Quit(u)
    \/ key.t = "/detach" /\ Detach(u)
    \/ key.t = "hangup" /\ Crash(u)
    \/ key.t = "back-tab" /\ CycleEffort(u)
    \/ key.t = "fast-toggle" /\ ToggleFast(u)
    \/ key.t = "role-cycle" /\ CycleRole(u)
    \/ key.t = "!" /\ Command(u, [t |-> "UiShellCommand", command |-> left,
                                 session |-> ui[u].session])
    \/ key.t \in SettingRequests /\ Command(u, key)

Press(u, key) ==
    /\ ui[u].phase = "chat"
    /\ left > 0
    /\ left' = left - 1
    /\ \/ Key(u, key) /\ UNCHANGED from
       \/ key.t = "Set" /\ SetSetting(u, key)
    /\ thread' = IF key.t = "hangup" THEN [thread EXCEPT ![u].pc = "ended"] ELSE thread
    /\ UNCHANGED << daemon, file, cli, heard, seen, scenario >>

(* The renderer thread takes what its channel holds.  Thinking that ends    *)
(* while it is hidden is not kept: it is no part of what can be shown later. *)
RenderOne(at, e) ==
    CASE e.t = "Set" ->
             [at EXCEPT !.r = ApplySetting(@, e.name, e.value),
                        !.cli = IF at.r.settings[e.name] = e.value THEN @
                                ELSE [at.r.settings EXCEPT ![e.name] = e.value]]
      [] e.t = "AgentResponseFinished" /\ ~at.r.settings.thinking ->
             [at EXCEPT !.r = Handle(@, e), !.seen = Append(@, [e EXCEPT !.thinking = ""])]
      [] OTHER -> [at EXCEPT !.r = Handle(@, e), !.seen = Append(@, e)]

Render(u) ==
    LET done == FoldLeft(RenderOne, [r |-> ui[u].r, cli |-> cli, seen |-> seen[u]], from[u])
    IN  /\ ui[u].phase = "chat"
        /\ from[u] # << >>
        /\ from' = [from EXCEPT ![u] = << >>]
        /\ ui' = [ui EXCEPT ![u].r = done.r]
        /\ cli' = done.cli
        /\ seen' = IF scenario.retro THEN [seen EXCEPT ![u] = done.seen] ELSE seen
        /\ UNCHANGED << daemon, file, to, thread, heard, scenario, left >>

(* The debounce thread is joined, then the stream is closed. *)
Close(u) ==
    /\ ui[u].phase = "leaving"
    /\ thread[u].pc = "ended"
    /\ to' = [to EXCEPT ![u] = IF Alive(u) THEN @ \o << [t |-> "Disconnect"], [t |-> "EOF"] >>
                               ELSE @]
    /\ from' = [from EXCEPT ![u] = << >>]
    /\ ui' = [ui EXCEPT ![u] = [NoUi EXCEPT !.exit = ui[u].exit,
                  !.phase = IF ui[u].owner /\ ui[u].exit = "quit" THEN "closed" ELSE "gone"]]
    /\ UNCHANGED << daemon, file, cli, thread, heard, seen, scenario, left >>

(* Drop of the DaemonHandle: what its daemon had not written is lost. *)
Kill(u) ==
    /\ ui[u].phase = "closed"
    /\ ui' = [ui EXCEPT ![u].phase = "gone"]
    /\ \/ /\ u \in daemon.owner
          /\ daemon' = [daemon EXCEPT !.phase = "exited"]
          /\ from' \in [Uis -> UNION {Prefixes(from[v]) : v \in Uis}]
          /\ \A v \in Uis : IsPrefix(from'[v], from[v])
       \/ /\ u \notin daemon.owner
          /\ UNCHANGED << daemon, from >>
    /\ UNCHANGED << file, cli, to, thread, heard, seen, scenario, left >>

-----------------------------------------------------------------------------
(* debounce_loop.                                                           *)

NoThread == [pc |-> "none", epoch |-> 0, text |-> None]

ThreadVars == << daemon, file, cli, from, heard, seen, scenario, left >>

TakeDraft(u) ==
    /\ thread[u].pc = "wait"
    /\ \/ /\ ui[u].pending # << >>
          /\ thread' = [thread EXCEPT ![u] = [pc |-> "taken", epoch |-> ui[u].pending[1].epoch,
                                              text |-> ui[u].pending[1].text]]
          /\ ui' = [ui EXCEPT ![u].pending = << >>]
       \/ /\ ui[u].pending = << >> /\ ui[u].done
          /\ thread' = [thread EXCEPT ![u].pc = "ended"]
          /\ UNCHANGED ui
    /\ UNCHANGED to /\ UNCHANGED ThreadVars

ShouldSendDraft(u) == ~ui[u].done /\ ui[u].epoch = thread[u].epoch

CheckDraft(u) ==
    /\ thread[u].pc = "taken"
    /\ thread' = [thread EXCEPT ![u].pc = IF ShouldSendDraft(u) THEN "cleared" ELSE "sleep"]
    /\ UNCHANGED << to, ui >> /\ UNCHANGED ThreadVars

SendDraft(u) ==
    /\ thread[u].pc = "cleared"
    /\ Sends(u, [t |-> "UiPromptDraft", text |-> thread[u].text])
    /\ thread' = [thread EXCEPT ![u].pc = "sleep"]
    /\ UNCHANGED ui /\ UNCHANGED ThreadVars

(* Fault: what is typed during the sleep is forgotten. *)
WakeForgets(u) ==
    /\ thread[u].pc = "sleep"
    /\ thread' = [thread EXCEPT ![u].pc = IF ui[u].done THEN "ended" ELSE "wait"]
    /\ ui' = [ui EXCEPT ![u].pending = << >>]
    /\ UNCHANGED to /\ UNCHANGED ThreadVars

Wake(u) ==
    /\ thread[u].pc = "sleep"
    /\ thread' = [thread EXCEPT ![u].pc =
           IF ui[u].done /\ ui[u].pending = << >> THEN "ended" ELSE "wait"]
    /\ UNCHANGED << to, ui >> /\ UNCHANGED ThreadVars

Debounce(u) == TakeDraft(u) \/ CheckDraft(u) \/ SendDraft(u) \/ Wake(u)

-----------------------------------------------------------------------------

Init ==
    /\ scenario \in Scenarios
    /\ left = scenario.presses
    /\ daemon = NoDaemon
    /\ file = NoFile /\ cli = DefaultCli
    /\ to = [u \in Uis |-> << >>] /\ from = to /\ seen = to
    /\ ui = [u \in Uis |-> NoUi]
    /\ thread = [u \in Uis |-> NoThread]
    /\ heard = [u \in Uis |-> None]

Serve(u) == Subscribe(u) \/ ClientEvent(u) \/ ClientSetting(u) \/ Disconnect(u) \/ Disconnected(u)

Next ==
    \/ Accept \/ Exit \/ Agent
    \/ \E u \in Uis :
          \/ Serve(u) \/ Start(u) \/ Attach(u) \/ Render(u) \/ Close(u) \/ Kill(u) \/ Debounce(u)
          \/ \E key \in scenario.keys : Press(u, key)

Spec == Init /\ [][Next]_vars

(* When the daemon and the threads of a UI can take a step. *)
AcceptCan == Runs /\ daemon.backlog # << >>
ExitCan == daemon.phase = "up" /\ Leaves(daemon)
ServeCan(u) == Runs /\ daemon.conns[u] \in {"open", "served"} /\ to[u] # << >>
DebounceCan(u) ==
    \/ thread[u].pc \in {"taken", "cleared", "sleep"}
    \/ thread[u].pc = "wait" /\ (ui[u].pending # << >> \/ ui[u].done)
EndsCan(u) == ui[u].phase = "closed" \/ (ui[u].phase = "leaving" /\ thread[u].pc = "ended")

(* The daemon reads what is there, and the threads of a UI run; users and   *)
(* agent need not go on.  These are WF_vars(Accept), WF_vars(Exit),         *)
(* WF_vars(Serve(u)), WF_vars(Debounce(u)) and WF_vars(Close(u) \/ Kill(u)), *)
(* written with the guards of the actions and what only they change.        *)
FairSpec ==
    /\ Spec
    /\ []<>~AcceptCan \/ []<><< Len(daemon'.backlog) < Len(daemon.backlog) >>_vars
    /\ []<>~ExitCan \/ []<><< daemon'.phase # daemon.phase >>_vars
    /\ \A u \in Uis :
          /\ []<>~ServeCan(u) \/ []<><< Len(to'[u]) < Len(to[u]) >>_vars
          /\ []<>~DebounceCan(u) \/ []<><< thread'[u] # thread[u] >>_vars
          /\ []<>~EndsCan(u) \/ []<><< ui'[u].phase # ui[u].phase >>_vars

-----------------------------------------------------------------------------

(* The shapes of the variables; a scenario says who may start a daemon and  *)
(* who may attach, which keys are pressed, what the agent may call.         *)
TypeOK ==
    /\ daemon.phase \in {"none", "up", "exited"}
    /\ daemon.subs \subseteq {u \in Uis : daemon.conns[u] = "open"}
    /\ daemon.spid \in 0..daemon.last_spid
    /\ daemon.calls # {} => daemon.spid = NoSpid
    /\ \A u \in Uis :
          /\ ui[u].phase \in {"none", "chat", "leaving", "closed", "gone"}
          /\ thread[u].pc \in {"none", "wait", "taken", "cleared", "sleep", "ended"}
          /\ Contains(daemon.backlog, u) <=> daemon.conns[u] = "backlog"
    /\ left \in 0..scenario.presses

CaughtUp(u) ==
    daemon.phase = "up" /\ u \in daemon.subs /\ ui[u].phase = "chat" /\ from[u] = << >>

(* A change of a setting redraws the past: the transcript and the tools in  *)
(* progress look as if the setting had always been what it is.  (set_*:     *)
(* event_renderer.rs; the mode that sums up a whole prompt is excepted.)    *)
TranscriptIsRetroactive ==
    \A u \in Uis :
        LET r == ui[u].r
            fresh == FoldLeft(Handle, NewRenderer(r.settings), seen[u])
            Lasting(z) == SelectSeq(Shown(z, "above_active"), LAMBDA b : b[1] # "thinking")
        IN  scenario.retro /\ ui[u].phase = "chat" =>
                /\ Shown(r.z, "history") = Shown(fresh.z, "history")
                /\ Lasting(r.z) = Lasting(fresh.z)

(* When nothing runs, nothing on the screen of a UI that has rendered all   *)
(* looks as if it did, except what is left of prompts that were canceled or *)
(* left behind by /new (handle_agent_response_finished drops their answer). *)
QuietWhenIdle ==
    /\ TypeOK
    /\ \A u \in Uis :
        LET r == ui[u].r
            live == {id \in Range(r.z.above_active) : r.z.blocks[id] # << >>}
            forsaken == UNION {{r.prompts[p].response, r.prompts[p].thinking} :
                                  p \in daemon.dropped \intersect DOMAIN r.prompts}
            shells == {r.shell_blocks[c].id : c \in DOMAIN r.shell_blocks}
        IN  CaughtUp(u) /\ ~Busy(daemon) => live \subseteq forsaken \union shells

Story(r) ==
    SelectSeq(Shown(r.z, "history"), LAMBDA b : b[1] \in {"user", "response", "tool", "diff"})

(* Whoever comes late reads the same story as those who saw it happen.      *)
(* (replay_session_events; not so for prompts that had to wait and for what *)
(* sub-agents call, see the README.)                                        *)
SameStory ==
    \A u, v \in Uis :
        /\ CaughtUp(u) /\ CaughtUp(v)
        /\ ui[u].r.settings = ui[v].r.settings
        /\ \A i \in DOMAIN daemon.log :
              /\ daemon.log[i].t # "SessionPromptQueued"
              /\ daemon.log[i].t = "AgentResponseFinished" => daemon.log[i].user
        => Story(ui[u].r) = Story(ui[v].r)

(* A UI that has rendered all shows the selection of the harness, but for   *)
(* the changes the harness keeps to itself: another model or other levels   *)
(* after /role, and the service tier to who comes late.                     *)
StatusIsCurrent ==
    \A u \in Uis : CaughtUp(u) =>
        \A f \in Fields \ daemon.drift[u] : ui[u].r[f] = Selection(daemon)[f]

DetachedStaysUp ==
    (\E u \in Uis : ui[u].exit = "detach" /\ daemon.conns[u] \notin {"none", "backlog"}) =>
        daemon.phase = "up" \/ \E u \in Uis : ui[u].exit = "quit"

Abandoned ==
    daemon.phase = "up" /\ daemon.exits /\ daemon.attached
        /\ \A u \in Uis : ui[u].phase \in {"none", "gone"}

(* /detach of an accepted UI keeps the daemon up, however the others leave, *)
(* unless the one that started it quits; and no daemon outlives its UIs     *)
(* unasked: once all are gone it ends, or somebody opens another            *)
(* (run_event_loop, handle_disconnect, DaemonHandle).                       *)
DaemonFollowsItsUis == []DetachedStaysUp /\ (Abandoned ~> ~Abandoned)

(* What a user has typed and leaves there reaches the harness (and its      *)
(* extensions): debounce_loop loses no last draft.                          *)
DraftsArrive ==
    \A u \in Uis : \A key \in {k \in UNION {s.keys : s \in Scenarios} : k.t = "type"} :
        LET typed == ui[u].phase = "chat" /\ ui[u].buffer = key.text /\ Alive(u)
        IN  typed ~> (heard[u] = key.text \/ ~typed)

(* What is changed about a configured role is what the next harness will    *)
(* know of it (docs/agent-roles.md:102).  Not so: SetParam saves an         *)
(* override of one field, and load_model_list takes it for the whole role.  *)
RolesOutliveTheHarness ==
    daemon.phase = "up" =>
        \A role \in DOMAIN DefaultRoles \intersect DOMAIN daemon.h.roles :
            LoadModelList(file).roles[role] = daemon.h.roles[role]

=============================================================================
