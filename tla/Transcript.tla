----------------------------- MODULE Transcript -----------------------------
(***************************************************************************)
(* EventRenderer of the terminal UI: what one event of the harness, or one  *)
(* /set, does to the blocks on the screen.  `r` is the renderer: the zones  *)
(* of the prompt engine and the tables that say which block belongs to      *)
(* which prompt, tool call, shell command or extension.  A block is a tuple *)
(* that says what it shows; the empty tuple is a block without content.     *)
(***************************************************************************)
EXTENDS Zones, FiniteSets

NoId == -1              \* no block
Absent == "none"        \* an Option that is None

Empty == [x \in {} |-> x]

NoPrompt == [response |-> NoId, thinking |-> NoId, text |-> Absent]
NoCall == [block |-> NoId, state |-> Absent, summary |-> NoId, progress |-> FALSE,
           sub |-> FALSE]

(* new_with_state: nothing shown, the settings of cli.json. *)
NewRenderer(settings) ==
    [z |-> EmptyZones, settings |-> settings,
     prompts |-> Empty, last_user |-> NoId, queued |-> << >>, tool_calls |-> Empty,
     shell_blocks |-> Empty, extension_blocks |-> Empty, ready |-> {},
     status |-> NoId, session |-> Absent,
     diffs |-> << >>, thoughts |-> << >>, stats |-> << >>, tools |-> << >>,
     summaries |-> Empty, prompt_summary |-> NoId,
     model |-> Absent, role |-> Absent, context |-> Absent,
     effort |-> "off", tier |-> Absent, verbosity |-> "low", summary |-> "off",
     roles |-> << >>, efforts |-> << >>]

-----------------------------------------------------------------------------
(* Blocks.                                                                  *)

Printed(r, block) == [r EXCEPT !.z = PrintOutput(@, block)]

Set(r, id, block) == [r EXCEPT !.z = SetBlock(@, id, block)]

Unshow(r, id) == IF id = NoId THEN r ELSE [r EXCEPT !.z = RemoveBlock(@, id)]

(* new_block and push_*: the id is Allocated(r.z). *)
Push(r, zone, block) ==
    [r EXCEPT !.z = PushZone(NewBlock(@, block), zone, Allocated(@))]

Summarizing(settings) == settings.tools \in {"summarize-turn", "summarize-prompt"}

ToolBlock(settings, call, state) ==
    IF settings.tools \in {"full", "compact"} THEN << "tool", call, state, settings.tools >>
    ELSE << >>

DiffBlock(settings, call) ==
    CASE settings.tools = "full" -> << "diff", call, settings.diff >>
      [] settings.tools = "compact" -> << "tool", call, "done", "compact" >>
      [] OTHER -> << >>

SummaryBlock(settings, s) ==
    IF Summarizing(settings) THEN << "summary", s.completed, s.total >> ELSE << >>

ThoughtBlock(settings, text) == IF settings.thinking THEN << "thinking", text >> ELSE << >>

StatsBlock(settings, n) == IF settings.stats THEN << "stats", n >> ELSE << >>

ShellBlock(command, output, label) == << "shell", command, output, label >>

StatusBlock(r) ==
    IF r.model = Absent THEN << "status", Absent, r.session >>
    ELSE << "status", IF r.role = Absent THEN r.model ELSE r.role, r.effort, r.tier,
            r.verbosity, r.summary, r.context, r.session >>

RenderStatus(r) ==
    IF r.status # NoId THEN Set(r, r.status, StatusBlock(r))
    ELSE [Push(r, "below", StatusBlock(r)) EXCEPT !.status = Allocated(r.z)]

-----------------------------------------------------------------------------
(* /set: what is on the screen follows.                                     *)

(* The blocks of a history, each painted again. *)
Painted(entries, Paint(_)) ==
    [id \in {entries[i].id : i \in DOMAIN entries} |->
        Paint(entries[CHOOSE i \in DOMAIN entries : entries[i].id = id])]

Repainted(r, blocks) == [r EXCEPT !.z.blocks = blocks @@ @]

SetDiffsExpanded(r, settings) ==
    Repainted(r, Painted(r.diffs, LAMBDA e : DiffBlock(settings, e.call)))

(* The finished turns and the one that runs. *)
SetShowThinking(r, settings) ==
    LET live == {p \in DOMAIN r.prompts : r.prompts[p].thinking # NoId}
        Live(id) == CHOOSE p \in live : r.prompts[p].thinking = id
    IN  Repainted(r, Painted(r.thoughts, LAMBDA e : ThoughtBlock(settings, e.text))
                   @@ [id \in {r.prompts[p].thinking : p \in live} |->
                          ThoughtBlock(settings, r.prompts[Live(id)].text)])

SetShowTokenStats(r, settings) ==
    Repainted(r, Painted(r.stats, LAMBDA e : StatsBlock(settings, e.n)))

(* Fault: the file edits keep the mode they were printed in. *)
SetShowToolsNotDiffs(r, settings) ==
    Repainted(r, Painted(r.tools, LAMBDA e : ToolBlock(settings, e.call, e.state)))

SetShowTools(r, settings) ==
    LET live == {c \in DOMAIN r.tool_calls : r.tool_calls[c].block # NoId}
        Call(id) == CHOOSE c \in live : r.tool_calls[c].block = id
    IN  Repainted(r, Painted(r.tools, LAMBDA e : ToolBlock(settings, e.call, e.state))
                   @@ Painted(r.diffs, LAMBDA e : DiffBlock(settings, e.call))
                   @@ [id \in DOMAIN r.summaries |-> SummaryBlock(settings, r.summaries[id])]
                   @@ [id \in {r.tool_calls[c].block : c \in live} |->
                          ToolBlock(settings, Call(id), r.tool_calls[Call(id)].state)])

ApplySetting(r, name, value) ==
    LET settings == [r.settings EXCEPT ![name] = value]
        set == [r EXCEPT !.settings = settings]
    IN  CASE r.settings[name] = value -> r
          [] r.settings[name] # value /\ name = "diff" -> SetDiffsExpanded(set, settings)
          [] r.settings[name] # value /\ name = "thinking" -> SetShowThinking(set, settings)
          [] r.settings[name] # value /\ name = "stats" -> SetShowTokenStats(set, settings)
          [] OTHER -> SetShowTools(set, settings)

-----------------------------------------------------------------------------
(* Sessions, prompts and answers.                                           *)

Preamble(r) ==
    FoldLeft(LAMBDA acc, x : Printed(acc, << "extension", x, "kept" >>),
             Printed(r, << "banner" >>), SetToSeq(r.ready))

ClearForNewSession(r) ==
    LET fresh == NewRenderer(r.settings)
        cleared == [fresh EXCEPT !.z = ClearOutput(r.z), !.ready = r.ready, !.session = r.session,
                        !.model = r.model, !.role = r.role, !.effort = r.effort,
                        !.tier = r.tier, !.verbosity = r.verbosity, !.summary = r.summary,
                        !.roles = r.roles, !.efforts = r.efforts]
    IN  IF r.model = Absent THEN Preamble(cleared) ELSE RenderStatus(Preamble(cleared))

SessionStarted(r, e) ==
    LET there == [r EXCEPT !.session = e.session]
    IN  CASE e.new -> ClearForNewSession(there)
          [] ~e.new /\ (r.status # NoId \/ r.model # Absent) -> RenderStatus(there)
          [] OTHER -> there

UiPromptSubmitted(r, e) ==
    [Printed(r, << "user", e.text >>) EXCEPT !.last_user = Allocated(r.z)]

(* The last prompt printed moves down into the queue. *)
SessionPromptQueued(r, e) ==
    LET moved == Unshow(r, r.last_user)
    IN  IF r.last_user = NoId THEN r
        ELSE [Push(moved, "above_sticky", << "queued", e.text >>) EXCEPT
                 !.last_user = NoId,
                 !.queued = Append(@, [id |-> Allocated(moved.z), text |-> e.text])]

(* The first queued prompt moves back into the transcript. *)
Dequeue(r) ==
    Printed([Unshow(r, Head(r.queued).id) EXCEPT !.queued = Tail(@)],
          << "user", Head(r.queued).text >>)

SessionPromptSteered(r, e) ==
    IF r.queued # << >> THEN Dequeue(r) ELSE Printed(r, << "user", e.text >>)

PromptState(r, spid) == IF spid \in DOMAIN r.prompts THEN r.prompts[spid] ELSE NoPrompt

WithPrompt(r, spid, state) == [r EXCEPT !.prompts = (spid :> state) @@ @]

SessionPromptCreated(r, e) ==
    LET told == IF r.queued # << >> THEN Dequeue(r) ELSE r
    IN  WithPrompt(Push(told, "above_active", << "pending" >>), e.spid,
                   [PromptState(r, e.spid) EXCEPT !.response = Allocated(told.z)])

AgentPromptSubmitted(r, e) == WithPrompt(r, e.spid, PromptState(r, e.spid))

(* The thinking block goes above the block of the answer. *)
PushThinking(r, spid, text) ==
    LET state == PromptState(r, spid)
        id    == Allocated(r.z)
        made  == NewBlock(r.z, << "thinking", text >>)
        z     == IF state.response = NoId THEN PushZone(made, "above_active", id)
                 ELSE PushZone(PushZone(RemoveFrom(made, "above_active", state.response),
                                        "above_active", id), "above_active", state.response)
    IN  WithPrompt([r EXCEPT !.z = z], spid, [state EXCEPT !.thinking = id])

ShowThinking(r, e) ==
    LET state  == [PromptState(r, e.spid) EXCEPT !.text = e.thinking]
        stated == WithPrompt(r, e.spid, state)
    IN  CASE ~r.settings.thinking -> stated
          [] r.settings.thinking /\ state.thinking # NoId ->
                 Set(stated, state.thinking, << "thinking", e.thinking >>)
          [] OTHER -> PushThinking(stated, e.spid, e.thinking)

AgentResponseUpdated(r, e) ==
    LET thought  == IF e.thinking \in {Absent, ""} THEN r ELSE ShowThinking(r, e)
        response == PromptState(thought, e.spid).response
    IN  IF response = NoId THEN thought ELSE Set(thought, response, << "response", e.text >>)

KeepThinking(r, text) ==
    IF ~r.settings.thinking \/ text \in {Absent, ""} THEN r
    ELSE [Printed(r, << "thinking", text >>) EXCEPT
             !.thoughts = Append(@, [id |-> Allocated(r.z), text |-> text])]

KeepStats(r, n) ==
    IF n = Absent THEN r
    ELSE [Printed(r, StatsBlock(r.settings, n)) EXCEPT
             !.stats = Append(@, [id |-> Allocated(r.z), n |-> n])]

(* The summary block of a turn, or of a prompt with all its turns. *)
AddSummary(r, n) ==
    LET reused == r.settings.tools = "summarize-prompt" /\ r.prompt_summary # NoId
        id     == IF reused THEN r.prompt_summary ELSE Allocated(r.z)
        s      == IF reused /\ id \in DOMAIN r.summaries
                  THEN [r.summaries[id] EXCEPT !.total = @ + n]
                  ELSE [total |-> n, completed |-> 0]
        shown  == IF reused THEN Set(r, id, SummaryBlock(r.settings, s))
                  ELSE Push(r, "above_active", SummaryBlock(r.settings, s))
    IN  [id |-> id,
         r  |-> [shown EXCEPT !.summaries = (id :> s) @@ @,
                     !.prompt_summary =
                         IF r.settings.tools = "summarize-prompt" THEN id ELSE @]]

AddCalls(r, calls, summary) ==
    FoldLeft(LAMBDA acc, c :
                 [Push(acc, "above_active", ToolBlock(acc.settings, c, "running")) EXCEPT
                     !.tool_calls = (c :> [NoCall EXCEPT !.block = Allocated(acc.z),
                                               !.state = "running", !.summary = summary]) @@ @],
             r, calls)

AnnounceCalls(r, calls) ==
    IF calls = << >> THEN [r EXCEPT !.prompt_summary = NoId]
    ELSE LET added == AddSummary(r, Len(calls)) IN AddCalls(added.r, calls, added.id)

AgentResponseFinished(r, e) ==
    LET state    == PromptState(r, e.spid)
        text     == IF e.thinking # Absent THEN e.thinking ELSE state.text
        drained  == [r EXCEPT !.prompts = [p \in DOMAIN @ \ {e.spid} |-> @[p]]]
        thought  == KeepThinking(Unshow(drained, state.thinking), text)
        answered == Unshow(thought, state.response)
        said     == IF e.text \in {Absent, ""} THEN answered
                    ELSE Printed(answered, << "response", e.text >>)
    IN  RenderStatus(AnnounceCalls(KeepStats(said, e.stats), e.calls))

-----------------------------------------------------------------------------
(* Tools, shell commands, extensions.                                       *)

CallState(r, call) == IF call \in DOMAIN r.tool_calls THEN r.tool_calls[call] ELSE NoCall

SubAgentCalls(r, calls) ==
    [r EXCEPT !.tool_calls = [c \in Range(calls) |-> [NoCall EXCEPT !.sub = TRUE]] @@ @]

ToolProgress(r, e) ==
    IF CallState(r, e.call).sub \/ CallState(r, e.call).block # NoId THEN r
    ELSE Printed(r, << "progress", e.call >>)

ToolDelegateProgress(r, e) ==
    LET state  == [CallState(r, e.call) EXCEPT !.progress = TRUE]
        shown  == IF state.block = NoId THEN state ELSE [state EXCEPT !.state = "delegating"]
        stated == [r EXCEPT !.tool_calls = (e.call :> shown) @@ @]
    IN  IF state.block = NoId THEN stated
        ELSE Set(stated, state.block, ToolBlock(r.settings, e.call, "delegating"))

(* The last result of its calls moves a summary into the transcript. *)
RecordSummaryResult(r, id) ==
    LET s     == [r.summaries[id] EXCEPT !.completed = @ + 1]
        moved == Unshow([r EXCEPT !.summaries = [x \in DOMAIN @ \ {id} |-> @[x]]], id)
        to    == Allocated(moved.z)
    IN  CASE id = NoId \/ id \notin DOMAIN r.summaries -> r
          [] id # NoId /\ id \in DOMAIN r.summaries /\ s.completed = s.total ->
                 [Printed(moved, SummaryBlock(r.settings, s)) EXCEPT
                     !.summaries = (to :> s) @@ @,
                     !.prompt_summary = IF @ = id THEN to ELSE @]
          [] OTHER -> Set([r EXCEPT !.summaries[id] = s], id, SummaryBlock(r.settings, s))

(* Fault: the live block of a call is left behind by its error. *)
ToolDoneOnlyResults(r, e) ==
    LET prior    == CallState(r, e.call)
        forgot   == [r EXCEPT !.tool_calls = [c \in DOMAIN @ \ {e.call} |-> @[c]]]
        recorded == RecordSummaryResult(IF e.t = "ToolResult" THEN Unshow(forgot, prior.block)
                                        ELSE forgot, prior.summary)
        state    == IF e.t = "ToolError" THEN "failed" ELSE "done"
    IN  IF prior.sub THEN forgot
        ELSE [Printed(recorded, ToolBlock(r.settings, e.call, state)) EXCEPT
                 !.tools = Append(@, [id |-> Allocated(recorded.z), call |-> e.call,
                                      state |-> state])]

(* ToolResult and ToolError. *)
ToolDone(r, e) ==
    LET prior    == CallState(r, e.call)
        forgot   == [r EXCEPT !.tool_calls = [c \in DOMAIN @ \ {e.call} |-> @[c]]]
        recorded == RecordSummaryResult(Unshow(forgot, prior.block), prior.summary)
        id       == Allocated(recorded.z)
        state    == IF e.t = "ToolError" THEN "failed" ELSE "done"
    IN  CASE prior.sub -> forgot
          [] ~prior.sub /\ e.t = "ToolResult" /\ e.diff ->
                 [Printed(recorded, DiffBlock(r.settings, e.call)) EXCEPT
                     !.diffs = Append(@, [id |-> id, call |-> e.call])]
          [] OTHER ->
                 [Printed(recorded, ToolBlock(r.settings, e.call, state)) EXCEPT
                     !.tools = Append(@, [id |-> id, call |-> e.call, state |-> state])]

UiShellCommand(r, e) ==
    [Push(r, "above_active", ShellBlock(e.command, << >>, "running")) EXCEPT
        !.shell_blocks = (e.command :> [id |-> Allocated(r.z), output |-> << >>]) @@ @]

ShellCommandProgress(r, e) ==
    LET state == r.shell_blocks[e.command]
        output == Append(state.output, e.chunk)
    IN  IF e.command \notin DOMAIN r.shell_blocks THEN r
        ELSE Set([r EXCEPT !.shell_blocks[e.command].output = output], state.id,
                 ShellBlock(e.command, output, "running"))

ShellCommandFinished(r, e) ==
    IF e.command \notin DOMAIN r.shell_blocks THEN r
    ELSE Printed(Unshow([r EXCEPT !.shell_blocks = [c \in DOMAIN @ \ {e.command} |-> @[c]]],
                      r.shell_blocks[e.command].id),
               ShellBlock(e.command, e.output, e.label))

ExtensionStarting(r, e) ==
    [Push(r, "above_active", << "extension", e.extension, "starting" >>) EXCEPT
        !.extension_blocks = (e.extension :> Allocated(r.z)) @@ @]

(* ExtensionReady and ExtensionExited. *)
ExtensionSettled(r, e) ==
    LET known == e.extension \in DOMAIN r.extension_blocks
        gone  == [Unshow(r, IF known THEN r.extension_blocks[e.extension] ELSE NoId) EXCEPT
                     !.extension_blocks = [x \in DOMAIN @ \ {e.extension} |-> @[x]],
                     !.ready = IF e.t = "ExtensionReady" THEN @ \union {e.extension}
                               ELSE @ \ {e.extension}]
    IN  Printed(gone, << "extension", e.extension, e.t >>)

(* What the harness says of its settings. *)
Mirror(r, e) ==
    CASE e.t = "HarnessModelSelected" ->
             RenderStatus([r EXCEPT !.model = e.model, !.role = e.role])
      [] e.t = "HarnessContextUsageChanged" -> RenderStatus([r EXCEPT !.context = e.context])
      [] e.t = "HarnessEffortChanged" -> RenderStatus([r EXCEPT !.effort = e.level])
      [] e.t = "HarnessServiceTierChanged" -> RenderStatus([r EXCEPT !.tier = e.tier])
      [] e.t = "HarnessVerbosityChanged" -> RenderStatus([r EXCEPT !.verbosity = e.level])
      [] e.t = "HarnessThinkingSummaryChanged" -> RenderStatus([r EXCEPT !.summary = e.level])
      [] e.t = "HarnessRolesAvailable" -> [r EXCEPT !.roles = e.roles]
      [] OTHER -> [r EXCEPT !.efforts = e.levels]

MirroredEvents == {"HarnessModelSelected", "HarnessContextUsageChanged", "HarnessEffortChanged",
    "HarnessServiceTierChanged", "HarnessVerbosityChanged", "HarnessThinkingSummaryChanged",
    "HarnessRolesAvailable", "HarnessEffortsAvailable"}

-----------------------------------------------------------------------------

(* The events that carry an originator; the others count as the user's. *)
OriginatorIsUser(e) ==
    e.t \in {"UiPromptSubmitted", "SessionPromptCreated", "AgentPromptSubmitted",
             "AgentResponseUpdated", "AgentResponseFinished"} => e.user

HandleUsers(r, e) ==
    CASE e.t = "SessionStarted" -> SessionStarted(r, e)
      [] e.t = "UiPromptSubmitted" -> UiPromptSubmitted(r, e)
      [] e.t = "SessionPromptQueued" -> SessionPromptQueued(r, e)
      [] e.t = "SessionPromptSteered" -> SessionPromptSteered(r, e)
      [] e.t = "SessionPromptCreated" -> SessionPromptCreated(r, e)
      [] e.t = "AgentPromptSubmitted" -> AgentPromptSubmitted(r, e)
      [] e.t = "AgentResponseUpdated" -> AgentResponseUpdated(r, e)
      [] e.t = "AgentResponseFinished" -> AgentResponseFinished(r, e)
      [] e.t = "ToolProgress" -> ToolProgress(r, e)
      [] e.t = "ToolDelegateProgress" -> ToolDelegateProgress(r, e)
      [] e.t \in {"ToolResult", "ToolError"} -> ToolDone(r, e)
      [] e.t = "UiShellCommand" -> UiShellCommand(r, e)
      [] e.t = "ShellCommandProgress" -> ShellCommandProgress(r, e)
      [] e.t = "ShellCommandFinished" -> ShellCommandFinished(r, e)
      [] e.t = "ExtensionStarting" -> ExtensionStarting(r, e)
      [] e.t \in {"ExtensionReady", "ExtensionExited"} -> ExtensionSettled(r, e)
      [] e.t \in {"HarnessInfo", "ExtensionContextReady"} -> Printed(r, << "info", e.t >>)
      [] e.t \in MirroredEvents -> Mirror(r, e)
      [] OTHER -> r

Handle(r, e) ==
    LET sub    == e.t = "AgentResponseFinished" /\ ~e.user
        marked == IF sub THEN SubAgentCalls(r, e.calls) ELSE r
    IN  IF OriginatorIsUser(e) THEN HandleUsers(marked, e) ELSE marked

=============================================================================
