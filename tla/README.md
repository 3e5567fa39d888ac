# A TLA+ model of Tau

Tau (the repository calls its crates `tau-*`) is a terminal coding agent made of
processes that exchange framed events: a *harness* in the middle, an *agent* extension
that talks to a model's provider, tool extensions, and terminal clients. This directory
holds TLA+ modules for its core, TLC configurations that check them on small instances,
and proofs that TLAPS checks for every instance. Paths below are relative to
`src/crates/` unless they start with `docs/`; `harness.rs` is `tau-harness/src/harness.rs`.

## The system and its parts

| part | state it keeps | operations | what is hard | what makes it correct |
|---|---|---|---|---|
| notify channel (`tau-blocking-notify-channel`) | a flag, `disconnected`, a sender count | notify, clone, drop, recv, try_recv | threads, a condition variable, a counter outside the mutex | no lost wake-up, exact hang-up |
| publish interception (`harness/interception.rs`) | registry, pending intercept, deferred queue | publish, register, reply, disconnect | a publish parks while handlers go on; extensions change and veto events, and die while asked | nothing lost, repeated or reordered; nobody waits for the dead |
| tool scheduling and registry (`harness.rs`, `tau-core/src/tool_registry.rs`) | queue, classes of running calls, owner and provider of each call, the turn of each conversation | agent response, start, result, error, disconnect, cancel, switch, agent query | handlers nest; conversations share the queue; late and duplicate results | pure/mutating rule, order, every call answered once, turns end |
| prompt dispatch, session initialisation, extension lifecycle (`harness/dispatch.rs`, `turn.rs`, `extension.rs`) | prompt queues, parked dispatches, prompts in flight, the set that is waited for | submit, dispatch, steer, cancel, preempt, hello, ready, exit, respawn | dispatch waits for a parked event; an extension dies while it is waited for | each prompt leaves once, initialised, with its message in the history |
| session tree and store (`tau-core/src/session.rs`, `session_store.rs`, `tau-harness/src/session_cleanup.rs`) | log, lock, tree and heads | append, fold, load, lock, navigate, switch, sweep | two daemons; a crash inside a write; branches grown in turns | one writer; what was acknowledged is read back |
| result deduplication (`tau-harness/src/dedup.rs`) | a map of results per branch | rebuild, look up, carry | the map is carried over navigations, switches, other conversations | a pointer names a result the model can see |
| agent and its connections (`tau-agent`), prompt assembly (`harness.rs`, `conversation.rs`) | prompt queue, snapshots, sockets per session, retry loop | prompt, cancel, retry, chain, fall back | a cancel races a retry; prompts are differences to prompts | one answer per prompt, in order, to the prompt that was meant |
| shell extension (`tau-ext-shell`) | permits, workers, processes, pipes | commands, search, read, write, edit, patch | pipes, orphans, timeouts, bounded workers; splices at edges | calls come back; what an answer says is so |
| terminal (`tau-cli-term-raw`, `tau-cli-term`, `tau-term-screen`) | shared state, line editor, zones, what is believed on screen | keys, print, redraw, sync, editor, resize, shutdown | a frame is captured under a lock and written outside it | the terminal shows what the state says, in the end |
| event loop, event bus, replay, model settings (`tau-harness/src/event.rs`, `harness/replay.rs`, `harness/model.rs`, `model.rs`), terminal client (`tau-cli`) | clients, logs, selection and its file; blocks, mirrors, drafts | attach, serve, replay, detach, select; render, set, quit | late clients, lost clients, stale mirrors, settings that act backwards | every UI tells the same story; the daemon lives as long as it is used |
| delegate extension (`tau-ext-core-delegate`) | outstanding queries | invoke, query, answer | relies on the harness's answer | one answer per call |
| protocol, sockets, runtime, supervisor, configuration, skills, rendering of headers | values | parsing, formatting, spawning | | pure functions or plain I/O |

The harness is one thread (`run_event_loop`): it reads a frame, runs the handler to its
end, and reads the next. What is concurrent is what the frames stand for: extensions,
the agent and clients act in any order, die at any time, and answer late or twice.
Inside a handler calls nest: a publish commits and its commit publishes again; a tool
call fails at once and its completion starts another. The agent is one thread too; the
shell extension has a reader, a writer and a worker per call; a terminal has an input
thread, a renderer thread, a redraw thread and a thread that sends drafts.

`PROJECT.json` lists the components and, under `hazards`, what is hard to test in each,
with the property that watches it.

## Modules

| module | what it is | source |
|---|---|---|
| `CoalescingFlag` | what a notify channel promises: notifications coalesce, the hang-up comes last | the documentation of `tau-blocking-notify-channel/src/lib.rs` |
| `NotifyChannel` | the channel, a step per lock, wait and counter access | the same file |
| `Interception` | the publish pipeline | `harness/interception.rs`, `commit_event`, `react_to_committed_event` |
| `ToolScheduler` | tool calls from the response to the next prompt | `harness.rs`, `skill_tool.rs`, `tool_registry.rs`, `tau-ext-core-delegate` |
| `PromptDispatch` | prompts from the user or an extension to the agent, over the session tree, session initialisation and one interceptor | `harness/dispatch.rs`, `harness.rs`, `tau-core/src/session.rs` |
| `SessionStore` | daemons over a directory of sessions: logs, locks, trees, heads, deduplication, crashes | `tau-core/src/session*.rs`, `dedup.rs`, `session_cleanup.rs` |
| `PromptWire` | what goes over the wire for one prompt: differences, snapshots, chained requests (operators) | `harness.rs`, `conversation.rs`, `tau-agent` |
| `Agent` | harness, agent and provider around `PromptWire` | `tau-agent/src/lib.rs`, `responses/pool.rs`, ... |
| `FileTools` | what edit, apply_patch, read and the caps make of a file (operators) | `tau-ext-shell/src/tools/*.rs`, `truncate.rs` |
| `ShellExtension` | reader, permits, workers, writer, and the processes of a command, over `FileTools` | `tau-ext-shell/src/lib.rs`, `semaphore.rs`, `tools/*.rs` |
| `LineEditor` | the input line, history, completion menu (operators) | `tau-cli-term-raw/src/lib.rs`, `tau-cli-term` |
| `Zones` | the blocks of the prompt and the zones they stand in (operators) | `tau-cli-term-raw/src/lib.rs` |
| `Terminal` | the three threads of a prompt and the terminal, over `LineEditor` and `Zones` | the same, `tau-term-screen/src/screen.rs` |
| `Transcript` | what one event or one `/set` does to the blocks of a UI, over `Zones` (operators) | `tau-cli/src/event_renderer.rs` |
| `ModelSettings` | the selection of model, role and parameters and its file (operators) | `harness/model.rs`, `model.rs`, `harness.rs` |
| `Clients` | daemon and UIs, over `Transcript` and `ModelSettings` | `harness.rs`, `event.rs`, `harness/replay.rs`, `tau-cli/src/chat.rs`, `daemon.rs` |
| `MC...` | the instances TLC checks | |
| `...Proof` | the theorems about a module; those about `PromptDispatch` are in two, `PromptDispatchProof` for who waits for whom and for branches, `PromptHistoryProof` for histories | |

`PROJECT.json` maps each definition to its lines. The definitions commented *Fault* are
not part of a specification: they are what the definition after them would be with a
plausible bug in the code, and every property of a run is violated when one of them takes
the place of the definition it is a fault of.

How the modules meet: `NotifyChannel` implements `CoalescingFlag`, and `Terminal` takes
the channel's promise as the variable `notified`. `Interception` is the publish pipeline
alone; `PromptDispatch` composes it, with one interceptor, with queues, the tree and the
start of a session; `ToolScheduler` has publishes commit at once, since what parking does
to a turn is `PromptDispatch`'s subject. `SessionStore` takes from the harness what
appends and moves heads, and leaves its queues to `PromptDispatch`. `Agent` has the
harness's side of a prompt and the agent's. `Clients` takes agent and tools as what their
events make of them. A call of `ShellExtension` arrives only when the rule that
`ToolScheduler` shows lets the harness send it (`Sendable`).

### NotifyChannel

Each access to the shared state that another thread can interleave with is one action:
`Clone` and `DropDecrement` are the atomic operations on the counter, `DropDisconnect` is
the critical section of the last sender's drop, which comes *after* its decrement,
`RecvEnter`, `RecvCheck`, `RecvRecheck` are the entry of `recv`, its test of the flags
under the lock, and the return from the condition variable. The condition variable is the
standard library's and may wake the receiver unasked (`SpuriousWakeup`). `ContractSpec`
is `CoalescingFlag` under a refinement mapping (the flag is `notified`, the sender side
is closed once the last `DropDisconnect` has happened), and that `recv` returns when
there is something to see.

### Interception

A handler is the list of publishes it has still to make (`todo`), because the commit of
one may insert others (`react_to_committed_event`); `draining` says that it ends in
`drain_deferred_publishes`. `Park` and `Commit` are the two ends of
`dispatch_publish_step`, `Past` is the cursor. `published`, `dropped` and `asked` are
history. A payload is reduced to its author, which tells apart whether the original or a
replacement is committed. Component names and connection ids are ranks, since only their
order matters, and the instance gives them opposite orders.

### ToolScheduler

`work` is the stack of the running handler: what `on_tool_call_complete` and the code
after it still have to do, and the loops of `drain_pending_tool_invocations` that are
suspended under it. A start that fails at once pushes its completion on top of the drain
that started it, exactly as the calls nest. Frames are handled when `work` is empty.
`turn_state` is the `ConversationTurnState` with the prompt in flight: `thinking` is an
idle turn state with a prompt at the agent. Extensions are the environment: a provider
may answer a call it was sent at any time, again, or never; a delegate asks for an agent
and answers when its query is answered. `emitted`, `requested` and `started` are histories
of the session, `answers` counts the results that are published.

### PromptDispatch

* `work` is the rest of the running handler: a list of publishes and of the calls between
  and after them, so that a publish that parks lets the handler go on. `Commit` is
  `commit_event` with `react_to_committed_event`: fold, delivery, and the dispatch at the
  front of `pending_user_prompt_dispatches`.
* `conv[c]` is the `Conversation` of `c`; `Default` is the user's, the ids in `Queries` are
  those of agent queries, of tools (`Delegated`) or of nobody (summaries). `conv[c].head`
  is a number of a node of *some* tree, like `NodeId`, and nothing in the state says of
  which one.
* `tree[s]` is the session tree of session `s`: parents and entries in order of insertion.
  `Branch` is `branch_from` as a fixed point, so that it has a value on a tree with a
  cycle, where the code's loop does not return.
* A message is its number, an entry is the message, the answer to a prompt, or the result
  of a call. A tool call has the number of the prompt whose answer made it: one call per
  answer, because how several calls complete one turn is `ToolScheduler`'s subject.
* An extension answers `session.started` once, with the files it found: the two frames are
  one action, since nothing is decided between them. A message with AGENTS.md files is a
  message of kind `context`.
* Events that neither fold nor react are left out, and so is the gate of the selected
  model, which is shut only when there is no model to select. Sessions are switched to
  new ones only.
* `messages`, `prompts`, `said`, `discarded` and `dropped` are history.

### SessionStore

A session is a log of records; the daemon whose `flock` is on its lock file folds what it
appends into a tree (`trees[h][s]`), moves the heads of its conversations over it, and
keeps for each a map of the results on its branch. A record is a length and a payload,
two system calls: `KilledWriting` ends a daemon between them or after them, and leaves a
torn record or a whole one nobody acknowledged; `Failures` names the ways a write may
fail. `Start` loads and `Lock` locks, in that order, as the code does; `Sweep` is the
cleanup. The publishes of one handler are one action. A result is its content; those in
`Small` are never replaced. `said`, `acked`, `mine` and `astray` are history: `mine` is what
the default conversation said, `astray` whether something else moved the head since
(`moved`), or the daemon came back to another branch than a restart finds (`forked`).

Four constants switch on what the code allows and what breaks its promises, see the
divergences below: `Races` (a daemon acts between another's load and lock), `LongIdle` (a
held session is older than the retention), `ReusesIds`, and `Failures` beyond the empty
set. The run has them off; each theorem has off what it needs, see *What is proved*.

### PromptWire and Agent

`PromptWire` has the three forms of a prompt: the difference the harness sends
(`send_prompt_to_agent_for`), what the agent makes of it from its snapshots
(`materialize_prompt`), and the request, whole or chained to an earlier response
(`build_request`). `Agent` has the loop around it, one action per place where the thread
reads a frame, starts a call, or gets its outcome: `pc` is where `handle_prompt` is
(`cached`, `fresh`, `http`, `replay`, `sleep`). The provider is external: it answers with
text or calls, fails, closes the socket, forgets a response or truncates, at any call;
`MaxTrouble` bounds what else goes wrong (cancels, side queries, session switches, new
settings and tokens). `known` is what it remembers of each response, so that a chained request can be
read back: `RequestsAreWhole` compares the prompt the provider would see with the one the
harness assembled. `request`, `answered` and `known` are history.

### FileTools and ShellExtension

A plan is a list of frames and the files before them; `Init` chooses one. A command comes
with its program: the sizes of its lines, what child it leaves, whether it closes its
output, hangs, or does not start. `process[c]` is the operating system's part: who lives,
what the pipes hold. The timers are steps of the worker and may come at any time. A text
for `edit` is a sequence of characters, a file for `apply_patch` a sequence of lines, each
with the spaces around it; a text that is only cut is a sequence of sizes. The tools that
only list (`find`, `ls`) are left out.

### LineEditor, Zones and Terminal

`st` is `SharedState`, and a step on it is one critical section of its mutex. The redraw
thread (`rd`) waits for its notification, captures a frame, lays it out, and writes it in
steps that other threads interleave with; `tty` is the terminal: rows, of which the last
`height` are the screen, and the row of the cursor. Columns are counted where lines wrap,
colours are not. The input thread (`main`) handles one key or command at a time, hands the
terminal to an editor, and waits in `redraw_sync`; the renderer thread (`painter`) prints
and grows blocks. `TerminalIsFaithful` says that whenever the redraw thread has nothing to
do the terminal shows the rows and the cursor `SharedState` asks for, and that what
scrolled out is what was printed.

### Transcript, ModelSettings and Clients

`Transcript` is `EventRenderer` as operators on a record of zones and tables; a block is a
tuple that says what it shows. `ModelSettings` is the selection with what it reads, saves
and publishes. `Clients` has the daemon's event loop (`Accept`, `Serve`, `Agent`, `Exit`),
each UI's chat (`Press`, `Render`, `Close`, `Kill`), the thread that sends drafts
(`Debounce`), the sockets between them, and the two files that outlive both. A scenario
says which keys and which turns may happen and how often. A socket is reliable and in
order, and the daemon notices its end when it reads it.

## What the runs show

| run | instance | what is checked | states |
|---|---|---|---|
| `notify_channel` | three senders | `TypeOK`; `WakeupsAreExact`: no notification and no hang-up is lost; `ContractSpec`: the channel implements `CoalescingFlag`, liveness included | 556 |
| `interception` | two interceptors, three publishes, a reaction | nothing is lost or made twice (`EachPublishOnce`), a reply decides the request it is to (`RepliesAreMatched`), nobody is asked who is gone (`NobodyIsWedged`), the publishes of a handler keep their order (`HandlerOrderIsKept`), a chain repeats nobody and leaves out nobody at a later priority (`ChainIsWalked`), every publish settles (`EveryPublishSettles`) | 450 754 |
| `tool_scheduler_safety` | two conversations, four calls of which three are made, providers that die, a session switch | a mutating call runs alone (`MutatingRunsAlone`), the queue is served in order and nothing startable is left in it (`QueueIsServed`), a turn waits for its calls, each is answered once, the next prompt has the results (`TurnsAreWhole`), a switch forgets the old session's calls (`OldCallsAreForgotten`) | 805 382 |
| `tool_scheduler_liveness` | delegates of delegates in three conversations, a provider that dies | every turn that waits for tools ends (`TurnsEnd`), unless it waits for a stranded call, see below | 246 991 |
| `prompt_dispatch_direct` | three messages, three prompts, two sessions, a summary, a delegate, an extension that dies; nothing intercepted | what the agent is prompted with is the branch of its conversation (`BranchesAreExact`), one prompt at a time and none before the session is initialised (`PromptsTakeTurns`), each prompt is sent (`EveryPromptIsSent`) | 1 878 926 |
| `prompt_dispatch_parked` | the same with two messages, every publish held up | nothing that was said is lost or doubled (`HistoryIsExact`), nothing runnable is left in a queue (`QueueMovesOn`) | 1 229 769 |
| `session_store` | two daemons, two sessions, six events, crashes inside a write | one daemon writes a session (`OneWriter`), memory is what the log says and the log holds what was acknowledged (`LogIsTheTruth`), a pointer names a result on its branch (`PointersResolve`), a restart resumes on the branch that was left (`ResumeFindsTheBranch`) | 845 345 |
| `agent` | two sessions, three prompts, a pool of one connection, two troubles | each prompt is answered once, in order, and acknowledged after that (`AnsweredInOrder`), the provider sees the prompt that was meant (`RequestsAreWhole`), the pool and its queue agree (`PoolIsSound`), each prompt is answered (`PromptsAreAnswered`) | 684 544 |
| `shell_extension` | two permits, pipes of one line, some six thousand plans | a call is answered once and last (`AnsweredOnce`), what an answer says is so (`AnswersAreTrue`), every call comes back (`CallsComeBack`) | 165 485 |
| `terminal` | eight short uses of the prompt | the terminal shows what the state says (`TerminalIsFaithful`), in the end (`TerminalSettles`) | 581 974 |
| `clients` | two UIs at one daemon, eleven scenarios | what a UI shows is what it would show had its settings always been so (`TranscriptIsRetroactive`), nothing is left over when nothing runs (`QuietWhenIdle`), all UIs tell the same story (`SameStory`), the selection they show is the daemon's (`StatusIsCurrent`), the daemon lives as long as it is used (`DaemonFollowsItsUis`), drafts arrive (`DraftsArrive`) | 202 459 |
| `client_roles` | one UI, a role and a level | `RolesOutliveTheHarness` is *violated*: see below | 43 |

The numbers are of distinct states. Each of the properties is violated when a fault takes
the place of the definition it is a fault of; `PROJECT.json` lists these under `mutants`.

**Why the bounds are enough.** Three senders let a clone, a drop of one of several and
the drop of the last overlap with a receiver in each of its places. Three publishes let
one wait, one be deferred and one be made in reaction, and two connections are what an
order between interceptors, a stray reply and a death during a chain need. Calls of four
classes, three of them made, meet every pair of classes in both orders; a second
conversation shares the queue. Three messages let one be at the agent, one be queued and
one be on its way while a turn, a cancel, a query or a switch happens; with everything
intercepted two are enough for one to wait behind another. In `session_store` six events
are enough to grow a branch, leave it for a side conversation, repeat a result on both
and be killed; two daemons and two sessions give every order of locks. In `agent` three
prompts let a chain be broken between the second and the third, two sessions share a
pool of one connection, two troubles let a cancel meet a switch or new settings, and one
retry lets a prompt fail for good. In `shell_extension` two permits and up to four calls
make the reader wait; a pipe of one line makes writers wait; texts of up to four lines
around `MaxLines` = 3 and `MaxBytes` = 24 meet both caps exactly, one below and one
above; the patches are all bodies of up to four lines over six line forms, with one and
two chunks, alone, moved, after an addition and before a deletion. `terminal` has
screens of a few columns and rows, so that a line wraps, fills a row exactly and
scrolls. `clients` has two UIs and scenarios of a few keys each, one for each group of
features that share state; a scenario with everything would only add independent steps.

**Deadlock** is checked where the system cannot stop (`notify_channel` and
`tool_scheduler_safety`). The others stop when messages, publishes, plans or keys are used
up, `tool_scheduler_liveness` with every turn behind a stranded call.

**Type invariants.** Where a run lists no `TypeOK`, it is a conjunct of another invariant:
`PointersResolve`, `PoolIsSound`, `BranchesAreExact`, `QuietWhenIdle`, `AnsweredOnce`.

### Fairness

* `NotifyChannel`: a thread inside an operation goes on. Nothing is assumed of senders,
  apart from the last one finishing the drop it began.
* `Interception`: the handler that runs goes on; an interceptor that owes a reply replies or
  disconnects in the end. The code has no timeout: without this promise of the extensions a
  publish that waits need never settle.
* `ToolScheduler`: the handler goes on; some thinking agent answers with text in the end,
  some delegate that was called asks for its agent, some call that can be answered is
  answered. Strong fairness stands for a frame that is read in the end whatever else is
  read before it. Nothing is assumed of deaths: what a provider was running when it went is
  failed by the handler, but for a stranded call, see below.
* `PromptDispatch`: the handler goes on; the agent answers each prompt it was given, a tool
  call ends, an extension subscribes, gets ready and answers `session.started`, an
  interceptor replies. Nothing is assumed of the user.
* `Agent`: the agent's thread runs (`WF_vars(AgentStep)`): a call to the provider comes back
  with an answer or a failure, and a sleep ends. Nothing is assumed
  of the harness or of what the provider says.
* `ShellExtension`: reader, writer and each worker run on, and so does a program that does
  not hang; the timer of a hanging one is a step of its worker.
* `Terminal`, `Clients`: the threads run, the daemon reads what is there. Users, output and
  agent may stop at any time.

Weak fairness of a large action is written with its guard where that says the same, as
`[]<>~Can \/ []<><<step>>_vars`, in `Terminal`, `Clients` and for the file tools: TLC then
need not evaluate the action to know that it is enabled. The step is told by the variable
that only this thread changes while it can run.

## Where code and documentation disagree

`client_roles` (`RolesOutliveTheHarness`) is the one a run shows: setting a level writes
`role_overrides` with that one field, and `load_model_list` puts the override in the
place of the configured role, so that after a restart the role has lost its model and its
other levels (`docs/agent-roles.md:102` says that changes are persisted). The following
was met while modelling. The modules have the code's behaviour, and where a property
would fail on it the constant or the condition that leaves it out is named.

**Publishes and prompts**

* The cursor of `next_in_set` compares connection ids while the set is ordered by
  component name: of two interceptors of one priority the second is skipped when the
  orders differ, where `docs/interceptors.md` (lines 45 and 122) has them chain. The instance
  gives names and ids opposite orders, and no property asks for either order within one
  priority: `ChainIsWalked` is what holds of the code and would hold of the documented order,
  that nobody is asked twice at one priority and that no later priority is left out.
* Reactions of a commit overtake deferred publishes, where the comment at the head of
  `interception.rs` promises the order of the publish calls. What does hold is
  `HandlerOrderIsKept`.
* A provider dies: `handle_disconnect` fails its calls before it unregisters it, and the
  completion of the first starts the next queued call *on the dying provider*, which
  never answers; its turn waits for ever. `TurnsEnd` exempts such calls (`Stranded`): they are
  at a provider that is gone and that failed another call before them.
* A session switch drops the conversation of an agent query without a result, against
  what the delegate extension states it relies on.
* With an interceptor (the `direct` properties do not hold in `parked`): while a prompt is
  held up its conversation counts as idle and a second one is sent too;
  `react_to_committed_event` lets the dispatch at the front go on whichever message was
  committed; a turn whose tool result is held up, with nothing to steer, waits for the
  commit of a message that is not on its way and is stranded (`harness.rs:4455`); an
  answer or result that commits after its tracking was released finds no session and is
  neither stored nor folded; a prompt of the old session that commits after a switch is
  folded into the old tree and its node id becomes the head of the new session's
  conversation, after which a node can be its own parent and `branch_from` loops; a
  waiting dispatch survives the switch and the agent is prompted while the new session is
  initialised.
* With `SpawnsFail = TRUE`: an extension that dies before it is ready and cannot be
  restarted opens the gate, and nobody looks at the queue: what waits there is overtaken by
  the next prompt.

**Sessions**

* `/tree <id>` moves the tree's cursor, not the conversation's head: the next prompt does
  not branch there (`docs/events.md:178`, `docs/FEATURES.md:39`).
* The start loads the tree before it takes the lock (`Races`): what another daemon appends
  and then gives up in between is on disk and not in the tree. A failed write of the meta
  file (`Failures`) leaves a record whose id is given out again. With either,
  `LogIsTheTruth` is violated.
* A torn record in the middle makes a session unreadable: it can no longer be started.
* The deduplication map keeps the hash of a result whose event was not folded
  (`dedup_tool_result`), and a later result is replaced by a pointer to nothing:
  `PointersResolve` holds with `Failures = {}` only.
* A daemon that exits with a side conversation open resumes on that conversation's
  branch; `ResumeFindsTheBranch` is about the others (`astray`).
* A daemon that leaves a session while a side conversation is open and comes back to it
  later keeps the tree it had (`load_session_if_needed` returns at once) and goes on from the
  tree's head. Where that conversation started at the root, the daemon shows its branch
  alone; a root is not stored as a parent but as none, which a reader takes as "after the
  head", so that a restart finds another branch under the same node. The shortest such
  history has nine events, beyond the bound of the run; the proof of
  `ResumeFindsTheBranch` met it, and `astray = "forked"` marks it.
* The cleanup removes a session by the age of its meta file, held or not: with
  `LongIdle = TRUE` two daemons write it. `/new` under the name of a session with history
  collapses its root on disk (`ReusesIds`).
* The session picker's test whether a session is locked takes the lock for a moment. Ids
  in replayed `LogEvent`s are of the session's log, those of live ones of the event log.

**Agent**

* A cancel comes from the harness in a `LogEvent` envelope (`commit_event`), the sleep
  between retries looks for a bare frame: no cancel ends the sleep, where the doc of
  `sleep_or_abort` and the agent's tests (`tau-agent/src/tests.rs:69`, bare frames) say so.
* A turn of tool calls without text: `anchor.message_count` leaves out the call, and the
  next chained slice sends the `function_call` again. `RequestsAreWhole` is violated by it;
  `Replies` in `Agent.cfg` leaves such turns ("calls") out.
* The claim of `pool.rs:67-69` that a sub-agent has a connection slot of its own
  contradicts `harness.rs:2867`; it takes the user's, whose chain is then stale, and the
  session is on HTTP for good. A refreshed token, an aged connection or an eviction do the
  same to a chained session.
* `canceled_spids` keeps ids of prompts that are finished. An HTTP stream that ends
  without `response.completed` counts as complete. An `AgentResponseFinished` that an
  interceptor holds up sets the anchor before its fold. A `Disconnect` behind queued
  prompts waits for them; the kill after the grace period is not modelled.

**Shell extension**

* `!cmd &` whose child keeps the pipes blocks the worker of the user's command for as long
  as the child lives, timeout or not; a command that closes its output and goes on makes
  `run_command` wait without a timeout; `grep` with more than a pipe of errors waits for
  ever. The plans leave these programs out, with them `CallsComeBack` is violated.
* The timeout of an agent's command kills `sh` alone (`lib.rs:353` says the command),
  that of a user's its group.
* The patch parser refuses `*** End of File`, which `apply_patch.lark:16` allows; `*** Move
  to` the same path deletes the file and reports a change; an insertion beside a chunk that
  matches through a blank last line is lost (`Separate` leaves it out of the plans); a
  patch that fails tells the agent the message and not what was done.
* `max_matches` of `edit` counts overlapping matches; `truncate_tail` keeps nothing of one
  line over the cap; `read` subtracts a separator twice and marks a line that fits exactly
  as truncated; `grep` reports one match more than its limit; the shell tool's
  `ToolProgress` arrives together with its result.

**Terminal** (`Strays` marks the frames after which `TerminalIsFaithful` claims less)

* A full render of a live area taller than the screen puts the cursor in the wrong row; a
  scrolling one that ends in an empty row does not scroll; the cursor is a row too low
  after a line that fills the width exactly and a newline. History printed above a live
  area taller than the screen does not reach the scrollback, which repeats rows whenever
  the live area shrinks and grows.
* A completion accepted or previewed while stepping through earlier lines is lost with the
  next step. `external_paused` is set while a frame may be in flight, which is then written
  over the editor (comment `tau-cli-term-raw/src/lib.rs:139`). The frame of the shutdown
  ignores an invalidation, a new size and raw output. A size that changes and changes back
  between two frames is not rendered anew.

**Clients**

* Drafts: the epoch is checked, the lock released, then the draft sent, contrary to the
  comment in `chat.rs`; what is pending at the end is dropped despite "Never drops a
  notification".
* Blocks: a sub-agent's progress is set without a redraw, and after the result re-creates
  an entry; thinking that ends while it is not shown is never kept; `AgentResponseUpdated`
  that comes after `/new` leaves a thinking block for good, and a late
  `AgentResponseFinished` overwrites the usage of the new session; a mode change of a
  summary prompt changes history without a repaint.
* Queued prompts: `Queued(B)` without `UiPromptSubmitted(B)` removes A's block and shows B,
  which is later printed twice; a third shows nothing; after a cancel the blocks stay
  (`tau-cli/src/tests.rs:719`, `docs/events.md:51`). `next_ctx_id` stays on the conversation
  when the tagged prompt is queued.
* Late UIs: a shell command's output is replayed and dropped for want of a live block; tool
  results of sub-agents are shown, since their responses are not replayed (comment
  `event_renderer.rs`, near 936); `HarnessServiceTierChanged` is never replayed. `SameStory`
  is about the rest.
* Selection: `UiRoleUpdate` changes or deletes what is selected and publishes the roles
  only; keys that cycle read a mirror while an echo is on its way; a picked model is lost
  at a restart, since `UiModelSelect` clears the role in memory and never saves that.
* Life: the owner's `/quit` ends the daemon under other UIs, even after another's
  `/detach`; a client that comes during the start, or as the last one leaves, is dropped
  and waits on a dead socket; after `/new` a UI that attaches reads the old session id from
  the daemon's directory, others keep it, and their prompts are rejected; each UI saves its
  whole `CliState`, so that two overwrite each other's `/set`.

## What is proved

The proofs assume what the `ASSUME` of each module says of its constants; no bound of a run
is used. Where a theorem assumes more it says so.

* **NotifyChannel.** `TypeCorrect`, `WakeupsCorrect`, `ImplementsContract`. The inductive
  invariant adds to the properties that the counter equals the handles that have not been
  counted out; without it a state with the counter at zero and a live sender would be a
  counterexample to induction. The refinement is proved for the steps; the fairness of the
  contract is model-checked only.
* **Interception.** `TypeCorrect`, `PublishesAreConserved`, `KindsAreKept`,
  `PipelineIsNeverWedged`, `ChainsAreWalked`, `RepliesMeetTheirEvents`,
  `PublishesKeepTheirOrder`. A chain repeats nobody because every request about the waiting
  event is at or before the cursor, which is the inductive part, and leaves nobody out because
  one of them is at the cursor (`CursorWasAsked`), past which a commit finds no registration.
  Conservation needs that the ids in use are those of `published`. Who changed an event was asked about it (`AuthorInv`):
  an event in the queue is still its publisher's, and the connection waited for was asked
  about the event that waits, not about another. The order (`OrderInv`) is that of the log,
  then the waiting event, then the queue, each in order and each before the next; while the
  queue drains, a handler has only reactions left to publish.
* **ToolScheduler.** `TypeCorrect`, `MutatingCallsRunAlone`, `OldSessionsAreForgotten`,
  `QueueStaysServed`, `TurnsStayWhole`. For the first three the invariant adds
  `FreshIsUnused`: a call id that was not used is neither queued nor in flight; otherwise a
  request of an extension could adopt a running mutating call. Most steps are *quiet*, they
  only take from the queue and the tracking, and share one lemma. The last two speak of what
  holds when a handler is done, and handlers nest, so that their invariant is about `work`,
  what the handlers still have to do. A completion stands whole in it and a call has at most
  one; an answered call that is still tracked has its clearing there (`Tracked`); a turn
  waits for exactly its queued calls, its running ones and those whose step of the turn is
  still to come (`TurnInv`); a call that could start implies a drain that will start it
  (`ServedInv`); what was started comes before what is queued, in the order of the agent
  (`OrderInv`). With nothing left to do these become the properties.
* **PromptDispatch.** `TypesHold`, `WhoIsWaitedForOwes`, `NothingThatCanGoWaits`,
  `PromptsGoOneByOne`, `PromptsHoldTheirBranch`, `HistoriesAreExact`, again over the stack of
  what is left to do. A conversation waits only for an answer or a call that is still owed:
  the prompt is tracked, names that conversation and is at the agent or on its way there,
  through the interceptor, the queue of publishes or the stack; what ends a frame is last in
  it (`AwaitInv`). If a prompt could go, something on the stack will look at the queue
  (`LookInv`). This assumes `~SpawnsFail`: an extension
  that dies and cannot be started again leaves a queue nobody looks at, as was said above.
  One prompt at a time, and no prompt of the user before session initialisation is
  over, assume `Intercepted = {}`: an interceptor parks a prompt past the tests it passed,
  which is also said there. Without one, a prompt that was asked for stands behind nothing
  but publishes, no other is asked for with it, and its conversation stays idle until it is
  made (`TurnInv`); a tracked prompt is the one its conversation waits for (`TrackInv`), and
  a conversation that answers a query was asked for in a message (`AskedInv`), so that a
  new query finds no conversation of its name.

  `PromptsHoldTheirBranch` has the same hypothesis: a publish that is parked is not on the
  branch its prompt is assembled from. It is about a set of nodes that a recursion climbs in
  as many steps as the tree has nodes, and rests on what that recursion computes when parents
  come first: the least set that has the leaf and the parents of all it has (`WayUp`), so
  that an append leaves every branch as it was and adds one entry to the one it is put under
  (`BranchStays`). The invariant (`BranchInv`) says of the head of each conversation what the
  property says of a prompt that is sent: its branch is the conversation's own and holds all
  that was said for it in this session. What is yet to be published, and what is queued, must
  be its conversation's own as well, since the next fold takes its word for it: the message,
  prompt or call it names belongs to the conversation it is stamped with. A query begins on a
  branch nobody else said anything for, a new session on an empty one.

  `HistoriesAreExact` lets interceptors hold back whatever they like and assumes only
  `~SpawnsFail`: from a queue that nobody looks at a prompt would be overtaken by the next.
  Its invariant has three parts. Each message that exists is counted once over the queues,
  the stack, the publish that waits, the deferred ones, the histories and what was given up,
  and a message that does not exist nowhere (`CountInv`); a step moves what is counted from
  one of them to another. The user's prompts in a history come before the one in the publish
  that waits, that before the deferred ones, those before the stack, and all of them before
  the queue, each in order (`OrderInv`); this needs that only the user's conversation has a
  queue, that deferred publishes nothing holds any more are drained before anything else is
  said, and that no message of the user is published behind a look at the queue (`QuietInv`).
  A dropped prompt is not tracked and has no answer in a history, and a tracked one whose
  answer was said has the rest of its handler still on the stack (`SilentInv`). Most steps
  neither move what is counted nor say an answer, and share one lemma.
* **SessionStore.** `OneWriterAtATime`, under `~LongIdle`, with any `Races`, `Failures` and
  `ReusesIds`. `OneWriter` is not inductive: it says nothing of the files. `LockInv` adds
  that a held session is locked on disk by its holder, so that two holders would be one
  lock with two owners, and that a daemon that loads or runs has a session.

  `TheLogIsTheTruth`, `ARestartFindsTheBranch`, `PointersNameWhatTheyStandFor` assume `~Races`
  and `~LongIdle`, and of the failures no more than the divergences above force: the first
  two that the meta file is written (a record that is cut or a file that does not open may
  fail at any time), the second `~ReusesIds`, the third that no append fails. The records of
  a log have rising sequence numbers, parents that come before them and, but for a torn one
  at the end, they are whole; the tree a daemon has of a session it holds, and what was
  acknowledged, agree with what is read from the log, up to the roots that are not stored;
  and nobody else has a tree of a session that is held (`TruthInv`). The branch of the
  default conversation's head is what it said, both in the tree in memory and in the one that
  would be read (`ResumeInv`); the invariant must name both, since the next append goes to
  the first and a restart reads the second. Every branch of every tree that is kept or read
  resolves, not only those of the heads, since a navigation may move a head anywhere, and a
  map is to be rebuilt or is the one of its head (`ResolveInv`).

  `Replay`, `Branch` and the map are recursive functions. What is shown of them for every log
  is shown by the smallest number for which it would fail: `SmallestNumber` takes it from
  the well-founded order of the naturals, as a statement about sets of numbers, and that a
  recursive definition has a value, and which, is a lemma of its own.
* **ShellExtension.** `EveryCallIsAnsweredOnce`, for any plans, whatever programs and timers
  do. The inductive invariant adds that a worker that has not run has no process and that
  an answered command of the user has nothing left in its pipes nor anyone who could write
  to them: otherwise a thread that still reads a pipe could send progress after the answer.
  Two lemmas about what is said, of events and of answers, carry all the steps.
* **Agent.** `PromptsAreAnsweredInOrder`, `PoolStaysSound`, for any sessions, troubles, retries
  and size of the pool. The frame in hand and the frames that wait, in the socket and in the
  agent's own queue, are taken as one sequence: its log sequence numbers rise, all of them
  are beyond what was acknowledged (`LogInv`), and its prompts are those that were sent and
  not begun, each once and in order (`OrderInv`); this is what a frame put back during a
  retry, or a cancel looked for among the frames that wait, must not disturb. The pool's
  queue names each pooled connection once, which is also why taking the first occurrence out
  of it is the `retain` of the code, and the connection in use is not among them (`PoolInv`).

**Only model-checked:**

* liveness, which the prover does not do: `EveryPublishSettles`, `TurnsEnd`,
  `EveryPromptIsSent`, `PromptsAreAnswered`, `CallsComeBack`, `TerminalSettles`,
  `DaemonFollowsItsUis`, `DraftsArrive`, and the fairness of the notify channel's contract;
* what is computed by the folds of the community modules, which take an operator, so that
  the provers cannot unfold them (a recursive function they can, see `SessionStore`):
  `AnswersAreTrue` (edits, patches and reads are folds over lines), `TranscriptIsRetroactive`,
  `SameStory`, `QuietWhenIdle` and `StatusIsCurrent` (what a UI shows is a fold of its renderer
  over what it was sent), `TerminalIsFaithful` (a screen is what was written on it),
  and `RequestsAreWhole` (a prompt is assembled from differences);
* `QueueMovesOn` and `HistoryIsExact` with `SpawnsFail` are violated, `PromptsTakeTurns` and
  `BranchesAreExact` with an interceptor too: no theorem says otherwise.

## Not modelled, and why

* Pure functions and plain I/O: parsing of configuration, skills and settings, headers of
  tools, themes, pickers, session inspection, sockets, HTTP, runtime directories, the
  handshake loop of an extension, and the supervisor's handle of one child process.
* The web search, dummy and notifications extensions hold no protocol of their own; the
  query of the last is `PromptDispatch`'s summary.
* Credentials: `Agent` has a token that may become another between two requests.
* Of modelled parts: extension payloads beyond their author; transient delivery; call ids
  that a provider uses twice; counters that are only displayed; agent queries that belong
  to no tool call; the partial answers of a stream; symbolic links and file system
  failures other than a missing file; the search in the input history; colours.
  `PROJECT.json` says for each component what is left out.

