---------------------------- MODULE PromptDispatch ----------------------------
(***************************************************************************)
(* How the harness gets prompts to the agent                               *)
(* (src/crates/tau-harness/src/harness.rs and harness/dispatch.rs).  A       *)
(* prompt is queued or published; when its publish commits, its message is *)
(* folded into the session tree on the branch of its conversation and the  *)
(* agent is sent that branch; the answer is folded in turn, and a turn     *)
(* whose tools have run is prompted again.                                 *)
(*                                                                         *)
(* An interceptor may hold a publish: it then commits later, after the      *)
(* handler that made it, and the publishes after it wait behind it          *)
(* (Interception has the chain of interceptors; one stands for it here,     *)
(* since the events it may hold below are among those that cannot be dropped). *)
(*                                                                         *)
(* The harness is one thread.  work is what the running handler has still   *)
(* to do; frames are read when it is empty.                                *)
(***************************************************************************)
EXTENDS Naturals, Sequences, FiniteSets, FiniteSetsExt, SequencesExt

CONSTANTS
    Default,        \* default_conversation_id
    Queries,        \* agent queries of extensions; each is a conversation of its own
    Delegated,      \* the queries made for a tool call
    Providers,      \* tool extensions, all subscribed to session.started
    Mortal,         \* the extensions whose process may exit
    SpawnsFail,     \* whether the program of an extension may fail to start again
    Intercepted,    \* the kinds of events the interceptor registered for
    AgentsFiles,    \* the extensions that find AGENTS.md files for a session
    Shell,          \* whether the user runs shell commands
    MaxMessages,    \* bound on user messages, of all kinds
    MaxPrompts,     \* the agent calls tools only while there are fewer prompts
    MaxSessions,    \* bound on sessions
    None            \* no conversation

Convs == {Default} \cup Queries

UserKinds == {"prompt_submitted", "steered", "injected"}
Kinds == UserKinds \cup {"response_finished", "tool_result", "prompt_created", "session_started"}

ASSUME PromptDispatchAssumption ==
    /\ Default \notin Queries
    /\ Delegated \subseteq Queries
    /\ Mortal \subseteq Providers
    /\ AgentsFiles \subseteq Providers
    /\ {SpawnsFail, Shell} \subseteq BOOLEAN
    /\ Intercepted \subseteq Kinds \ {"session_started"}
    /\ {MaxMessages, MaxPrompts} \subseteq Nat
    /\ MaxSessions \in Nat \ {0}
    /\ None \notin Convs

(* What a tree node holds: a user's message, or what came of a prompt.        *)
Entry == [what : {"message", "answer", "result"}, of : Nat]

Node == [parent : Nat, entry : Entry]

(* A publish.  conv is the conversation it is stamped with, of the message or *)
(* the prompt it is about, session the session named in a user's message or  *)
(* in session.started.                                                     *)
Event == [op : {"publish"}, kind : Kinds, conv : Convs \cup {None}, of : Nat, session : Nat]

Task == Event \cup
    [op : {"dispatch", "send", "advance", "drain", "answered", "called", "turn", "clear"},
     kind : {"none"}, conv : Convs \cup {None}, of : Nat, session : {0}]
    \cup [op : {"respawn"}, kind : {"none"}, conv : Providers, of : {0}, session : {0}]

Conversation ==
    [head : Nat,                \* a node of the session tree, 0 for none
     pending_prompts : Seq(Nat),
     in_flight_prompt : Nat,
     turn_state : {"idle", "thinking", "tools"},
     remaining_calls : SUBSET Nat]

Message == [conv : Convs, kind : {"prompt", "query", "shell", "context"}]

Prompt == [conv : Convs, session : 1..MaxSessions, seen : SUBSET Entry, missing : SUBSET Entry]

VARIABLES
    conversations,          \* those that exist
    conv,                   \* the Conversation of each
    session,                \* current_session_id; sessions are numbered
    waiting_on,             \* of InitializingSession; empty when the harness is idle
    extension,              \* state of each tool extension
    discovered,             \* the extensions whose AGENTS.md files are known
    tree,                   \* the nodes of each session: [parent, entry]
    interceptor,            \* whether the interceptor is connected
    pending_intercept,      \* the publishes that wait for it: none or one
    deferred_publishes,     \* the publishes behind that one
    pending_user_prompt_dispatches,
    prompt_conversations,   \* prompts that are tracked
    canceled_prompts,
    tool_conversations,     \* calls that are tracked; a call has the number of its prompt
    work,
    at_agent,               \* external: prompts the agent was given
    running,                \* external: tool calls without a result
    owes,                   \* external: session.started that extensions will answer
    messages,               \* history: the user's messages
    prompts,                \* history: the prompts sent, with what they contain
    said,                   \* history: what was published for each conversation
    discarded,              \* history: messages taken out of a queue and given up
    dropped                 \* history: prompts that were cancelled, preempted or left behind

gates == <<session, waiting_on, extension, discovered>>
pipe == <<interceptor, pending_intercept, deferred_publishes>>
tracking == <<prompt_conversations, canceled_prompts, tool_conversations>>
outside == <<at_agent, running, owes>>
gone == <<discarded, dropped>>

vars == <<conversations, conv, session, waiting_on, extension, discovered, tree, interceptor,
          pending_intercept, deferred_publishes, pending_user_prompt_dispatches,
          prompt_conversations, canceled_prompts, tool_conversations, work, at_agent,
          running, owes, messages, prompts, said, discarded, dropped>>

TypeOK ==
    /\ conversations \subseteq Convs
    /\ conv \in [Convs -> Conversation]
    /\ session \in 1..MaxSessions
    /\ waiting_on \subseteq Providers
    /\ extension \in [Providers -> {"ready", "spawning", "subscribed", "gone"}]
    /\ discovered \subseteq Providers
    /\ tree \in [1..MaxSessions -> Seq(Node)]
    /\ interceptor \in BOOLEAN
    /\ pending_intercept \in Seq(Event) /\ Len(pending_intercept) <= 1
    /\ deferred_publishes \in Seq(Event)
    /\ pending_user_prompt_dispatches \in Seq(Convs)
    /\ prompt_conversations \subseteq DOMAIN prompts
    /\ canceled_prompts \subseteq DOMAIN prompts
    /\ tool_conversations \subseteq DOMAIN prompts
    /\ work \in Seq(Task)
    /\ at_agent \subseteq DOMAIN prompts
    /\ running \subseteq DOMAIN prompts
    /\ owes \subseteq Providers \X (1..MaxSessions)
    /\ messages \in Seq(Message)
    /\ prompts \in Seq(Prompt)
    /\ said \subseteq [conv : Convs, session : 1..MaxSessions, entry : Entry]
    /\ discarded \subseteq DOMAIN messages
    /\ dropped \subseteq DOMAIN prompts

Fresh(head) ==
    [head |-> head, pending_prompts |-> <<>>, in_flight_prompt |-> 0, turn_state |-> "idle",
     remaining_calls |-> {}]

(* The event loop starts after the first session is initialised.              *)
Init ==
    /\ conversations = {Default}
    /\ conv = [c \in Convs |-> Fresh(0)]
    /\ session = 1
    /\ waiting_on = {}
    /\ extension = [v \in Providers |-> "ready"]
    /\ discovered = {}
    /\ tree = [s \in 1..MaxSessions |-> <<>>]
    /\ interceptor = TRUE
    /\ pending_intercept = <<>>
    /\ deferred_publishes = <<>>
    /\ pending_user_prompt_dispatches = <<>>
    /\ prompt_conversations = {}
    /\ canceled_prompts = {}
    /\ tool_conversations = {}
    /\ work = <<>>
    /\ at_agent = {} /\ running = {} /\ owes = {}
    /\ messages = <<>> /\ prompts = <<>> /\ said = {}
    /\ discarded = {} /\ dropped = {}

(* The harness is between two frames. *)
Idle == work = <<>>

Publish(kind, c, n, s) ==
    [op |-> "publish", kind |-> kind, conv |-> c, of |-> n, session |-> s]

Do(op, c, n) == [op |-> op, kind |-> "none", conv |-> c, of |-> n, session |-> 0]

Advance == Do("advance", None, 0)

(* dispatch_prompt_for_conversation. *)
Dispatch(c, m) == <<Publish("prompt_submitted", c, m, session), Do("dispatch", c, 0)>>

(* The head of work is op; Then replaces it. *)
Doing(op) == work # <<>> /\ Head(work).op = op
Then(tasks) == work' = tasks \o Tail(work)

-----------------------------------------------------------------------------
(* The session tree *)

(* branch_from: the nodes from n to the root.                                *)
Branch(nodes, n) ==
    LET Reach[i \in 0..Len(nodes)] ==
            IF i = 0 THEN {n}
            ELSE Reach[i - 1] \cup {nodes[k].parent : k \in Reach[i - 1] \cap DOMAIN nodes}
    IN  {nodes[k].entry : k \in Reach[Len(nodes)] \cap DOMAIN nodes}

(* The events that append a node.                                           *)
Folds(e) == e.kind \in UserKinds \cup {"response_finished", "tool_result"}

EntryOf(e) ==
    [what |-> CASE e.kind = "response_finished" -> "answer"
                [] e.kind = "tool_result" -> "result"
                [] OTHER -> "message",
     of |-> e.of]

(* conversations[prompts[n].conv], if the prompt or the call is tracked.      *)
Attributed(n, tracked) ==
    IF n \in tracked /\ prompts[n].conv \in conversations THEN session ELSE 0

(* session_id_for_event; 0: the event belongs to no session.                  *)
SessionFor(e) ==
    CASE e.kind \in UserKinds -> e.session
      [] e.kind = "response_finished" -> Attributed(e.of, prompt_conversations)
      [] e.kind = "tool_result" -> Attributed(e.of, tool_conversations)
      [] OTHER -> 0

(* Fault: the node is put under the tree's own cursor. *)
ParentAtCursor(e, s) == Len(tree[s])

(* The new node's parent: the head of the stamped conversation, or the last   *)
(* node of the session's tree if there is none.                              *)
ParentOf(e, s) == IF e.conv \in conversations THEN conv[e.conv].head ELSE Len(tree[s])

(* The fold of commit_event.                                                 *)
Fold(e) ==
    LET s == SessionFor(e)
        node == [parent |-> ParentOf(e, s), entry |-> EntryOf(e)]
    IN  IF s = 0
        THEN UNCHANGED <<tree, conv>>
        ELSE /\ tree' = [tree EXCEPT ![s] = Append(@, node)]
             /\ conv' = IF e.conv \in conversations
                        THEN [conv EXCEPT ![e.conv].head = Len(tree[s]) + 1]
                        ELSE conv

(* Who sees the event: the agent a prompt, the extensions a session.          *)
Deliver(e) ==
    /\ at_agent' = IF e.kind = "prompt_created" THEN at_agent \cup {e.of} ELSE at_agent
    /\ owes' = IF e.kind = "session_started"
               THEN owes \cup {<<v, e.session>> :
                              v \in {v \in Providers : extension[v] \in {"subscribed", "ready"}}}
               ELSE owes
    /\ UNCHANGED running

(* commit_event and react_to_committed_event: a user's message lets the       *)
(* dispatch at the front of the queue go on.  rest is what the handler does   *)
(* next.                                                                   *)
Commit(e, rest) ==
    /\ Fold(e)
    /\ Deliver(e)
    /\ IF e.kind \in UserKinds /\ pending_user_prompt_dispatches # <<>>
       THEN LET c == Head(pending_user_prompt_dispatches)
            IN  /\ pending_user_prompt_dispatches' = Tail(pending_user_prompt_dispatches)
                /\ work' = (IF c \in conversations THEN <<Do("send", c, 0)>> ELSE <<>>) \o rest
       ELSE /\ work' = rest
            /\ UNCHANGED pending_user_prompt_dispatches

Intercepts(e) == interceptor /\ e.kind \in Intercepted

(* dispatch_publish_step: wait for the interceptor, or commit.                *)
DispatchStep(e, rest) ==
    \/ /\ Intercepts(e)
       /\ pending_intercept' = <<e>>
       /\ work' = rest
       /\ UNCHANGED <<tree, conv, pending_user_prompt_dispatches, outside>>
    \/ /\ ~Intercepts(e)
       /\ pending_intercept' = <<>>
       /\ Commit(e, rest)

(* publish_event_for_conversation and enqueue_publish.                       *)
EnqueuePublish ==
    /\ Doing("publish")
    /\ LET head == Head(work)
           e == IF head.conv \in conversations THEN head ELSE [head EXCEPT !.conv = None]
       IN  /\ said' = IF Folds(e) /\ e.conv # None
                      THEN said \cup {[conv |-> e.conv, session |-> session, entry |-> EntryOf(e)]}
                      ELSE said
           /\ IF pending_intercept # <<>>
              THEN /\ deferred_publishes' = Append(deferred_publishes, e)
                   /\ Then(<<>>)
                   /\ UNCHANGED <<pending_intercept, tree, conv, pending_user_prompt_dispatches,
                                  outside>>
              ELSE /\ DispatchStep(e, Tail(work))
                   /\ UNCHANGED deferred_publishes
    /\ UNCHANGED <<conversations, gates, interceptor, tracking, messages, prompts, gone>>

(* drain_deferred_publishes.                                                *)
DrainDeferred ==
    /\ Doing("drain")
    /\ IF pending_intercept = <<>> /\ deferred_publishes # <<>>
       THEN /\ deferred_publishes' = Tail(deferred_publishes)
            /\ DispatchStep(Head(deferred_publishes), work)
       ELSE /\ Then(<<>>)
            /\ UNCHANGED <<pending_intercept, deferred_publishes, tree, conv,
                           pending_user_prompt_dispatches, outside>>
    /\ UNCHANGED <<conversations, gates, interceptor, tracking, messages, prompts, said, gone>>

(* handle_intercept_reply: the event passes, whatever the reply.              *)
InterceptReply ==
    /\ Idle /\ interceptor /\ pending_intercept # <<>>
    /\ pending_intercept' = <<>>
    /\ Commit(Head(pending_intercept), <<Do("drain", None, 0)>>)
    /\ UNCHANGED <<conversations, gates, interceptor, deferred_publishes, tracking, messages,
                   prompts, said, gone>>

(* The interceptor disconnects: fail_pending_intercept_for_disconnect.        *)
InterceptorGone ==
    /\ Idle /\ interceptor
    /\ interceptor' = FALSE
    /\ IF pending_intercept # <<>>
       THEN /\ pending_intercept' = <<>>
            /\ Commit(Head(pending_intercept), <<Do("drain", None, 0)>>)
       ELSE UNCHANGED <<pending_intercept, work, tree, conv, pending_user_prompt_dispatches,
                        outside>>
    /\ UNCHANGED <<conversations, gates, deferred_publishes, tracking, messages, prompts, said,
                   gone>>

-----------------------------------------------------------------------------
(* Dispatch *)

(* extensions_all_ready. *)
ExtensionsReady == \A v \in Providers : extension[v] \in {"ready", "gone"}

(* Fault: a session in initialisation does not hold prompts back. *)
GateOfExtensions == ExtensionsReady

(* The global half of dispatch_blocked_for, and what try_advance_queue asks.  *)
GateOpen == waiting_on = {} /\ ExtensionsReady

(* Fault: a busy conversation is dispatched to. *)
DispatchBlockedGlobally(c) == ~GateOpen

DispatchBlocked(c) == ~GateOpen \/ conv[c].turn_state # "idle"

(* next_runnable_conversation: any of these.                                 *)
Runnable ==
    {c \in conversations : conv[c].pending_prompts # <<>> /\ conv[c].turn_state = "idle"}

(* Fault: the latest prompt leaves the queue first. *)
TryAdvanceQueueLatest ==
    /\ Doing("advance")
    /\ \/ /\ GateOpen
          /\ \E c \in Runnable :
                /\ conv' = [conv EXCEPT ![c].pending_prompts = Front(@)]
                /\ work' = Dispatch(c, Last(conv[c].pending_prompts)) \o work
       \/ /\ ~(GateOpen /\ Runnable # {})
          /\ Then(<<>>)
          /\ UNCHANGED conv
    /\ UNCHANGED <<conversations, gates, tree, pipe, pending_user_prompt_dispatches, tracking,
                   outside, messages, prompts, said, gone>>

(* try_advance_queue: one turn of its loop.                                  *)
TryAdvanceQueue ==
    /\ Doing("advance")
    /\ \/ /\ GateOpen
          /\ \E c \in Runnable :
                /\ conv' = [conv EXCEPT ![c].pending_prompts = Tail(@)]
                /\ work' = Dispatch(c, Head(conv[c].pending_prompts)) \o work
       \/ /\ ~(GateOpen /\ Runnable # {})
          /\ Then(<<>>)
          /\ UNCHANGED conv
    /\ UNCHANGED <<conversations, gates, tree, pipe, pending_user_prompt_dispatches, tracking,
                   outside, messages, prompts, said, gone>>

(* The end of dispatch_prompt_for_conversation: the agent is sent the prompt  *)
(* now, or when its message commits.                                        *)
DispatchOrAwait ==
    /\ Doing("dispatch")
    /\ LET c == Head(work).conv
       IN  IF pending_intercept # <<>> \/ deferred_publishes # <<>>
           THEN /\ pending_user_prompt_dispatches' = Append(pending_user_prompt_dispatches, c)
                /\ Then(<<>>)
           ELSE /\ Then(<<Do("send", c, 0)>>)
                /\ UNCHANGED pending_user_prompt_dispatches
    /\ UNCHANGED <<conversations, conv, gates, tree, pipe, tracking, outside, messages, prompts,
                   said, gone>>

(* What was published for the conversation and the branch does not hold.      *)
Missing(c, seen) ==
    {x.entry : x \in {x \in said : x.conv = c /\ x.session = session}} \ seen

(* Fault: the counter has moved on when the id is used. *)
NextPromptAfter == Len(prompts) + 2

(* next_session_prompt_id. *)
NextPrompt == Len(prompts) + 1

(* send_prompt_to_agent_for.                                                *)
SendPrompt ==
    /\ Doing("send")
    /\ LET c == Head(work).conv
           p == NextPrompt
           seen == Branch(tree[session], conv[c].head)
       IN  /\ prompts' = Append(prompts, [conv |-> c, session |-> session, seen |-> seen,
                                          missing |-> Missing(c, seen)])
           /\ prompt_conversations' = prompt_conversations \cup {p}
           /\ conv' = [conv EXCEPT ![c].in_flight_prompt = p, ![c].turn_state = "thinking",
                                   ![c].remaining_calls = {}]
           /\ Then(<<Publish("prompt_created", None, p, 0)>>)
    /\ UNCHANGED <<conversations, gates, tree, pipe, pending_user_prompt_dispatches,
                   canceled_prompts, tool_conversations, outside, messages, said, gone>>

-----------------------------------------------------------------------------
(* The user *)

Room == Cardinality({m \in DOMAIN messages : messages[m].kind # "context"}) < MaxMessages

NewMessage(c, kind) == messages' = Append(messages, [conv |-> c, kind |-> kind])

(* preempt_blocking_ext_side_conversations: these.                           *)
Preempted ==
    {q \in conversations \ ({Default} \cup Delegated) : conv[q].in_flight_prompt # 0}

(* The prompt in flight is given up, and what is queued behind it.            *)
GiveUp(c) ==
    [conv[c] EXCEPT !.in_flight_prompt = 0, !.turn_state = "idle", !.pending_prompts = <<>>,
                    !.remaining_calls = {}]

(* What comes for them later is not wanted.                                  *)
GiveUpPrompts(given_up) ==
    /\ canceled_prompts' = canceled_prompts \cup given_up
    /\ prompt_conversations' = prompt_conversations \ given_up
    /\ dropped' = dropped \cup given_up

(* submit_user_prompt: summaries make way, then the prompt is queued or       *)
(* dispatched.                                                             *)
SubmitUserPrompt ==
    /\ Idle /\ Room
    /\ LET m == Len(messages) + 1
           made_way == [c \in Convs |-> IF c \in Preempted THEN GiveUp(c) ELSE conv[c]]
       IN  /\ NewMessage(Default, "prompt")
           /\ GiveUpPrompts({conv[q].in_flight_prompt : q \in Preempted})
           /\ IF DispatchBlocked(Default)
              THEN /\ conv' = [made_way EXCEPT ![Default].pending_prompts = Append(@, m)]
                   /\ work' = <<Advance>>
              ELSE /\ conv' = made_way
                   /\ work' = Dispatch(Default, m)
    /\ UNCHANGED <<conversations, gates, tree, pipe, pending_user_prompt_dispatches,
                   tool_conversations, outside, prompts, said, discarded>>

(* handle_cancel_prompt.                                                    *)
CancelPrompt ==
    /\ Idle /\ conv[Default].in_flight_prompt # 0
    /\ GiveUpPrompts({conv[Default].in_flight_prompt})
    /\ discarded' = discarded \cup Range(conv[Default].pending_prompts)
    /\ conv' = [conv EXCEPT ![Default] = GiveUp(Default)]
    /\ work' = <<Advance>>
    /\ UNCHANGED <<conversations, gates, tree, pipe, pending_user_prompt_dispatches,
                   tool_conversations, outside, messages, prompts, said>>

(* A shell command of session s has finished: inject_user_shell_output.       *)
ShellFinished(s) ==
    /\ Idle /\ Room /\ Shell
    /\ NewMessage(Default, "shell")
    /\ work' = <<Publish("injected", IF s = session THEN Default ELSE None,
                         Len(messages) + 1, s)>>
    /\ UNCHANGED <<conversations, conv, gates, tree, pipe, pending_user_prompt_dispatches,
                   tracking, outside, prompts, said, gone>>

-----------------------------------------------------------------------------
(* Sessions and extensions *)

(* Fault: the queue is not looked at again. *)
CompleteInitQuietly(found, s, rest) ==
    /\ work' = (IF found # {} THEN <<Publish("injected", Default, Len(messages) + 1, s)>>
                ELSE <<>>) \o rest
    /\ IF found # {} THEN NewMessage(Default, "context") ELSE UNCHANGED messages

(* complete_session_init, when files are known from found; rest comes after.  *)
CompleteInit(found, s, rest) ==
    IF found # {}
    THEN /\ NewMessage(Default, "context")
         /\ work' = <<Publish("injected", Default, Len(messages) + 1, s), Advance>> \o rest
    ELSE /\ work' = <<Advance>> \o rest
         /\ UNCHANGED messages

(* session_init_provider_ids. *)
Subscribers == {v \in Providers : extension[v] \in {"subscribed", "ready"}}

(* The default conversation of a new session starts at the root.              *)
Rebound == [c \in Convs |-> Fresh(0)]

(* switch_session to a new session, and start_session_init.                   *)
SwitchSession ==
    /\ Idle /\ session < MaxSessions
    /\ session' = session + 1
    /\ conversations' = {Default}
    /\ conv' = Rebound
    /\ discarded' = discarded \cup UNION {Range(conv[c].pending_prompts) : c \in conversations}
    /\ dropped' = dropped \cup prompt_conversations
    /\ prompt_conversations' = {}
    /\ tool_conversations' = {}
    /\ waiting_on' = Subscribers
    /\ discovered' = discovered \ Subscribers
    /\ IF Subscribers = {}
       THEN CompleteInit(discovered, session + 1, <<>>)
       ELSE /\ work' = <<Publish("session_started", None, 0, session + 1)>>
            /\ UNCHANGED messages
    /\ UNCHANGED <<extension, tree, pipe, pending_user_prompt_dispatches, canceled_prompts,
                   outside, prompts, said>>

(* handle_extension_context_ready: the extension's answer for session s, with *)
(* the files it found.                                                     *)
ContextReady(v, s) ==
    /\ Idle /\ <<v, s>> \in owes
    /\ owes' = owes \ {<<v, s>>}
    /\ discovered' = discovered \cup ({v} \cap AgentsFiles)
    /\ IF waiting_on # {} /\ s = session
       THEN /\ waiting_on' = waiting_on \ {v}
            /\ IF waiting_on' = {}
               THEN CompleteInit(discovered', session, <<>>)
               ELSE UNCHANGED <<work, messages>>
       ELSE UNCHANGED <<waiting_on, work, messages>>
    /\ UNCHANGED <<conversations, conv, session, extension, tree, pipe,
                   pending_user_prompt_dispatches, tracking, at_agent, running, prompts, said,
                   gone>>

(* handle_disconnect of a tool extension, up to its respawn.                  *)
ExtensionGone(v) ==
    /\ Idle /\ v \in Mortal /\ extension[v] # "gone"
    /\ discovered' = discovered \ {v}
    /\ owes' = {o \in owes : o[1] # v}
    /\ waiting_on' = waiting_on \ {v}
    /\ IF v \in waiting_on /\ waiting_on' = {}
       THEN CompleteInit(discovered', session, <<Do("respawn", v, 0)>>)
       ELSE /\ work' = <<Do("respawn", v, 0)>>
            /\ UNCHANGED messages
    /\ UNCHANGED <<conversations, conv, session, extension, tree, pipe,
                   pending_user_prompt_dispatches, tracking, at_agent, running, prompts, said,
                   gone>>

(* try_respawn_supervised_extension, which may fail.                          *)
Respawn ==
    /\ Doing("respawn")
    /\ \E state \in {"spawning"} \cup (IF SpawnsFail THEN {"gone"} ELSE {}) :
            extension' = [extension EXCEPT ![Head(work).conv] = state]
    /\ Then(<<>>)
    /\ UNCHANGED <<conversations, conv, session, waiting_on, discovered, tree, pipe,
                   pending_user_prompt_dispatches, tracking, outside, messages, prompts, said,
                   gone>>

(* Message::Subscribe of a respawned extension.                              *)
ExtensionSubscribes(v) ==
    /\ Idle /\ extension[v] = "spawning"
    /\ extension' = [extension EXCEPT ![v] = "subscribed"]
    /\ UNCHANGED <<conversations, conv, session, waiting_on, discovered, tree, pipe,
                   pending_user_prompt_dispatches, tracking, work, outside, messages, prompts,
                   said, gone>>

(* Message::Ready. *)
ExtensionReady(v) ==
    /\ Idle /\ extension[v] = "subscribed"
    /\ extension' = [extension EXCEPT ![v] = "ready"]
    /\ work' = <<Advance>>
    /\ UNCHANGED <<conversations, conv, session, waiting_on, discovered, tree, pipe,
                   pending_user_prompt_dispatches, tracking, outside, messages, prompts, said,
                   gone>>

-----------------------------------------------------------------------------
(* The agent, its tools, and the queries of extensions *)

Summary(c) == c \in Queries \ Delegated

(* handle_agent_response_finished, up to its publish: the answer to a prompt  *)
(* that is given up, unknown or answered already changes nothing else.        *)
AgentResponds(p, how) ==
    /\ Idle /\ p \in at_agent
    /\ how = "called" => Len(prompts) < MaxPrompts
    /\ \/ /\ p \in canceled_prompts
          /\ canceled_prompts' = canceled_prompts \ {p}
          /\ prompt_conversations' = prompt_conversations \ {p}
          /\ UNCHANGED work
       \/ /\ p \in prompt_conversations \ canceled_prompts
          /\ work' = <<Publish("response_finished", prompts[p].conv, p, 0),
                       Do(how, prompts[p].conv, p)>>
          /\ UNCHANGED <<canceled_prompts, prompt_conversations>>
    /\ UNCHANGED <<conversations, conv, gates, tree, pipe, pending_user_prompt_dispatches,
                   tool_conversations, outside, messages, prompts, said, gone>>

(* The rest of it when the turn ends: with text, or because a summary must    *)
(* not call tools.  The conversation of a query ends with its answer.         *)
TurnEnds ==
    /\ \/ Doing("answered")
       \/ Doing("called") /\ Summary(Head(work).conv) /\ Head(work).conv \in conversations
    /\ LET c == Head(work).conv
       IN  /\ prompt_conversations' = prompt_conversations \ {Head(work).of}
           /\ IF c \in Queries
              THEN /\ conversations' = conversations \ {c}
                   /\ conv' = [conv EXCEPT ![c] = Fresh(0)]
              ELSE /\ conv' = [conv EXCEPT ![c].in_flight_prompt = 0, ![c].turn_state = "idle",
                                           ![c].remaining_calls = {}]
                   /\ UNCHANGED conversations
    /\ Then(<<Advance>>)
    /\ UNCHANGED <<gates, tree, pipe, pending_user_prompt_dispatches, canceled_prompts,
                   tool_conversations, outside, messages, prompts, said, gone>>

(* The rest of it when the response calls a tool.                             *)
ToolsStart ==
    /\ Doing("called") /\ ~(Summary(Head(work).conv) /\ Head(work).conv \in conversations)
    /\ LET c == Head(work).conv
           p == Head(work).of
       IN  /\ prompt_conversations' = prompt_conversations \ {p}
           /\ tool_conversations' = tool_conversations \cup {p}
           /\ running' = running \cup {p}
           /\ conv' = IF c \in conversations
                      THEN [conv EXCEPT ![c].in_flight_prompt = 0, ![c].turn_state = "tools",
                                        ![c].remaining_calls = {p}]
                      ELSE conv
    /\ Then(<<>>)
    /\ UNCHANGED <<conversations, gates, tree, pipe, pending_user_prompt_dispatches,
                   canceled_prompts, at_agent, owes, messages, prompts, said, gone>>

(* A tool result, and on_tool_call_complete.  A call that is not tracked any  *)
(* more is ignored.                                                         *)
ToolFinishes(p) ==
    /\ Idle /\ p \in running
    /\ running' = running \ {p}
    /\ work' = IF p \in tool_conversations
               THEN <<Publish("tool_result", prompts[p].conv, p, 0), Do("turn", prompts[p].conv, p),
                      Advance, Do("clear", None, p)>>
               ELSE <<>>
    /\ UNCHANGED <<conversations, conv, gates, tree, pipe, pending_user_prompt_dispatches,
                   tracking, at_agent, owes, messages, prompts, said, gone>>

(* fold_pending_prompts_as_steered. *)
Steered(c) ==
    [i \in DOMAIN conv[c].pending_prompts |->
        Publish("steered", c, conv[c].pending_prompts[i], session)]

(* maybe_complete_agent_turn. *)
MaybeCompleteTurn ==
    /\ Doing("turn")
    /\ LET c == Head(work).conv
           left == conv[c].remaining_calls \ {Head(work).of}
       IN  IF /\ Head(work).of \in tool_conversations
              /\ c \in conversations /\ conv[c].turn_state = "tools"
           THEN IF left = {}
                THEN /\ conv' = [conv EXCEPT ![c].turn_state = "idle", ![c].remaining_calls = {},
                                             ![c].pending_prompts = <<>>]
                     /\ Then(Append(Steered(c), Do("dispatch", c, 0)))
                ELSE /\ conv' = [conv EXCEPT ![c].remaining_calls = left]
                     /\ Then(<<>>)
           ELSE /\ Then(<<>>)
                /\ UNCHANGED conv
    /\ UNCHANGED <<conversations, gates, tree, pipe, pending_user_prompt_dispatches, tracking,
                   outside, messages, prompts, said, gone>>

(* clear_tool_call_tracking. *)
ClearTracking ==
    /\ Doing("clear")
    /\ tool_conversations' = tool_conversations \ {Head(work).of}
    /\ Then(<<>>)
    /\ UNCHANGED <<conversations, conv, gates, tree, pipe, pending_user_prompt_dispatches,
                   prompt_conversations, canceled_prompts, outside, messages, prompts, said, gone>>

(* A delegate starts on a new branch, a summary on the user's.                *)
InitialHead(q) == IF q \in Delegated THEN 0 ELSE conv[Default].head

(* handle_ext_agent_query: a conversation of its own.  A query is made once.  *)
AgentQuery(q) ==
    /\ Idle /\ Room
    /\ \A m \in DOMAIN messages : messages[m].conv # q
    /\ q \in Delegated => running \cap tool_conversations # {}
    /\ NewMessage(q, "query")
    /\ conversations' = conversations \cup {q}
    /\ conv' = [conv EXCEPT ![q] = Fresh(InitialHead(q))]
    /\ work' = Dispatch(q, Len(messages) + 1)
    /\ UNCHANGED <<gates, tree, pipe, pending_user_prompt_dispatches, tracking, outside, prompts,
                   said, gone>>

-----------------------------------------------------------------------------

Handler ==
    \/ EnqueuePublish \/ DrainDeferred \/ TryAdvanceQueue \/ DispatchOrAwait \/ SendPrompt
    \/ TurnEnds \/ ToolsStart \/ MaybeCompleteTurn \/ ClearTracking \/ Respawn

Next ==
    \/ Handler
    \/ InterceptReply \/ InterceptorGone
    \/ SubmitUserPrompt \/ CancelPrompt \/ SwitchSession
    \/ \E s \in 1..session : ShellFinished(s)
    \/ \E v \in Providers : \/ ExtensionGone(v) \/ ExtensionSubscribes(v) \/ ExtensionReady(v)
                           \/ \E s \in 1..MaxSessions : ContextReady(v, s)
    \/ \E p \in at_agent : \E how \in {"answered", "called"} : AgentResponds(p, how)
    \/ \E p \in running : ToolFinishes(p)
    \/ \E q \in Queries : AgentQuery(q)

Spec == Init /\ [][Next]_vars

(* The handler goes on; the agent answers each prompt in the end, tools and    *)
(* extensions too, and so does the interceptor.  The user owes nothing.        *)
Fairness ==
    /\ WF_vars(Handler)
    /\ WF_vars(InterceptReply)
    /\ \A p \in 1..(MaxMessages + MaxPrompts) :
            /\ WF_vars(p \in at_agent /\ AgentResponds(p, "answered"))
            /\ WF_vars(ToolFinishes(p))
    /\ \A v \in Providers :
            /\ WF_vars(ExtensionSubscribes(v)) /\ WF_vars(ExtensionReady(v))
            /\ \A s \in 1..MaxSessions : WF_vars(ContextReady(v, s))

FairSpec == Spec /\ Fairness

-----------------------------------------------------------------------------
(* Properties *)

OnTheWay == pending_intercept \o deferred_publishes \o work

InTransit(kinds, n) ==
    Cardinality({i \in DOMAIN OnTheWay : /\ OnTheWay[i].kind \in kinds
                                         /\ OnTheWay[i].of = n})

Nodes(s, x) == {i \in DOMAIN tree[s] : tree[s][i].entry = x}

(* A message of the user is in one place: in a queue, on its way into the     *)
(* history, in the history of a session, or given up (pending_prompts,        *)
(* deferred_publishes, apply_event_at).                                     *)
MessagesAreConserved ==
    \A m \in DOMAIN messages :
        LET queued == UNION {{c} \X {i \in DOMAIN conv[c].pending_prompts :
                                        conv[c].pending_prompts[i] = m} : c \in Convs}
            folded == UNION {{s} \X Nodes(s, [what |-> "message", of |-> m]) : s \in 1..MaxSessions}
            given_up == {m} \cap discarded
        IN  Cardinality(queued) + InTransit(UserKinds, m) + Cardinality(folded)
                + Cardinality(given_up) = 1

(* The prompts of the user enter the history of a session in the order they   *)
(* were submitted, whether they were dispatched at once, queued, or folded    *)
(* into a running turn (try_advance_queue, fold_pending_prompts_as_steered).   *)
PromptsStayInOrder ==
    \A s \in 1..MaxSessions :
        LET asked == {i \in DOMAIN tree[s] : /\ tree[s][i].entry.what = "message"
                                             /\ messages[tree[s][i].entry.of].kind = "prompt"}
        IN  \A i, j \in asked : i < j => tree[s][i].entry.of < tree[s][j].entry.of

(* Who a conversation waits for owes it something: the agent has its prompt,  *)
(* or the prompt is on its way; a tool call of its turn runs                  *)
(* (ConversationTurnState).                                                *)
BusyConversationsAreAwaited ==
    \A c \in conversations :
        LET p == conv[c].in_flight_prompt IN
        /\ conv[c].turn_state = "thinking" <=> p # 0
        /\ p # 0 => /\ p \in prompt_conversations /\ prompts[p].conv = c
                    /\ p \in at_agent \/ InTransit({"prompt_created"}, p) > 0
        /\ conv[c].turn_state = "tools" <=> conv[c].remaining_calls # {}
        /\ \A d \in conv[c].remaining_calls :
                /\ d \in tool_conversations /\ prompts[d].conv = c
                /\ d \in running \/ \E i \in DOMAIN work : work[i].op = "turn" /\ work[i].of = d

(* Between two frames no prompt is left in a queue that could be dispatched   *)
(* (try_advance_queue).                                                     *)
NothingRunnableIsLeft == Idle /\ GateOpen => Runnable = {}

(* The queue moves on: who is waited for owes something, and nothing that     *)
(* could go waits (try_advance_queue, ConversationTurnState).                 *)
QueueMovesOn == BusyConversationsAreAwaited /\ NothingRunnableIsLeft

(* The answer to a prompt that was cancelled, preempted, or left behind in    *)
(* another session never enters a history (handle_agent_response_finished).   *)
DroppedPromptsAreSilent ==
    \A p \in dropped, s \in 1..MaxSessions : Nodes(s, [what |-> "answer", of |-> p]) = {}

(* Each thing said is said once and in its order, and what was given up stays  *)
(* silent (pending_prompts, deferred_publishes, canceled_prompts).            *)
HistoryIsExact == MessagesAreConserved /\ PromptsStayInOrder /\ DroppedPromptsAreSilent

ConvOf(x) == IF x.what = "message" THEN messages[x.of].conv ELSE prompts[x.of].conv

(* What the agent is sent belongs to the conversation; a summary also sees    *)
(* the user's branch, a delegate and the user see nothing of the others       *)
(* (handle_ext_agent_query, commit_event).                                   *)
BranchesDoNotMix ==
    \A p \in DOMAIN prompts :
        LET c == prompts[p].conv IN
        \A x \in prompts[p].seen :
            ConvOf(x) = c \/ (Summary(c) /\ ConvOf(x) = Default)

OnePromptAtATime ==
    \A p, q \in prompt_conversations : prompts[p].conv = prompts[q].conv => p = q

(* What a prompt is assembled from holds everything that was published for    *)
(* its conversation (send_prompt_to_agent_for).                              *)
PromptsAreComplete == \A p \in DOMAIN prompts : prompts[p].missing = {}

(* What was published for a conversation is in its session's history, or on   *)
(* its way there (persist_session_event, session_id_for_event).               *)
NothingSaidIsLost ==
    \A x \in said :
        \/ Nodes(x.session, x.entry) # {}
        \/ \E i \in DOMAIN OnTheWay : Folds(OnTheWay[i]) /\ EntryOf(OnTheWay[i]) = x.entry

(* The parent of a node comes before it, so that the way from a node to the   *)
(* root has an end (branch_from, append_node_at).                             *)
BranchesEnd ==
    \A s \in 1..MaxSessions : \A i \in DOMAIN tree[s] : tree[s][i].parent < i

(* What the agent is prompted with is the branch of its conversation: all that *)
(* was said on it and nothing else (send_prompt_to_agent_for, append_node_at).  *)
BranchesAreExact ==
    TypeOK /\ BranchesDoNotMix /\ PromptsAreComplete /\ NothingSaidIsLost /\ BranchesEnd

InitComesFirst ==
    [][\A p \in DOMAIN prompts' \ DOMAIN prompts :
            prompts'[p].conv = Default => waiting_on = {}]_vars

(* A conversation has one prompt with the agent at a time, and the user's has *)
(* none before its session is initialised, however many dispatches are under  *)
(* way (dispatch_blocked_for, try_advance_queue, start_session_init).         *)
PromptsTakeTurns == []OnePromptAtATime /\ InitComesFirst

(* Each prompt of the user reaches the agent, or is given up, once no          *)
(* extension dies any more.                                                   *)
Unanswered(m) ==
    /\ m \in DOMAIN messages /\ messages[m].kind = "prompt"
    /\ m \notin discarded
    /\ \A p \in at_agent : [what |-> "message", of |-> m] \notin prompts[p].seen

EveryPromptIsSent ==
    (<>[][\A v \in Providers : ~ExtensionGone(v)]_vars)
        => []<>(\A m \in 1..MaxMessages : ~Unanswered(m))

=============================================================================
