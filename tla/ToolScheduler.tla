---------------------------- MODULE ToolScheduler ----------------------------
(***************************************************************************)
(* How the harness schedules the tool calls of its agents                  *)
(* (src/crates/tau-harness/src/harness.rs, with the registry of            *)
(* tau-core/src/tool_registry.rs).  The calls of one agent response are     *)
(* queued; a pure call starts when no mutating call of its conversation    *)
(* runs, a mutating one when no call of its conversation runs; when the    *)
(* last call of the turn is answered the agent is prompted again.          *)
(* Conversations share the queue: a delegate call opens a conversation of   *)
(* its own whose calls are scheduled while the delegate call runs.         *)
(*                                                                         *)
(* The harness is one thread and a handler runs to its end, but handlers    *)
(* nest: a call that fails at once completes inside the loop that started   *)
(* it, and its completion runs that loop again.  work is the stack of what  *)
(* the running handler has still to do; frames are read when it is empty.   *)
(*                                                                         *)
(* No extension intercepts here: a publish commits before it returns        *)
(* (Interception has the rest).                                            *)
(***************************************************************************)
EXTENDS Naturals, Sequences, FiniteSets, SequencesExt

CONSTANTS
    Convs,          \* conversations that may exist
    Default,        \* default_conversation_id
    Calls,          \* tool call ids; a call id is used once
    Tools,
    Conns,          \* connections of tool providers; an id is never reused
    Offers,         \* the tools each connection may register
    Mortal,         \* the connections that may go away
    ToolOf,         \* the tool a call names
    SideEffects,    \* the class a tool is registered with: "pure" or "mutating"
    ReadOnly,       \* the calls that are delegate calls with read_only set
    Inline,         \* tools the harness answers itself: skill, invalid or disabled names
    Delegates,      \* tools whose provider asks the harness for an agent
    MaxCalls,       \* bound on the calls of one response
    Switches,       \* whether the user may switch sessions
    None            \* no conversation, no connection, no call

ASSUME ToolSchedulerAssumption ==
    /\ IsFiniteSet(Calls)
    /\ Default \in Convs
    /\ Offers \in [Conns -> SUBSET (Tools \ Inline)]
    /\ Mortal \subseteq Conns
    /\ ToolOf \in [Calls -> Tools]
    /\ SideEffects \in [Tools -> {"pure", "mutating"}]
    /\ ReadOnly \subseteq {d \in Calls : ToolOf[d] \in Delegates}
    /\ Inline \subseteq Tools
    /\ Delegates \subseteq Tools \ Inline
    /\ MaxCalls \in Nat
    /\ Switches \in BOOLEAN
    /\ None \notin Convs \cup Conns \cup Calls

Entry == [conv : Convs, call : Calls, kind : {"pure", "mutating"}]

(* What a handler has still to do: drain the queue; the steps of the          *)
(* completion of a call, or its failure; the end of a disconnect.           *)
Step ==
    [op : {"drain"}, call : {None}, conn : {None}]
    \cup [op : {"done", "turn", "clear", "fail"}, call : Calls, conn : {None}]
    \cup [op : {"gone"}, call : {None}, conn : Conns]

VARIABLES
    turn_state,                 \* of each conversation; "none": there is no such conversation
    remaining_calls,            \* of a conversation whose tools run
    pending_tool_invocations,   \* the queue
    in_flight_tool_kinds,       \* the class of each running call, or "none"
    tool_conversations,         \* the conversation a call belongs to
    pending_tool_providers,     \* the connection a call was routed to
    providers_by_tool,          \* the registry: the first provider of a tool serves it
    connected,                  \* connections on the bus
    parent,                     \* parent_tool_call_id of each side conversation
    work,                       \* the stack of the running handler
    sent,                       \* external: the provider each tool.invoke went to
    query,                      \* external: the agent query of a delegate call: "none", "asked", "answered"
    fresh,                      \* call ids not used yet
    emitted,                    \* history of the session: the calls of agent responses, in order
    requested,                  \* history of the session: the calls extensions made
    started,                    \* history of the session: the calls that started, in order
    answers                     \* history: tool.result and tool.error events per call

vars == <<turn_state, remaining_calls, pending_tool_invocations, in_flight_tool_kinds,
          tool_conversations, pending_tool_providers, providers_by_tool, connected, parent,
          work, sent, query, fresh, emitted, requested, started, answers>>

tracking == <<in_flight_tool_kinds, tool_conversations, pending_tool_providers>>
turns == <<turn_state, remaining_calls, parent>>
providers == <<providers_by_tool, connected>>
outside == <<sent, query, fresh>>
history == <<emitted, requested, started, answers>>

TypeOK ==
    /\ turn_state \in [Convs -> {"none", "idle", "thinking", "tools"}]
    /\ remaining_calls \in [Convs -> SUBSET Calls]
    /\ pending_tool_invocations \in Seq(Entry)
    /\ in_flight_tool_kinds \in [Calls -> {"none", "pure", "mutating"}]
    /\ tool_conversations \in [Calls -> Convs \cup {None}]
    /\ pending_tool_providers \in [Calls -> Conns \cup {None}]
    /\ providers_by_tool \in [Tools -> Seq(Conns)]
    /\ connected \subseteq Conns
    /\ parent \in [Convs -> Calls \cup {None}]
    /\ work \in Seq(Step)
    /\ sent \in [Calls -> Conns \cup {None}]
    /\ query \in [Calls -> {"none", "asked", "answered"}]
    /\ fresh \subseteq Calls
    /\ emitted \in Seq([conv : Convs, call : Calls])
    /\ requested \subseteq Calls
    /\ started \in Seq(Calls)
    /\ answers \in [Calls -> Nat]

Init ==
    /\ turn_state = [q \in Convs |-> IF q = Default THEN "idle" ELSE "none"]
    /\ remaining_calls = [q \in Convs |-> {}]
    /\ pending_tool_invocations = <<>>
    /\ in_flight_tool_kinds = [d \in Calls |-> "none"]
    /\ tool_conversations = [d \in Calls |-> None]
    /\ pending_tool_providers = [d \in Calls |-> None]
    /\ providers_by_tool = [t \in Tools |-> <<>>]
    /\ connected = Conns
    /\ parent = [q \in Convs |-> None]
    /\ work = <<>>
    /\ sent = [d \in Calls |-> None]
    /\ query = [d \in Calls |-> "none"]
    /\ fresh = Calls
    /\ emitted = <<>>
    /\ requested = {}
    /\ started = <<>>
    /\ answers = [d \in Calls |-> 0]

(* The harness is between two frames. *)
Idle == work = <<>>

Do(op, d) == [op |-> op, call |-> d, conn |-> None]

(* Fault: a completion does not look at the queue. *)
CompletionNoDrain(d) == <<Do("done", d), Do("turn", d), Do("clear", d)>>

(* on_tool_call_complete and the clear_tool_call_tracking that follows it. *)
Completion(d) == <<Do("done", d), Do("drain", None), Do("turn", d), Do("clear", d)>>

-----------------------------------------------------------------------------
(* The registry and the scheduling rule *)

(* resolve_provider, the first one registered. *)
HasProvider(t) == providers_by_tool[t] # <<>>

(* Fault: an unknown tool has no class. *)
KindOfKnown(d) ==
    IF d \in ReadOnly THEN "pure"
    ELSE IF HasProvider(ToolOf[d]) \/ ToolOf[d] \in Inline THEN SideEffects[ToolOf[d]]
    ELSE "none"

(* resolve_tool_kind_for_call: an unknown tool counts as mutating. *)
KindOf(d) ==
    IF d \in ReadOnly THEN "pure"
    ELSE IF HasProvider(ToolOf[d]) \/ ToolOf[d] \in Inline THEN SideEffects[ToolOf[d]]
    ELSE "mutating"

(* Fault: the rule is not per conversation. *)
InFlightAnywhere(q) == {d \in Calls : in_flight_tool_kinds[d] # "none"}

InFlightFor(q) ==
    {d \in Calls : in_flight_tool_kinds[d] # "none" /\ tool_conversations[d] = q}

(* Fault: a mutating call starts next to pure ones. *)
CompatibleWithMutating(x) == \A d \in InFlightFor(x.conv) : in_flight_tool_kinds[d] = "pure"

(* has_mutating_in_flight_for and any_in_flight_for. *)
Compatible(x) ==
    \A d \in InFlightFor(x.conv) : x.kind = "pure" /\ in_flight_tool_kinds[d] = "pure"

Queued(q) ==
    {pending_tool_invocations[k].call :
        k \in {j \in DOMAIN pending_tool_invocations : pending_tool_invocations[j].conv = q}}

(* Nothing of the same conversation waits before it. *)
IsFirst(k) ==
    \A j \in 1..(k - 1) : pending_tool_invocations[j].conv # pending_tool_invocations[k].conv

Startable ==
    {k \in DOMAIN pending_tool_invocations :
        IsFirst(k) /\ Compatible(pending_tool_invocations[k])}

-----------------------------------------------------------------------------
(* Inside a handler *)

NextIs(op) == work # <<>> /\ Head(work).op = op

(* execute_agent_tool_call of an entry taken from the queue. *)
Start(k) ==
    LET x == pending_tool_invocations[k]
        t == ToolOf[x.call]
    IN  /\ pending_tool_invocations' = RemoveAt(pending_tool_invocations, k)
        /\ in_flight_tool_kinds' = [in_flight_tool_kinds EXCEPT ![x.call] = x.kind]
        /\ tool_conversations' = [tool_conversations EXCEPT ![x.call] = x.conv]
        /\ started' = Append(started, x.call)
        /\ \/ /\ t \notin Inline
              /\ HasProvider(t)
              /\ pending_tool_providers' =
                    [pending_tool_providers EXCEPT ![x.call] = Head(providers_by_tool[t])]
              /\ sent' = [sent EXCEPT ![x.call] = Head(providers_by_tool[t])]
              /\ UNCHANGED <<work, answers>>
           \/ /\ t \in Inline \/ ~HasProvider(t)
              /\ answers' = [answers EXCEPT ![x.call] = @ + 1]
              /\ work' = Completion(x.call) \o work
              /\ UNCHANGED <<pending_tool_providers, sent>>
        /\ UNCHANGED <<turns, providers, query, fresh, emitted, requested>>

(* One turn of the loop of drain_pending_tool_invocations. *)
Drain ==
    /\ NextIs("drain")
    /\ \E k \in Startable :
          /\ \A j \in Startable : k <= j
          /\ Start(k)

DrainEnd ==
    /\ NextIs("drain")
    /\ Startable = {}
    /\ work' = Tail(work)
    /\ UNCHANGED <<turns, pending_tool_invocations, tracking, providers, outside, history>>

(* on_tool_call_complete up to its drain. *)
Done ==
    /\ NextIs("done")
    /\ in_flight_tool_kinds' = [in_flight_tool_kinds EXCEPT ![Head(work).call] = "none"]
    /\ work' = Tail(work)
    /\ UNCHANGED <<turns, pending_tool_invocations, tool_conversations, pending_tool_providers,
                   providers, outside, history>>

(* Fault: the first call to complete ends the turn. *)
CompleteTurnEarly ==
    /\ NextIs("turn")
    /\ LET q == tool_conversations[Head(work).call]
       IN  \/ /\ q # None
              /\ turn_state[q] = "tools"
              /\ remaining_calls' = [remaining_calls EXCEPT ![q] = {}]
              /\ turn_state' = [turn_state EXCEPT ![q] = "thinking"]
           \/ /\ q = None \/ turn_state[q] # "tools"
              /\ UNCHANGED <<turn_state, remaining_calls>>
    /\ work' = Tail(work)
    /\ UNCHANGED <<parent, pending_tool_invocations, tracking, providers, outside, history>>

(* maybe_complete_agent_turn: the last call of the turn prompts the agent. *)
CompleteTurn ==
    /\ NextIs("turn")
    /\ LET d == Head(work).call
           q == tool_conversations[d]
       IN  \/ /\ q # None
              /\ turn_state[q] = "tools"
              /\ remaining_calls' = [remaining_calls EXCEPT ![q] = @ \ {d}]
              /\ turn_state' = [turn_state EXCEPT
                                   ![q] = IF remaining_calls[q] \ {d} = {} THEN "thinking" ELSE @]
           \/ /\ q = None \/ turn_state[q] # "tools"
              /\ UNCHANGED <<turn_state, remaining_calls>>
    /\ work' = Tail(work)
    /\ UNCHANGED <<parent, pending_tool_invocations, tracking, providers, outside, history>>

(* clear_tool_call_tracking *)
ClearTracking ==
    /\ NextIs("clear")
    /\ tool_conversations' = [tool_conversations EXCEPT ![Head(work).call] = None]
    /\ pending_tool_providers' = [pending_tool_providers EXCEPT ![Head(work).call] = None]
    /\ work' = Tail(work)
    /\ UNCHANGED <<turns, pending_tool_invocations, in_flight_tool_kinds, providers, outside, history>>

(* One call of fail_pending_tool_calls_for_connection. *)
FailCall ==
    /\ NextIs("fail")
    /\ answers' = [answers EXCEPT ![Head(work).call] = @ + 1]
    /\ work' = Completion(Head(work).call) \o Tail(work)
    /\ UNCHANGED <<turns, pending_tool_invocations, tracking, providers, outside,
                   emitted, requested, started>>

(* A connection registers a tool once, so that there is one to retain away. *)
Without(s, c) ==
    IF \E j \in DOMAIN s : s[j] = c THEN RemoveAt(s, CHOOSE j \in DOMAIN s : s[j] = c) ELSE s

(* The end of handle_disconnect: bus.disconnect and unregister_connection. *)
Gone ==
    /\ NextIs("gone")
    /\ connected' = connected \ {Head(work).conn}
    /\ providers_by_tool' =
          [t \in Tools |-> Without(providers_by_tool[t], Head(work).conn)]
    /\ work' = Tail(work)
    /\ UNCHANGED <<turns, pending_tool_invocations, tracking, outside, history>>

-----------------------------------------------------------------------------
(* Frames *)

ToolRegister(c, t) ==
    /\ Idle
    /\ c \in connected
    /\ t \in Offers[c]
    /\ providers_by_tool' = [providers_by_tool EXCEPT ![t] = IF Contains(@, c) THEN @ ELSE Append(@, c)]
    /\ UNCHANGED <<turns, pending_tool_invocations, tracking, connected, work, outside, history>>

(* A prompt that is dispatched at once: the conversation is idle. *)
Prompt ==
    /\ Idle
    /\ turn_state[Default] = "idle"
    /\ turn_state' = [turn_state EXCEPT ![Default] = "thinking"]
    /\ UNCHANGED <<remaining_calls, parent, pending_tool_invocations, tracking, providers,
                   work, outside, history>>

(* handle_agent_response_finished with tool calls. *)
RespondWithCalls(q, s) ==
    /\ Idle
    /\ turn_state[q] = "thinking"
    /\ turn_state' = [turn_state EXCEPT ![q] = "tools"]
    /\ remaining_calls' = [remaining_calls EXCEPT ![q] = ToSet(s)]
    /\ pending_tool_invocations' = pending_tool_invocations \o
          [k \in DOMAIN s |-> [conv |-> q, call |-> s[k], kind |-> KindOf(s[k])]]
    /\ work' = <<Do("drain", None)>>
    /\ fresh' = fresh \ ToSet(s)
    /\ emitted' = emitted \o [k \in DOMAIN s |-> [conv |-> q, call |-> s[k]]]
    /\ UNCHANGED <<parent, tracking, providers, sent, query, requested, started, answers>>

(* ... and without: the turn ends, and a side conversation with it; its     *)
(* result goes to the extension that asked.                                *)
RespondWithText(q) ==
    /\ Idle
    /\ turn_state[q] = "thinking"
    /\ turn_state' = [turn_state EXCEPT ![q] = IF q = Default THEN "idle" ELSE "none"]
    /\ parent' = [parent EXCEPT ![q] = None]
    /\ query' = IF q = Default THEN query ELSE [query EXCEPT ![parent[q]] = "answered"]
    /\ UNCHANGED <<remaining_calls, pending_tool_invocations, tracking, providers, work,
                   sent, fresh, history>>

(* A provider that was sent a delegate call asks for an agent: a side        *)
(* conversation that thinks at once.                                       *)
ExtAgentQuery(d, q) ==
    /\ Idle
    /\ ToolOf[d] \in Delegates
    /\ sent[d] \in connected
    /\ query[d] = "none"
    /\ turn_state[q] = "none"
    /\ turn_state' = [turn_state EXCEPT ![q] = "thinking"]
    /\ parent' = [parent EXCEPT ![q] = d]
    /\ query' = [query EXCEPT ![d] = "asked"]
    /\ UNCHANGED <<remaining_calls, pending_tool_invocations, tracking, providers, work,
                   sent, fresh, history>>

(* A provider answers a call it was sent, once or again; a delegate answers  *)
(* when its agent has.  The result of a call that is not tracked is        *)
(* discarded.                                                              *)
MayAnswer(d) ==
    /\ sent[d] \in connected
    /\ ToolOf[d] \in Delegates => query[d] = "answered"

ToolResult(d) ==
    /\ Idle
    /\ MayAnswer(d)
    /\ tool_conversations[d] # None
    /\ answers' = [answers EXCEPT ![d] = @ + 1]
    /\ work' = Completion(d)
    /\ UNCHANGED <<turns, pending_tool_invocations, tracking, providers, outside,
                   emitted, requested, started>>

DuplicateResult(d) ==
    /\ Idle
    /\ MayAnswer(d)
    /\ tool_conversations[d] = None
    /\ UNCHANGED vars

(* A tool.request of an extension: tracked for the default conversation and  *)
(* routed at once, outside the queue.                                      *)
ToolRequest(d) ==
    /\ Idle
    /\ d \in fresh
    /\ ToolOf[d] \notin Inline \cup Delegates
    /\ fresh' = fresh \ {d}
    /\ requested' = requested \cup {d}
    /\ \/ /\ HasProvider(ToolOf[d])
          /\ tool_conversations' = [tool_conversations EXCEPT ![d] = Default]
          /\ pending_tool_providers' =
                [pending_tool_providers EXCEPT ![d] = Head(providers_by_tool[ToolOf[d]])]
          /\ sent' = [sent EXCEPT ![d] = Head(providers_by_tool[ToolOf[d]])]
          /\ UNCHANGED answers
       \/ /\ ~HasProvider(ToolOf[d])
          /\ answers' = [answers EXCEPT ![d] = @ + 1]
          /\ UNCHANGED <<tool_conversations, pending_tool_providers, sent>>
    /\ UNCHANGED <<turns, pending_tool_invocations, in_flight_tool_kinds, providers, work,
                   query, emitted, started>>

(* handle_disconnect of a provider: its calls fail, in the order of a hash   *)
(* map, and only then does it leave the registry.                          *)
Disconnect(c) ==
    /\ Idle
    /\ c \in connected \cap Mortal
    /\ \E s \in SetToSeqs({d \in Calls : pending_tool_providers[d] = c}) :
          work' = [k \in DOMAIN s |-> Do("fail", s[k])] \o
                  <<[op |-> "gone", call |-> None, conn |-> c]>>
    /\ UNCHANGED <<turns, pending_tool_invocations, tracking, providers, outside, history>>

(* The positions in a set, in ascending order (one such sequence). *)
Increasing(S) ==
    {f \in [1..Cardinality(S) -> S] : \A j, k \in 1..Cardinality(S) : j < k => f[j] < f[k]}

(* handle_cancel_prompt: only a prompt in flight can be cancelled. *)
CancelPrompt ==
    /\ Idle
    /\ turn_state[Default] = "thinking"
    /\ turn_state' = [turn_state EXCEPT ![Default] = "idle"]
    /\ \E f \in Increasing({k \in DOMAIN pending_tool_invocations :
                              pending_tool_invocations[k].conv # Default}) :
          pending_tool_invocations' = [k \in DOMAIN f |-> pending_tool_invocations[f[k]]]
    /\ tool_conversations' =
          [d \in Calls |-> IF d \in Queued(Default) THEN None ELSE tool_conversations[d]]
    /\ pending_tool_providers' =
          [d \in Calls |-> IF d \in Queued(Default) THEN None ELSE pending_tool_providers[d]]
    /\ UNCHANGED <<remaining_calls, parent, in_flight_tool_kinds, providers, work, outside, history>>

(* Fault: the calls of the old session stay tracked. *)
SwitchKeepingCalls ==
    /\ Idle
    /\ Switches
    /\ turn_state' = [q \in Convs |-> IF q = Default THEN "idle" ELSE "none"]
    /\ remaining_calls' = [q \in Convs |-> {}]
    /\ parent' = [q \in Convs |-> None]
    /\ pending_tool_invocations' = <<>>
    /\ emitted' = <<>>
    /\ requested' = {}
    /\ started' = <<>>
    /\ UNCHANGED <<tracking, providers, work, outside, answers>>

(* switch_session: everything but in_flight_tool_kinds starts anew. *)
SwitchSession ==
    /\ Idle
    /\ Switches
    /\ turn_state' = [q \in Convs |-> IF q = Default THEN "idle" ELSE "none"]
    /\ remaining_calls' = [q \in Convs |-> {}]
    /\ parent' = [q \in Convs |-> None]
    /\ pending_tool_invocations' = <<>>
    /\ tool_conversations' = [d \in Calls |-> None]
    /\ pending_tool_providers' = [d \in Calls |-> None]
    /\ emitted' = <<>>
    /\ requested' = {}
    /\ started' = <<>>
    /\ UNCHANGED <<in_flight_tool_kinds, providers, work, outside, answers>>

-----------------------------------------------------------------------------
Responses == UNION {{s \in [1..n -> fresh] : \A j, k \in 1..n : s[j] = s[k] => j = k} : n \in 1..MaxCalls}

Handler == Drain \/ DrainEnd \/ Done \/ CompleteTurn \/ ClearTracking \/ FailCall \/ Gone

Next ==
    \/ Handler
    \/ \E c \in Conns, t \in Tools : ToolRegister(c, t)
    \/ Prompt
    \/ \E q \in Convs : RespondWithText(q) \/ \E s \in Responses : RespondWithCalls(q, s)
    \/ \E d \in Calls, q \in Convs : ExtAgentQuery(d, q)
    \/ \E d \in Calls : ToolResult(d) \/ DuplicateResult(d) \/ ToolRequest(d)
    \/ \E c \in Conns : Disconnect(c)
    \/ CancelPrompt
    \/ SwitchSession

(* The handler that runs goes on.  Some agent that thinks responds with text  *)
(* in the end, some delegate that was called asks for its agent, and some    *)
(* call that can be answered is: each can happen only so often in a turn,    *)
(* so that this weak a promise is enough.                                  *)
Fairness ==
    /\ WF_vars(Handler)
    /\ SF_vars(\E q \in Convs : RespondWithText(q))
    /\ SF_vars(\E d \in Calls, q \in Convs : ExtAgentQuery(d, q))
    /\ SF_vars(\E d \in Calls : ToolResult(d))

Spec == Init /\ [][Next]_vars /\ Fairness

-----------------------------------------------------------------------------
(* A mutating call runs alone in its conversation, through every nesting of  *)
(* completions and drains (the comment on drain_pending_tool_invocations).  *)
MutatingRunsAlone ==
    \A q \in Convs : \A d, e \in InFlightFor(q) :
        d # e => in_flight_tool_kinds[d] = "pure" /\ in_flight_tool_kinds[e] = "pure"

(* The calls of a conversation start in the order its agent emitted them,    *)
(* whatever the other conversations' calls do in the shared queue.         *)
StartedInOrder ==
    \A j, k \in DOMAIN started : \A m, n \in DOMAIN emitted :
        /\ j < k
        /\ emitted[m].call = started[j]
        /\ emitted[n].call = started[k]
        /\ emitted[m].conv = emitted[n].conv
        => m < n

(* Between two frames nothing is left in the queue that could run. *)
NothingStartableIsLeft == Idle => Startable = {}

(* The queue is served in order and as far as the rule allows                *)
(* (drain_pending_tool_invocations).                                       *)
QueueIsServed == StartedInOrder /\ NothingStartableIsLeft

(* Between two frames a turn waits for exactly the calls that are queued or  *)
(* in flight, each at a provider; and only such a turn has any.            *)
TurnWaitsForItsCalls ==
    Idle => \A q \in Convs :
        /\ Queued(q) \cap InFlightFor(q) = {}
        /\ IF turn_state[q] = "tools"
           THEN remaining_calls[q] # {} /\ remaining_calls[q] = Queued(q) \cup InFlightFor(q)
           ELSE Queued(q) = {} /\ InFlightFor(q) = {}
        /\ \A d \in InFlightFor(q) : pending_tool_providers[d] # None

(* The agent is prompted again, or its turn ends, only when every call it    *)
(* made has its result: no tool use without a tool result in the prompt.    *)
PromptedWithResults ==
    \A k \in DOMAIN emitted :
        turn_state[emitted[k].conv] # "tools" => answers[emitted[k].call] = 1

(* A call gets at most one result: a result after a failure, a failure after *)
(* a result and a second result are all discarded.                         *)
AnsweredOnce == \A d \in Calls : answers[d] <= 1

(* A turn waits for what it called, each call is answered once, and the next  *)
(* prompt has all the results (record_tool_completion, maybe_complete_turn).  *)
TurnsAreWhole == TurnWaitsForItsCalls /\ PromptedWithResults /\ AnsweredOnce

(* The calls of an earlier session are forgotten: their late results cannot  *)
(* touch the turns of the new one.                                         *)
OldCallsAreForgotten ==
    LET current == requested \cup {emitted[k].call : k \in DOMAIN emitted}
    IN  /\ \A d \in Calls : tool_conversations[d] # None => d \in current
        /\ \A q \in Convs : remaining_calls[q] \cup Queued(q) \subseteq current

(* The calls a provider took along when it went: handle_disconnect failed     *)
(* another call of that provider, whose completion started these on it.     *)
Stranded ==
    {d \in Calls :
        /\ in_flight_tool_kinds[d] # "none"
        /\ pending_tool_providers[d] \in Conns \ connected
        /\ \E e \in Calls \ {d} : sent[e] = sent[d] /\ answers[e] = 1}

(* Every turn ends: agents that wait for agents that wait for tools do not   *)
(* wait in a circle, since the rule is per conversation (the comment on     *)
(* has_mutating_in_flight_for: "otherwise delegate deadlocks itself"), and  *)
(* a provider that goes away is waited for only by what was started on it   *)
(* while it went (fail_pending_tool_calls_for_connection).                  *)
TurnsEnd ==
    \A q \in Convs : (turn_state[q] = "tools") ~> (turn_state[q] # "tools" \/ Stranded # {})

=============================================================================
