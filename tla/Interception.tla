---------------------------- MODULE Interception ----------------------------
(***************************************************************************)
(* The publish pipeline of the harness                                     *)
(* (src/crates/tau-harness/src/harness/interception.rs): every event that  *)
(* a handler publishes is offered, in priority order, to the extensions    *)
(* that registered for it, and is appended to the event log once they have *)
(* all let it pass.  One publish at a time waits for an interceptor; the   *)
(* publishes made meanwhile are deferred in a queue.                       *)
(*                                                                         *)
(* The harness is one thread: a handler runs to its end before the next    *)
(* frame is read.  A handler is modelled as the list of publishes it still *)
(* has to make (todo) followed, for a reply or a disconnect, by the drain  *)
(* of the deferred queue (draining); each publish is one step, because the *)
(* commit of an event may publish again, in the middle of the handler      *)
(* (react_to_committed_event).  Frames are handled when todo is empty and  *)
(* nothing drains.                                                         *)
(***************************************************************************)
EXTENDS Naturals, Sequences

CONSTANTS
    Conns,          \* connections of extensions
    Names,          \* event names
    MustPass,       \* MUST_PASS_BY_DEFAULT; every call site passes must_pass = false
    Registrations,  \* what an Intercept message may carry: [priority, exact, prefix]
    Batches,        \* what one handler may publish: sequences of names
    Reactions,      \* name -> what react_to_committed_event may publish: sequences of names
    CompRank,       \* order of the connections' component names
    ConnRank,       \* order of the connection ids
    MaxPublished,   \* bound on the publishes handlers make
    NoIntercept     \* pending_intercept = None, and a lookup without a cursor

(* One registration; a prefix selector is the set of the names it matches. *)
Registration == [priority : Nat, exact : SUBSET Names, prefix : SUBSET Names]

(* No selectors, which the registry treats as no registration. *)
NoRegistration == [priority |-> 0, exact |-> {}, prefix |-> {}]

(* An event: which publish it is, its name, and who wrote its payload. *)
Event == [id : Nat, name : Names, author : Conns \cup {"publisher"}]

(* The event that waits, for whom, and at which priority: the last two are  *)
(* the cursor of the next lookup.                                          *)
PendingIntercept == [conn : Conns, event : Event, priority : Nat]

Request == [id : Nat, conn : Conns, priority : Nat]

ASSUME InterceptionAssumption ==
    /\ MustPass \subseteq Names
    /\ Registrations \subseteq Registration
    /\ Batches \subseteq Seq(Names)
    /\ Reactions \in [Names -> SUBSET Seq(Names)]
    /\ CompRank \in [Conns -> Nat]
    /\ ConnRank \in [Conns -> Nat]
    /\ \A c, d \in Conns : ConnRank[c] = ConnRank[d] => c = d
    /\ MaxPublished \in Nat
    /\ NoIntercept \notin PendingIntercept

VARIABLES
    connected,      \* connections on the bus
    registry,       \* InterceptorRegistry: what each connection registered last
    pending,        \* Harness::pending_intercept
    deferred,       \* Harness::deferred_publishes
    log,            \* the event log
    todo,           \* names the running handler has still to publish
    draining,       \* the running handler ends in drain_deferred_publishes
    published,      \* history: the name of each publish, in the order of the calls
    dropped,        \* history: the events an interceptor dropped
    asked           \* history: the InterceptRequests sent

vars == <<connected, registry, pending, deferred, log, todo, draining, published, dropped, asked>>

TypeOK ==
    /\ connected \subseteq Conns
    /\ registry \in [Conns -> Registration]
    /\ pending \in PendingIntercept \cup {NoIntercept}
    /\ deferred \in Seq(Event)
    /\ log \in Seq(Event)
    /\ todo \in Seq(Names)
    /\ draining \in BOOLEAN
    /\ published \in Seq(Names)
    /\ dropped \subseteq Event
    /\ asked \in Seq(Request)

Init ==
    /\ connected = Conns
    /\ registry = [c \in Conns |-> NoRegistration]
    /\ pending = NoIntercept
    /\ deferred = <<>>
    /\ log = <<>>
    /\ todo = <<>>
    /\ draining = FALSE
    /\ published = <<>>
    /\ dropped = {}
    /\ asked = <<>>

(* The harness is between two frames. *)
Idle == todo = <<>> /\ ~draining

(* The connection that owes the harness a reply. *)
Owes(c) == pending # NoIntercept /\ pending.conn = c

-----------------------------------------------------------------------------
(* InterceptorRegistry::next_for *)

(* The order of the registrations (Ord for InterceptorRegistration). *)
Precedes(reg, c, d) ==
    \/ reg[c].priority < reg[d].priority
    \/ /\ reg[c].priority = reg[d].priority
       /\ \/ CompRank[c] < CompRank[d]
          \/ CompRank[c] = CompRank[d] /\ ConnRank[c] < ConnRank[d]

(* Fault: the cursor lets the interceptor that just replied through again. *)
PastOrAt(reg, cursor, c) ==
    \/ cursor = NoIntercept
    \/ cursor.priority < reg[c].priority
    \/ cursor.priority = reg[c].priority /\ ConnRank[cursor.conn] <= ConnRank[c]

(* Strictly past the cursor, which compares connection ids where the order  *)
(* of the registrations compares component names.                          *)
Past(reg, cursor, c) ==
    \/ cursor = NoIntercept
    \/ cursor.priority < reg[c].priority
    \/ cursor.priority = reg[c].priority /\ ConnRank[cursor.conn] < ConnRank[c]

(* Fault: prefix selectors count only where there is no exact one at all. *)
CandidatesOfOneKind(reg, name, cursor) ==
    LET past == {c \in Conns : Past(reg, cursor, c)}
    IN  IF \E c \in Conns : name \in reg[c].exact
        THEN {c \in past : name \in reg[c].exact}
        ELSE {c \in past : name \in reg[c].prefix}

(* Who may be asked next: prefix selectors count only when no exact one is  *)
(* left.                                                                   *)
Candidates(reg, name, cursor) ==
    LET past == {c \in Conns : Past(reg, cursor, c)}
        exact == {c \in past : name \in reg[c].exact}
    IN  IF exact # {} THEN exact ELSE {c \in past : name \in reg[c].prefix}

FirstOf(reg, candidates) ==
    {c \in candidates : \A d \in candidates : c = d \/ Precedes(reg, c, d)}

-----------------------------------------------------------------------------
(* dispatch_publish_step: ask the next interceptor, or commit.  The commit  *)
(* runs the reaction before the handler's other publishes (rest).          *)

(* Fault: the cursor is kept one below the priority that was asked. *)
ParkBelow(reg, e, cursor, rest) ==
    \E c \in FirstOf(reg, Candidates(reg, e.name, cursor)) :
        /\ pending' = [conn |-> c, event |-> e, priority |-> reg[c].priority - 1]
        /\ asked' = Append(asked, [id |-> e.id, conn |-> c, priority |-> reg[c].priority])
        /\ todo' = rest
        /\ UNCHANGED log

Park(reg, e, cursor, rest) ==
    \E c \in FirstOf(reg, Candidates(reg, e.name, cursor)) :
        /\ pending' = [conn |-> c, event |-> e, priority |-> reg[c].priority]
        /\ asked' = Append(asked, [id |-> e.id, conn |-> c, priority |-> reg[c].priority])
        /\ todo' = rest
        /\ UNCHANGED log

Commit(reg, e, cursor, rest) ==
    /\ Candidates(reg, e.name, cursor) = {}
    /\ pending' = NoIntercept
    /\ log' = Append(log, e)
    /\ \E reaction \in Reactions[e.name] : todo' = reaction \o rest
    /\ UNCHANGED asked

DispatchStep(reg, e, cursor, rest) ==
    Park(reg, e, cursor, rest) \/ Commit(reg, e, cursor, rest)

-----------------------------------------------------------------------------
(* Frames *)

(* A handler that publishes, and nothing else this module knows of. *)
Handle(batch) ==
    /\ Idle
    /\ Len(published) + Len(batch) <= MaxPublished
    /\ todo' = batch
    /\ UNCHANGED <<connected, registry, pending, deferred, log, draining, published, dropped, asked>>

(* Intercept: replace_for_connection. *)
Register(c, r) ==
    /\ Idle
    /\ c \in connected
    /\ registry' = [registry EXCEPT ![c] = r]
    /\ UNCHANGED <<connected, pending, deferred, log, todo, draining, published, dropped, asked>>

(* What a reply makes of the waiting event: a replacement of another name,  *)
(* and the drop of a must-pass event, leave the original.                  *)
Replied(p, action) ==
    IF action = "rewrite" THEN [p.event EXCEPT !.author = p.conn] ELSE p.event

(* Fault: anybody's reply is taken for the one that is waited for. *)
ReplyFromAnyone(c, action) ==
    /\ Idle
    /\ c \in connected
    /\ pending # NoIntercept
    /\ draining' = TRUE
    /\ DispatchStep(registry, Replied([pending EXCEPT !.conn = c], action), pending, <<>>)
    /\ UNCHANGED <<connected, registry, deferred, published, dropped>>

(* handle_intercept_reply by the connection that is waited for. *)
Reply(c, action) ==
    /\ Idle
    /\ c \in connected
    /\ Owes(c)
    /\ draining' = TRUE
    /\ \/ /\ action = "drop"
          /\ pending.event.name \notin MustPass
          /\ dropped' = dropped \cup {pending.event}
          /\ pending' = NoIntercept
          /\ UNCHANGED <<log, todo, asked>>
       \/ /\ action # "drop" \/ pending.event.name \in MustPass
          /\ DispatchStep(registry, Replied(pending, action), pending, <<>>)
          /\ UNCHANGED dropped
    /\ UNCHANGED <<connected, registry, deferred, published>>

(* handle_intercept_reply by anyone else, or when nothing waits: ignored. *)
StrayReply(c) ==
    /\ Idle
    /\ c \in connected
    /\ ~Owes(c)
    /\ UNCHANGED vars

(* Fault: a publish goes on waiting for a connection that went away. *)
DisconnectOnly(c) ==
    /\ Idle
    /\ c \in connected
    /\ connected' = connected \ {c}
    /\ registry' = [registry EXCEPT ![c] = NoRegistration]
    /\ UNCHANGED <<pending, deferred, log, todo, draining, published, dropped, asked>>

(* handle_disconnect: the registrations go first, then a publish that waits *)
(* for this connection goes on as if it had been passed.                   *)
Disconnect(c) ==
    /\ Idle
    /\ c \in connected
    /\ connected' = connected \ {c}
    /\ registry' = [registry EXCEPT ![c] = NoRegistration]
    /\ \/ /\ Owes(c)
          /\ draining' = TRUE
          /\ DispatchStep(registry', pending.event, pending, <<>>)
       \/ /\ ~Owes(c)
          /\ UNCHANGED <<pending, log, todo, draining, asked>>
    /\ UNCHANGED <<deferred, published, dropped>>

-----------------------------------------------------------------------------
(* Inside a handler *)

(* Fault: what nobody intercepts is committed past a publish that waits. *)
EnqueuePastPending ==
    /\ todo # <<>>
    /\ LET e == [id |-> Len(published) + 1, name |-> Head(todo), author |-> "publisher"]
           free == Candidates(registry, Head(todo), NoIntercept) = {}
       IN  \/ /\ pending # NoIntercept
              /\ deferred' = IF free THEN deferred ELSE Append(deferred, e)
              /\ log' = IF free THEN Append(log, e) ELSE log
              /\ todo' = Tail(todo)
              /\ UNCHANGED <<pending, asked>>
           \/ /\ pending = NoIntercept
              /\ DispatchStep(registry, e, NoIntercept, Tail(todo))
              /\ UNCHANGED deferred
    /\ published' = Append(published, Head(todo))
    /\ UNCHANGED <<connected, registry, draining, dropped>>

(* enqueue_publish of the next event of the handler or of a reaction. *)
EnqueuePublish ==
    /\ todo # <<>>
    /\ LET e == [id |-> Len(published) + 1, name |-> Head(todo), author |-> "publisher"]
       IN  \/ /\ pending # NoIntercept
              /\ deferred' = Append(deferred, e)
              /\ todo' = Tail(todo)
              /\ UNCHANGED <<pending, log, asked>>
           \/ /\ pending = NoIntercept
              /\ DispatchStep(registry, e, NoIntercept, Tail(todo))
              /\ UNCHANGED deferred
    /\ published' = Append(published, Head(todo))
    /\ UNCHANGED <<connected, registry, draining, dropped>>

(* Fault: the queue is read without being popped. *)
DrainPeek ==
    /\ draining
    /\ todo = <<>>
    /\ pending = NoIntercept
    /\ deferred # <<>>
    /\ DispatchStep(registry, Head(deferred), NoIntercept, <<>>)
    /\ UNCHANGED <<connected, registry, deferred, draining, published, dropped>>

(* Fault: one deferred publish is taken per reply. *)
DrainFirst ==
    /\ draining
    /\ todo = <<>>
    /\ pending = NoIntercept
    /\ deferred # <<>>
    /\ deferred' = Tail(deferred)
    /\ draining' = FALSE
    /\ DispatchStep(registry, Head(deferred), NoIntercept, <<>>)
    /\ UNCHANGED <<connected, registry, published, dropped>>

(* One turn of the loop of drain_deferred_publishes. *)
DrainNext ==
    /\ draining
    /\ todo = <<>>
    /\ pending = NoIntercept
    /\ deferred # <<>>
    /\ deferred' = Tail(deferred)
    /\ DispatchStep(registry, Head(deferred), NoIntercept, <<>>)
    /\ UNCHANGED <<connected, registry, draining, published, dropped>>

DrainEnd ==
    /\ draining
    /\ todo = <<>>
    /\ pending # NoIntercept \/ deferred = <<>>
    /\ draining' = FALSE
    /\ UNCHANGED <<connected, registry, pending, deferred, log, todo, published, dropped, asked>>

-----------------------------------------------------------------------------
Actions == {"pass", "rewrite", "rename", "drop"}

Answer(c) == Disconnect(c) \/ \E action \in Actions : Reply(c, action)

Next ==
    \/ \E batch \in Batches : Handle(batch)
    \/ \E c \in Conns, r \in Registrations : Register(c, r)
    \/ \E c \in Conns : Answer(c) \/ StrayReply(c)
    \/ EnqueuePublish \/ DrainNext \/ DrainEnd

(* The handler that runs goes on running; an interceptor that owes a reply  *)
(* replies or goes away (the harness has no timeout of its own), and its    *)
(* frame is read in the end whatever else the harness handles before it.   *)
Fairness ==
    /\ WF_vars(EnqueuePublish \/ DrainNext \/ DrainEnd)
    /\ \A c \in Conns : SF_vars(Owes(c) /\ Answer(c))

Spec == Init /\ [][Next]_vars /\ Fairness

-----------------------------------------------------------------------------
Ids(s) == {s[k].id : k \in DOMAIN s}

PendingIds == IF pending = NoIntercept THEN {} ELSE {pending.event.id}

DroppedIds == {e.id : e \in dropped}

Distinct(s) == \A k, l \in DOMAIN s : s[k].id = s[l].id => k = l

(* Nothing is lost and nothing is made up: every publish, whatever was      *)
(* deferred, rewritten, dropped or interrupted by a disconnect, is in the   *)
(* log, waits for a reply, is deferred, or was dropped.                    *)
NothingLost == DOMAIN published = Ids(log) \cup Ids(deferred) \cup PendingIds \cup DroppedIds

(* Nothing is repeated: no publish is in two places at once, so an event is *)
(* never committed twice, nor committed after it was dropped.              *)
NothingRepeated ==
    /\ Distinct(log)
    /\ Distinct(deferred)
    /\ Ids(log) \cap Ids(deferred) = {}
    /\ PendingIds \cap (Ids(log) \cup Ids(deferred)) = {}
    /\ DroppedIds \cap (Ids(log) \cup Ids(deferred) \cup PendingIds) = {}

(* Each publish is in exactly one place (enqueue_publish, the replies,        *)
(* fail_pending_intercept_for_disconnect, drain_deferred_publishes).        *)
EachPublishOnce == NothingLost /\ NothingRepeated

(* An interceptor cannot change what kind of event is committed, and cannot *)
(* take away a must-pass one (MUST_PASS_BY_DEFAULT; the check on the name   *)
(* of a replacement).                                                      *)
KindIsKept ==
    /\ \A k \in DOMAIN log : log[k].id \in DOMAIN published /\ log[k].name = published[log[k].id]
    /\ \A i \in DroppedIds : i \in DOMAIN published /\ published[i] \notin MustPass

(* Extensions cannot wedge the harness by going away mid-reply (the comment *)
(* on fail_pending_intercept_for_disconnect): a waiting publish waits for a *)
(* connection that is still there.                                         *)
NobodyWaitsForTheGone == pending # NoIntercept => pending.conn \in connected

(* Between two frames nothing is left in the deferred queue unless an       *)
(* interception holds it up: the next publish cannot overtake it.          *)
DeferredIsHeldUp == Idle /\ deferred # <<>> => pending # NoIntercept

(* The pipeline is held up by a live interceptor or not at all              *)
(* (fail_pending_intercept_for_disconnect, drain_deferred_publishes).       *)
NobodyIsWedged == NobodyWaitsForTheGone /\ DeferredIsHeldUp

(* What handlers publish reaches the log in the order of the publish calls, *)
(* however long some of it waited; only what a commit publishes in reaction *)
(* may overtake deferred events.                                           *)
ReactionNames == UNION {{r[k] : k \in DOMAIN r} : r \in UNION {Reactions[n] : n \in Names}}

HandlerOrderIsKept ==
    \A k, l \in DOMAIN log :
        k < l /\ {log[k].name, log[l].name} \cap ReactionNames = {} => log[k].id < log[l].id

(* Whatever the payload of a committed or waiting event says was written by *)
(* its publisher or by an interceptor that was asked about this very event. *)
AuthorWasAsked ==
    LET Seen == {log[k] : k \in DOMAIN log} \cup
                (IF pending = NoIntercept THEN {} ELSE {pending.event})
    IN  \A e \in Seen : e.author # "publisher" =>
            \E k \in DOMAIN asked : asked[k].id = e.id /\ asked[k].conn = e.author

(* An interceptor changes what it was asked about and what it may change    *)
(* (handle_intercept_reply).                                               *)
RepliesAreMatched == KindIsKept /\ AuthorWasAsked

(* The k-th request is no repetition. *)
IsAskedOnce(k) == \A i \in DOMAIN asked : asked[i] = asked[k] => i = k

(* The chain of the k-th event of the log got as far as whoever is           *)
(* registered for it now.                                                  *)
EveryoneIsReached(k) ==
    \A c \in Conns : log[k].name \in registry[c].exact \cup registry[c].prefix =>
        \E i \in DOMAIN asked : /\ asked[i].id = log[k].id
                                /\ asked[i].priority >= registry[c].priority

(* The chain of an event is walked once and to its end, however the           *)
(* registrations of both kinds come and go since it was published: nobody   *)
(* is asked about it twice at one priority, so that no event goes round,    *)
(* and it is committed only when no interceptor that has registered for it  *)
(* is left at a later priority (next_for, dispatch_publish_step).           *)
ChainIsWalked ==
    [][/\ \A k \in DOMAIN asked' \ DOMAIN asked : IsAskedOnce(k)'
       /\ \A k \in DOMAIN log' \ DOMAIN log : EveryoneIsReached(k)']_vars

(* Every publish is settled in the end, if every interceptor that is asked  *)
(* replies or disconnects.                                                 *)
EveryPublishSettles ==
    \A i \in 1..(2 * MaxPublished) : (i \in DOMAIN published) ~> (i \in Ids(log) \cup DroppedIds)

=============================================================================
