---------------------------- MODULE SessionStore ----------------------------
(***************************************************************************)
(* The durable session log and what is derived from it                     *)
(* (src/crates/tau-core/src/session.rs and session_store.rs, and the parts  *)
(* of src/crates/tau-harness/src/harness.rs, dedup.rs and                   *)
(* session_cleanup.rs that use them).  Daemons share a directory of         *)
(* sessions.  Each session is a log of records; the daemon that holds its   *)
(* lock folds what it appends into a tree, keeps for each conversation a    *)
(* head into that tree, and a map of the tool results on its branch with    *)
(* which it replaces a repeated result by a pointer.                        *)
(*                                                                         *)
(* Wording, encoding and file names are left out; an event is known by its  *)
(* number.  A record is written by a system call for its length and one for *)
(* its payload: a daemon killed between them, or a write that fails, leaves *)
(* part of a record.  The publishes of one handler of the harness are one   *)
(* action.                                                                 *)
(***************************************************************************)
EXTENDS Naturals, Sequences, FiniteSets, SequencesExt, TLC

CONSTANTS
    Harnesses,      \* daemons
    Sessions,
    Default,        \* default_conversation_id
    Delegates,      \* side conversations of a tool call: they start at the root
    Summaries,      \* the other side conversations: they start at the default's head
    Contents,       \* what tools return
    Small,          \* contents shorter than DEFAULT_THRESHOLD_BYTES
    Failures,       \* of "write", "meta" and "dropped": how a publish may fail
    Races,          \* whether a daemon may act between another's load and lock
    LongIdle,       \* whether a session may be idle for the retention while it is held
    ReusesIds,      \* whether "new" may name a session that has a log
    MaxEvents,      \* bound on the events of a run
    None

Convs == {Default} \cup Delegates \cup Summaries
Sides == Delegates \cup Summaries

ASSUME SessionStoreAssumption ==
    /\ Default \notin Sides
    /\ Small \subseteq Contents
    /\ Failures \subseteq {"write", "meta", "dropped"}
    /\ {Races, LongIdle, ReusesIds} \subseteq BOOLEAN
    /\ MaxEvents \in Nat
    /\ None \notin Harnesses \cup Sessions \cup Contents

Folding == {"message", "result", "pointer"}

(* of is the number of the event and, for a result, of the call; content what *)
(* the tool returned, also where a pointer to the result same_as stands for   *)
(* it; node the target of a navigation.                                       *)
Event == {e \in [what : Folding \cup {"navigate", "note"}, of : Nat,
                content : Contents \cup {None}, same_as : Nat, node : Nat] :
             e.what \in {"result", "pointer"} <=> e.content # None}

Message(n) == [what |-> "message", of |-> n, content |-> None, same_as |-> 0, node |-> 0]
Note(n) == [Message(n) EXCEPT !.what = "note"]
NavigateTo(n, node) == [Message(n) EXCEPT !.what = "navigate", !.node = node]

(* A fold parent: <<>> is "inherit the head", <<0>> the root, <<n>> node n.    *)
Parent == {<<>>} \cup {<<n>> : n \in 0..MaxEvents}

Record == [id : Nat, event : Event, parent : Parent \ {<<0>>}, whole : {"yes", "short", "cut"}]

VARIABLES
    log,        \* events.cbor of each session
    lock,       \* the daemon whose flock is on the lock file of the session
    pc,         \* "off", "loaded" (not locked yet), "running"
    current,    \* current_session_id of each daemon
    holds,      \* SessionStore::locks of each daemon
    trees,      \* SessionStore::sessions of each daemon: session -> tree
    open,       \* the conversations of each daemon
    head,       \* of each conversation: a node, 0 for none
    dedup,      \* ResultDedupMap of each conversation
    said,       \* history: the number of events so far
    acked,      \* history: the events of each session whose append succeeded
    mine,       \* history: what the default conversation said in each session
    astray      \* history: "no", "moved" when something else moved the session's head
                \* since, "forked" when a daemon came back to a branch that is another
                \* in the log

disk == <<log, lock>>
memory == <<pc, current, holds, trees, open, head, dedup>>
history == <<said, acked, mine, astray>>
vars == <<log, lock, pc, current, holds, trees, open, head, dedup,
          said, acked, mine, astray>>

-----------------------------------------------------------------------------
(* SessionTree                                                             *)

EmptyTree == [nodes |-> <<>>, head |-> 0, next |-> 0]

(* apply_event_at *)
Apply(tree, parent, event) ==
    CASE event.what \in Folding ->
            [tree EXCEPT !.nodes = Append(@, [parent |-> IF parent = <<>> THEN tree.head ELSE parent[1],
                                              entry |-> event]),
                         !.head = Len(tree.nodes) + 1]
      [] event.what = "navigate" /\ event.node \in DOMAIN tree.nodes ->
            [tree EXCEPT !.head = event.node]
      [] OTHER -> tree

(* Some(None) and None are the same on disk.                                  *)
Flatten(parent) == IF parent = <<0>> THEN <<>> ELSE parent

(* A record and the tree before it; what is left of a record is skipped.       *)
Read(tree, r) ==
    IF r.whole = "yes" THEN [Apply(tree, r.parent, r.event) EXCEPT !.next = r.id + 1] ELSE tree

(* from_events *)
Replay(records) ==
    LET read[n \in 0..Len(records)] ==
            IF n = 0 THEN EmptyTree ELSE Read(read[n - 1], records[n])
    IN read[Len(records)]

(* read_cbor_records: a length cut short at the end is the end of the log.     *)
Readable(records) ==
    \A i \in DOMAIN records :
        \/ records[i].whole = "yes"
        \/ records[i].whole = "short" /\ i = Len(records)

(* branch_from *)
Branch(tree, node) ==
    LET up[n \in 0..Len(tree.nodes)] ==
            IF n = 0 THEN <<>> ELSE Append(up[tree.nodes[n].parent], tree.nodes[n].entry)
    IN up[node]

-----------------------------------------------------------------------------
(* ResultDedupMap                                                          *)

NoMap == [first |-> <<>>, built_for |-> 0]

IsFull(entry) == entry.what = "result" /\ entry.content \notin Small

(* rebuild_from_branch: the first call of each content on the branch.          *)
Rebuilt(branch, node) ==
    LET full == {i \in DOMAIN branch : IsFull(branch[i])}
        first(x) == CHOOSE i \in full :
                        /\ branch[i].content = x
                        /\ \A j \in full : branch[j].content = x => i <= j
    IN [first |-> [x \in {branch[i].content : i \in full} |-> branch[first(x)].of],
        built_for |-> node]

(* ensure_dedup_built_for_branch *)
Built(h, c) ==
    IF dedup[h][c].built_for = head[h][c] THEN dedup[h][c]
    ELSE Rebuilt(Branch(trees[h][current[h]], head[h][c]), head[h][c])

(* HashMap::insert *)
Insert(f, x, y) == [z \in DOMAIN f \cup {x} |-> IF z = x THEN y ELSE f[z]]

(* dedup_tool_result, dedup_tool_error *)
Intake(map, call, x) ==
    LET result == [Message(call) EXCEPT !.what = "result", !.content = x] IN
    IF x \in Small THEN [map |-> map, event |-> result]
    ELSE IF x \in DOMAIN map.first
    THEN [map |-> map,
          event |-> [result EXCEPT !.what = "pointer", !.same_as = map.first[x]]]
    ELSE [map |-> [map EXCEPT !.first = Insert(@, x, call)], event |-> result]

(* Fault: the map is taken for up to date with a node it was not built for.    *)
AdvancedAlways(map, node) == [map EXCEPT !.built_for = node]

(* note_head_advanced_to *)
Advanced(map, node) == IF map.built_for = 0 THEN map ELSE [map EXCEPT !.built_for = node]

-----------------------------------------------------------------------------
(* SessionStore                                                            *)

TreeOf(h, s) == IF s \in DOMAIN trees[h] THEN trees[h][s] ELSE Replay(log[s])

(* Fault: the fold parent is not stored.                                       *)
RecordWithoutParent(tree, parent, event, whole) ==
    [id |-> tree.next, event |-> event, parent |-> <<>>, whole |-> whole]

RecordOf(tree, parent, event, whole) ==
    [id |-> tree.next, event |-> event, parent |-> Flatten(parent), whole |-> whole]

(* append_session_event_at, once the lock is held and the tree loaded: what    *)
(* may become of the log and the tree.                                         *)
Appends(records, tree, parent, event) ==
    LET written(whole) == Append(records, RecordOf(tree, parent, event, whole))
        failed(r) == [log |-> r, tree |-> tree, ok |-> FALSE]
    IN {[log |-> written("yes"), ok |-> TRUE,
         tree |-> [Apply(tree, parent, event) EXCEPT !.next = @ + 1]]}
       \cup (IF "write" \in Failures
             THEN {failed(records), failed(written("short")), failed(written("cut"))} ELSE {})
       \cup (IF "meta" \in Failures THEN {failed(written("yes"))} ELSE {})
       \cup (IF "dropped" \in Failures THEN {failed(records)} ELSE {})

(* Fault: a failed flock is taken for a success.                               *)
MayLockAnyway(h, s) == TRUE

(* ensure_locked *)
MayLock(h, s) == s \in holds[h] \/ lock[s] = None
TakeLock(h, s) ==
    /\ lock' = [lock EXCEPT ![s] = IF s \in holds[h] THEN @ ELSE h]
    /\ holds' = [holds EXCEPT ![h] = @ \cup {s}]

(* The handlers of h run to their end, and no other daemon starts meanwhile    *)
(* unless Races.                                                               *)
Alone(h) == Races \/ \A g \in Harnesses \ {h} : pc[g] # "loaded"
Acts(h) == pc[h] = "running" /\ Alone(h)

TypeOK ==
    /\ log \in [Sessions -> Seq(Record)]
    /\ lock \in [Sessions -> Harnesses \cup {None}]
    /\ pc \in [Harnesses -> {"off", "loaded", "running"}]
    /\ current \in [Harnesses -> Sessions \cup {None}]
    /\ holds \in [Harnesses -> SUBSET Sessions]
    /\ \A h \in Harnesses :
        /\ DOMAIN trees[h] \subseteq Sessions
        /\ open[h] \subseteq Convs
        /\ \A c \in Convs : head[h][c] \in Nat /\ DOMAIN dedup[h][c].first \subseteq Contents \ Small
    /\ said \in 0..MaxEvents
    /\ acked \in [Sessions -> SUBSET (1..MaxEvents)]
    /\ astray \in [Sessions -> {"no", "moved", "forked"}]

Init ==
    /\ log = [s \in Sessions |-> <<>>]
    /\ lock = [s \in Sessions |-> None]
    /\ pc = [h \in Harnesses |-> "off"]
    /\ current = [h \in Harnesses |-> None]
    /\ holds = [h \in Harnesses |-> {}]
    /\ trees = [h \in Harnesses |-> <<>>]
    /\ open = [h \in Harnesses |-> {}]
    /\ head = [h \in Harnesses |-> [c \in Convs |-> 0]]
    /\ dedup = [h \in Harnesses |-> [c \in Convs |-> NoMap]]
    /\ said = 0
    /\ acked = [s \in Sessions |-> {}]
    /\ mine = [s \in Sessions |-> <<>>]
    /\ astray = [s \in Sessions |-> "no"]

-----------------------------------------------------------------------------
(* Publishing                                                              *)

(* commit_event of the event of number said + 1 for conversation c, whose map  *)
(* is map by now: the outcome o of its append.                                 *)
Committed(h, c, map, event, o) ==
    LET folded == o.ok /\ event.what \in Folding
        node == Len(o.tree.nodes)
    IN /\ head' = [head EXCEPT ![h][c] = IF folded THEN node ELSE @]
       /\ dedup' = [dedup EXCEPT ![h][c] = IF folded THEN Advanced(map, node) ELSE map]

(* What h appended to its session, and who said it.                            *)
Stored(h, o, tags) ==
    LET s == current[h] IN
    /\ log' = [log EXCEPT ![s] = o.log]
    /\ trees' = [trees EXCEPT ![h] = Insert(@, s, o.tree)]
    /\ acked' = [acked EXCEPT ![s] = @ \cup tags]

Strays(s, moved) ==
    astray' = [astray EXCEPT ![s] = IF @ = "forked" THEN @ ELSE IF moved THEN "moved" ELSE "no"]

Folded(s, c, event, o) ==
    LET folded == o.ok /\ event.what \in Folding IN
    /\ mine' = [mine EXCEPT ![s] = IF folded /\ c = Default THEN Append(@, event) ELSE @]
    /\ IF folded THEN Strays(s, c # Default) ELSE UNCHANGED astray

Tags(o, n) == IF o.ok THEN {n} ELSE {}

(* publish_for_conversation_from *)
PublishFor(h, c, map, event) ==
    LET s == current[h] IN
    \E o \in Appends(log[s], TreeOf(h, s), <<head[h][c]>>, event) :
        /\ Committed(h, c, map, event, o)
        /\ Stored(h, o, Tags(o, event.of))
        /\ Folded(s, c, event, o)
        /\ said' = said + 1
        /\ UNCHANGED <<lock, pc, current, holds>>

(* A prompt, an answer or a tool request of a conversation.                    *)
Say(h, c) ==
    /\ Acts(h) /\ c \in open[h] /\ said < MaxEvents
    /\ PublishFor(h, c, dedup[h][c], Message(said + 1))
    /\ UNCHANGED open

(* handle_extension_event: ToolResult, ToolError *)
ToolResult(h, c, x) ==
    /\ Acts(h) /\ c \in open[h] /\ said < MaxEvents
    /\ LET taken == Intake(Built(h, c), said + 1, x) IN
       PublishFor(h, c, taken.map, taken.event)
    /\ UNCHANGED open

(* handle_ext_agent_query: the side conversation and its instruction.  Its     *)
(* extension acts on something the default conversation did.                   *)
Ask(h, q) ==
    /\ Acts(h) /\ q \in Sides \ open[h] /\ head[h][Default] # 0 /\ said < MaxEvents
    /\ open' = [open EXCEPT ![h] = @ \cup {q}]
    /\ LET s == current[h]
           event == Message(said + 1)
           from == IF q \in Delegates THEN 0 ELSE head[h][Default]
       IN \E o \in Appends(log[s], TreeOf(h, s), <<from>>, event) :
            /\ head' = [head EXCEPT ![h][q] = IF o.ok THEN Len(o.tree.nodes) ELSE from]
            /\ dedup' = [dedup EXCEPT ![h][q] = NoMap]
            /\ Stored(h, o, Tags(o, event.of))
            /\ Folded(s, q, event, o)
    /\ said' = said + 1
    /\ UNCHANGED <<lock, pc, current, holds>>

(* Fault: the end of a side conversation leaves the head of the tree alone.    *)
SnapsNever(h, tree) == FALSE

(* snap_to_default_conversation: where it navigates, if it does.               *)
Snaps(h, tree) == head[h][Default] \notin {0, tree.head}

(* handle_agent_response_finished of a side conversation: its answer, which    *)
(* folds when it has text, the snap, and the end of the conversation.          *)
AnswerQuery(h, q, has_text) ==
    /\ Acts(h) /\ q \in open[h] \cap Sides /\ said + 1 < MaxEvents
    /\ LET s == current[h]
           answer == IF has_text THEN Message(said + 1) ELSE Note(said + 1)
           snap == NavigateTo(said + 2, head[h][Default])
       IN \E o \in Appends(log[s], TreeOf(h, s), <<head[h][q]>>, answer) :
            IF Snaps(h, o.tree)
            THEN \E p \in Appends(o.log, o.tree, <<>>, snap) :
                    /\ Stored(h, p, Tags(o, answer.of) \cup Tags(p, snap.of))
                    /\ Strays(s, ~p.ok)
                    /\ said' = said + 2
            ELSE /\ Stored(h, o, Tags(o, answer.of))
                 /\ Strays(s, astray[s] = "moved" /\ head[h][Default] = 0)
                 /\ said' = said + 1
    /\ open' = [open EXCEPT ![h] = @ \ {q}]
    /\ head' = [head EXCEPT ![h][q] = 0]
    /\ dedup' = [dedup EXCEPT ![h][q] = NoMap]
    /\ UNCHANGED <<lock, pc, current, holds, mine>>

(* UiNavigateTree: only the head of the tree moves.                            *)
Navigate(h, node) ==
    LET s == current[h]
        event == NavigateTo(said + 1, node)
    IN /\ Acts(h) /\ node \in DOMAIN TreeOf(h, s).nodes /\ said < MaxEvents
       /\ \E o \in Appends(log[s], TreeOf(h, s), <<>>, event) :
            /\ Stored(h, o, Tags(o, event.of))
            /\ IF o.ok THEN Strays(s, node # head[h][Default]) ELSE UNCHANGED astray
       /\ said' = said + 1
       /\ UNCHANGED <<lock, pc, current, holds, open, head, dedup, mine>>

-----------------------------------------------------------------------------
(* Daemons                                                                 *)

Bound(h, s, node) ==
    /\ current' = [current EXCEPT ![h] = s]
    /\ open' = [open EXCEPT ![h] = {Default}]
    /\ head' = [head EXCEPT ![h] = [c \in Convs |-> IF c = Default THEN node ELSE 0]]
    /\ dedup' = [dedup EXCEPT ![h] = [c \in Convs |-> NoMap]]

(* The construction of a harness: the session is loaded when it has a log that *)
(* can be read; when it cannot, the daemon does not start.                     *)
Start(h, s) ==
    /\ pc[h] = "off" /\ Alone(h) /\ Readable(log[s])
    /\ pc' = [pc EXCEPT ![h] = "loaded"]
    /\ trees' = [trees EXCEPT ![h] = IF log[s] = <<>> THEN <<>>
                                              ELSE Insert(<<>>, s, Replay(log[s]))]
    /\ Bound(h, s, Replay(log[s]).head)
    /\ UNCHANGED <<log, lock, holds, said, acked, mine, astray>>

Stopped(h) ==
    /\ pc' = [pc EXCEPT ![h] = "off"]
    /\ lock' = [s \in Sessions |-> IF lock[s] = h THEN None ELSE lock[s]]
    /\ holds' = [holds EXCEPT ![h] = {}]
    /\ trees' = [trees EXCEPT ![h] = <<>>]
    /\ open' = [open EXCEPT ![h] = {}]
    /\ head' = [head EXCEPT ![h] = [c \in Convs |-> 0]]
    /\ dedup' = [dedup EXCEPT ![h] = [c \in Convs |-> NoMap]]
    /\ current' = [current EXCEPT ![h] = None]

(* record_session_meta; then start_session_init publishes session.started.     *)
Lock(h) ==
    LET s == current[h]
        started == Note(said + 1)
    IN /\ pc[h] = "loaded" /\ Alone(h) /\ said < MaxEvents
       /\ IF MayLock(h, s)
          THEN \E o \in Appends(log[s], TreeOf(h, s), <<>>, started) :
                /\ TakeLock(h, s)
                /\ pc' = [pc EXCEPT ![h] = "running"]
                /\ Stored(h, o, Tags(o, started.of))
                /\ mine' = [mine EXCEPT ![s] = Branch(TreeOf(h, s), head[h][Default])]
                /\ astray' = [astray EXCEPT ![s] = "no"]
                /\ said' = said + 1
                /\ UNCHANGED <<current, open, head, dedup>>
          ELSE Stopped(h) /\ UNCHANGED <<log, said, acked, mine, astray>>

(* Publishing an event that folds nothing after what came before it.           *)
Notes(so_far, n) == UNION {Appends(o.log, o.tree, <<>>, Note(n)) : o \in so_far}

(* The root of a side conversation is no parent in the log.                    *)
Forked(s, tree) ==
    astray[s] # "no" /\ Branch(tree, tree.head) # Branch(Replay(log[s]), tree.head)

(* UiSwitchSession.  Its own publish goes to the log of the session it names,  *)
(* which locks and loads that session; then the old session is told that it    *)
(* ends and the new one that it started.  A session that another daemon holds, *)
(* or whose log cannot be read, ends this one.                                 *)
Switch(h, s, reason) ==
    LET old == current[h]
        begins == reason = "new" \/ s # old
        before(t) == {[log |-> log[t], tree |-> TreeOf(h, t), ok |-> TRUE]}
    IN /\ Acts(h) /\ (IF begins THEN said + 2 ELSE said) < MaxEvents
       /\ reason = "new" => ReusesIds \/ log[s] = <<>>
       /\ reason = "new" => Readable(log[s])
       /\ CASE ~MayLock(h, s) \/ ~Readable(log[s]) ->
                \E o \in Notes(before(old), said + 1) :
                    /\ log' = [log EXCEPT ![old] = o.log]
                    /\ acked' = [acked EXCEPT ![old] = @ \cup Tags(o, said + 1)]
                    /\ said' = said + 1
                    /\ Stopped(h)
                    /\ UNCHANGED <<mine, astray>>
            [] MayLock(h, s) /\ Readable(log[s]) /\ ~begins ->
                /\ \E o \in Notes(before(s), said + 1) :
                        Stored(h, o, Tags(o, said + 1))
                /\ said' = said + 1
                /\ UNCHANGED <<lock, pc, current, holds, open, head, dedup, mine, astray>>
            [] MayLock(h, s) /\ Readable(log[s]) /\ s = old /\ begins ->
                /\ \E o \in Notes(before(s), said + 1) :
                   \E p \in Notes({o}, said + 2) :
                   \E q \in Notes({p}, said + 3) :
                        Stored(h, q, Tags(o, said + 1) \cup Tags(p, said + 2) \cup Tags(q, said + 3))
                /\ Bound(h, s, 0)
                /\ mine' = [mine EXCEPT ![s] = <<>>]
                /\ astray' = [astray EXCEPT ![s] = "no"]
                /\ said' = said + 3
                /\ UNCHANGED <<lock, pc, holds>>
            [] MayLock(h, s) /\ Readable(log[s]) /\ s # old ->
                \E o \in Notes(before(old), said + 2), p \in Notes(before(s), said + 1) :
                \E q \in Notes({p}, said + 3) :
                    /\ TakeLock(h, s)
                    /\ log' = [log EXCEPT ![s] = q.log, ![old] = o.log]
                    /\ trees' = [trees EXCEPT ![h] = Insert(Insert(@, s, q.tree), old, o.tree)]
                    /\ acked' = [acked EXCEPT ![s] = @ \cup Tags(p, said + 1) \cup Tags(q, said + 3),
                                              ![old] = @ \cup Tags(o, said + 2)]
                    /\ Bound(h, s, IF reason = "new" THEN 0 ELSE p.tree.head)
                    /\ mine' = [mine EXCEPT ![s] = IF reason = "new" THEN <<>>
                                                   ELSE Branch(p.tree, p.tree.head)]
                    /\ astray' = [astray EXCEPT ![s] =
                           IF reason = "resume" /\ Forked(s, p.tree) THEN "forked" ELSE "no"]
                    /\ said' = said + 3
                    /\ UNCHANGED pc

(* The end of a daemon; a killed one leaves what it had written.               *)
Exit(h) ==
    /\ pc[h] # "off" /\ Alone(h)
    /\ Stopped(h)
    /\ UNCHANGED <<log, said, acked, mine, astray>>

(* A daemon killed in append_cbor_record or before the tree has the event.     *)
KilledWriting(h, c, whole) ==
    LET s == current[h]
        event == Message(said + 1)
    IN /\ Acts(h) /\ c \in open[h] /\ said < MaxEvents
       /\ Stopped(h)
       /\ log' = [log EXCEPT ![s] = Append(@, RecordOf(TreeOf(h, s), <<head[h][c]>>, event, whole))]
       /\ Folded(s, c, event, [ok |-> whole = "yes"])
       /\ said' = said + 1
       /\ UNCHANGED acked

(* cleanup_old_sessions, in the daemon h.  Time may always have passed since   *)
(* last_touched; a session that is held is touched often unless LongIdle.      *)
Sweep(h, s) ==
    /\ pc[h] # "off" /\ Alone(h) /\ log[s] # <<>>
    /\ LongIdle \/ lock[s] = None
    /\ Races \/ current[h] # s
    /\ log' = [log EXCEPT ![s] = <<>>]
    /\ lock' = [lock EXCEPT ![s] = None]
    /\ acked' = [acked EXCEPT ![s] = {}]
    /\ mine' = [mine EXCEPT ![s] = <<>>]
    /\ astray' = [astray EXCEPT ![s] = "no"]
    /\ UNCHANGED <<memory, said>>

Next ==
    \E h \in Harnesses :
        \/ \E s \in Sessions : Start(h, s) \/ Sweep(h, s)
        \/ Lock(h)
        \/ Exit(h)
        \/ \E c \in Convs : Say(h, c)
        \/ \E c \in Convs, x \in Contents : ToolResult(h, c, x)
        \/ \E q \in Sides : Ask(h, q)
        \/ \E q \in Sides, has_text \in BOOLEAN : AnswerQuery(h, q, has_text)
        \/ \E node \in 1..MaxEvents : Navigate(h, node)
        \/ \E s \in Sessions, reason \in {"new", "resume"} : Switch(h, s, reason)
        \/ \E c \in Convs, whole \in {"yes", "cut"} : KilledWriting(h, c, whole)

Spec == Init /\ [][Next]_vars

-----------------------------------------------------------------------------
(* Properties                                                              *)

(* No two daemons hold the same session, and a daemon that takes events holds  *)
(* the session it appends them to: ensure_locked, whatever the order of        *)
(* starts, switches, exits and kills.                                          *)
OneWriter ==
    /\ \A g, h \in Harnesses : g # h => holds[g] \cap holds[h] = {}
    /\ \A h \in Harnesses : pc[h] = "running" => current[h] \in holds[h]

(* The tree a daemon keeps is the one a restart would read from the log: same  *)
(* entries at the same nodes, same head, same next id, and same parents but    *)
(* for the roots that the log cannot tell from "inherit the head".             *)
TreesFollowTheLog ==
    \A h \in Harnesses : \A s \in holds[h] \cap DOMAIN trees[h] :
        LET kept == trees[h][s]
            read == Replay(log[s])
        IN /\ <<kept.head, kept.next, Len(kept.nodes)>> = <<read.head, read.next, Len(read.nodes)>>
           /\ \A n \in DOMAIN kept.nodes :
                /\ kept.nodes[n].entry = read.nodes[n].entry
                /\ kept.nodes[n].parent \in {0, read.nodes[n].parent}

(* An event whose append succeeded stays in the log, in the order of the       *)
(* appends and under an id of its own, through restarts and kills.             *)
AcknowledgedIsKept ==
    \A s \in Sessions :
        LET kept == {i \in DOMAIN log[s] : log[s][i].whole = "yes"} IN
        /\ \A n \in acked[s] : \E i \in kept : log[s][i].event.of = n
        /\ \A i, j \in kept : i < j => /\ log[s][i].event.of < log[s][j].event.of
                                       /\ log[s][i].id < log[s][j].id

(* Memory, disk and acknowledgements agree (append_session_event, load).       *)
LogIsTheTruth == TreesFollowTheLog /\ AcknowledgedIsKept

(* Memory is well-formed: a pointer on a branch names an earlier result of     *)
(* that branch that returned the same and is there in full; and a map that is used without a rebuild is  *)
(* the one a rebuild would give, so nothing that large is sent twice.          *)
PointersResolve ==
    TypeOK /\ \A h \in Harnesses : pc[h] = "running" /\ current[h] \in DOMAIN trees[h] =>
        \A c \in open[h] :
            LET branch == Branch(trees[h][current[h]], head[h][c])
                map == dedup[h][c]
            IN /\ \A i \in DOMAIN branch : branch[i].what = "pointer" =>
                    \E j \in 1..i - 1 : /\ branch[j].what = "result"
                                        /\ branch[j].of = branch[i].same_as
                                        /\ branch[j].content = branch[i].content
               /\ map.built_for = head[h][c] /\ head[h][c] # 0 =>
                    map = Rebuilt(branch, head[h][c])

(* Unless a side conversation or a navigation had the last word, also when the *)
(* daemon came back to the session, a restart finds the head of the tree on    *)
(* what the default conversation said, all of it and nothing else.             *)
ResumeFindsTheBranch ==
    \A s \in Sessions :
        astray[s] = "no" => LET tree == Replay(log[s]) IN Branch(tree, tree.head) = mine[s]
=============================================================================
