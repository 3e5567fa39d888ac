------------------------------- MODULE Agent -------------------------------
(* The agent process (tau-agent): a serial loop over the frames the        *)
(* harness sends, a retry loop with an interruptible sleep around every    *)
(* provider call, a pool of WebSocket connections to the provider and the  *)
(* fallback to HTTP.  The harness side is the part of harness.rs that      *)
(* sends prompts, cancels them and takes the answers; the provider is      *)
(* external: it may answer, fail, close, forget or truncate at any call.   *)
EXTENDS PromptWire, FiniteSets

CONSTANTS
  Sessions,      \* session ids
  Configs,       \* records [backend, system, tools, params] the user may select
  FirstSession, FirstConfig, \* those the harness starts with
  Replies,       \* what a completed response holds: "text", "calls", "both"
  MaxRetries,    \* retries of a call, by originator
  PoolMax,       \* connections the pool keeps
  MaxPrompts,    \* bound: prompts the harness sends
  MaxTrouble     \* bound: cancels, side queries, switches, new settings and tokens

ASSUME AgentAssumption ==
  /\ Configs \subseteq [backend : {"ws", "http", "chat"}, system : STRING,
                        tools : STRING, params : STRING]
  /\ FirstSession \in Sessions /\ FirstConfig \in Configs
  /\ Replies \subseteq {"text", "calls", "both"}
  /\ MaxRetries \in [{"user", "extension"} -> Nat]
  /\ PoolMax \in Nat \ {0}
  /\ MaxPrompts \in Nat
  /\ MaxTrouble \in Nat

VARIABLES
  conversations, \* the harness's conversations: "user" and at most one "side"
  config,        \* selected model and settings, system prompt and tools
  route,         \* prompt_conversations, prompt_models, prompt_fingerprints
  cancelled,     \* canceled_prompts: answers to be thrown away
  snapshots,     \* the harness's prompt_snapshots, by prompt id
  published,     \* log ids given out
  trouble,       \* counts what MaxTrouble bounds
  inbox,         \* frames on their way to the agent
  outbox,        \* answers on their way to the harness
  deferred,      \* frames set aside by the retry sleep
  canceledSpids, \* canceled_spids
  snaps,         \* the agent's prompt_snapshots
  wsDisabled,    \* sessions that are on HTTP for good
  pool,          \* session -> connection
  lru,           \* sessions of pooled connections, most recent first
  job,           \* the prompt being handled
  pc,            \* where handle_prompt is
  bearer,        \* the access token in the auth store
  known,         \* external: what the provider remembers of each response
  request,       \* history: the request made last
  answered,      \* history: prompts answered, in order
  acked          \* highest log id acknowledged

harness == <<conversations, config, route, cancelled, snapshots, published, trouble>>
loop    == <<deferred, canceledSpids, snaps>>
sockets == <<wsDisabled, pool, lru>>
done    == <<outbox, answered, acked>>
vars    == <<harness, inbox, loop, sockets, done, job, pc, bearer, known, request>>

NoAnchor == [id |-> 0]
NoJob    == [id |-> 0]
NoWarm   == [id |-> 0]
NoRequest == [chain |-> 0]

Without(f, keys) == [x \in DOMAIN f \ keys |-> f[x]]
With(f, key, value) == [x \in DOMAIN f \cup {key} |-> IF x = key THEN value ELSE f[x]]

-----------------------------------------------------------------------------
(* The harness sends.                                                      *)
Conversation(session, branch, anchor) ==
  [session |-> session, branch |-> branch, last |-> 0, anchor |-> anchor,
   inflight |-> 0, calls |-> 0]

(* Fault: the settings the response was made under are not compared.       *)
AnchorHoldsAnyway(anchor, messages) ==
  /\ anchor # NoAnchor
  /\ anchor.count <= Len(messages)

(* What the anchor of a conversation has to agree with for its next prompt *)
(* to be chained to it.  A branch only grows, so the anchor's node is on it.*)
AnchorHolds(anchor, messages) ==
  /\ anchor # NoAnchor
  /\ anchor.config = config
  /\ anchor.count <= Len(messages)

Settings(cfg) == [backend |-> cfg.backend, params |-> cfg.params]

(* Every committed event goes out in a LogEvent envelope with its log id.  *)
Publish(frames) ==
  /\ inbox' = inbox \o [i \in DOMAIN frames |->
                          [log |-> published + i, logged |-> TRUE, frame |-> frames[i]]]
  /\ published' = published + Len(frames)

CancelFrame(id) == [t |-> "cancel", id |-> id]

WarmFrame(session, branch) ==
  [t |-> "prewarm", session |-> session, settings |-> Settings(config),
   body |-> Body(config.system, config.tools, Assemble(branch))]

(* send_prompt_to_agent_for: the next prompt of conversation c, whose      *)
(* branch is up to date in convs; "first" is what is published before it.  *)
SendPrompt(convs, routes, c, first) ==
  LET conv     == convs[c]
      id       == Cardinality(DOMAIN snapshots) + 1
      messages == Assemble(conv.branch)
      body     == Body(config.system, config.tools, messages)
      chained  == AnchorHolds(conv.anchor, messages)
      sent     == Compress(body, conv.last, snapshots)
  IN /\ id <= MaxPrompts
     /\ Publish(Append(first,
          [t |-> "prompt", id |-> id, session |-> conv.session,
           by |-> IF c = "user" THEN "user" ELSE "extension",
           sent |-> sent, settings |-> Settings(config), whole |-> body,
           link |-> IF chained
                    THEN [id |-> conv.anchor.id, index |-> conv.anchor.count]
                    ELSE NoLink]))
     /\ snapshots' = With(snapshots, id, Materialize(sent, snapshots))
     /\ route' = With(routes, id, [conv |-> c, config |-> config])
     /\ conversations' = [convs EXCEPT ![c].inflight = id, ![c].last = id,
                            ![c].anchor = IF chained THEN @ ELSE NoAnchor]

Idle(c) == conversations[c].inflight = 0 /\ conversations[c].calls = 0

(* The side query whose prompt is preempted by a prompt of the user.       *)
Preempted ==
  IF "side" \in DOMAIN conversations /\ conversations["side"].inflight # 0
  THEN {"side"} ELSE {}

Stopped(c) == [conversations[c] EXCEPT !.inflight = 0]

(* The user says something: a side query in flight is cancelled by name.   *)
UserSays ==
  /\ Idle("user")
  /\ LET stop  == {conversations[c].inflight : c \in Preempted}
         convs == [c \in DOMAIN conversations |->
                    IF c \in Preempted THEN Stopped(c)
                    ELSE IF c = "user"
                    THEN [conversations[c] EXCEPT
                           !.branch = Append(@, <<"user", published + 1>>)]
                    ELSE conversations[c]]
     IN /\ cancelled' = cancelled \cup stop
        /\ SendPrompt(convs, Without(route, stop), "user", [i \in 1..Cardinality(stop) |->
                                       CancelFrame(conversations["side"].inflight)])
  /\ UNCHANGED <<config, trouble, loop, sockets, done, job, pc, bearer, known, request>>

(* The prompts that were sent keep their route until they are answered,    *)
(* unless they are cancelled.                                              *)
Troubles == trouble < MaxTrouble /\ trouble' = trouble + 1

(* An extension asks a side question: the conversation starts from the     *)
(* user's branch and anchor.                                               *)
AskAside ==
  /\ Troubles
  /\ "side" \notin DOMAIN conversations
  /\ LET user == conversations["user"]
         side == Conversation(user.session,
                              Append(user.branch, <<"user", published + 1>>),
                              user.anchor)
     IN SendPrompt(With(conversations, "side", side), route, "side", <<>>)
  /\ UNCHANGED <<config, cancelled, loop, sockets, done, job, pc, bearer, known, request>>

(* The tools of a turn have run.                                           *)
ToolsAnswer ==
  /\ conversations["user"].calls # 0
  /\ LET call == conversations["user"].calls
     IN SendPrompt([conversations EXCEPT
                     !["user"].branch = Append(@, <<"result", call>>),
                     !["user"].calls = 0], route, "user", <<>>)
  /\ UNCHANGED <<config, cancelled, trouble, loop, sockets, done, job, pc, bearer, known, request>>

(* /cancel: the prompt in flight is given up, without a target.            *)
CancelUser ==
  /\ Troubles
  /\ conversations["user"].inflight # 0
  /\ LET id == conversations["user"].inflight
     IN /\ cancelled' = cancelled \cup {id}
        /\ route' = Without(route, {id})
  /\ conversations' = [conversations EXCEPT !["user"].inflight = 0]
  /\ Publish(<<CancelFrame(0)>>)
  /\ UNCHANGED <<config, snapshots, loop, sockets, done, job, pc, bearer, known, request>>

(* /new: nothing of the old session is waited for, its prompts stay queued *)
(* at the agent.  The new session's instructions are its first message and *)
(* the connection is warmed up for it.                                     *)
SwitchSession(session) ==
  /\ Troubles
  /\ LET branch == <<<<"user", published + 1>>>>
     IN /\ conversations' = [user |-> Conversation(session, branch, NoAnchor)]
        /\ Publish(<<WarmFrame(session, branch)>>)
  /\ route' = <<>>
  /\ UNCHANGED <<config, cancelled, snapshots, loop, sockets, done, job, pc, bearer, known, request>>

(* The user selects another model or changes a setting, or the skills or   *)
(* the tools change.                                                       *)
Configure(cfg) ==
  /\ Troubles
  /\ config' = cfg
  /\ UNCHANGED <<conversations, route, cancelled, snapshots, published, inbox, loop, sockets,
                 done, job, pc, bearer, known, request>>

(* A new access token is stored (login, refresh).                          *)
NewToken ==
  /\ Troubles
  /\ bearer' = bearer + 1
  /\ UNCHANGED <<conversations, config, route, cancelled, snapshots, published, inbox, loop,
                 sockets, done, job, pc, known, request>>

-----------------------------------------------------------------------------
(* The harness takes an answer (handle_agent_response_finished).           *)
ReplyEntries(answer) ==
  IF answer.reply = "calls" THEN <<>> ELSE <<<<"agent", answer.id>>>>

CallEntries(answer) ==
  IF answer.reply \in {"calls", "both"} THEN <<<<"call", answer.id>>>> ELSE <<>>

(* A response with an id anchors the conversation: its branch with the     *)
(* reply, as messages, is what the provider has seen.                      *)
Anchored(conv, answer, branch) ==
  IF answer.response = 0 THEN conv.anchor
  ELSE [id |-> answer.response, config |-> route[answer.id].config,
        count |-> Len(Assemble(branch))]

(* The turn of the user goes on with its calls; a side query is over.      *)
TakeAnswer ==
  /\ outbox # <<>>
  /\ LET answer  == Head(outbox)
         awaited == answer.id \notin cancelled /\ answer.id \in DOMAIN route
         c       == route[answer.id].conv
         conv    == conversations[c]
         branch  == conv.branch \o ReplyEntries(answer)
     IN /\ cancelled' = cancelled \ {answer.id}
        /\ route' = Without(route, {answer.id})
        /\ conversations' =
             IF ~awaited THEN conversations
             ELSE IF c = "side" THEN Without(conversations, {"side"})
             ELSE [conversations EXCEPT
                    ![c].anchor = Anchored(conv, answer, branch),
                    ![c].branch = branch \o CallEntries(answer),
                    ![c].inflight = 0,
                    ![c].calls = IF CallEntries(answer) = <<>> THEN 0 ELSE answer.id]
  /\ outbox' = Tail(outbox)
  /\ UNCHANGED <<config, snapshots, published, trouble, inbox, loop, sockets, answered, acked,
                 job, pc, bearer, known, request>>

-----------------------------------------------------------------------------
(* The main loop: deferred frames first.                                   *)
Waiting == deferred \o inbox

TakeFrame ==
  IF deferred # <<>>
  THEN deferred' = Tail(deferred) /\ inbox' = inbox
  ELSE deferred' = deferred /\ inbox' = Tail(inbox)

(* Fault: the acknowledgement covers what has not been handled yet.        *)
AnswerAndAckAll(id, log, reply, response) ==
  /\ outbox' = Append(outbox, [id |-> id, reply |-> reply, response |-> response])
  /\ answered' = Append(answered, id)
  /\ acked' = published

(* The end of a prompt: the answer is written, then the acknowledgement.   *)
Answer(id, log, reply, response) ==
  /\ outbox' = Append(outbox, [id |-> id, reply |-> reply, response |-> response])
  /\ answered' = Append(answered, id)
  /\ acked' = log

(* A prompt that cannot be rebuilt is answered with the error; one that    *)
(* was cancelled, or whose model does not resolve, with a stub.            *)
HandlePrompt(entry) ==
  LET prompt == entry.frame
      body   == Materialize(prompt.sent, snaps)
      ok     == CanMaterialize(prompt.sent, snaps)
      dead   == prompt.id \in canceledSpids
  IN /\ snaps' = IF ok THEN With(snaps, prompt.id, body) ELSE snaps
     /\ canceledSpids' = IF ok THEN canceledSpids \ {prompt.id} ELSE canceledSpids
     /\ \/ /\ Answer(prompt.id, entry.log, "text", 0)
           /\ UNCHANGED <<job, pc>>
        \/ /\ ok /\ ~dead
           /\ job' = [id |-> prompt.id, log |-> entry.log, session |-> prompt.session,
                      by |-> prompt.by, body |-> body, whole |-> prompt.whole,
                      settings |-> prompt.settings, link |-> prompt.link,
                      bearer |-> bearer, retries |-> 0]
           /\ pc' = "dispatch"
           /\ UNCHANGED done
     /\ UNCHANGED <<sockets, known>>

(* A cancel that finds the agent idle is for a prompt still queued, or     *)
(* without a target for none.                                              *)
HandleCancel(entry) ==
  /\ canceledSpids' = canceledSpids \cup ({entry.frame.id} \ {0})
  /\ acked' = entry.log
  /\ UNCHANGED <<snaps, job, pc, outbox, answered, sockets, known>>

-----------------------------------------------------------------------------
(* The provider, external.  known[r] is what response r was made from and  *)
(* what it said.                                                           *)
Seen(req) == (IF req.chain = 0 THEN <<>> ELSE known[req.chain].messages) \o req.messages

ReplyMessages(id, reply) ==
  IF reply = "none" THEN <<>>
  ELSE Assemble(ReplyEntries([id |-> id, reply |-> reply])
                \o CallEntries([id |-> id, reply |-> reply]))

Remember(req, id, reply) ==
  known' = Append(known, [messages |-> Seen(req) \o ReplyMessages(id, reply),
                          system |-> req.system, tools |-> req.tools,
                          settings |-> req.settings])

NextResponse == Len(known) + 1

(* A socket remembers its last response only.                              *)
Accepts(conn, req) == req.chain \in {0, conn.chain}

-----------------------------------------------------------------------------
(* The pool.                                                               *)
Usable(conn, token) == conn.bearer = token

(* Fault: the queue keeps the key of a connection that is taken out.       *)
DroppedFromMap(session) == /\ pool' = Without(pool, {session})
                           /\ lru' = lru

(* What is retained is all but one place: the queue names a connection at  *)
(* most once, before every step and so after it (PoolIsSound).             *)
Dropped(session) == /\ pool' = Without(pool, {session})
                    /\ lru' = RemoveFirst(lru, session)

(* At capacity the connection used longest ago makes room.                 *)
Release(session, conn) ==
  LET full == Cardinality(DOMAIN pool) >= PoolMax /\ session \notin DOMAIN pool
      kept == IF full THEN Without(pool, {Last(lru)}) ELSE pool
      rest == IF full THEN Front(lru) ELSE lru
  IN /\ pool' = With(kept, session, conn)
     /\ lru' = <<session>> \o RemoveFirst(rest, session)

Socket(chain, token, warm) == [chain |-> chain, bearer |-> token, warm |-> warm]

Warm(req) == [id |-> NextResponse, request |-> req]

(* handle_prewarm: best effort, over the connection a turn will use.       *)
HandlePrewarm(entry) ==
  LET frame == entry.frame
      req   == BuildRequest(frame.body, frame.settings, NoLink)
         tries == frame.settings.backend = "ws" /\ frame.session \notin wsDisabled
  IN /\ \/ ~tries /\ UNCHANGED <<sockets, known>>
        \/ /\ tries
           /\ \/ /\ Remember(req, 0, "none")
                 /\ Release(frame.session, Socket(NextResponse, bearer, Warm(req)))
                 /\ UNCHANGED wsDisabled
              \/ /\ Dropped(frame.session)
                 /\ wsDisabled' \in {wsDisabled, wsDisabled \cup {frame.session}}
                 /\ UNCHANGED known
     /\ acked' = entry.log
     /\ UNCHANGED <<snaps, canceledSpids, job, pc, outbox, answered>>

Handle ==
  /\ pc = "idle"
  /\ Waiting # <<>>
  /\ TakeFrame
  /\ LET entry == Head(Waiting)
     IN \/ entry.frame.t = "prompt"  /\ HandlePrompt(entry)
        \/ entry.frame.t = "cancel"  /\ HandleCancel(entry)
        \/ entry.frame.t = "prewarm" /\ HandlePrewarm(entry)
  /\ UNCHANGED <<harness, bearer, request>>

-----------------------------------------------------------------------------
(* One attempt at the prompt in hand (stream_with_dispatch).               *)
(* Fault: the prompt stays in hand.                                        *)
FinishOnly(reply, response) ==
  /\ Answer(job.id, job.log, reply, response)
  /\ job' = job
  /\ pc' = "idle"

Finish(reply, response) ==
  /\ Answer(job.id, job.log, reply, response)
  /\ job' = NoJob
  /\ pc' = "idle"

(* Fault: the retries are not counted.                                     *)
FailForever ==
  \/ Finish("text", 0)
  \/ /\ pc' = "sleep"
     /\ UNCHANGED <<done, job>>

(* An error is tried again while it may pass and retries are left.         *)
Fail ==
  \/ Finish("text", 0)
  \/ /\ job.retries < MaxRetries[job.by]
     /\ job' = [job EXCEPT !.retries = @ + 1]
     /\ pc' = "sleep"
     /\ UNCHANGED done

ToHttp ==
  /\ wsDisabled' = wsDisabled \cup {job.session}
  /\ pc' = "http"
  /\ UNCHANGED <<done, job>>

Made(req) == request' = With(req, "whole", job.whole)

(* A pooled connection is used unless its token was replaced or it is old. *)
Dispatch ==
  /\ pc = "dispatch"
  /\ IF job.settings.backend = "ws" /\ job.session \notin wsDisabled
     THEN /\ Dropped(job.session)
          /\ \/ /\ job.session \in DOMAIN pool
                /\ Usable(pool[job.session], job.bearer)
                /\ pc' = "cached"
                /\ job' = With(job, "conn", pool[job.session])
             \/ pc' = "fresh" /\ job' = job
     ELSE pc' = "http" /\ UNCHANGED <<job, pool, lru>>
  /\ UNCHANGED <<harness, inbox, loop, wsDisabled, done, bearer, known, request>>

(* A turn without a link may continue what its connection was warmed with. *)
Continues(warm) ==
  /\ warm # NoWarm
  /\ IsPrefix(warm.request.messages, job.body.messages)
  /\ SameButMessages(warm.request, BuildRequest(job.body, job.settings, NoLink))

LinkOver(conn) ==
  IF job.link = NoLink /\ Continues(conn.warm)
  THEN [id |-> conn.warm.id, index |-> Len(conn.warm.request.messages)]
  ELSE job.link

TurnOver(conn, req) ==
  /\ Accepts(conn, req)
  /\ \E reply \in Replies :
       /\ Remember(req, job.id, reply)
       /\ Finish(reply, NextResponse)
  /\ Release(job.session, Socket(NextResponse, conn.bearer, NoWarm))
  /\ UNCHANGED wsDisabled

(* A connection that is lost, or has forgotten the response the request is *)
(* chained to, is dropped: a chained request goes to HTTP, for this and    *)
(* every later prompt of the session, another to a new connection.         *)
CachedTurn ==
  /\ pc = "cached"
  /\ LET conn == job.conn
         req  == BuildRequest(job.body, job.settings, LinkOver(conn))
     IN /\ Made(req)
        /\ \/ TurnOver(conn, req)
           \/ /\ UNCHANGED <<pool, lru, known>>
              /\ \/ job.link # NoLink /\ ToHttp
                 \/ /\ job.link = NoLink
                    /\ pc' = "fresh"
                    /\ UNCHANGED <<done, job, wsDisabled>>
                 \/ (Fail /\ UNCHANGED wsDisabled)
  /\ UNCHANGED <<harness, inbox, loop, bearer>>

(* A new connection knows no response: a chained request goes to HTTP.     *)
FreshTurn ==
  /\ pc = "fresh"
  /\ LET conn == Socket(0, job.bearer, NoWarm)
         req  == BuildRequest(job.body, job.settings, NoLink)
     IN IF job.link # NoLink
        THEN ToHttp /\ UNCHANGED <<pool, lru, known, request>>
        ELSE \/ Made(req) /\ TurnOver(conn, req)
             \/ /\ request' \in {request, With(req, "whole", job.whole)}
                /\ UNCHANGED <<pool, lru, known>>
                /\ ToHttp \/ (Fail /\ UNCHANGED wsDisabled)
  /\ UNCHANGED <<harness, inbox, loop, bearer>>

(* Over HTTP; a response id the provider does not know is dropped and the  *)
(* prompt sent whole, once.  A stream that ends without its last event     *)
(* counts as a response, without an id.                                    *)
HttpTurn ==
  /\ pc \in {"http", "replay"}
  /\ LET chat == job.settings.backend = "chat"
         req  == BuildRequest(job.body, job.settings,
                              IF pc = "http" /\ ~chat THEN job.link ELSE NoLink)
     IN /\ Made(req)
        /\ \/ \E reply \in Replies :
                /\ IF chat THEN UNCHANGED known ELSE Remember(req, job.id, reply)
                /\ Finish(reply, IF chat THEN 0 ELSE NextResponse)
           \/ Fail /\ UNCHANGED known
           \/ /\ req.chain # 0
              /\ pc' = "replay"
              /\ UNCHANGED <<done, job, known>>
  /\ UNCHANGED <<harness, inbox, loop, sockets, bearer>>

-----------------------------------------------------------------------------
(* The sleep between two attempts (sleep_or_abort).                        *)
Elapse ==
  /\ pc = "sleep"
  /\ pc' = "dispatch"
  /\ UNCHANGED <<harness, inbox, loop, sockets, done, job, bearer, known, request>>

(* Only a bare frame is looked at; a LogEvent envelope is set aside.       *)
IsCancel(entry) == ~entry.logged /\ entry.frame.t = "cancel"

Aborts(entry) ==
  \/ IsCancel(entry) /\ entry.frame.id \in {0, job.id}
  \/ entry.frame.t = "disconnect"

Listen ==
  /\ pc = "sleep"
  /\ inbox # <<>>
  /\ LET entry == Head(inbox)
         other == IsCancel(entry) /\ ~Aborts(entry)
     IN /\ deferred' = IF other THEN deferred ELSE Append(deferred, entry)
        /\ canceledSpids' = IF other THEN canceledSpids \cup {entry.frame.id}
                            ELSE canceledSpids
        /\ IF Aborts(entry) THEN Finish("text", 0) ELSE UNCHANGED <<done, job, pc>>
  /\ inbox' = Tail(inbox)
  /\ UNCHANGED <<harness, snaps, sockets, bearer, known, request>>

-----------------------------------------------------------------------------
(* The harness exits: its last frame is a bare Disconnect.                 *)
Exit ==
  /\ Troubles
  /\ conversations' = <<>>
  /\ inbox' = Append(inbox, [log |-> 0, logged |-> FALSE, frame |-> [t |-> "disconnect"]])
  /\ UNCHANGED <<config, route, cancelled, snapshots, published, loop, sockets, done,
                 job, pc, bearer, known, request>>

Disconnected ==
  /\ pc = "idle"
  /\ Waiting # <<>>
  /\ Head(Waiting).frame.t = "disconnect"
  /\ TakeFrame
  /\ pc' = "gone"
  /\ UNCHANGED <<harness, canceledSpids, snaps, sockets, done, job, bearer, known, request>>

-----------------------------------------------------------------------------
Init ==
  /\ conversations = [user |-> Conversation(FirstSession, <<>>, NoAnchor)]
  /\ config = FirstConfig
  /\ route = <<>> /\ cancelled = {} /\ snapshots = <<>>
  /\ published = 0 /\ trouble = 0
  /\ inbox = <<>> /\ outbox = <<>> /\ deferred = <<>>
  /\ canceledSpids = {} /\ snaps = <<>>
  /\ wsDisabled = {} /\ pool = <<>> /\ lru = <<>>
  /\ job = NoJob /\ pc = "idle" /\ bearer = 1
  /\ known = <<>> /\ request = NoRequest
  /\ answered = <<>> /\ acked = 0

HarnessStep ==
  /\ conversations # <<>>
  /\ \/ UserSays \/ AskAside \/ ToolsAnswer \/ CancelUser
     \/ \E session \in Sessions : SwitchSession(session)
     \/ \E cfg \in Configs : Configure(cfg)
     \/ NewToken \/ TakeAnswer \/ Exit

AgentStep ==
  Handle \/ Disconnected \/ Dispatch \/ CachedTurn \/ FreshTurn \/ HttpTurn \/ Elapse \/ Listen

Next == HarnessStep \/ AgentStep

(* The agent's thread runs, calls to the provider come back, sleeps end.   *)
Spec == Init /\ [][Next]_vars /\ WF_vars(AgentStep)

-----------------------------------------------------------------------------
(* Types of the state that is not a message.                               *)
TypeOK ==
  /\ DOMAIN conversations \subseteq {"user", "side"}
  /\ config \in Configs
  /\ DOMAIN route \subseteq DOMAIN snapshots
  /\ cancelled \subseteq DOMAIN snapshots
  /\ DOMAIN snapshots \subseteq 1..MaxPrompts
  /\ canceledSpids \subseteq DOMAIN snapshots
  /\ DOMAIN snaps \subseteq DOMAIN snapshots
  /\ wsDisabled \subseteq Sessions
  /\ DOMAIN pool \subseteq Sessions
  /\ pc \in {"idle", "dispatch", "cached", "fresh", "http", "replay", "sleep", "gone"}
  /\ (job = NoJob) <=> pc \in {"idle", "gone"}
  /\ acked \in 0..published

(* Every prompt the harness has sent is answered, in hand, or still        *)
(* waiting, once and in the order it was sent, whatever was set aside      *)
(* during retries; and no prompt is acknowledged before it is answered.    *)
Begun == Len(answered) + (IF job = NoJob THEN 0 ELSE 1)

Queued == {i \in DOMAIN Waiting : Waiting[i].frame.t = "prompt"}

AnsweredInOrder ==
  /\ \A i \in DOMAIN answered : answered[i] = i
  /\ job # NoJob => job.id = Begun /\ acked < job.log
  /\ {Waiting[i].frame.id : i \in Queued} = (Begun + 1)..Cardinality(DOMAIN snapshots)
  /\ \A i, j \in Queued : i < j => Waiting[i].frame.id < Waiting[j].frame.id
  /\ \A i \in Queued : acked < Waiting[i].log

(* What the provider sees of a prompt, with what it remembers of the       *)
(* response the request is chained to, is exactly what the harness meant:  *)
(* the messages, the system prompt, the tools, and the settings of the     *)
(* response.                                                               *)
RequestsAreWhole ==
  request # NoRequest =>
    /\ Seen(request) = request.whole.messages
    /\ request.system = request.whole.system
    /\ request.tools = request.whole.tools
    /\ request.chain # 0 => SameButMessages(known[request.chain], request)

(* The state is well-formed: the pool is bounded, its queue names its connections once each, and a   *)
(* connection in use is not in it.                                         *)
PoolIsSound ==
  /\ TypeOK
  /\ Cardinality(DOMAIN pool) <= PoolMax
  /\ Len(lru) = Cardinality(DOMAIN pool)
  /\ ToSet(lru) = DOMAIN pool
  /\ pc = "cached" => job.session \notin DOMAIN pool

(* Every prompt is answered: no call, retry, cancel, switch or exit of the *)
(* harness leaves one behind.                                              *)
PromptsAreAnswered == []<>(Len(answered) = Cardinality(DOMAIN snapshots))
=============================================================================
