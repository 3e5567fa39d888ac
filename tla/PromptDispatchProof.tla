------------------------- MODULE PromptDispatchProof -------------------------
(***************************************************************************)
(* Proofs about PromptDispatch, for any queries, extensions, interceptors   *)
(* and bounds: the types; who is waited for owes something; nothing that    *)
(* could go waits; prompts take turns; a prompt holds its branch.            *)
(***************************************************************************)
EXTENDS PromptDispatch, FiniteSetTheorems, WellFoundedInduction, TLAPS

(* An event names a session of its own and a prompt there is, as its kind     *)
(* requires.                                                                *)
GoodEvent(P) ==
    {e \in Event : IF e.kind \in UserKinds \cup {"session_started"}
                   THEN e.session \in 1..MaxSessions ELSE e.of \in 1..P}

GoodTask(P) ==
    {t \in Task : /\ t.op = "publish" => t \in GoodEvent(P)
                  /\ t.op \in {"dispatch", "send", "answered", "called", "turn"} => t.conv \in Convs
                  /\ t.op \in {"answered", "called", "turn", "clear"} => t.of \in 1..P
                  /\ t.op = "respawn" => t.conv \in Providers}

GoodConversation(P, M) ==
    [head : Nat, pending_prompts : Seq(1..M), in_flight_prompt : 0..P,
     turn_state : {"idle", "thinking", "tools"}, remaining_calls : SUBSET (1..P)]

TypeInv ==
    /\ conversations \subseteq Convs
    /\ conv \in [Convs -> GoodConversation(Len(prompts), Len(messages))]
    /\ session \in 1..MaxSessions
    /\ waiting_on \subseteq Providers
    /\ extension \in [Providers -> {"ready", "spawning", "subscribed", "gone"}]
    /\ discovered \subseteq Providers
    /\ tree \in [1..MaxSessions -> Seq(Node)]
    /\ interceptor \in BOOLEAN
    /\ pending_intercept \in Seq(GoodEvent(Len(prompts))) /\ Len(pending_intercept) <= 1
    /\ deferred_publishes \in Seq(GoodEvent(Len(prompts)))
    /\ pending_user_prompt_dispatches \in Seq(Convs)
    /\ prompt_conversations \subseteq 1..Len(prompts)
    /\ canceled_prompts \subseteq 1..Len(prompts)
    /\ tool_conversations \subseteq 1..Len(prompts)
    /\ work \in Seq(GoodTask(Len(prompts)))
    /\ at_agent \subseteq 1..Len(prompts)
    /\ running \subseteq 1..Len(prompts)
    /\ owes \subseteq Providers \X (1..MaxSessions)
    /\ messages \in Seq(Message)
    /\ prompts \in Seq(Prompt)
    /\ said \subseteq [conv : Convs, session : 1..MaxSessions, entry : Entry]
    /\ discarded \subseteq 1..Len(messages)
    /\ dropped \subseteq 1..Len(prompts)

-----------------------------------------------------------------------------
(* Sequences of a set are sequences of a larger one. *)
LEMMA SeqGrows ==
    ASSUME NEW S, NEW T, S \subseteq T, NEW s \in Seq(S)
    PROVE  s \in Seq(T)
OBVIOUS

(* The parts of a sequence that is not empty. *)
LEMMA HeadAndTail ==
    ASSUME NEW S, NEW s \in Seq(S), s # <<>>
    PROVE  Head(s) \in S /\ Tail(s) \in Seq(S)
OBVIOUS

(* Events and tasks stay good when there are more prompts. *)
LEMMA GoodGrows ==
    ASSUME NEW P \in Nat, NEW Q \in Nat, P <= Q
    PROVE  GoodEvent(P) \subseteq GoodEvent(Q) /\ GoodTask(P) \subseteq GoodTask(Q)
<1>1. 1..P \subseteq 1..Q
  OBVIOUS
<1>2. GoodEvent(P) \subseteq GoodEvent(Q)
  <2> HIDE DEF Event
  <2> QED
    BY <1>1 DEF GoodEvent
<1>3. GoodTask(P) \subseteq GoodTask(Q)
  <2> HIDE DEF Task, GoodEvent
  <2> QED
    BY <1>1, <1>2 DEF GoodTask
<1> QED
  BY <1>2, <1>3

(* Conversations stay good when there are more prompts and messages. *)
LEMMA ConversationGrows ==
    ASSUME NEW P \in Nat, NEW Q \in Nat, NEW M \in Nat, NEW N \in Nat, P <= Q, M <= N
    PROVE  /\ GoodConversation(P, M) \subseteq GoodConversation(Q, N)
           /\ GoodConversation(P, M) \subseteq Conversation
<1>1. 1..P \subseteq 1..Q /\ 1..M \subseteq 1..N /\ 0..P \subseteq 0..Q /\ 1..P \subseteq Nat
      /\ 1..M \subseteq Nat /\ 0..P \subseteq Nat
  OBVIOUS
<1>2. Seq(1..M) \subseteq Seq(1..N) /\ Seq(1..M) \subseteq Seq(Nat)
  BY <1>1, SeqGrows
<1>3. SUBSET (1..P) \subseteq SUBSET (1..Q) /\ SUBSET (1..P) \subseteq SUBSET Nat
  BY <1>1
<1>4. GoodConversation(P, M) \subseteq GoodConversation(Q, N)
  BY <1>1, <1>2, <1>3 DEF GoodConversation
<1>5. GoodConversation(P, M) \subseteq Conversation
  BY <1>1, <1>2, <1>3 DEF GoodConversation, Conversation
<1> QED
  BY <1>4, <1>5

(* An event is a task of its own.                                            *)
LEMMA EventIsTask ==
    ASSUME NEW P \in Nat
    PROVE  GoodEvent(P) \subseteq GoodTask(P)
<1>1. \A e \in Event : e \in Task /\ e.op = "publish"
  BY DEF Task, Event
<1> QED
  BY <1>1 DEF GoodEvent, GoodTask

(* A publish is good if it names what its kind requires. *)
LEMMA PublishTypes ==
    ASSUME NEW kind \in Kinds, NEW c \in Convs \cup {None}, NEW n \in Nat, NEW s \in Nat,
           NEW P \in Nat,
           kind \in UserKinds \cup {"session_started"} => s \in 1..MaxSessions,
           kind \notin UserKinds \cup {"session_started"} => n \in 1..P
    PROVE  Publish(kind, c, n, s) \in GoodEvent(P) /\ Publish(kind, c, n, s) \in GoodTask(P)
<1>1. Publish(kind, c, n, s) \in Event
  BY DEF Publish, Event
<1>2. Publish(kind, c, n, s) \in GoodEvent(P)
  BY <1>1 DEF Publish, GoodEvent
<1> QED
  BY <1>2, EventIsTask

(* The tasks of the handlers are good. *)
LEMMA DoTypes ==
    ASSUME NEW P \in Nat
    PROVE  /\ \A c \in Convs : /\ Do("dispatch", c, 0) \in GoodTask(P)
                               /\ Do("send", c, 0) \in GoodTask(P)
                               /\ \A p \in 1..P : /\ Do("answered", c, p) \in GoodTask(P)
                                                  /\ Do("called", c, p) \in GoodTask(P)
                                                  /\ Do("turn", c, p) \in GoodTask(P)
           /\ Advance \in GoodTask(P)
           /\ Do("drain", None, 0) \in GoodTask(P)
           /\ \A p \in 1..P : Do("clear", None, p) \in GoodTask(P)
           /\ \A v \in Providers : Do("respawn", v, 0) \in GoodTask(P)
<1>1. \A op \in {"dispatch", "send", "advance", "drain", "answered", "called", "turn", "clear"},
         c \in Convs \cup {None}, p \in Nat : Do(op, c, p) \in Task
  BY DEF Do, Task
<1>2. \A v \in Providers : Do("respawn", v, 0) \in Task
  BY DEF Do, Task
<1>3. \A op, c, p : Do(op, c, p).op = op /\ Do(op, c, p).conv = c /\ Do(op, c, p).of = p
  BY DEF Do
<1> HIDE DEF Do, Task
<1> QED
  BY <1>1, <1>2, <1>3 DEF GoodTask, Advance

(* What the handlers do to a conversation. *)
LEMMA ConversationTypes ==
    ASSUME NEW P \in Nat, NEW M \in Nat, NEW k \in GoodConversation(P, M)
    PROVE  /\ \A h \in Nat : Fresh(h) \in GoodConversation(P, M)
           /\ \A h \in Nat : [k EXCEPT !.head = h] \in GoodConversation(P, M)
           /\ \A m \in 1..M : [k EXCEPT !.pending_prompts = Append(@, m)] \in GoodConversation(P, M)
           /\ k.pending_prompts # <<>> =>
                [k EXCEPT !.pending_prompts = Tail(@)] \in GoodConversation(P, M)
           /\ [k EXCEPT !.in_flight_prompt = 0, !.turn_state = "idle", !.remaining_calls = {}]
                \in GoodConversation(P, M)
           /\ \A p \in 1..P :
                [k EXCEPT !.in_flight_prompt = p, !.turn_state = "thinking", !.remaining_calls = {}]
                    \in GoodConversation(P, M)
           /\ \A p \in 1..P :
                [k EXCEPT !.in_flight_prompt = 0, !.turn_state = "tools", !.remaining_calls = {p}]
                    \in GoodConversation(P, M)
           /\ [k EXCEPT !.turn_state = "idle", !.remaining_calls = {}, !.pending_prompts = <<>>]
                    \in GoodConversation(P, M)
           /\ \A r \in SUBSET (1..P) : [k EXCEPT !.remaining_calls = r] \in GoodConversation(P, M)
           /\ [k EXCEPT !.in_flight_prompt = 0, !.turn_state = "idle", !.pending_prompts = <<>>,
                        !.remaining_calls = {}] \in GoodConversation(P, M)
<1>1. /\ \A m \in 1..M : Append(k.pending_prompts, m) \in Seq(1..M)
      /\ k.pending_prompts # <<>> => Tail(k.pending_prompts) \in Seq(1..M)
      /\ <<>> \in Seq(1..M)
  BY DEF GoodConversation
<1> DEFINE Q == Seq(1..M)
           C == SUBSET (1..P)
           F == 0..P
           T == {"idle", "thinking", "tools"}
<1>2. "idle" \in T /\ "thinking" \in T /\ "tools" \in T /\ 0 \in F /\ 1..P \subseteq F /\ {} \in C /\ \A p \in 1..P : {p} \in C
  OBVIOUS
<1>3. GoodConversation(P, M) = [head : Nat, pending_prompts : Q, in_flight_prompt : F,
            turn_state : T, remaining_calls : C]
  BY DEF GoodConversation
<1>4. /\ \A m \in 1..M : Append(k.pending_prompts, m) \in Q
      /\ k.pending_prompts # <<>> => Tail(k.pending_prompts) \in Q
      /\ <<>> \in Q
  BY <1>1
<1> HIDE DEF Q, C, F, T
<1>5. \A h \in Nat : Fresh(h) \in GoodConversation(P, M)
  BY <1>2, <1>3, <1>4 DEF Fresh
<1> DEFINE G == GoodConversation(P, M)
<1>6. /\ \A x \in G, h \in Nat : [x EXCEPT !.head = h] \in G
      /\ \A x \in G, f \in F : [x EXCEPT !.in_flight_prompt = f] \in G
      /\ \A x \in G, t \in T : [x EXCEPT !.turn_state = t] \in G
      /\ \A x \in G, r \in C : [x EXCEPT !.remaining_calls = r] \in G
      /\ \A x \in G, s \in Q : [x EXCEPT !.pending_prompts = s] \in G
  BY <1>3
<1>0. k \in G
  OBVIOUS
<1> HIDE DEF G
<1>7. ASSUME NEW f \in F, NEW t \in T, NEW r \in C
      PROVE  [k EXCEPT !.in_flight_prompt = f, !.turn_state = t, !.remaining_calls = r] \in G
  <2> DEFINE a == [k EXCEPT !.in_flight_prompt = f]
             b == [a EXCEPT !.turn_state = t]
             c == [b EXCEPT !.remaining_calls = r]
  <2>1. c = [k EXCEPT !.in_flight_prompt = f, !.turn_state = t, !.remaining_calls = r]
    OBVIOUS
  <2>2. a \in G
    BY <1>0, <1>6
  <2>3. b \in G
    <3> HIDE DEF a
    <3> QED
      BY <1>6, <2>2
  <2>4. c \in G
    <3> HIDE DEF b
    <3> QED
      BY <1>6, <2>3
  <2> QED
    BY <2>1, <2>4
<1>8. ASSUME NEW f \in F, NEW t \in T, NEW r \in C, NEW s \in Q
      PROVE  /\ [k EXCEPT !.in_flight_prompt = f, !.turn_state = t, !.pending_prompts = s,
                          !.remaining_calls = r] \in G
             /\ [k EXCEPT !.turn_state = t, !.remaining_calls = r, !.pending_prompts = s] \in G
  <2> DEFINE a == [k EXCEPT !.in_flight_prompt = f]
             b == [a EXCEPT !.turn_state = t]
             c == [b EXCEPT !.pending_prompts = s]
             d == [c EXCEPT !.remaining_calls = r]
             u == [k EXCEPT !.turn_state = t]
             v == [u EXCEPT !.remaining_calls = r]
             w == [v EXCEPT !.pending_prompts = s]
  <2>1. /\ d = [k EXCEPT !.in_flight_prompt = f, !.turn_state = t, !.pending_prompts = s,
                         !.remaining_calls = r]
        /\ w = [k EXCEPT !.turn_state = t, !.remaining_calls = r, !.pending_prompts = s]
    OBVIOUS
  <2>2. a \in G /\ u \in G
    BY <1>0, <1>6
  <2>3. b \in G /\ v \in G
    <3> HIDE DEF a, u
    <3> QED
      BY <1>6, <2>2
  <2>4. c \in G /\ w \in G
    <3> HIDE DEF b, v
    <3> QED
      BY <1>6, <2>3
  <2>5. d \in G
    <3> HIDE DEF c
    <3> QED
      BY <1>6, <2>4
  <2> QED
    BY <2>1, <2>4, <2>5
<1>9. SUBSET (1..P) = C
  BY DEF C
<1>10. /\ \A m \in 1..M : [k EXCEPT !.pending_prompts = Append(@, m)]
                            = [k EXCEPT !.pending_prompts = Append(k.pending_prompts, m)]
       /\ [k EXCEPT !.pending_prompts = Tail(@)] = [k EXCEPT !.pending_prompts = Tail(k.pending_prompts)]
  OBVIOUS
<1>11. GoodConversation(P, M) = G
  BY DEF G
<1>12. /\ \A m \in 1..M : [k EXCEPT !.pending_prompts = Append(@, m)] \in G
       /\ k.pending_prompts # <<>> => [k EXCEPT !.pending_prompts = Tail(@)] \in G
  BY <1>0, <1>4, <1>6, <1>10
<1>13. [k EXCEPT !.in_flight_prompt = 0, !.turn_state = "idle", !.remaining_calls = {}] \in G
  BY <1>2, <1>7
<1>14. \A p \in 1..P :
        [k EXCEPT !.in_flight_prompt = p, !.turn_state = "thinking", !.remaining_calls = {}] \in G
  BY <1>2, <1>7
<1>15. \A p \in 1..P :
        [k EXCEPT !.in_flight_prompt = 0, !.turn_state = "tools", !.remaining_calls = {p}] \in G
  BY <1>2, <1>7
<1>16. /\ [k EXCEPT !.turn_state = "idle", !.remaining_calls = {}, !.pending_prompts = <<>>] \in G
       /\ [k EXCEPT !.in_flight_prompt = 0, !.turn_state = "idle", !.pending_prompts = <<>>,
                    !.remaining_calls = {}] \in G
  BY <1>2, <1>4, <1>8
<1>17. /\ \A h \in Nat : [k EXCEPT !.head = h] \in G
       /\ \A r \in SUBSET (1..P) : [k EXCEPT !.remaining_calls = r] \in G
  BY <1>0, <1>6, <1>9
<1> QED
  BY <1>5, <1>11, <1>12, <1>13, <1>14, <1>15, <1>16, <1>17

(* What is good is of its type. *)
LEMMA TypeInvSuffices == TypeInv => TypeOK
<1> SUFFICES ASSUME TypeInv PROVE TypeOK
  OBVIOUS
<1>1. /\ Len(prompts) \in Nat /\ DOMAIN prompts = 1..Len(prompts)
      /\ Len(messages) \in Nat /\ DOMAIN messages = 1..Len(messages)
  BY DEF TypeInv
<1>2. conv \in [Convs -> Conversation]
  <2>1. GoodConversation(Len(prompts), Len(messages)) \subseteq Conversation
    BY <1>1, ConversationGrows
  <2> QED
    BY <2>1 DEF TypeInv
<1>3. pending_intercept \in Seq(Event) /\ deferred_publishes \in Seq(Event)
  <2>1. GoodEvent(Len(prompts)) \subseteq Event
    BY DEF GoodEvent
  <2> DEFINE E == GoodEvent(Len(prompts))
  <2>2. pending_intercept \in Seq(E) /\ deferred_publishes \in Seq(E)
    BY DEF TypeInv
  <2> HIDE DEF E, Event
  <2> QED
    BY <2>1, <2>2, SeqGrows DEF E
<1>4. work \in Seq(Task)
  <2>1. GoodTask(Len(prompts)) \subseteq Task
    BY DEF GoodTask
  <2>2. work \in Seq(GoodTask(Len(prompts)))
    BY DEF TypeInv
  <2> HIDE DEF Task
  <2> QED
    BY <2>1, <2>2, SeqGrows
<1> QED
  BY <1>1, <1>2, <1>3, <1>4 DEF TypeInv, TypeOK

(* session_id_for_event names a session there is, or none. *)
LEMMA SessionForTypes ==
    ASSUME TypeInv, NEW e \in GoodEvent(Len(prompts))
    PROVE  SessionFor(e) \in 0..MaxSessions
<1>1. session \in 1..MaxSessions
  BY DEF TypeInv
<1>2. 0 \in 0..MaxSessions /\ 1..MaxSessions \subseteq 0..MaxSessions
  BY PromptDispatchAssumption
<1>3. \A n, tracked : Attributed(n, tracked) \in 0..MaxSessions
  BY <1>1, <1>2 DEF Attributed
<1>4. e.kind \in UserKinds => e.session \in 1..MaxSessions
  BY DEF GoodEvent
<1> QED
  BY <1>2, <1>3, <1>4 DEF SessionFor

(* The fold of a good event keeps the trees and the conversations. *)
LEMMA FoldTypes ==
    ASSUME TypeInv, NEW e \in GoodEvent(Len(prompts)), Fold(e)
    PROVE  /\ tree' \in [1..MaxSessions -> Seq(Node)]
           /\ conv' \in [Convs -> GoodConversation(Len(prompts), Len(messages))]
<1> DEFINE s == SessionFor(e)
           node == [parent |-> ParentOf(e, s), entry |-> EntryOf(e)]
           G == GoodConversation(Len(prompts), Len(messages))
<1>1. s \in 0..MaxSessions
  BY SessionForTypes
<1>2. /\ tree \in [1..MaxSessions -> Seq(Node)]
      /\ conv \in [Convs -> G]
      /\ conversations \subseteq Convs
      /\ Len(prompts) \in Nat /\ Len(messages) \in Nat
  BY DEF TypeInv
<1>3. CASE s = 0
  BY <1>2, <1>3 DEF Fold
<1>4. CASE s # 0
  <2>1. s \in 1..MaxSessions
    BY <1>1, <1>4, PromptDispatchAssumption
  <2>2. Len(tree[s]) \in Nat /\ tree[s] \in Seq(Node)
    <3> HIDE DEF s
    <3> QED
      BY <1>2, <2>1
  <2>3. \A c \in Convs : conv[c].head \in Nat
    BY <1>2 DEF GoodConversation
  <2>4. ParentOf(e, s) \in Nat
    BY <1>2, <2>2, <2>3 DEF ParentOf
  <2>5. EntryOf(e) \in Entry
    <3>1. e.of \in Nat
      BY DEF GoodEvent, Event
    <3> QED
      BY <3>1 DEF EntryOf, Entry
  <2>6. node \in Node
    <3> HIDE DEF s
    <3> QED
      BY <2>4, <2>5 DEF Node
  <2>7. tree' = [tree EXCEPT ![s] = Append(@, node)]
    BY <1>4 DEF Fold
  <2>8. tree' \in [1..MaxSessions -> Seq(Node)]
    <3>1. Append(tree[s], node) \in Seq(Node)
      <4> HIDE DEF node, s, Node
      <4> QED
        BY <2>2, <2>6
    <3> HIDE DEF node, s, Node
    <3> QED
      BY <1>2, <2>7, <3>1
  <2>9. conv' = IF e.conv \in conversations
                THEN [conv EXCEPT ![e.conv].head = Len(tree[s]) + 1]
                ELSE conv
    BY <1>4 DEF Fold
  <2>10. conv' \in [Convs -> G]
    <3>1. CASE e.conv \in conversations
      <4>1. conv[e.conv] \in G /\ e.conv \in Convs
        BY <1>2, <3>1
      <4>2. [conv[e.conv] EXCEPT !.head = Len(tree[s]) + 1] \in G
        <5>1. Len(tree[s]) + 1 \in Nat
          BY <2>2
        <5> QED
          BY <1>2, <4>1, <5>1, ConversationTypes
      <4>3. conv' = [conv EXCEPT ![e.conv] = [conv[e.conv] EXCEPT !.head = Len(tree[s]) + 1]]
        BY <2>9, <3>1
      <4> HIDE DEF G, s
      <4> QED
        BY <1>2, <4>1, <4>2, <4>3
    <3>2. CASE e.conv \notin conversations
      BY <1>2, <2>9, <3>2
    <3> QED
      BY <3>1, <3>2
  <2> QED
    BY <2>8, <2>10
<1> QED
  BY <1>3, <1>4

(* A commit keeps the types. *)
LEMMA CommitTypes ==
    ASSUME TypeInv, NEW e \in GoodEvent(Len(prompts)), NEW rest \in Seq(GoodTask(Len(prompts))),
           Commit(e, rest)
    PROVE  /\ tree' \in [1..MaxSessions -> Seq(Node)]
           /\ conv' \in [Convs -> GoodConversation(Len(prompts), Len(messages))]
           /\ work' \in Seq(GoodTask(Len(prompts)))
           /\ pending_user_prompt_dispatches' \in Seq(Convs)
           /\ at_agent' \subseteq 1..Len(prompts)
           /\ owes' \subseteq Providers \X (1..MaxSessions)
           /\ running' = running
<1> DEFINE P == Len(prompts)
           T == GoodTask(P)
<1>1. /\ P \in Nat
      /\ at_agent \subseteq 1..Len(prompts)
      /\ owes \subseteq Providers \X (1..MaxSessions)
      /\ conversations \subseteq Convs
      /\ pending_user_prompt_dispatches \in Seq(Convs)
  BY DEF TypeInv
<1>2. Fold(e) /\ Deliver(e)
  BY DEF Commit
<1>3. at_agent' \subseteq 1..Len(prompts)
  <2>1. e.kind = "prompt_created" => e.of \in 1..P
    BY <1>1 DEF GoodEvent, UserKinds
  <2> QED
    BY <1>1, <1>2, <2>1 DEF Deliver
<1>4. owes' \subseteq Providers \X (1..MaxSessions)
  <2>1. e.kind = "session_started" => e.session \in 1..MaxSessions
    BY DEF GoodEvent
  <2> QED
    BY <1>1, <1>2, <2>1 DEF Deliver
<1>5. work' \in Seq(T) /\ pending_user_prompt_dispatches' \in Seq(Convs)
  <2>1. CASE e.kind \in UserKinds /\ pending_user_prompt_dispatches # <<>>
    <3> DEFINE c == Head(pending_user_prompt_dispatches)
               sends == IF c \in conversations THEN <<Do("send", c, 0)>> ELSE <<>>
    <3>1. work' = sends \o rest /\ pending_user_prompt_dispatches' = Tail(pending_user_prompt_dispatches)
      BY <2>1 DEF Commit
    <3>2. Do("send", c, 0) \in T \/ c \notin conversations
      BY <1>1, DoTypes
    <3>3. sends \in Seq(T)
      <4> HIDE DEF T, c
      <4> QED
        BY <3>2
    <3>4. rest \in Seq(T)
      OBVIOUS
    <3>5. work' \in Seq(T)
      <4> HIDE DEF T, sends
      <4> QED
        BY <3>1, <3>3, <3>4
    <3> QED
      BY <1>1, <2>1, <3>1, <3>5
  <2>2. CASE ~(e.kind \in UserKinds /\ pending_user_prompt_dispatches # <<>>)
    BY <1>1, <2>2 DEF Commit
  <2> QED
    BY <2>1, <2>2
<1> QED
  BY <1>2, <1>3, <1>4, <1>5, FoldTypes DEF Deliver

(* dispatch_publish_step keeps the types. *)
LEMMA DispatchStepTypes ==
    ASSUME TypeInv, NEW e \in GoodEvent(Len(prompts)), NEW rest \in Seq(GoodTask(Len(prompts))),
           DispatchStep(e, rest)
    PROVE  /\ tree' \in [1..MaxSessions -> Seq(Node)]
           /\ conv' \in [Convs -> GoodConversation(Len(prompts), Len(messages))]
           /\ work' \in Seq(GoodTask(Len(prompts)))
           /\ pending_user_prompt_dispatches' \in Seq(Convs)
           /\ at_agent' \subseteq 1..Len(prompts)
           /\ owes' \subseteq Providers \X (1..MaxSessions)
           /\ running' = running
           /\ pending_intercept' \in Seq(GoodEvent(Len(prompts))) /\ Len(pending_intercept') <= 1
<1>1. CASE Intercepts(e)
  <2> DEFINE E == GoodEvent(Len(prompts))
  <2>1. pending_intercept' = <<e>> /\ e \in E
    BY <1>1 DEF DispatchStep
  <2>2. pending_intercept' \in Seq(E) /\ Len(pending_intercept') <= 1
    <3> HIDE DEF E
    <3> QED
      BY <2>1
  <2> QED
    BY <1>1, <2>2 DEF DispatchStep, TypeInv, outside
<1>2. CASE ~Intercepts(e)
  <2>1. Commit(e, rest) /\ pending_intercept' = <<>>
    BY <1>2 DEF DispatchStep
  <2> QED
    BY <2>1, CommitTypes
<1> QED
  BY <1>1, <1>2

(* The initial state has the types. *)
LEMMA InitTypes == Init => TypeInv
<1> SUFFICES ASSUME Init PROVE TypeInv
  OBVIOUS
<1>1. Len(prompts) = 0 /\ Len(messages) = 0 /\ Len(pending_intercept) = 0
  BY DEF Init
<1>2. Fresh(0) \in GoodConversation(0, 0)
  BY DEF Fresh, GoodConversation
<1>3. conv \in [Convs -> GoodConversation(0, 0)]
  <2> HIDE DEF Fresh, GoodConversation
  <2> QED
    BY <1>2 DEF Init
<1>4. /\ tree \in [1..MaxSessions -> Seq(Node)]
      /\ pending_intercept \in Seq(GoodEvent(0))
      /\ deferred_publishes \in Seq(GoodEvent(0))
      /\ work \in Seq(GoodTask(0))
      /\ messages \in Seq(Message)
      /\ prompts \in Seq(Prompt)
      /\ pending_user_prompt_dispatches \in Seq(Convs)
  <2> HIDE DEF Node, GoodEvent, GoodTask, Message, Prompt, Convs
  <2> QED
    BY DEF Init
<1>5. session \in 1..MaxSessions /\ {Default} \subseteq Convs
  BY PromptDispatchAssumption DEF Init, Convs
<1> QED
  BY <1>1, <1>3, <1>4, <1>5 DEF Init, TypeInv

(* The task at the head of work, and what is behind it. *)
LEMMA HeadTypes ==
    ASSUME TypeInv, work # <<>>
    PROVE  /\ Head(work) \in GoodTask(Len(prompts))
           /\ Tail(work) \in Seq(GoodTask(Len(prompts)))
           /\ Head(work).op \in {"dispatch", "send", "answered", "called", "turn"} => Head(work).conv \in Convs
           /\ Head(work).op \in {"answered", "called", "turn", "clear"} => Head(work).of \in 1..Len(prompts)
           /\ Head(work).op = "respawn" => Head(work).conv \in Providers
           /\ Head(work).op = "publish" => Head(work) \in GoodEvent(Len(prompts))
<1> DEFINE T == GoodTask(Len(prompts))
<1>1. work \in Seq(T)
  BY DEF TypeInv
<1>2. Head(work) \in T /\ Tail(work) \in Seq(T)
  <2> HIDE DEF T
  <2> QED
    BY <1>1
<1> QED
  BY <1>2 DEF GoodTask

(* Types, for publish_event_for_conversation. *)
LEMMA PublishStepTypes == ASSUME TypeInv, EnqueuePublish PROVE TypeInv'
<1> DEFINE P == Len(prompts)
           head == Head(work)
           e == IF head.conv \in conversations THEN head ELSE [head EXCEPT !.conv = None]
           E == GoodEvent(P)
<1>1. head \in E /\ Tail(work) \in Seq(GoodTask(P))
  BY HeadTypes DEF EnqueuePublish, Doing
<1>2. e \in E
  <2>1. [head EXCEPT !.conv = None] \in Event
    BY <1>1 DEF GoodEvent, Event
  <2>2. /\ [head EXCEPT !.conv = None].kind = head.kind
        /\ [head EXCEPT !.conv = None].of = head.of
        /\ [head EXCEPT !.conv = None].session = head.session
    <3>1. head \in Event
      BY <1>1 DEF GoodEvent
    <3> QED
      BY <3>1 DEF Event
  <2>3. [head EXCEPT !.conv = None] \in E
    <3> HIDE DEF Event, head
    <3> QED
      BY <1>1, <2>1, <2>2 DEF GoodEvent
  <2> QED
    BY <1>1, <2>3
<1>3. said' \subseteq [conv : Convs, session : 1..MaxSessions, entry : Entry]
  <2>1. said' = IF Folds(e) /\ e.conv # None
                THEN said \cup {[conv |-> e.conv, session |-> session, entry |-> EntryOf(e)]}
                ELSE said
    BY DEF EnqueuePublish
  <2>2. e \in Event
    BY <1>2 DEF GoodEvent
  <2>3. e.of \in Nat /\ e.conv \in Convs \cup {None}
    BY <2>2 DEF Event
  <2>4. EntryOf(e) \in Entry
    BY <2>3 DEF EntryOf, Entry
  <2> HIDE DEF e, Entry
  <2> QED
    BY <2>1, <2>3, <2>4 DEF TypeInv
<1>4. /\ UNCHANGED <<conversations, gates, interceptor, tracking, messages, prompts, gone>>
      /\ IF pending_intercept # <<>>
         THEN /\ deferred_publishes' = Append(deferred_publishes, e)
              /\ Then(<<>>)
              /\ UNCHANGED <<pending_intercept, tree, conv, pending_user_prompt_dispatches, outside>>
         ELSE /\ DispatchStep(e, Tail(work))
              /\ UNCHANGED deferred_publishes
  BY DEF EnqueuePublish
<1>5. CASE pending_intercept # <<>>
  <2>1. deferred_publishes' \in Seq(E)
    <3>1. deferred_publishes \in Seq(E)
      BY DEF TypeInv
    <3> HIDE DEF E, e
    <3> QED
      BY <1>2, <1>4, <1>5, <3>1
  <2>2. work' \in Seq(GoodTask(P))
    <3>1. work' = <<>> \o Tail(work)
      BY <1>4, <1>5 DEF Then
    <3> HIDE DEF P
    <3> QED
      BY <1>1, <3>1
  <2> HIDE DEF e
  <2> QED
    BY <1>3, <1>4, <1>5, <2>1, <2>2 DEF TypeInv, gates, tracking, gone, outside
<1>6. CASE pending_intercept = <<>>
  <2>1. DispatchStep(e, Tail(work)) /\ UNCHANGED deferred_publishes
    BY <1>4, <1>6
  <2> HIDE DEF e
  <2>2. /\ tree' \in [1..MaxSessions -> Seq(Node)]
        /\ conv' \in [Convs -> GoodConversation(Len(prompts), Len(messages))]
        /\ work' \in Seq(GoodTask(Len(prompts)))
        /\ pending_user_prompt_dispatches' \in Seq(Convs)
        /\ at_agent' \subseteq 1..Len(prompts)
        /\ owes' \subseteq Providers \X (1..MaxSessions)
        /\ running' = running
        /\ pending_intercept' \in Seq(GoodEvent(Len(prompts))) /\ Len(pending_intercept') <= 1
    BY <1>1, <1>2, <2>1, DispatchStepTypes
  <2> QED
    BY <1>3, <1>4, <2>1, <2>2 DEF TypeInv, gates, tracking, gone
<1> QED
  BY <1>5, <1>6

(* Types, for drain_deferred_publishes. *)
LEMMA DrainTypes == ASSUME TypeInv, DrainDeferred PROVE TypeInv'
<1> DEFINE P == Len(prompts)
           E == GoodEvent(P)
<1>1. work \in Seq(GoodTask(P)) /\ Tail(work) \in Seq(GoodTask(P))
  BY HeadTypes DEF DrainDeferred, Doing, TypeInv
<1>2. UNCHANGED <<conversations, gates, interceptor, tracking, messages, prompts, said, gone>>
  BY DEF DrainDeferred
<1>3. CASE pending_intercept = <<>> /\ deferred_publishes # <<>>
  <2> DEFINE e == Head(deferred_publishes)
  <2>1. deferred_publishes' = Tail(deferred_publishes) /\ DispatchStep(e, work)
    BY <1>3 DEF DrainDeferred
  <2>2. e \in E /\ deferred_publishes' \in Seq(E)
    <3>1. deferred_publishes \in Seq(E)
      BY DEF TypeInv
    <3> HIDE DEF E
    <3> QED
      BY <1>3, <2>1, <3>1
  <2> HIDE DEF e
  <2>3. /\ tree' \in [1..MaxSessions -> Seq(Node)]
        /\ conv' \in [Convs -> GoodConversation(Len(prompts), Len(messages))]
        /\ work' \in Seq(GoodTask(Len(prompts)))
        /\ pending_user_prompt_dispatches' \in Seq(Convs)
        /\ at_agent' \subseteq 1..Len(prompts)
        /\ owes' \subseteq Providers \X (1..MaxSessions)
        /\ running' = running
        /\ pending_intercept' \in Seq(GoodEvent(Len(prompts))) /\ Len(pending_intercept') <= 1
    BY <1>1, <2>1, <2>2, DispatchStepTypes
  <2> QED
    BY <1>2, <2>2, <2>3 DEF TypeInv, gates, tracking, gone
<1>4. CASE ~(pending_intercept = <<>> /\ deferred_publishes # <<>>)
  <2>1. /\ Then(<<>>)
        /\ UNCHANGED <<pending_intercept, deferred_publishes, tree, conv,
                       pending_user_prompt_dispatches, outside>>
    BY <1>4 DEF DrainDeferred
  <2>2. work' \in Seq(GoodTask(P))
    <3>1. work' = <<>> \o Tail(work)
      BY <2>1 DEF Then
    <3> HIDE DEF P
    <3> QED
      BY <1>1, <3>1
  <2> QED
    BY <1>2, <2>1, <2>2 DEF TypeInv, gates, tracking, gone, outside
<1> QED
  BY <1>3, <1>4

(* The commit of the publish that waits, and a look at those behind it. *)
LEMMA ReleaseTypes ==
    ASSUME TypeInv, pending_intercept # <<>>, pending_intercept' = <<>>,
           Commit(Head(pending_intercept), <<Do("drain", None, 0)>>),
           interceptor' \in BOOLEAN,
           UNCHANGED <<conversations, gates, deferred_publishes, tracking, messages, prompts, said, gone>>
    PROVE  TypeInv'
<1> DEFINE P == Len(prompts)
           E == GoodEvent(P)
           T == GoodTask(P)
           e == Head(pending_intercept)
           rest == <<Do("drain", None, 0)>>
<1>1. e \in E /\ Len(pending_intercept') <= 1 /\ pending_intercept' \in Seq(E)
  <2>1. pending_intercept \in Seq(E)
    BY DEF TypeInv
  <2> HIDE DEF E
  <2> QED
    BY <2>1
<1>2. rest \in Seq(T)
  <2>1. Do("drain", None, 0) \in T
    <3>1. P \in Nat
      BY DEF TypeInv
    <3> QED
      BY <3>1, DoTypes
  <2> HIDE DEF T
  <2> QED
    BY <2>1
<1> HIDE DEF e, rest
<1>3. /\ tree' \in [1..MaxSessions -> Seq(Node)]
      /\ conv' \in [Convs -> GoodConversation(Len(prompts), Len(messages))]
      /\ work' \in Seq(GoodTask(Len(prompts)))
      /\ pending_user_prompt_dispatches' \in Seq(Convs)
      /\ at_agent' \subseteq 1..Len(prompts)
      /\ owes' \subseteq Providers \X (1..MaxSessions)
      /\ running' = running
  <2>1. Commit(e, rest)
    BY DEF e, rest
  <2> QED
    BY <1>1, <1>2, <2>1, CommitTypes
<1> QED
  BY <1>1, <1>3 DEF TypeInv, gates, tracking, gone

(* Types, for handle_intercept_reply. *)
LEMMA ReplyTypes == ASSUME TypeInv, InterceptReply PROVE TypeInv'
<1>1. interceptor' \in BOOLEAN
  BY DEF InterceptReply, TypeInv
<1> QED
  BY <1>1, ReleaseTypes DEF InterceptReply

(* Types, for fail_pending_intercept_for_disconnect. *)
LEMMA InterceptorGoneTypes == ASSUME TypeInv, InterceptorGone PROVE TypeInv'
<1>1. CASE pending_intercept # <<>>
  BY <1>1, ReleaseTypes DEF InterceptorGone
<1>2. CASE pending_intercept = <<>>
  BY <1>2 DEF InterceptorGone, TypeInv, gates, tracking, gone, outside
<1> QED
  BY <1>1, <1>2

(* The counts of prompts and messages are numbers. *)
LEMMA LengthTypes ==
    ASSUME TypeInv
    PROVE  Len(prompts) \in Nat /\ Len(messages) \in Nat
BY DEF TypeInv

(* Two tasks in front of others. *)
LEMMA DispatchTypes ==
    ASSUME TypeInv, NEW c \in Convs, NEW m \in Nat
    PROVE  Dispatch(c, m) \in Seq(GoodTask(Len(prompts)))
<1> DEFINE T == GoodTask(Len(prompts))
<1>1. session \in 1..MaxSessions /\ session \in Nat
  BY PromptDispatchAssumption DEF TypeInv
<1>2. Publish("prompt_submitted", c, m, session) \in T
  <2>1. "prompt_submitted" \in UserKinds /\ "prompt_submitted" \in Kinds
    BY DEF UserKinds, Kinds
  <2> QED
    BY <1>1, <2>1, PublishTypes, LengthTypes
<1>3. Do("dispatch", c, 0) \in T
  BY DoTypes, LengthTypes
<1>4. \A a \in T, b \in T : <<a, b>> \in Seq(T)
  <2> HIDE DEF T
  <2> QED
    OBVIOUS
<1> QED
  BY <1>2, <1>3, <1>4 DEF Dispatch

(* Types, for try_advance_queue. *)
LEMMA AdvanceQueueTypes == ASSUME TypeInv, TryAdvanceQueue PROVE TypeInv'
<1> DEFINE P == Len(prompts)
           M == Len(messages)
           T == GoodTask(P)
           G == GoodConversation(P, M)
<1>1. work \in Seq(T) /\ Tail(work) \in Seq(T)
  BY HeadTypes DEF TryAdvanceQueue, Doing, TypeInv
<1>2. UNCHANGED <<conversations, gates, tree, pipe, pending_user_prompt_dispatches, tracking,
                  outside, messages, prompts, said, gone>>
  BY DEF TryAdvanceQueue
<1>3. ASSUME NEW c \in Runnable,
             conv' = [conv EXCEPT ![c].pending_prompts = Tail(@)],
             work' = Dispatch(c, Head(conv[c].pending_prompts)) \o work
      PROVE  TypeInv'
  <2> DEFINE m == Head(conv[c].pending_prompts)
  <2>1. c \in Convs /\ conv[c] \in G /\ conv[c].pending_prompts # <<>> /\ conv \in [Convs -> G]
    BY DEF TypeInv, Runnable
  <2>2. m \in Nat
    BY <2>1, LengthTypes DEF GoodConversation
  <2>3. work' \in Seq(T)
    <3>1. Dispatch(c, m) \in Seq(T)
      BY <2>1, <2>2, DispatchTypes
    <3>2. work' = Dispatch(c, m) \o work
      BY <1>3
    <3> HIDE DEF T, m
    <3> QED
      BY <1>1, <3>1, <3>2
  <2>4. conv' \in [Convs -> G]
    <3>1. [conv[c] EXCEPT !.pending_prompts = Tail(@)] \in G
      BY <2>1, LengthTypes, ConversationTypes
    <3>2. conv' = [conv EXCEPT ![c] = [conv[c] EXCEPT !.pending_prompts = Tail(@)]]
      BY <1>3
    <3> HIDE DEF G
    <3> QED
      BY <2>1, <3>1, <3>2
  <2> QED
    BY <1>2, <2>3, <2>4 DEF TypeInv, gates, pipe, tracking, outside, gone
<1>4. ASSUME Then(<<>>), UNCHANGED conv PROVE TypeInv'
  <2>1. work' \in Seq(T)
    <3>1. work' = <<>> \o Tail(work)
      BY <1>4 DEF Then
    <3> HIDE DEF T
    <3> QED
      BY <1>1, <3>1
  <2> QED
    BY <1>2, <1>4, <2>1 DEF TypeInv, gates, pipe, tracking, outside, gone
<1> QED
  BY <1>3, <1>4 DEF TryAdvanceQueue

(* Types, for the end of dispatch_prompt_for_conversation. *)
LEMMA DispatchOrAwaitTypes == ASSUME TypeInv, DispatchOrAwait PROVE TypeInv'
<1> DEFINE P == Len(prompts)
           T == GoodTask(P)
           c == Head(work).conv
<1>1. Tail(work) \in Seq(T) /\ c \in Convs
  BY HeadTypes DEF DispatchOrAwait, Doing
<1>2. UNCHANGED <<conversations, conv, gates, tree, pipe, tracking, outside, messages, prompts,
                  said, gone>>
  BY DEF DispatchOrAwait
<1>3. \/ /\ pending_user_prompt_dispatches' = Append(pending_user_prompt_dispatches, c)
         /\ work' = <<>> \o Tail(work)
      \/ /\ work' = <<Do("send", c, 0)>> \o Tail(work)
         /\ UNCHANGED pending_user_prompt_dispatches
  BY DEF DispatchOrAwait, Then
<1>4. Do("send", c, 0) \in T
  BY <1>1, DoTypes, LengthTypes
<1>5. work' \in Seq(T)
  <2>1. \A t \in T, s \in Seq(T) : <<t>> \o s \in Seq(T) /\ <<>> \o s \in Seq(T)
    <3> HIDE DEF T
    <3> QED
      OBVIOUS
  <2> HIDE DEF T, c
  <2> QED
    BY <1>1, <1>3, <1>4, <2>1
<1>6. pending_user_prompt_dispatches' \in Seq(Convs)
  <2>1. pending_user_prompt_dispatches \in Seq(Convs)
    BY DEF TypeInv
  <2>2. \A s \in Seq(Convs), x \in Convs : Append(s, x) \in Seq(Convs)
    OBVIOUS
  <2> HIDE DEF c
  <2> QED
    BY <1>1, <1>3, <2>1, <2>2
<1> QED
  BY <1>2, <1>5, <1>6 DEF TypeInv, gates, pipe, tracking, outside, gone

(* A branch of nodes is a set of their entries. *)
LEMMA BranchTypes ==
    ASSUME NEW nodes \in Seq(Node), NEW n
    PROVE  Branch(nodes, n) \subseteq Entry
<1>1. \A k \in DOMAIN nodes : nodes[k].entry \in Entry
  <2>1. \A k \in DOMAIN nodes : nodes[k] \in Node
    <3> HIDE DEF Node
    <3> QED
      OBVIOUS
  <2> QED
    BY <2>1 DEF Node
<1> QED
  BY <1>1 DEF Branch

(* Types, for send_prompt_to_agent_for. *)
LEMMA SendTypes == ASSUME TypeInv, SendPrompt PROVE TypeInv'
<1> DEFINE P == Len(prompts)
           M == Len(messages)
           T == GoodTask(P + 1)
           G == GoodConversation(P + 1, M)
           c == Head(work).conv
           seen == Branch(tree[session], conv[c].head)
           prompt == [conv |-> c, session |-> session, seen |-> seen, missing |-> Missing(c, seen)]
<1>1. P \in Nat /\ M \in Nat /\ P <= P + 1
  BY LengthTypes
<1>2. c \in Convs /\ Tail(work) \in Seq(GoodTask(P))
  BY HeadTypes DEF SendPrompt, Doing
<1>3. prompt \in Prompt
  <2>1. tree[session] \in Seq(Node) /\ session \in 1..MaxSessions
    BY DEF TypeInv
  <2>2. seen \subseteq Entry
    BY <2>1, BranchTypes
  <2>3. Missing(c, seen) \subseteq Entry
    BY DEF TypeInv, Missing
  <2> HIDE DEF seen, c
  <2> QED
    BY <1>2, <2>1, <2>2, <2>3 DEF Prompt
<1>4. prompts' = Append(prompts, prompt)
  BY DEF SendPrompt
<1>5. prompts' \in Seq(Prompt) /\ Len(prompts') = P + 1
  <2>1. prompts \in Seq(Prompt)
    BY DEF TypeInv
  <2> HIDE DEF prompt, Prompt
  <2> QED
    BY <1>3, <1>4, <2>1
<1>6. GoodEvent(P) \subseteq GoodEvent(P + 1) /\ GoodTask(P) \subseteq T /\ 1..P \subseteq 1..(P + 1)
  BY <1>1, GoodGrows
<1>7. pending_intercept \in Seq(GoodEvent(P + 1)) /\ deferred_publishes \in Seq(GoodEvent(P + 1))
  BY <1>6, SeqGrows DEF TypeInv
<1>8. work' \in Seq(T)
  <2>1. Publish("prompt_created", None, P + 1, 0) \in T
    <3>1. "prompt_created" \in Kinds /\ "prompt_created" \notin UserKinds \cup {"session_started"}
      BY DEF UserKinds, Kinds
    <3> QED
      BY <1>1, <3>1, PublishTypes
  <2>2. Tail(work) \in Seq(T)
    BY <1>2, <1>6, SeqGrows
  <2>3. work' = <<Publish("prompt_created", None, P + 1, 0)>> \o Tail(work)
    BY DEF SendPrompt, Then, NextPrompt
  <2> HIDE DEF T
  <2> QED
    BY <2>1, <2>2, <2>3
<1>9. conv' \in [Convs -> G]
  <2>1. conv \in [Convs -> G]
    BY <1>1, ConversationGrows DEF TypeInv
  <2>2. [conv[c] EXCEPT !.in_flight_prompt = P + 1, !.turn_state = "thinking", !.remaining_calls = {}] \in G
    <3>1. conv[c] \in G
      BY <1>2, <2>1
    <3>2. P + 1 \in Nat /\ P + 1 \in 1..(P + 1)
      BY <1>1
    <3> DEFINE k == conv[c]
    <3>3. \A p \in 1..(P + 1) : [k EXCEPT !.in_flight_prompt = p, !.turn_state = "thinking",
                                       !.remaining_calls = {}] \in G
      <4> HIDE DEF k
      <4> QED
        BY <1>1, <3>1, <3>2, ConversationTypes DEF k
    <3> QED
      BY <3>2, <3>3
  <2>3. conv' = [conv EXCEPT ![c] = [conv[c] EXCEPT !.in_flight_prompt = P + 1,
                                            !.turn_state = "thinking", !.remaining_calls = {}]]
    BY DEF SendPrompt, NextPrompt
  <2> HIDE DEF G, c
  <2> QED
    BY <1>2, <2>1, <2>2, <2>3
<1>10. prompt_conversations' \subseteq 1..(P + 1)
  BY <1>1, <1>6 DEF SendPrompt, NextPrompt, TypeInv
<1>11. UNCHANGED <<conversations, gates, tree, pipe, pending_user_prompt_dispatches,
                   canceled_prompts, tool_conversations, outside, messages, said, gone>>
  BY DEF SendPrompt
<1> QED
  BY <1>5, <1>6, <1>7, <1>8, <1>9, <1>10, <1>11 DEF TypeInv, gates, pipe, outside, gone

(* A message more: what is known of the shorter history stays. *)
LEMMA NewMessageTypes ==
    ASSUME TypeInv, NEW c \in Convs, NEW kind \in {"prompt", "query", "shell", "context"},
           NewMessage(c, kind)
    PROVE  /\ messages' \in Seq(Message) /\ Len(messages') = Len(messages) + 1
           /\ GoodConversation(Len(prompts), Len(messages)) \subseteq GoodConversation(Len(prompts), Len(messages'))
           /\ 1..Len(messages) \subseteq 1..Len(messages')
<1>1. messages' \in Seq(Message) /\ Len(messages') = Len(messages) + 1
  <2> DEFINE m == [conv |-> c, kind |-> kind]
  <2>1. m \in Message
    BY DEF Message
  <2>2. messages \in Seq(Message) /\ messages' = Append(messages, m)
    BY DEF TypeInv, NewMessage
  <2> HIDE DEF m, Message
  <2> QED
    BY <2>1, <2>2
<1>2. 1..Len(messages) \subseteq 1..Len(messages')
  BY <1>1, LengthTypes
<1>3. Len(messages') \in Nat /\ Len(messages) <= Len(messages')
  BY <1>1, LengthTypes
<1> QED
  BY <1>1, <1>2, <1>3, LengthTypes, ConversationGrows

(* Tasks given to an idle harness. *)
LEMMA TaskLists ==
    ASSUME NEW P \in Nat
    PROVE  /\ <<>> \in Seq(GoodTask(P))
           /\ \A a \in GoodTask(P) : <<a>> \in Seq(GoodTask(P))
           /\ \A a, b \in GoodTask(P) : <<a, b>> \in Seq(GoodTask(P))
           /\ \A a, b, c, d \in GoodTask(P) : <<a, b, c, d>> \in Seq(GoodTask(P))
           /\ \A s, t \in Seq(GoodTask(P)) : s \o t \in Seq(GoodTask(P))
<1> DEFINE T == GoodTask(P)
<1> HIDE DEF T
<1>1. /\ <<>> \in Seq(T)
      /\ \A a \in T : <<a>> \in Seq(T)
      /\ \A a, b \in T : <<a, b>> \in Seq(T)
      /\ \A a, b, c, d \in T : <<a, b, c, d>> \in Seq(T)
      /\ \A s, t \in Seq(T) : s \o t \in Seq(T)
  OBVIOUS
<1> QED
  BY <1>1 DEF T

(* Types, for a prompt that is given up. *)
LEMMA GiveUpTypes ==
    ASSUME TypeInv, NEW c \in Convs
    PROVE  GiveUp(c) \in GoodConversation(Len(prompts), Len(messages))
<1>1. conv[c] \in GoodConversation(Len(prompts), Len(messages))
  BY DEF TypeInv
<1> DEFINE k == conv[c]
<1>2. [k EXCEPT !.in_flight_prompt = 0, !.turn_state = "idle", !.pending_prompts = <<>>,
                !.remaining_calls = {}] \in GoodConversation(Len(prompts), Len(messages))
  <2> HIDE DEF k
  <2> QED
    BY <1>1, LengthTypes, ConversationTypes DEF k
<1> QED
  BY <1>2 DEF GiveUp

(* Types, for submit_user_prompt. *)
LEMMA SubmitTypes == ASSUME TypeInv, SubmitUserPrompt PROVE TypeInv'
<1> DEFINE P == Len(prompts)
           M == Len(messages)
           G == GoodConversation(P, M)
           N == GoodConversation(P, M + 1)
           m == M + 1
           made_way == [c \in Convs |-> IF c \in Preempted THEN GiveUp(c) ELSE conv[c]]
           given_up == {conv[q].in_flight_prompt : q \in Preempted}
<1>1. P \in Nat /\ M \in Nat /\ m \in Nat /\ conv \in [Convs -> G] /\ Default \in Convs
  BY LengthTypes DEF TypeInv, Convs
<1>2. /\ NewMessage(Default, "prompt")
      /\ GiveUpPrompts(given_up)
      /\ IF DispatchBlocked(Default)
         THEN /\ conv' = [made_way EXCEPT ![Default].pending_prompts = Append(@, m)]
              /\ work' = <<Advance>>
         ELSE /\ conv' = made_way
              /\ work' = Dispatch(Default, m)
      /\ UNCHANGED <<conversations, gates, tree, pipe, pending_user_prompt_dispatches,
                     tool_conversations, outside, prompts, said, discarded>>
  BY DEF SubmitUserPrompt
<1>3. messages' \in Seq(Message) /\ Len(messages') = M + 1 /\ G \subseteq N /\ 1..M \subseteq 1..(M + 1)
  BY <1>1, <1>2, NewMessageTypes
<1>4. given_up \subseteq 1..P
  <2>1. \A q \in Preempted : q \in Convs /\ conv[q].in_flight_prompt # 0
    BY DEF Preempted, TypeInv
  <2>2. \A q \in Preempted : conv[q].in_flight_prompt \in 0..P
    BY <1>1, <2>1 DEF GoodConversation
  <2> QED
    BY <1>1, <2>1, <2>2
<1>5. made_way \in [Convs -> N]
  <2>1. \A c \in Convs : GiveUp(c) \in G /\ conv[c] \in G
    BY <1>1, GiveUpTypes
  <2> HIDE DEF G, N
  <2> QED
    BY <1>3, <2>1
<1>6. conv' \in [Convs -> N] /\ work' \in Seq(GoodTask(P))
  <2>1. CASE DispatchBlocked(Default)
    <3> DEFINE k == made_way[Default]
    <3>1. k \in N /\ m \in 1..(M + 1)
      BY <1>1, <1>5
    <3>2. [k EXCEPT !.pending_prompts = Append(@, m)] \in N
      <4> HIDE DEF k
      <4> QED
        BY <1>1, <3>1, ConversationTypes
    <3>3. conv' = [made_way EXCEPT ![Default] = [made_way[Default] EXCEPT !.pending_prompts = Append(@, m)]]
      BY <1>2, <2>1
    <3>4. conv' \in [Convs -> N]
      <4> HIDE DEF N, made_way
      <4> QED
        BY <1>1, <1>5, <3>2, <3>3
    <3>5. work' \in Seq(GoodTask(P))
      <4>1. Advance \in GoodTask(P) /\ work' = <<Advance>>
        BY <1>1, <1>2, <2>1, DoTypes
      <4> QED
        BY <1>1, <4>1, TaskLists
    <3> QED
      BY <3>4, <3>5
  <2>2. CASE ~DispatchBlocked(Default)
    BY <1>1, <1>2, <1>5, <2>2, DispatchTypes
  <2> QED
    BY <2>1, <2>2
<1>7. canceled_prompts' \subseteq 1..P /\ prompt_conversations' \subseteq 1..P /\ dropped' \subseteq 1..P
  <2> HIDE DEF given_up
  <2> QED
    BY <1>2, <1>4 DEF GiveUpPrompts, TypeInv
<1> HIDE DEF made_way, given_up
<1> QED
  BY <1>2, <1>3, <1>6, <1>7 DEF TypeInv, gates, pipe, outside

(* Types, for handle_cancel_prompt. *)
LEMMA CancelTypes == ASSUME TypeInv, CancelPrompt PROVE TypeInv'
<1> DEFINE P == Len(prompts)
           M == Len(messages)
           G == GoodConversation(P, M)
           given_up == {conv[Default].in_flight_prompt}
<1>1. P \in Nat /\ M \in Nat /\ conv \in [Convs -> G] /\ Default \in Convs /\ conv[Default] \in G
  BY LengthTypes DEF TypeInv, Convs
<1>2. /\ conv[Default].in_flight_prompt # 0
      /\ GiveUpPrompts(given_up)
      /\ discarded' = discarded \cup Range(conv[Default].pending_prompts)
      /\ conv' = [conv EXCEPT ![Default] = GiveUp(Default)]
      /\ work' = <<Advance>>
      /\ UNCHANGED <<conversations, gates, tree, pipe, pending_user_prompt_dispatches,
                     tool_conversations, outside, messages, prompts, said>>
  BY DEF CancelPrompt
<1>3. given_up \subseteq 1..P
  <2>1. conv[Default].in_flight_prompt \in 0..P
    BY <1>1 DEF GoodConversation
  <2> QED
    BY <1>1, <1>2, <2>1
<1>4. discarded' \subseteq 1..M
  <2>1. conv[Default].pending_prompts \in Seq(1..M)
    BY <1>1 DEF GoodConversation
  <2>2. Range(conv[Default].pending_prompts) \subseteq 1..M
    BY <2>1 DEF Range
  <2> QED
    BY <1>2, <2>2 DEF TypeInv
<1>5. conv' \in [Convs -> G]
  BY <1>1, <1>2, GiveUpTypes
<1>6. work' \in Seq(GoodTask(P))
  BY <1>1, <1>2, DoTypes, TaskLists
<1>7. canceled_prompts' \subseteq 1..P /\ prompt_conversations' \subseteq 1..P /\ dropped' \subseteq 1..P
  <2> HIDE DEF given_up
  <2> QED
    BY <1>2, <1>3 DEF GiveUpPrompts, TypeInv
<1> HIDE DEF given_up
<1> QED
  BY <1>2, <1>4, <1>5, <1>6, <1>7 DEF TypeInv, gates, pipe, outside

(* Types, for inject_user_shell_output. *)
LEMMA ShellTypes == ASSUME TypeInv, NEW s \in 1..session, ShellFinished(s) PROVE TypeInv'
<1> DEFINE P == Len(prompts)
           M == Len(messages)
           c == IF s = session THEN Default ELSE None
<1>1. P \in Nat /\ M \in Nat /\ M + 1 \in Nat /\ Default \in Convs /\ s \in 1..MaxSessions /\ s \in Nat
  BY LengthTypes, PromptDispatchAssumption DEF TypeInv, Convs
<1>2. /\ NewMessage(Default, "shell")
      /\ work' = <<Publish("injected", c, M + 1, s)>>
      /\ UNCHANGED <<conversations, conv, gates, tree, pipe, pending_user_prompt_dispatches,
                     tracking, outside, prompts, said, gone>>
  BY DEF ShellFinished
<1>3. /\ messages' \in Seq(Message)
      /\ GoodConversation(P, M) \subseteq GoodConversation(P, Len(messages'))
      /\ 1..M \subseteq 1..Len(messages')
  BY <1>1, <1>2, NewMessageTypes
<1>4. work' \in Seq(GoodTask(P))
  <2>1. "injected" \in Kinds /\ "injected" \in UserKinds /\ c \in Convs \cup {None}
    BY <1>1 DEF Kinds, UserKinds
  <2> HIDE DEF c
  <2>2. Publish("injected", c, M + 1, s) \in GoodTask(P)
    BY <1>1, <2>1, PublishTypes
  <2> QED
    BY <1>1, <1>2, <2>2, TaskLists
<1>5. conv' \in [Convs -> GoodConversation(P, Len(messages'))] /\ discarded' \subseteq 1..Len(messages')
  BY <1>2, <1>3 DEF TypeInv, gone
<1> QED
  BY <1>2, <1>3, <1>4, <1>5 DEF TypeInv, gates, pipe, tracking, outside, gone

(* complete_session_init: a message for the files that were found, then the queue. *)
LEMMA CompleteInitTypes ==
    ASSUME TypeInv, NEW found, NEW s \in 1..MaxSessions,
           NEW rest \in Seq(GoodTask(Len(prompts))), CompleteInit(found, s, rest)
    PROVE  /\ messages' \in Seq(Message)
           /\ work' \in Seq(GoodTask(Len(prompts)))
           /\ GoodConversation(Len(prompts), Len(messages)) \subseteq GoodConversation(Len(prompts), Len(messages'))
           /\ 1..Len(messages) \subseteq 1..Len(messages')
<1> DEFINE P == Len(prompts)
           M == Len(messages)
           T == GoodTask(P)
           p == Publish("injected", Default, M + 1, s)
<1>1. P \in Nat /\ M \in Nat /\ M + 1 \in Nat /\ Default \in Convs /\ s \in Nat
  BY LengthTypes, PromptDispatchAssumption DEF Convs
<1>2. Advance \in T
  BY <1>1, DoTypes
<1>3. p \in T
  <2>1. "injected" \in Kinds /\ "injected" \in UserKinds
    BY DEF Kinds, UserKinds
  <2> QED
    BY <1>1, <2>1, PublishTypes
<1>4. work' = <<p, Advance>> \o rest \/ work' = <<Advance>> \o rest
  BY DEF CompleteInit
<1>5. work' \in Seq(T)
  <2>1. <<p, Advance>> \in Seq(T) /\ <<Advance>> \in Seq(T) /\ rest \in Seq(T)
    <3> HIDE DEF p, Advance
    <3> QED
      BY <1>1, <1>2, <1>3, TaskLists
  <2>2. \A x \in Seq(T), y \in Seq(T) : x \o y \in Seq(T)
    <3> HIDE DEF T
    <3> QED
      OBVIOUS
  <2> HIDE DEF T, p
  <2> QED
    BY <1>4, <2>1, <2>2
<1>6. CASE found # {}
  <2>1. NewMessage(Default, "context")
    BY <1>6 DEF CompleteInit
  <2> QED
    BY <1>1, <1>5, <2>1, NewMessageTypes
<1>7. CASE found = {}
  <2>1. UNCHANGED messages
    BY <1>7 DEF CompleteInit
  <2> QED
    BY <1>5, <2>1 DEF TypeInv
<1> QED
  BY <1>6, <1>7

(* Types, for switch_session. *)
LEMMA SwitchTypes == ASSUME TypeInv, SwitchSession PROVE TypeInv'
<1> DEFINE P == Len(prompts)
           M == Len(messages)
           G == GoodConversation(P, M)
<1>1. P \in Nat /\ M \in Nat /\ session + 1 \in 1..MaxSessions /\ session + 1 \in Nat /\ Default \in Convs
  BY LengthTypes, PromptDispatchAssumption DEF TypeInv, Convs, SwitchSession
<1>2. conv' \in [Convs -> G]
  <2>1. \A k \in G : Fresh(0) \in G
    BY <1>1, ConversationTypes
  <2>2. Fresh(0) \in G
    BY <1>1, <2>1 DEF TypeInv
  <2>3. conv' = [c \in Convs |-> Fresh(0)]
    BY DEF SwitchSession, Rebound
  <2> HIDE DEF G
  <2> QED
    BY <2>2, <2>3
<1>3. discarded' \subseteq 1..M
  <2>1. \A c \in conversations : conv[c].pending_prompts \in Seq(1..M)
    BY DEF TypeInv, GoodConversation
  <2>2. \A c \in conversations : Range(conv[c].pending_prompts) \subseteq 1..M
    BY <2>1 DEF Range
  <2> QED
    BY <2>2 DEF TypeInv, SwitchSession
<1>4. /\ work' \in Seq(GoodTask(P))
      /\ messages' \in Seq(Message)
      /\ G \subseteq GoodConversation(P, Len(messages'))
      /\ 1..M \subseteq 1..Len(messages')
  <2>1. CASE Subscribers = {}
    <3>1. CompleteInit(discovered, session + 1, <<>>)
      BY <2>1 DEF SwitchSession
    <3>2. <<>> \in Seq(GoodTask(P))
      BY <1>1, TaskLists
    <3> QED
      BY <1>1, <3>1, <3>2, CompleteInitTypes
  <2>2. CASE Subscribers # {}
    <3>1. work' = <<Publish("session_started", None, 0, session + 1)>> /\ UNCHANGED messages
      BY <2>2 DEF SwitchSession
    <3>2. "session_started" \in Kinds
      BY DEF Kinds
    <3>3. Publish("session_started", None, 0, session + 1) \in GoodTask(P)
      BY <1>1, <3>2, PublishTypes
    <3> QED
      BY <1>1, <3>1, <3>3, TaskLists DEF TypeInv
  <2> QED
    BY <2>1, <2>2
<1>5. /\ conv' \in [Convs -> GoodConversation(P, Len(messages'))]
      /\ discarded' \subseteq 1..Len(messages')
  BY <1>2, <1>3, <1>4
<1>6. /\ session' = session + 1
      /\ conversations' = {Default}
      /\ dropped' = dropped \cup prompt_conversations
      /\ prompt_conversations' = {}
      /\ tool_conversations' = {}
      /\ waiting_on' = Subscribers
      /\ discovered' = discovered \ Subscribers
      /\ UNCHANGED <<extension, tree, pipe, pending_user_prompt_dispatches, canceled_prompts,
                     outside, prompts, said>>
  BY DEF SwitchSession
<1>7. waiting_on' \subseteq Providers
  BY <1>6 DEF Subscribers
<1> QED
  BY <1>1, <1>4, <1>5, <1>6, <1>7 DEF TypeInv, pipe, outside

(* Types, for handle_extension_context_ready. *)
LEMMA ContextTypes ==
    ASSUME TypeInv, NEW v \in Providers, NEW s \in 1..MaxSessions, ContextReady(v, s)
    PROVE  TypeInv'
<1>1. /\ owes' = owes \ {<<v, s>>}
      /\ discovered' = discovered \cup ({v} \cap AgentsFiles)
      /\ UNCHANGED <<conversations, conv, session, extension, tree, pipe,
                     pending_user_prompt_dispatches, tracking, at_agent, running, prompts, said,
                     gone>>
  BY DEF ContextReady
<1>2. discovered' \subseteq Providers /\ owes' \subseteq Providers \X (1..MaxSessions)
  BY <1>1, PromptDispatchAssumption DEF TypeInv
<1>3. waiting_on' \subseteq Providers
  BY DEF ContextReady, TypeInv
<1>4. /\ messages' \in Seq(Message)
      /\ work' \in Seq(GoodTask(Len(prompts)))
      /\ GoodConversation(Len(prompts), Len(messages)) \subseteq GoodConversation(Len(prompts), Len(messages'))
      /\ 1..Len(messages) \subseteq 1..Len(messages')
  <2>1. CASE CompleteInit(discovered', session, <<>>)
    <3>1. <<>> \in Seq(GoodTask(Len(prompts))) /\ session \in 1..MaxSessions
      BY LengthTypes, TaskLists DEF TypeInv
    <3> QED
      BY <2>1, <3>1, CompleteInitTypes
  <2>2. CASE UNCHANGED <<work, messages>>
    BY <2>2 DEF TypeInv
  <2> QED
    BY <2>1, <2>2 DEF ContextReady
<1>5. /\ conv' \in [Convs -> GoodConversation(Len(prompts), Len(messages'))]
      /\ discarded' \subseteq 1..Len(messages')
  BY <1>1, <1>4 DEF TypeInv, gone
<1> QED
  BY <1>1, <1>2, <1>3, <1>4, <1>5 DEF TypeInv, pipe, tracking, gone

(* Types, for handle_disconnect of an extension. *)
LEMMA ExtensionGoneTypes ==
    ASSUME TypeInv, NEW v \in Providers, ExtensionGone(v)
    PROVE  TypeInv'
<1> DEFINE rest == <<Do("respawn", v, 0)>>
<1>1. /\ discovered' = discovered \ {v}
      /\ owes' = {o \in owes : o[1] # v}
      /\ waiting_on' = waiting_on \ {v}
      /\ UNCHANGED <<conversations, conv, session, extension, tree, pipe,
                     pending_user_prompt_dispatches, tracking, at_agent, running, prompts, said,
                     gone>>
  BY DEF ExtensionGone
<1>2. rest \in Seq(GoodTask(Len(prompts)))
  <2>1. Do("respawn", v, 0) \in GoodTask(Len(prompts))
    BY LengthTypes, DoTypes
  <2> QED
    BY <2>1, LengthTypes, TaskLists
<1>3. CompleteInit(discovered', session, rest) \/ (work' = rest /\ UNCHANGED messages)
  BY DEF ExtensionGone
<1> HIDE DEF rest
<1>4. /\ messages' \in Seq(Message)
      /\ work' \in Seq(GoodTask(Len(prompts)))
      /\ GoodConversation(Len(prompts), Len(messages)) \subseteq GoodConversation(Len(prompts), Len(messages'))
      /\ 1..Len(messages) \subseteq 1..Len(messages')
  <2>1. CASE CompleteInit(discovered', session, rest)
    <3>1. session \in 1..MaxSessions
      BY DEF TypeInv
    <3> QED
      BY <1>2, <2>1, <3>1, CompleteInitTypes
  <2>2. CASE work' = rest /\ UNCHANGED messages
    BY <1>2, <2>2 DEF TypeInv
  <2> QED
    BY <1>3, <2>1, <2>2
<1>5. /\ conv' \in [Convs -> GoodConversation(Len(prompts), Len(messages'))]
      /\ discarded' \subseteq 1..Len(messages')
  BY <1>1, <1>4 DEF TypeInv, gone
<1> QED
  BY <1>1, <1>4, <1>5 DEF TypeInv, pipe, tracking, gone

(* The head of work is done. *)
LEMMA ThenTypes ==
    ASSUME TypeInv, work # <<>>, NEW tasks \in Seq(GoodTask(Len(prompts))), Then(tasks)
    PROVE  work' \in Seq(GoodTask(Len(prompts)))
<1> DEFINE T == GoodTask(Len(prompts))
<1>1. Tail(work) \in Seq(T) /\ tasks \in Seq(T) /\ work' = tasks \o Tail(work)
  BY HeadTypes DEF Then
<1> HIDE DEF T
<1>2. work' \in Seq(T)
  BY <1>1
<1> QED
  BY <1>2 DEF T

(* No task is a list of good ones. *)
LEMMA NoTasks == ASSUME TypeInv PROVE <<>> \in Seq(GoodTask(Len(prompts)))
BY LengthTypes, TaskLists

(* Types, for try_respawn_supervised_extension. *)
LEMMA RespawnTypes == ASSUME TypeInv, Respawn PROVE TypeInv'
<1>1. work # <<>> /\ Head(work).conv \in Providers
  BY HeadTypes DEF Respawn, Doing
<1>2. work' \in Seq(GoodTask(Len(prompts)))
  BY <1>1, NoTasks, ThenTypes DEF Respawn
<1>3. extension' \in [Providers -> {"ready", "spawning", "subscribed", "gone"}]
  <2>1. PICK state \in {"spawning", "gone"} : extension' = [extension EXCEPT ![Head(work).conv] = state]
    BY DEF Respawn
  <2> QED
    BY <1>1, <2>1 DEF TypeInv
<1> QED
  BY <1>2, <1>3 DEF Respawn, TypeInv, pipe, tracking, outside, gone

(* Types, for an extension that subscribes or is ready. *)
LEMMA LifecycleTypes ==
    ASSUME TypeInv, NEW v \in Providers, ExtensionSubscribes(v) \/ ExtensionReady(v)
    PROVE  TypeInv'
<1>1. extension' \in [Providers -> {"ready", "spawning", "subscribed", "gone"}]
  BY DEF ExtensionSubscribes, ExtensionReady, TypeInv
<1>2. work' \in Seq(GoodTask(Len(prompts)))
  <2>1. Advance \in GoodTask(Len(prompts))
    BY LengthTypes, DoTypes
  <2>2. <<Advance>> \in Seq(GoodTask(Len(prompts)))
    BY <2>1, LengthTypes, TaskLists
  <2> QED
    BY <2>2 DEF ExtensionSubscribes, ExtensionReady, TypeInv
<1>3. UNCHANGED <<conversations, conv, session, waiting_on, discovered, tree, pipe,
                  pending_user_prompt_dispatches, tracking, outside, messages, prompts, said, gone>>
  BY DEF ExtensionSubscribes, ExtensionReady
<1> QED
  BY <1>1, <1>2, <1>3 DEF TypeInv, pipe, tracking, outside, gone

(* A prompt there is has a conversation. *)
LEMMA PromptTypes ==
    ASSUME TypeInv, NEW p \in 1..Len(prompts)
    PROVE  prompts[p] \in Prompt /\ prompts[p].conv \in Convs
<1>1. prompts \in Seq(Prompt)
  BY DEF TypeInv
<1>2. prompts[p] \in Prompt
  <2> HIDE DEF Prompt
  <2> QED
    BY <1>1
<1> QED
  BY <1>2 DEF Prompt

(* Types, for the answer of the agent. *)
LEMMA RespondsTypes ==
    ASSUME TypeInv, NEW p \in at_agent, NEW how \in {"answered", "called"}, AgentResponds(p, how)
    PROVE  TypeInv'
<1> DEFINE T == GoodTask(Len(prompts))
<1>1. p \in 1..Len(prompts) /\ p \in Nat /\ prompts[p].conv \in Convs
  <2>1. p \in 1..Len(prompts)
    BY DEF TypeInv
  <2> QED
    BY <2>1, PromptTypes, LengthTypes
<1>2. UNCHANGED <<conversations, conv, gates, tree, pipe, pending_user_prompt_dispatches,
                  tool_conversations, outside, messages, prompts, said, gone>>
  BY DEF AgentResponds
<1>3. canceled_prompts' \subseteq 1..Len(prompts) /\ prompt_conversations' \subseteq 1..Len(prompts)
  BY DEF AgentResponds, TypeInv
<1>4. work' \in Seq(T)
  <2>1. Publish("response_finished", prompts[p].conv, p, 0) \in T
    <3>1. "response_finished" \in Kinds /\ "response_finished" \notin UserKinds \cup {"session_started"}
      BY DEF Kinds, UserKinds
    <3> QED
      BY <1>1, <3>1, LengthTypes, PublishTypes
  <2>2. Do(how, prompts[p].conv, p) \in T
    BY <1>1, LengthTypes, DoTypes
  <2>3. <<Publish("response_finished", prompts[p].conv, p, 0), Do(how, prompts[p].conv, p)>> \in Seq(T)
    BY <2>1, <2>2, LengthTypes, TaskLists
  <2>4. work \in Seq(T)
    BY DEF TypeInv
  <2>5. \/ work' = <<Publish("response_finished", prompts[p].conv, p, 0), Do(how, prompts[p].conv, p)>>
        \/ work' = work
    BY DEF AgentResponds
  <2> HIDE DEF T
  <2> QED
    BY <2>3, <2>4, <2>5
<1> QED
  BY <1>2, <1>3, <1>4 DEF TypeInv, gates, pipe, outside, gone

(* Types, for the end of a turn. *)
LEMMA TurnEndsTypes == ASSUME TypeInv, TurnEnds PROVE TypeInv'
<1> DEFINE P == Len(prompts)
           M == Len(messages)
           G == GoodConversation(P, M)
           c == Head(work).conv
<1>1. work # <<>> /\ c \in Convs
  BY HeadTypes DEF TurnEnds, Doing
<1>2. conv \in [Convs -> G] /\ conv[c] \in G /\ P \in Nat /\ M \in Nat
  BY <1>1, LengthTypes DEF TypeInv
<1>3. conv' \in [Convs -> G] /\ conversations' \subseteq Convs
  <2>1. CASE c \in Queries
    <3>1. conv' = [conv EXCEPT ![c] = Fresh(0)] /\ conversations' = conversations \ {c}
      BY <2>1 DEF TurnEnds
    <3>2. Fresh(0) \in G
      BY <1>2, ConversationTypes
    <3> HIDE DEF G, c
    <3> QED
      BY <1>1, <1>2, <3>1, <3>2 DEF TypeInv
  <2>2. CASE c \notin Queries
    <3> DEFINE k == conv[c]
    <3>1. conv' = [conv EXCEPT ![c] = [conv[c] EXCEPT !.in_flight_prompt = 0, !.turn_state = "idle",
                                                     !.remaining_calls = {}]]
          /\ conversations' = conversations
      BY <2>2 DEF TurnEnds
    <3>2. [k EXCEPT !.in_flight_prompt = 0, !.turn_state = "idle", !.remaining_calls = {}] \in G
      <4>1. k \in G
        BY <1>2
      <4> HIDE DEF k
      <4> QED
        BY <1>2, <4>1, ConversationTypes
    <3> HIDE DEF G, c
    <3> QED
      BY <1>1, <1>2, <3>1, <3>2 DEF TypeInv
  <2> QED
    BY <2>1, <2>2
<1>4. work' \in Seq(GoodTask(P))
  <2>1. Advance \in GoodTask(P)
    BY <1>2, DoTypes
  <2>2. <<Advance>> \in Seq(GoodTask(P))
    BY <1>2, <2>1, TaskLists
  <2> QED
    BY <1>1, <2>2, ThenTypes DEF TurnEnds
<1>5. prompt_conversations' \subseteq 1..P
  BY DEF TurnEnds, TypeInv
<1>6. UNCHANGED <<gates, tree, pipe, pending_user_prompt_dispatches, canceled_prompts,
                  tool_conversations, outside, messages, prompts, said, gone>>
  BY DEF TurnEnds
<1> QED
  BY <1>3, <1>4, <1>5, <1>6 DEF TypeInv, gates, pipe, outside, gone

(* Types, for a response that calls a tool. *)
LEMMA ToolsStartTypes == ASSUME TypeInv, ToolsStart PROVE TypeInv'
<1> DEFINE P == Len(prompts)
           M == Len(messages)
           G == GoodConversation(P, M)
           c == Head(work).conv
           p == Head(work).of
<1>1. work # <<>> /\ c \in Convs /\ p \in 1..P
  BY HeadTypes DEF ToolsStart, Doing
<1>2. conv \in [Convs -> G] /\ conv[c] \in G /\ P \in Nat /\ M \in Nat
  BY <1>1, LengthTypes DEF TypeInv
<1>3. conv' \in [Convs -> G]
  <2> DEFINE k == conv[c]
             t == [conv[c] EXCEPT !.in_flight_prompt = 0, !.turn_state = "tools", !.remaining_calls = {p}]
  <2>1. conv' = [conv EXCEPT ![c] = t] \/ conv' = conv
    BY DEF ToolsStart
  <2>2. t \in G
    <3>1. \A x \in 1..P :
            [k EXCEPT !.in_flight_prompt = 0, !.turn_state = "tools", !.remaining_calls = {x}] \in G
      <4>1. k \in G
        BY <1>2
      <4> HIDE DEF k
      <4> QED
        BY <1>2, <4>1, ConversationTypes
    <3> QED
      BY <1>1, <3>1
  <2> HIDE DEF G, t
  <2> QED
    BY <1>1, <1>2, <2>1, <2>2
<1>4. work' \in Seq(GoodTask(P))
  BY <1>1, NoTasks, ThenTypes DEF ToolsStart
<1>5. /\ prompt_conversations' \subseteq 1..P
      /\ tool_conversations' \subseteq 1..P
      /\ running' \subseteq 1..P
  <2>1. /\ prompt_conversations' = prompt_conversations \ {p}
        /\ tool_conversations' = tool_conversations \cup {p}
        /\ running' = running \cup {p}
    BY DEF ToolsStart
  <2> QED
    BY <1>1, <2>1 DEF TypeInv
<1>6. UNCHANGED <<conversations, gates, tree, pipe, pending_user_prompt_dispatches,
                  canceled_prompts, at_agent, owes, messages, prompts, said, gone>>
  BY DEF ToolsStart
<1> QED
  BY <1>3, <1>4, <1>5, <1>6 DEF TypeInv, gates, pipe, gone

(* Types, for a tool result. *)
LEMMA ToolFinishesTypes == ASSUME TypeInv, NEW p \in running, ToolFinishes(p) PROVE TypeInv'
<1> DEFINE P == Len(prompts)
           T == GoodTask(P)
           c == prompts[p].conv
<1>1. p \in 1..P /\ p \in Nat /\ c \in Convs /\ P \in Nat
  <2>1. p \in 1..P
    BY DEF TypeInv
  <2> QED
    BY <2>1, PromptTypes, LengthTypes
<1>2. Publish("tool_result", c, p, 0) \in T
  <2>1. "tool_result" \in Kinds /\ "tool_result" \notin UserKinds \cup {"session_started"}
    BY DEF Kinds, UserKinds
  <2> QED
    BY <1>1, <2>1, PublishTypes
<1>3. Do("turn", c, p) \in T /\ Advance \in T /\ Do("clear", None, p) \in T
  BY <1>1, DoTypes
<1>4. <<Publish("tool_result", c, p, 0), Do("turn", c, p), Advance, Do("clear", None, p)>> \in Seq(T)
      /\ <<>> \in Seq(T)
  BY <1>1, <1>2, <1>3, TaskLists
<1>5. work' \in Seq(T)
  <2>1. \/ work' = <<Publish("tool_result", c, p, 0), Do("turn", c, p), Advance, Do("clear", None, p)>>
        \/ work' = <<>>
    BY DEF ToolFinishes
  <2> HIDE DEF T, c, Advance
  <2> QED
    BY <1>4, <2>1
<1>6. /\ running' = running \ {p}
      /\ UNCHANGED <<conversations, conv, gates, tree, pipe, pending_user_prompt_dispatches,
                     tracking, at_agent, owes, messages, prompts, said, gone>>
  BY DEF ToolFinishes
<1> QED
  BY <1>5, <1>6 DEF TypeInv, gates, pipe, tracking, gone

(* What waits in a queue is published behind a result. *)
LEMMA SteeredTypes ==
    ASSUME TypeInv, NEW c \in Convs
    PROVE  Append(Steered(c), Do("dispatch", c, 0)) \in Seq(GoodTask(Len(prompts)))
<1> DEFINE T == GoodTask(Len(prompts))
           s == conv[c].pending_prompts
<1>1. s \in Seq(1..Len(messages))
  BY DEF TypeInv, GoodConversation
<1>2. \A i \in DOMAIN s : s[i] \in Nat
  <2>1. \A i \in DOMAIN s : s[i] \in 1..Len(messages)
    <3> HIDE DEF s
    <3> QED
      BY <1>1
  <2> QED
    BY <2>1
<1>3. "steered" \in Kinds /\ "steered" \in UserKinds /\ session \in Nat /\ session \in 1..MaxSessions
  BY PromptDispatchAssumption DEF TypeInv, Kinds, UserKinds
<1>4. \A i \in DOMAIN s : Publish("steered", c, s[i], session) \in T
  <2> TAKE i \in DOMAIN s
  <2> DEFINE n == s[i]
  <2>1. n \in Nat
    BY <1>2
  <2> HIDE DEF n
  <2>2. Publish("steered", c, n, session) \in T
    BY <1>3, <2>1, PublishTypes, LengthTypes
  <2> QED
    BY <2>2 DEF n
<1>5. Do("dispatch", c, 0) \in T
  BY LengthTypes, DoTypes
<1>6. Steered(c) \in Seq(T)
  <2>1. Steered(c) = [i \in DOMAIN s |-> Publish("steered", c, s[i], session)]
    BY DEF Steered
  <2>2. DOMAIN s = 1..Len(s) /\ Len(s) \in Nat
    BY <1>1
  <2>3. Steered(c) \in [1..Len(s) -> T]
    <3> HIDE DEF T, s
    <3> QED
      BY <1>4, <2>1, <2>2
  <2> HIDE DEF T, s
  <2> QED
    BY <2>2, <2>3
<1>7. \A x \in Seq(T), t \in T : Append(x, t) \in Seq(T)
  <2> HIDE DEF T
  <2> QED
    OBVIOUS
<1> HIDE DEF T
<1> QED
  BY <1>5, <1>6, <1>7 DEF T

(* Types, for maybe_complete_agent_turn. *)
LEMMA TurnTypes == ASSUME TypeInv, MaybeCompleteTurn PROVE TypeInv'
<1> DEFINE P == Len(prompts)
           M == Len(messages)
           G == GoodConversation(P, M)
           c == Head(work).conv
           left == conv[c].remaining_calls \ {Head(work).of}
           k == conv[c]
<1>1. work # <<>> /\ c \in Convs
  BY HeadTypes DEF MaybeCompleteTurn, Doing
<1>2. conv \in [Convs -> G] /\ k \in G /\ P \in Nat /\ M \in Nat
  BY <1>1, LengthTypes DEF TypeInv
<1>3. left \in SUBSET (1..P)
  BY <1>2 DEF GoodConversation
<1>4. /\ [k EXCEPT !.turn_state = "idle", !.remaining_calls = {}, !.pending_prompts = <<>>] \in G
      /\ \A r \in SUBSET (1..P) : [k EXCEPT !.remaining_calls = r] \in G
  <2> HIDE DEF k
  <2> QED
    BY <1>2, ConversationTypes
<1>5. [k EXCEPT !.remaining_calls = left] \in G
  <2> HIDE DEF k, left
  <2> QED
    BY <1>3, <1>4
<1>6. /\ \/ conv' = [conv EXCEPT ![c] = [conv[c] EXCEPT !.turn_state = "idle", !.remaining_calls = {},
                                                    !.pending_prompts = <<>>]]
         \/ conv' = [conv EXCEPT ![c] = [conv[c] EXCEPT !.remaining_calls = left]]
         \/ conv' = conv
      /\ Then(Append(Steered(c), Do("dispatch", c, 0))) \/ Then(<<>>)
      /\ UNCHANGED <<conversations, gates, tree, pipe, pending_user_prompt_dispatches, tracking,
                     outside, messages, prompts, said, gone>>
  BY DEF MaybeCompleteTurn
<1>7. conv' \in [Convs -> G]
  <2> HIDE DEF G, left, c
  <2> QED
    BY <1>1, <1>2, <1>4, <1>5, <1>6
<1>8. work' \in Seq(GoodTask(P))
  <2> HIDE DEF c
  <2> QED
    BY <1>1, <1>6, NoTasks, SteeredTypes, ThenTypes
<1> QED
  BY <1>6, <1>7, <1>8 DEF TypeInv, gates, pipe, tracking, outside, gone

(* Types, for clear_tool_call_tracking. *)
LEMMA ClearTypes == ASSUME TypeInv, ClearTracking PROVE TypeInv'
<1>1. work' \in Seq(GoodTask(Len(prompts)))
  BY NoTasks, ThenTypes DEF ClearTracking, Doing
<1> QED
  BY <1>1 DEF ClearTracking, TypeInv, gates, pipe, outside, gone

(* Types, for handle_ext_agent_query. *)
LEMMA QueryTypes == ASSUME TypeInv, NEW q \in Queries, AgentQuery(q) PROVE TypeInv'
<1> DEFINE P == Len(prompts)
           M == Len(messages)
           G == GoodConversation(P, M)
           N == GoodConversation(P, Len(messages'))
<1>1. P \in Nat /\ M \in Nat /\ M + 1 \in Nat /\ q \in Convs /\ Default \in Convs /\ conv \in [Convs -> G]
  BY LengthTypes DEF TypeInv, Convs
<1>2. /\ NewMessage(q, "query")
      /\ conversations' = conversations \cup {q}
      /\ conv' = [conv EXCEPT ![q] = Fresh(InitialHead(q))]
      /\ work' = Dispatch(q, M + 1)
      /\ UNCHANGED <<gates, tree, pipe, pending_user_prompt_dispatches, tracking, outside, prompts,
                     said, gone>>
  BY DEF AgentQuery
<1>3. /\ messages' \in Seq(Message)
      /\ G \subseteq N
      /\ 1..M \subseteq 1..Len(messages')
  BY <1>1, <1>2, NewMessageTypes
<1>4. conv' \in [Convs -> N]
  <2>1. InitialHead(q) \in Nat
    BY <1>1 DEF InitialHead, GoodConversation
  <2>2. Fresh(InitialHead(q)) \in G
    BY <1>1, <2>1, ConversationTypes
  <2> HIDE DEF G, N
  <2> QED
    BY <1>1, <1>2, <1>3, <2>2
<1>5. work' \in Seq(GoodTask(P))
  BY <1>1, <1>2, DispatchTypes
<1>6. discarded' \subseteq 1..Len(messages') /\ conversations' \subseteq Convs
  BY <1>1, <1>2, <1>3 DEF TypeInv, gone
<1> QED
  BY <1>2, <1>3, <1>4, <1>5, <1>6 DEF TypeInv, gates, pipe, tracking, outside, gone

(* The types, step by step. *)
LEMMA NextTypes == TypeInv /\ [Next]_vars => TypeInv'
<1> SUFFICES ASSUME TypeInv, [Next]_vars PROVE TypeInv'
  OBVIOUS
<1>1. CASE Handler
  BY <1>1, PublishStepTypes, DrainTypes, AdvanceQueueTypes, DispatchOrAwaitTypes, SendTypes,
     TurnEndsTypes, ToolsStartTypes, TurnTypes, ClearTypes, RespawnTypes DEF Handler
<1>2. CASE InterceptReply \/ InterceptorGone
  BY <1>2, ReplyTypes, InterceptorGoneTypes
<1>3. CASE SubmitUserPrompt \/ CancelPrompt \/ SwitchSession
  BY <1>3, SubmitTypes, CancelTypes, SwitchTypes
<1>4. CASE \E s \in 1..session : ShellFinished(s)
  BY <1>4, ShellTypes
<1>5. CASE \E v \in Providers : \/ ExtensionGone(v) \/ ExtensionSubscribes(v) \/ ExtensionReady(v)
                               \/ \E s \in 1..MaxSessions : ContextReady(v, s)
  BY <1>5, ExtensionGoneTypes, LifecycleTypes, ContextTypes
<1>6. CASE \E p \in at_agent : \E how \in {"answered", "called"} : AgentResponds(p, how)
  BY <1>6, RespondsTypes
<1>7. CASE \E p \in running : ToolFinishes(p)
  BY <1>7, ToolFinishesTypes
<1>8. CASE \E q \in Queries : AgentQuery(q)
  BY <1>8, QueryTypes
<1>9. CASE UNCHANGED vars
  BY <1>9 DEF vars, TypeInv
<1> QED
  BY <1>1, <1>2, <1>3, <1>4, <1>5, <1>6, <1>7, <1>8, <1>9 DEF Next

(* Everything is of its type, and a task names a prompt there is.  *)
THEOREM TypesHold == Spec => []TypeOK
<1>1. TypeInv /\ [Next]_vars => TypeInv'
  BY NextTypes
<1> QED
  BY <1>1, InitTypes, TypeInvSuffices, PTL DEF Spec

-----------------------------------------------------------------------------
(* Who is awaited. *)

Closing == {"answered", "called", "clear"}

(* Tasks that end what a frame began stand at the end. *)
ClosingIsLast(s) == \A i \in DOMAIN s : s[i].op \in Closing => i = Len(s)

Holds(s, p) == \E t \in Range(s) : t.kind = "prompt_created" /\ t.of = p

(* The agent has the prompt, or it is on its way. *)
Reaches(p) ==
    p \in at_agent \/ Holds(pending_intercept, p) \/ Holds(deferred_publishes, p) \/ Holds(work, p)

Awaited(c) ==
    LET p == conv[c].in_flight_prompt IN
    /\ conv[c].turn_state = "thinking" <=> p # 0
    /\ p # 0 => /\ p \in prompt_conversations \ canceled_prompts
                /\ prompts[p].conv = c
                /\ Reaches(p)
    /\ conv[c].turn_state = "tools" <=> conv[c].remaining_calls # {}
    /\ \A d \in conv[c].remaining_calls :
            /\ d \in tool_conversations /\ prompts[d].conv = c
            /\ d \in running \/ \E t \in Range(work) : t.op = "turn" /\ t.of = d

AwaitInv ==
    /\ Default \in conversations
    /\ \A c \in conversations : Awaited(c)
    /\ \A t \in Range(work) :
            /\ t.op \in {"answered", "called", "turn"} => prompts[t.of].conv = t.conv
            /\ t.op = "clear" => t.of \notin running
    /\ ClosingIsLast(work)

-----------------------------------------------------------------------------
(* What the parts of a sequence hold. *)
LEMMA RangeOfParts ==
    ASSUME NEW S
    PROVE  /\ Range(<<>>) = {}
           /\ \A s, t \in Seq(S) : Range(s \o t) = Range(s) \cup Range(t)
           /\ \A s \in Seq(S) : s # <<>> => Range(s) = {Head(s)} \cup Range(Tail(s))
           /\ \A s \in Seq(S), x \in S : Range(Append(s, x)) = Range(s) \cup {x}
<1>1. Range(<<>>) = {}
  BY DEF Range
<1>2. ASSUME NEW s \in Seq(S), NEW t \in Seq(S) PROVE Range(s \o t) = Range(s) \cup Range(t)
  <2>1. /\ DOMAIN s = 1..Len(s) /\ DOMAIN t = 1..Len(t) /\ Len(s) \in Nat /\ Len(t) \in Nat
        /\ DOMAIN (s \o t) = 1..(Len(s) + Len(t))
    OBVIOUS
  <2>2. \A i \in 1..(Len(s) + Len(t)) : (s \o t)[i] = IF i <= Len(s) THEN s[i] ELSE t[i - Len(s)]
    OBVIOUS
  <2>3. \A x \in Range(s \o t) : x \in Range(s) \cup Range(t)
    <3> SUFFICES ASSUME NEW i \in 1..(Len(s) + Len(t)) PROVE (s \o t)[i] \in Range(s) \cup Range(t)
      BY <2>1 DEF Range
    <3>1. CASE i <= Len(s)
      BY <2>1, <2>2, <3>1 DEF Range
    <3>2. CASE ~(i <= Len(s))
      <4>1. i - Len(s) \in DOMAIN t
        BY <2>1, <3>2
      <4> QED
        BY <2>1, <2>2, <3>2, <4>1 DEF Range
    <3> QED
      BY <3>1, <3>2
  <2>4. \A i \in DOMAIN s : s[i] \in Range(s \o t)
    <3> TAKE i \in DOMAIN s
    <3>1. i \in DOMAIN (s \o t) /\ (s \o t)[i] = s[i]
      BY <2>1, <2>2
    <3> QED
      BY <3>1 DEF Range
  <2>5. \A i \in DOMAIN t : t[i] \in Range(s \o t)
    <3> TAKE i \in DOMAIN t
    <3> DEFINE j == Len(s) + i
    <3>1. j \in 1..(Len(s) + Len(t)) /\ ~(j <= Len(s)) /\ j - Len(s) = i
      BY <2>1
    <3>2. j \in DOMAIN (s \o t) /\ (s \o t)[j] = t[i]
      BY <2>1, <2>2, <3>1
    <3> QED
      BY <3>2 DEF Range
  <2> QED
    BY <2>3, <2>4, <2>5 DEF Range
<1>3. ASSUME NEW s \in Seq(S), s # <<>> PROVE Range(s) = {Head(s)} \cup Range(Tail(s))
  <2>1. s = <<Head(s)>> \o Tail(s) /\ <<Head(s)>> \in Seq(S) /\ Tail(s) \in Seq(S)
    BY <1>3
  <2>2. Range(<<Head(s)>>) = {Head(s)}
    BY DEF Range
  <2> QED
    BY <1>2, <2>1, <2>2
<1>4. ASSUME NEW s \in Seq(S), NEW x \in S PROVE Range(Append(s, x)) = Range(s) \cup {x}
  <2>1. Append(s, x) = s \o <<x>> /\ <<x>> \in Seq(S)
    OBVIOUS
  <2>2. Range(<<x>>) = {x}
    BY DEF Range
  <2> QED
    BY <1>2, <2>1, <2>2
<1> QED
  BY <1>1, <1>2, <1>3, <1>4

(* What short lists hold. *)
LEMMA RangeOfLists ==
    ASSUME NEW S
    PROVE  /\ \A a : Range(<<a>>) = {a}
           /\ \A a, b : Range(<<a, b>>) = {a, b}
           /\ \A a, b, c, d : Range(<<a, b, c, d>>) = {a, b, c, d}
<1>1. \A a : Range(<<a>>) = {a}
  BY DEF Range
<1>2. \A a, b : Range(<<a, b>>) = {a, b}
  <2> TAKE a, b
  <2> DEFINE s == <<a, b>>
  <2>1. DOMAIN s = {1, 2} /\ s[1] = a /\ s[2] = b
    OBVIOUS
  <2> HIDE DEF s
  <2>2. Range(s) = {a, b}
    BY <2>1 DEF Range
  <2> QED
    BY <2>2 DEF s
<1>3. \A a, b, c, d : Range(<<a, b, c, d>>) = {a, b, c, d}
  <2> TAKE a, b, c, d
  <2> DEFINE s == <<a, b, c, d>>
  <2>1. DOMAIN s = {1, 2, 3, 4} /\ s[1] = a /\ s[2] = b /\ s[3] = c /\ s[4] = d
    OBVIOUS
  <2> HIDE DEF s
  <2>2. Range(s) = {a, b, c, d}
    BY <2>1 DEF Range
  <2> QED
    BY <2>2 DEF s
<1> QED
  BY <1>1, <1>2, <1>3

(* Closing tasks of a list that is put together, or taken apart. *)
LEMMA ClosingOfParts ==
    ASSUME NEW S
    PROVE  /\ ClosingIsLast(<<>>)
           /\ \A s, t \in Seq(S) :
                ClosingIsLast(t) /\ (\A x \in Range(s) : x.op \notin Closing) => ClosingIsLast(s \o t)
           /\ \A s \in Seq(S) : s # <<>> /\ ClosingIsLast(s) =>
                /\ ClosingIsLast(Tail(s))
                /\ Head(s).op \in Closing => Tail(s) = <<>>
<1>1. ClosingIsLast(<<>>)
  BY DEF ClosingIsLast
<1>2. ASSUME NEW s \in Seq(S), NEW t \in Seq(S), ClosingIsLast(t), \A x \in Range(s) : x.op \notin Closing
      PROVE  ClosingIsLast(s \o t)
  <2> SUFFICES ASSUME NEW i \in DOMAIN (s \o t), (s \o t)[i].op \in Closing
               PROVE  i = Len(s \o t)
    BY DEF ClosingIsLast
  <2>1. /\ DOMAIN s = 1..Len(s) /\ DOMAIN t = 1..Len(t) /\ Len(s) \in Nat /\ Len(t) \in Nat
        /\ i \in 1..(Len(s) + Len(t))
        /\ (s \o t)[i] = IF i <= Len(s) THEN s[i] ELSE t[i - Len(s)]
        /\ Len(s \o t) = Len(s) + Len(t)
    OBVIOUS
  <2>2. ~(i <= Len(s))
    <3> SUFFICES ASSUME i <= Len(s) PROVE FALSE
      OBVIOUS
    <3>1. i \in DOMAIN s /\ (s \o t)[i] = s[i]
      BY <2>1
    <3> QED
      BY <1>2, <3>1 DEF Range
  <2>3. i - Len(s) \in DOMAIN t /\ t[i - Len(s)].op \in Closing
    BY <2>1, <2>2
  <2>4. i - Len(s) = Len(t)
    BY <1>2, <2>3 DEF ClosingIsLast
  <2> QED
    BY <2>1, <2>4
<1>3. ASSUME NEW s \in Seq(S), s # <<>>, ClosingIsLast(s)
      PROVE  ClosingIsLast(Tail(s)) /\ (Head(s).op \in Closing => Tail(s) = <<>>)
  <2>1. /\ Len(s) \in Nat \ {0} /\ DOMAIN s = 1..Len(s) /\ Head(s) = s[1]
        /\ Len(Tail(s)) = Len(s) - 1 /\ DOMAIN Tail(s) = 1..(Len(s) - 1)
        /\ \A i \in 1..(Len(s) - 1) : Tail(s)[i] = s[i + 1]
        /\ Tail(s) \in Seq(S)
    BY <1>3
  <2>2. ClosingIsLast(Tail(s))
    <3> SUFFICES ASSUME NEW i \in 1..(Len(s) - 1), s[i + 1].op \in Closing PROVE i = Len(s) - 1
      BY <2>1 DEF ClosingIsLast
    <3>1. i + 1 \in DOMAIN s
      BY <2>1
    <3>2. i + 1 = Len(s)
      BY <1>3, <3>1 DEF ClosingIsLast
    <3>3. i \in Nat /\ Len(s) \in Nat
      BY <2>1
    <3> QED
      BY ONLY <3>2, <3>3
  <2>3. ASSUME Head(s).op \in Closing PROVE Tail(s) = <<>>
    <3>1. 1 \in DOMAIN s /\ s[1].op \in Closing
      BY <2>1, <2>3
    <3>2. 1 = Len(s)
      BY <1>3, <3>1 DEF ClosingIsLast
    <3>3. Len(Tail(s)) = 0
      BY <2>1, <3>2
    <3> DEFINE u == Tail(s)
    <3>4. u \in Seq(S) /\ Len(u) = 0
      BY <2>1, <3>3
    <3> HIDE DEF u
    <3>5. u = <<>>
      BY <3>4
    <3> QED
      BY <3>5 DEF u
  <2> QED
    BY <2>2, <2>3
<1> QED
  BY <1>1, <1>2, <1>3

(* Closing tasks of short lists. *)
LEMMA ClosingOfLists ==
    /\ \A a : ClosingIsLast(<<a>>)
    /\ \A a, b : a.op \notin Closing => ClosingIsLast(<<a, b>>)
    /\ \A a, b, c, d : a.op \notin Closing /\ b.op \notin Closing /\ c.op \notin Closing
                            => ClosingIsLast(<<a, b, c, d>>)
<1>1. \A a : ClosingIsLast(<<a>>)
  BY DEF ClosingIsLast
<1>2. \A a, b : a.op \notin Closing => ClosingIsLast(<<a, b>>)
  <2> TAKE a, b
  <2> DEFINE s == <<a, b>>
  <2>1. DOMAIN s = {1, 2} /\ Len(s) = 2 /\ s[1] = a /\ s[2] = b
    OBVIOUS
  <2> HIDE DEF s, Closing
  <2>2. a.op \notin Closing => ClosingIsLast(s)
    BY <2>1 DEF ClosingIsLast
  <2> QED
    BY <2>2 DEF s
<1>3. \A a, b, c, d : a.op \notin Closing /\ b.op \notin Closing /\ c.op \notin Closing
                        => ClosingIsLast(<<a, b, c, d>>)
  <2> TAKE a, b, c, d
  <2> DEFINE s == <<a, b, c, d>>
  <2>1. DOMAIN s = {1, 2, 3, 4} /\ Len(s) = 4 /\ s[1] = a /\ s[2] = b /\ s[3] = c /\ s[4] = d
    OBVIOUS
  <2> HIDE DEF s, Closing
  <2>2. a.op \notin Closing /\ b.op \notin Closing /\ c.op \notin Closing => ClosingIsLast(s)
    BY <2>1 DEF ClosingIsLast
  <2> QED
    BY <2>2 DEF s
<1> QED
  BY <1>1, <1>2, <1>3

(* What Then does to the tasks there are. *)
LEMMA ThenRange ==
    ASSUME TypeInv, work # <<>>, NEW tasks \in Seq(GoodTask(Len(prompts))), Then(tasks)
    PROVE  /\ Range(work') = Range(tasks) \cup Range(Tail(work))
           /\ Range(work) = {Head(work)} \cup Range(Tail(work))
           /\ ClosingIsLast(work) /\ (\A x \in Range(tasks) : x.op \notin Closing)
                => ClosingIsLast(work')
           /\ ClosingIsLast(work) /\ Head(work).op \in Closing => Tail(work) = <<>>
<1> DEFINE T == GoodTask(Len(prompts))
<1>1. work \in Seq(T) /\ Tail(work) \in Seq(T) /\ tasks \in Seq(T) /\ work' = tasks \o Tail(work)
  BY HeadTypes DEF Then, TypeInv
<1> HIDE DEF T
<1>2. Range(work') = Range(tasks) \cup Range(Tail(work)) /\ Range(work) = {Head(work)} \cup Range(Tail(work))
  <2>1. \A s, t \in Seq(T) : Range(s \o t) = Range(s) \cup Range(t)
    BY RangeOfParts
  <2>2. \A s \in Seq(T) : s # <<>> => Range(s) = {Head(s)} \cup Range(Tail(s))
    BY RangeOfParts
  <2> QED
    BY <1>1, <2>1, <2>2
<1>3. /\ ClosingIsLast(work) => ClosingIsLast(Tail(work))
      /\ ClosingIsLast(work) /\ Head(work).op \in Closing => Tail(work) = <<>>
  BY <1>1, ClosingOfParts
<1>4. ClosingIsLast(Tail(work)) /\ (\A x \in Range(tasks) : x.op \notin Closing)
        => ClosingIsLast(tasks \o Tail(work))
  BY <1>1, ClosingOfParts
<1> QED
  BY <1>1, <1>2, <1>3, <1>4

(* A task of work is good. *)
LEMMA TasksAreGood ==
    ASSUME TypeInv, NEW t \in Range(work)
    PROVE  t \in GoodTask(Len(prompts))
<1> DEFINE T == GoodTask(Len(prompts))
<1>1. work \in Seq(T)
  BY DEF TypeInv
<1>2. t \in T
  <2> HIDE DEF T
  <2> QED
    BY <1>1 DEF Range
<1> QED
  BY <1>2

(* Who is awaited stays so when nothing happens to the turns.  *)
Quiet ==
    /\ \A c \in Convs : /\ conv'[c].in_flight_prompt = conv[c].in_flight_prompt
                        /\ conv'[c].turn_state = conv[c].turn_state
                        /\ conv'[c].remaining_calls = conv[c].remaining_calls
    /\ UNCHANGED <<conversations, tracking, running, prompts>>
    /\ \A p \in 1..Len(prompts) : Reaches(p) => Reaches(p)'
    /\ \A t \in Range(work) : t.op = "turn" => t \in Range(work')
    /\ \A t \in Range(work') : t \in Range(work) \/ t.op \notin {"answered", "called", "turn", "clear"}
    /\ ClosingIsLast(work')

(* A step that is about no turn keeps everybody awaited. *)
LEMMA QuietStep == ASSUME TypeInv, AwaitInv, Quiet PROVE AwaitInv'
<1>1. Default \in conversations'
  BY DEF AwaitInv, Quiet
<1>2. \A t \in Range(work') :
            /\ t.op \in {"answered", "called", "turn"} => prompts'[t.of].conv = t.conv
            /\ t.op = "clear" => t.of \notin running'
  BY DEF AwaitInv, Quiet
<1>3. ASSUME NEW c \in conversations' PROVE Awaited(c)'
  <2>1. c \in conversations /\ c \in Convs /\ Awaited(c)
    BY <1>3 DEF AwaitInv, Quiet, TypeInv
  <2>2. PICK p \in 0..Len(prompts) : p = conv[c].in_flight_prompt
    BY <2>1 DEF TypeInv, GoodConversation
  <2>3. p # 0 => Reaches(p)'
    <3> SUFFICES ASSUME p # 0 PROVE Reaches(p)'
      OBVIOUS
    <3>1. p \in 1..Len(prompts)
      BY <2>2, LengthTypes
    <3>2. Reaches(p)
      BY <2>1, <2>2 DEF Awaited
    <3> QED
      BY <3>1, <3>2 DEF Quiet
  <2>4. \A d \in conv[c].remaining_calls :
            d \in running' \/ \E t \in Range(work') : t.op = "turn" /\ t.of = d
    BY <2>1 DEF Awaited, Quiet
  <2>5. /\ conv'[c].in_flight_prompt = p
        /\ conv'[c].turn_state = conv[c].turn_state
        /\ conv'[c].remaining_calls = conv[c].remaining_calls
        /\ prompts' = prompts /\ prompt_conversations' = prompt_conversations
        /\ canceled_prompts' = canceled_prompts /\ tool_conversations' = tool_conversations
    BY <2>1, <2>2 DEF Quiet, tracking
  <2>6. /\ conv[c].turn_state = "thinking" <=> p # 0
        /\ p # 0 => p \in prompt_conversations \ canceled_prompts /\ prompts[p].conv = c
        /\ conv[c].turn_state = "tools" <=> conv[c].remaining_calls # {}
        /\ \A d \in conv[c].remaining_calls : d \in tool_conversations /\ prompts[d].conv = c
    BY <2>1, <2>2 DEF Awaited
  <2> QED
    BY <2>3, <2>4, <2>5, <2>6 DEF Awaited, Reaches, Holds
<1>4. ClosingIsLast(work')
  BY DEF Quiet
<1> QED
  BY <1>1, <1>2, <1>3, <1>4 DEF AwaitInv

(* No turn changes; heads may move. *)
SameTurns ==
    \A c \in Convs : /\ conv'[c].pending_prompts = conv[c].pending_prompts
                     /\ conv'[c].in_flight_prompt = conv[c].in_flight_prompt
                     /\ conv'[c].turn_state = conv[c].turn_state
                     /\ conv'[c].remaining_calls = conv[c].remaining_calls

(* The fold moves heads only. *)
LEMMA FoldKeepsTurns ==
    ASSUME TypeInv, NEW e, Fold(e)
    PROVE  SameTurns
<1>1. conv' = conv \/ \E h : conv' = [conv EXCEPT ![e.conv].head = h]
  BY DEF Fold
<1>2. conv \in [Convs -> GoodConversation(Len(prompts), Len(messages))]
  BY DEF TypeInv
<1>3. ASSUME NEW h, conv' = [conv EXCEPT ![e.conv].head = h] PROVE SameTurns
  <2> SUFFICES ASSUME NEW c \in Convs
               PROVE  /\ conv'[c].pending_prompts = conv[c].pending_prompts
                      /\ conv'[c].in_flight_prompt = conv[c].in_flight_prompt
                      /\ conv'[c].turn_state = conv[c].turn_state
                      /\ conv'[c].remaining_calls = conv[c].remaining_calls
    BY DEF SameTurns
  <2>1. conv'[c] = conv[c] \/ conv'[c] = [conv[c] EXCEPT !.head = h]
    BY <1>2, <1>3
  <2>2. conv[c] \in GoodConversation(Len(prompts), Len(messages))
    BY <1>2
  <2> QED
    BY <2>1, <2>2 DEF GoodConversation
<1> QED
  BY <1>1, <1>3 DEF SameTurns

(* What a commit leaves alone, and whom it tells. *)
LEMMA CommitKeeps ==
    ASSUME TypeInv, NEW e \in GoodEvent(Len(prompts)), NEW rest \in Seq(GoodTask(Len(prompts))),
           Commit(e, rest)
    PROVE  /\ SameTurns
           /\ at_agent \subseteq at_agent'
           /\ e.kind = "prompt_created" => e.of \in at_agent'
           /\ Range(rest) \subseteq Range(work')
           /\ \A t \in Range(work') : t \in Range(rest) \/ \E c \in conversations : t = Do("send", c, 0)
           /\ ClosingIsLast(rest) => ClosingIsLast(work')
           /\ UNCHANGED running
<1> DEFINE T == GoodTask(Len(prompts))
<1>1. Fold(e) /\ Deliver(e)
  BY DEF Commit
<1>2. SameTurns
  BY <1>1, FoldKeepsTurns
<1>3. work' = rest \/ \E c \in conversations : work' = <<Do("send", c, 0)>> \o rest
  <2>1. rest = <<>> \o rest
    OBVIOUS
  <2> QED
    BY <2>1 DEF Commit
<1>4. ASSUME NEW c \in conversations, work' = <<Do("send", c, 0)>> \o rest
      PROVE  /\ Range(work') = {Do("send", c, 0)} \cup Range(rest)
             /\ ClosingIsLast(rest) => ClosingIsLast(work')
  <2> DEFINE a == Do("send", c, 0)
  <2>1. a \in T /\ a.op \notin Closing
    BY DoTypes, LengthTypes DEF TypeInv, Do, Closing
  <2>2. rest \in Seq(T)
    OBVIOUS
  <2> HIDE DEF T, a
  <2>3. <<a>> \in Seq(T) /\ Range(<<a>>) = {a}
    BY <2>1, RangeOfLists
  <2>4. \A s, t \in Seq(T) : Range(s \o t) = Range(s) \cup Range(t)
    BY RangeOfParts
  <2>5. \A s, t \in Seq(T) :
            ClosingIsLast(t) /\ (\A x \in Range(s) : x.op \notin Closing) => ClosingIsLast(s \o t)
    BY ClosingOfParts
  <2>6. work' = <<a>> \o rest
    BY <1>4 DEF a
  <2>7. Range(work') = {a} \cup Range(rest)
    BY <2>2, <2>3, <2>4, <2>6
  <2>8. ClosingIsLast(rest) => ClosingIsLast(work')
    BY <2>1, <2>2, <2>3, <2>5, <2>6
  <2> QED
    BY <2>7, <2>8 DEF a
<1>5. /\ Range(rest) \subseteq Range(work')
      /\ \A t \in Range(work') : t \in Range(rest) \/ \E c \in conversations : t = Do("send", c, 0)
      /\ ClosingIsLast(rest) => ClosingIsLast(work')
  <2>1. CASE work' = rest
    BY <2>1
  <2>2. CASE \E c \in conversations : work' = <<Do("send", c, 0)>> \o rest
    <3>1. PICK c \in conversations : work' = <<Do("send", c, 0)>> \o rest
      BY <2>2
    <3> HIDE DEF Do
    <3> QED
      BY <1>4, <3>1
  <2> QED
    BY <1>3, <2>1, <2>2
<1> QED
  BY <1>1, <1>2, <1>5 DEF Deliver

(* What dispatch_publish_step leaves alone: the prompt is with the agent or held. *)
LEMMA DispatchStepKeeps ==
    ASSUME TypeInv, NEW e \in GoodEvent(Len(prompts)), NEW rest \in Seq(GoodTask(Len(prompts))),
           DispatchStep(e, rest)
    PROVE  /\ SameTurns
           /\ at_agent \subseteq at_agent'
           /\ e.kind = "prompt_created" => e.of \in at_agent' \/ Holds(pending_intercept', e.of)
           /\ Range(rest) \subseteq Range(work')
           /\ \A t \in Range(work') : t \in Range(rest) \/ \E c \in conversations : t = Do("send", c, 0)
           /\ ClosingIsLast(rest) => ClosingIsLast(work')
           /\ UNCHANGED running
<1>1. CASE Intercepts(e)
  <2>1. /\ pending_intercept' = <<e>>
        /\ work' = rest
        /\ UNCHANGED <<tree, conv, pending_user_prompt_dispatches, outside>>
    BY <1>1 DEF DispatchStep
  <2>2. e \in Range(pending_intercept')
    BY <2>1, RangeOfLists
  <2> QED
    BY <2>1, <2>2 DEF Holds, SameTurns, outside
<1>2. CASE ~Intercepts(e)
  <2>1. Commit(e, rest)
    BY <1>2 DEF DispatchStep
  <2> QED
    BY <2>1, CommitKeeps
<1> QED
  BY <1>1, <1>2

(* A publish on its way stays there until it is seen. *)
Moves ==
    /\ SameTurns
    /\ UNCHANGED <<conversations, gates, tracking, running, prompts>>
    /\ \A p \in 1..Len(prompts) : Reaches(p) => Reaches(p)'
    /\ \A t \in Range(work) : t.op \notin {"publish", "drain"} => t \in Range(work')
    /\ \A t \in Range(work') : t \in Range(work) \/ t.op \in {"send", "drain"}
    /\ ClosingIsLast(work) => ClosingIsLast(work')

(* A step that moves publishes on is about no turn. *)
LEMMA MovesAreQuiet == ASSUME AwaitInv, Moves PROVE Quiet
BY DEF AwaitInv, Moves, Quiet, SameTurns

(* The head of work, and what is behind it. *)
LEMMA RangeOfWork ==
    ASSUME TypeInv, work # <<>>
    PROVE  /\ Range(work) = {Head(work)} \cup Range(Tail(work))
           /\ ClosingIsLast(work) => ClosingIsLast(Tail(work))
<1> DEFINE T == GoodTask(Len(prompts))
<1>1. work \in Seq(T)
  BY DEF TypeInv
<1>2. \A s \in Seq(T) : s # <<>> => Range(s) = {Head(s)} \cup Range(Tail(s))
  BY RangeOfParts
<1>3. \A s \in Seq(T) : s # <<>> /\ ClosingIsLast(s) => ClosingIsLast(Tail(s))
  BY ClosingOfParts
<1> HIDE DEF T
<1> QED
  BY <1>1, <1>2, <1>3

(* A publish moves on to its commit, to the interceptor, or behind another. *)
LEMMA PublishMoves == ASSUME TypeInv, EnqueuePublish PROVE Moves
<1> DEFINE P == Len(prompts)
           head == Head(work)
           e == IF head.conv \in conversations THEN head ELSE [head EXCEPT !.conv = None]
           E == GoodEvent(P)
<1>1. head \in E /\ Tail(work) \in Seq(GoodTask(P)) /\ work # <<>> /\ head.op = "publish"
  BY HeadTypes DEF EnqueuePublish, Doing
<1>2. e \in E /\ e.kind = head.kind /\ e.of = head.of
  <2>1. [head EXCEPT !.conv = None] \in Event
    BY <1>1 DEF GoodEvent, Event
  <2>2. /\ [head EXCEPT !.conv = None].kind = head.kind
        /\ [head EXCEPT !.conv = None].of = head.of
        /\ [head EXCEPT !.conv = None].session = head.session
    <3>1. head \in Event
      BY <1>1 DEF GoodEvent
    <3> QED
      BY <3>1 DEF Event
  <2>3. [head EXCEPT !.conv = None] \in E
    <3> HIDE DEF Event, head
    <3> QED
      BY <1>1, <2>1, <2>2 DEF GoodEvent
  <2> QED
    BY <1>1, <2>2, <2>3
<1>3. /\ UNCHANGED <<conversations, gates, interceptor, tracking, messages, prompts, gone>>
      /\ IF pending_intercept # <<>>
         THEN /\ deferred_publishes' = Append(deferred_publishes, e)
              /\ Then(<<>>)
              /\ UNCHANGED <<pending_intercept, tree, conv, pending_user_prompt_dispatches, outside>>
         ELSE /\ DispatchStep(e, Tail(work))
              /\ UNCHANGED deferred_publishes
  BY DEF EnqueuePublish
<1>4. /\ Range(work) = {head} \cup Range(Tail(work))
      /\ ClosingIsLast(work) => ClosingIsLast(Tail(work))
  BY <1>1, RangeOfWork
<1> HIDE DEF e, head
<1>5. CASE pending_intercept # <<>>
  <2>1. work' = Tail(work)
    <3>1. work' = <<>> \o Tail(work)
      BY <1>3, <1>5 DEF Then
    <3> QED
      BY <1>1, <3>1
  <2>2. Range(deferred_publishes') = Range(deferred_publishes) \cup {e}
    <3>1. deferred_publishes \in Seq(E) /\ deferred_publishes' = Append(deferred_publishes, e)
      BY <1>3, <1>5 DEF TypeInv
    <3>2. \A s \in Seq(E), x \in E : Range(Append(s, x)) = Range(s) \cup {x}
      BY RangeOfParts
    <3> HIDE DEF E
    <3> QED
      BY <1>2, <3>1, <3>2
  <2>3. ASSUME NEW p \in 1..P, Reaches(p) PROVE Reaches(p)'
    BY <1>2, <1>3, <1>4, <1>5, <2>1, <2>2, <2>3 DEF Reaches, Holds, outside
  <2> QED
    BY <1>1, <1>3, <1>4, <1>5, <2>1, <2>3 DEF Moves, SameTurns, outside
<1>6. CASE pending_intercept = <<>>
  <2>1. DispatchStep(e, Tail(work)) /\ UNCHANGED deferred_publishes
    BY <1>3, <1>6
  <2>2. /\ SameTurns
        /\ at_agent \subseteq at_agent'
        /\ e.kind = "prompt_created" => e.of \in at_agent' \/ Holds(pending_intercept', e.of)
        /\ Range(Tail(work)) \subseteq Range(work')
        /\ \A t \in Range(work') :
                t \in Range(Tail(work)) \/ \E c \in conversations : t = Do("send", c, 0)
        /\ ClosingIsLast(Tail(work)) => ClosingIsLast(work')
        /\ UNCHANGED running
    BY <1>1, <1>2, <2>1, DispatchStepKeeps
  <2>3. ~\E t \in Range(pending_intercept) : t.kind = "prompt_created"
    BY <1>6 DEF Range
  <2>4. ASSUME NEW p \in 1..P, Reaches(p) PROVE Reaches(p)'
    BY <1>2, <1>4, <2>1, <2>2, <2>3, <2>4 DEF Reaches, Holds
  <2>5. \A c : Do("send", c, 0).op = "send"
    BY DEF Do
  <2> HIDE DEF Do
  <2> QED
    BY <1>1, <1>3, <1>4, <2>2, <2>4, <2>5 DEF Moves
<1> QED
  BY <1>5, <1>6

(* The publishes that were deferred move on. *)
LEMMA DrainMoves == ASSUME TypeInv, DrainDeferred PROVE Moves
<1> DEFINE P == Len(prompts)
           E == GoodEvent(P)
<1>1. /\ work \in Seq(GoodTask(P)) /\ Tail(work) \in Seq(GoodTask(P)) /\ work # <<>>
      /\ Head(work).op = "drain" /\ Head(work).kind # "prompt_created"
  <2>1. Head(work) \in Task /\ Head(work).op = "drain"
    BY HeadTypes DEF DrainDeferred, Doing, GoodTask
  <2>2. Head(work).kind # "prompt_created"
    BY <2>1 DEF Task, Event
  <2> QED
    BY <2>1, <2>2, HeadTypes DEF DrainDeferred, Doing, TypeInv
<1>2. UNCHANGED <<conversations, gates, interceptor, tracking, messages, prompts, said, gone>>
  BY DEF DrainDeferred
<1>3. /\ Range(work) = {Head(work)} \cup Range(Tail(work))
      /\ ClosingIsLast(work) => ClosingIsLast(Tail(work))
  BY <1>1, RangeOfWork
<1>4. CASE pending_intercept = <<>> /\ deferred_publishes # <<>>
  <2> DEFINE e == Head(deferred_publishes)
  <2>1. deferred_publishes' = Tail(deferred_publishes) /\ DispatchStep(e, work)
    BY <1>4 DEF DrainDeferred
  <2>2. e \in E /\ Range(deferred_publishes) = {e} \cup Range(deferred_publishes')
    <3>1. deferred_publishes \in Seq(E)
      BY DEF TypeInv
    <3>2. \A s \in Seq(E) : s # <<>> => Range(s) = {Head(s)} \cup Range(Tail(s))
      BY RangeOfParts
    <3> HIDE DEF E
    <3> QED
      BY <1>4, <2>1, <3>1, <3>2
  <2> HIDE DEF e
  <2>3. /\ SameTurns
        /\ at_agent \subseteq at_agent'
        /\ e.kind = "prompt_created" => e.of \in at_agent' \/ Holds(pending_intercept', e.of)
        /\ Range(work) \subseteq Range(work')
        /\ \A t \in Range(work') :
                t \in Range(work) \/ \E c \in conversations : t = Do("send", c, 0)
        /\ ClosingIsLast(work) => ClosingIsLast(work')
        /\ UNCHANGED running
    BY <1>1, <2>1, <2>2, DispatchStepKeeps
  <2>4. ~\E t \in Range(pending_intercept) : t.kind = "prompt_created"
    BY <1>4 DEF Range
  <2>5. ASSUME NEW p \in 1..P, Reaches(p) PROVE Reaches(p)'
    BY <2>2, <2>3, <2>4, <2>5 DEF Reaches, Holds
  <2>6. \A c : Do("send", c, 0).op = "send"
    BY DEF Do
  <2> HIDE DEF Do
  <2> QED
    BY <1>2, <2>3, <2>5, <2>6 DEF Moves
<1>5. CASE ~(pending_intercept = <<>> /\ deferred_publishes # <<>>)
  <2>1. /\ Then(<<>>)
        /\ UNCHANGED <<pending_intercept, deferred_publishes, tree, conv,
                       pending_user_prompt_dispatches, outside>>
    BY <1>5 DEF DrainDeferred
  <2>2. work' = Tail(work)
    <3>1. work' = <<>> \o Tail(work)
      BY <2>1 DEF Then
    <3> QED
      BY <1>1, <3>1
  <2>3. ASSUME NEW p \in 1..P, Reaches(p) PROVE Reaches(p)'
    BY <1>1, <1>3, <2>1, <2>2, <2>3 DEF Reaches, Holds, outside
  <2> QED
    BY <1>1, <1>2, <1>3, <2>1, <2>2, <2>3 DEF Moves, SameTurns, outside
<1> QED
  BY <1>4, <1>5

(* The publish that was held moves on to its commit. *)
LEMMA ReleaseMoves ==
    ASSUME TypeInv, Idle, pending_intercept # <<>>, pending_intercept' = <<>>,
           Commit(Head(pending_intercept), <<Do("drain", None, 0)>>),
           UNCHANGED <<conversations, gates, deferred_publishes, tracking, messages, prompts, said, gone>>
    PROVE  Moves
<1> DEFINE P == Len(prompts)
           E == GoodEvent(P)
           T == GoodTask(P)
           e == Head(pending_intercept)
           d == Do("drain", None, 0)
           rest == <<d>>
<1>1. e \in E /\ Range(pending_intercept) = {e}
  <2>1. pending_intercept \in Seq(E) /\ Len(pending_intercept) <= 1
    BY DEF TypeInv
  <2>2. pending_intercept = <<e>> /\ e \in E
    <3> HIDE DEF E
    <3> QED
      BY <2>1
  <2> HIDE DEF e
  <2> QED
    BY <2>2, RangeOfLists
<1>2. rest \in Seq(T) /\ Range(rest) = {d} /\ d.op = "drain" /\ ClosingIsLast(rest)
  <2>1. d \in T /\ d.op = "drain"
    BY LengthTypes, DoTypes DEF Do
  <2> HIDE DEF T, d
  <2> QED
    BY <2>1, RangeOfLists, ClosingOfLists
<1>3. Range(work) = {}
  BY DEF Idle, Range
<1> HIDE DEF e, rest, d
<1>4. /\ SameTurns
      /\ at_agent \subseteq at_agent'
      /\ e.kind = "prompt_created" => e.of \in at_agent'
      /\ Range(rest) \subseteq Range(work')
      /\ \A t \in Range(work') : t \in Range(rest) \/ \E c \in conversations : t = Do("send", c, 0)
      /\ ClosingIsLast(rest) => ClosingIsLast(work')
      /\ UNCHANGED running
  <2>1. Commit(e, rest)
    BY DEF e, rest, d
  <2> QED
    BY <1>1, <1>2, <2>1, CommitKeeps
<1>5. ASSUME NEW p \in 1..P, Reaches(p) PROVE Reaches(p)'
  BY <1>1, <1>3, <1>4, <1>5 DEF Reaches, Holds
<1>6. \A c : Do("send", c, 0).op = "send"
  BY DEF Do
<1> HIDE DEF Do
<1> QED
  BY <1>2, <1>3, <1>4, <1>5, <1>6 DEF Moves

(* So it does when the interceptor replies. *)
LEMMA ReplyMoves == ASSUME TypeInv, InterceptReply PROVE Moves
BY ReleaseMoves DEF InterceptReply

(* So it does when the interceptor goes away. *)
LEMMA InterceptorGoneMoves == ASSUME TypeInv, InterceptorGone PROVE Moves
<1>1. CASE pending_intercept # <<>>
  BY <1>1, ReleaseMoves DEF InterceptorGone
<1>2. CASE pending_intercept = <<>>
  <2>1. UNCHANGED <<conversations, conv, gates, deferred_publishes, pending_intercept, work, tracking,
                    messages, prompts, outside>>
    BY <1>2 DEF InterceptorGone, Idle
  <2>2. ASSUME NEW p \in 1..Len(prompts), Reaches(p) PROVE Reaches(p)'
    BY <2>1, <2>2 DEF Reaches, Holds, outside
  <2> QED
    BY <2>1, <2>2 DEF Moves, SameTurns, outside
<1> QED
  BY <1>1, <1>2

(* While a prompt could go, somebody is about to look at the queue. *)
LookInv == GateOpen /\ Runnable # {} => \E t \in Range(work) : t.op = "advance"

(* A step that moves publishes on takes no look at the queue away. *)
LEMMA MovesLook == ASSUME TypeInv, LookInv, Moves PROVE LookInv'
<1>1. GateOpen' <=> GateOpen
  BY DEF Moves, gates, GateOpen, ExtensionsReady
<1>2. Runnable' = Runnable
  BY DEF TypeInv, Moves, SameTurns, Runnable
<1>3. (\E t \in Range(work) : t.op = "advance") => \E t \in Range(work') : t.op = "advance"
  BY DEF Moves
<1> QED
  BY <1>1, <1>2, <1>3 DEF LookInv

(* The tasks of dispatch_prompt_for_conversation. *)
LEMMA TasksOfDispatch ==
    ASSUME NEW c, NEW m
    PROVE  /\ Range(Dispatch(c, m)) = {Publish("prompt_submitted", c, m, session), Do("dispatch", c, 0)}
           /\ ClosingIsLast(Dispatch(c, m))
           /\ \A t \in Range(Dispatch(c, m)) : t.op \in {"publish", "dispatch"} /\ t.kind # "prompt_created"
<1> DEFINE a == Publish("prompt_submitted", c, m, session)
           b == Do("dispatch", c, 0)
<1>1. /\ a.op = "publish" /\ b.op = "dispatch" /\ a.op \notin Closing
      /\ a.kind # "prompt_created" /\ b.kind # "prompt_created"
  BY DEF Publish, Do, Closing
<1>2. Dispatch(c, m) = <<a, b>>
  BY DEF Dispatch
<1> HIDE DEF a, b
<1>3. Range(Dispatch(c, m)) = {a, b}
  BY <1>2, RangeOfLists
<1>4. ClosingIsLast(Dispatch(c, m))
  BY <1>1, <1>2, ClosingOfLists
<1> QED
  BY <1>1, <1>3, <1>4 DEF a, b

(* A task that is no publish carries no prompt to the agent. *)
LEMMA OnlyPublishesReach ==
    ASSUME TypeInv, NEW t \in Range(work), t.op # "publish"
    PROVE  t.kind # "prompt_created"
<1>1. t \in Task
  BY TasksAreGood DEF GoodTask
<1> QED
  BY <1>1 DEF Task, Event

(* When the head of work is no publish, and neither it nor what replaces it is *)
(* about a turn.                                                            *)
LEMMA ThenIsQuiet ==
    ASSUME TypeInv, AwaitInv, work # <<>>, Head(work).op \notin {"publish", "turn"},
           NEW tasks \in Seq(GoodTask(Len(prompts))), Then(tasks),
           \A t \in Range(tasks) : t.op \notin {"answered", "called", "turn", "clear"},
           \A c \in Convs : /\ conv'[c].in_flight_prompt = conv[c].in_flight_prompt
                            /\ conv'[c].turn_state = conv[c].turn_state
                            /\ conv'[c].remaining_calls = conv[c].remaining_calls,
           UNCHANGED <<conversations, pending_intercept, deferred_publishes, tracking, outside, prompts>>
    PROVE  AwaitInv'
<1>1. /\ Range(work') = Range(tasks) \cup Range(Tail(work))
      /\ Range(work) = {Head(work)} \cup Range(Tail(work))
      /\ ClosingIsLast(work')
  BY ThenRange DEF AwaitInv, Closing
<1>2. Head(work).kind # "prompt_created"
  BY <1>1, OnlyPublishesReach
<1>3. ASSUME NEW p \in 1..Len(prompts), Reaches(p) PROVE Reaches(p)'
  BY <1>1, <1>2, <1>3 DEF Reaches, Holds, outside
<1>4. Quiet
  BY <1>1, <1>3 DEF Quiet, outside
<1> QED
  BY <1>4, QuietStep

(* A frame that is about no turn. *)
LEMMA FrameIsQuiet ==
    ASSUME TypeInv, AwaitInv, Idle, ClosingIsLast(work'),
           \A t \in Range(work') : t.op \notin {"answered", "called", "turn", "clear"},
           UNCHANGED <<conversations, conv, pending_intercept, deferred_publishes, tracking, at_agent,
                       running, prompts>>
    PROVE  AwaitInv'
<1>1. Range(work) = {}
  BY DEF Idle, Range
<1>2. ASSUME NEW p \in 1..Len(prompts), Reaches(p) PROVE Reaches(p)'
  BY <1>1, <1>2 DEF Reaches, Holds
<1>3. Quiet
  BY <1>1, <1>2 DEF Quiet
<1> QED
  BY <1>3, QuietStep

(* Who is awaited, for try_advance_queue. *)
LEMMA AdvanceIsAwaited == ASSUME TypeInv, AwaitInv, TryAdvanceQueue PROVE AwaitInv'
<1>1. work # <<>> /\ Head(work).op = "advance"
  BY DEF TryAdvanceQueue, Doing
<1>2. UNCHANGED <<conversations, pending_intercept, deferred_publishes, tracking, outside, prompts>>
  BY DEF TryAdvanceQueue, pipe
<1>3. ASSUME NEW c \in Runnable,
             conv' = [conv EXCEPT ![c].pending_prompts = Tail(@)],
             work' = Dispatch(c, Head(conv[c].pending_prompts)) \o work
      PROVE  AwaitInv'
  <2> DEFINE T == GoodTask(Len(prompts))
             m == Head(conv[c].pending_prompts)
             d == Dispatch(c, m)
  <2>1. c \in Convs /\ m \in Nat
    <3>1. conv[c].pending_prompts \in Seq(1..Len(messages)) /\ conv[c].pending_prompts # <<>> /\ c \in Convs
      BY DEF TypeInv, Runnable, GoodConversation
    <3> QED
      BY <3>1, LengthTypes
  <2>2. d \in Seq(T) /\ work \in Seq(T) /\ work' = d \o work
    BY <1>3, <2>1, DispatchTypes DEF TypeInv
  <2>3. \A t \in Range(d) : t.op \in {"publish", "dispatch"}
    BY TasksOfDispatch
  <2>4. Range(work') = Range(d) \cup Range(work)
    <3>1. \A s, t \in Seq(T) : Range(s \o t) = Range(s) \cup Range(t)
      BY RangeOfParts
    <3> HIDE DEF T, d
    <3> QED
      BY <2>2, <3>1
  <2>5. ClosingIsLast(work')
    <3>1. \A s, t \in Seq(T) :
            ClosingIsLast(t) /\ (\A x \in Range(s) : x.op \notin Closing) => ClosingIsLast(s \o t)
      BY ClosingOfParts
    <3>2. \A t \in Range(d) : t.op \notin Closing
      BY <2>3 DEF Closing
    <3> HIDE DEF T, d
    <3> QED
      BY <2>2, <3>1, <3>2 DEF AwaitInv
  <2>6. \A x \in Convs : /\ conv'[x].in_flight_prompt = conv[x].in_flight_prompt
                         /\ conv'[x].turn_state = conv[x].turn_state
                         /\ conv'[x].remaining_calls = conv[x].remaining_calls
    BY <1>3, <2>1 DEF TypeInv, GoodConversation
  <2> HIDE DEF d
  <2>7. ASSUME NEW p \in 1..Len(prompts), Reaches(p) PROVE Reaches(p)'
    BY <1>2, <2>4, <2>7 DEF Reaches, Holds, outside
  <2>8. Quiet
    BY <1>2, <2>3, <2>4, <2>5, <2>6, <2>7 DEF Quiet, outside
  <2> QED
    BY <2>8, QuietStep
<1>4. ASSUME Then(<<>>), UNCHANGED conv PROVE AwaitInv'
  BY <1>1, <1>2, <1>4, NoTasks, ThenIsQuiet, RangeOfParts
<1> QED
  BY <1>3, <1>4 DEF TryAdvanceQueue

(* The look at the queue, for try_advance_queue: it looks until nothing can go. *)
LEMMA AdvanceLooks == ASSUME TypeInv, LookInv, TryAdvanceQueue PROVE LookInv'
<1>1. ASSUME NEW c \in Runnable, work' = Dispatch(c, Head(conv[c].pending_prompts)) \o work
      PROVE  \E t \in Range(work') : t.op = "advance"
  <2> DEFINE T == GoodTask(Len(prompts))
             m == Head(conv[c].pending_prompts)
             d == Dispatch(c, m)
  <2>1. c \in Convs /\ m \in Nat
    <3>1. conv[c].pending_prompts \in Seq(1..Len(messages)) /\ conv[c].pending_prompts # <<>> /\ c \in Convs
      BY DEF TypeInv, Runnable, GoodConversation
    <3> QED
      BY <3>1, LengthTypes
  <2>2. d \in Seq(T) /\ work \in Seq(T) /\ work' = d \o work
    BY <1>1, <2>1, DispatchTypes DEF TypeInv
  <2>3. Range(work') = Range(d) \cup Range(work)
    <3>1. \A s, t \in Seq(T) : Range(s \o t) = Range(s) \cup Range(t)
      BY RangeOfParts
    <3> HIDE DEF T, d
    <3> QED
      BY <2>2, <3>1
  <2>4. Head(work) \in Range(work) /\ Head(work).op = "advance"
    BY RangeOfWork DEF TryAdvanceQueue, Doing
  <2> QED
    BY <2>3, <2>4
<1>2. ASSUME UNCHANGED conv, ~(GateOpen /\ Runnable # {}) PROVE LookInv'
  <2>1. UNCHANGED <<conversations, gates>>
    BY DEF TryAdvanceQueue
  <2>2. (GateOpen' <=> GateOpen) /\ Runnable' = Runnable
    BY <1>2, <2>1 DEF gates, GateOpen, ExtensionsReady, Runnable
  <2> QED
    BY <1>2, <2>2 DEF LookInv
<1> QED
  BY <1>1, <1>2 DEF TryAdvanceQueue, LookInv

(* A step that is not about the queue. *)
LEMMA ThenLooks ==
    ASSUME TypeInv, LookInv, work # <<>>, Head(work).op # "advance",
           NEW tasks \in Seq(GoodTask(Len(prompts))), Then(tasks),
           GateOpen' => GateOpen,
           Runnable' \subseteq Runnable
    PROVE  LookInv'
<1>1. /\ Range(work') = Range(tasks) \cup Range(Tail(work))
      /\ Range(work) = {Head(work)} \cup Range(Tail(work))
  BY ThenRange
<1> QED
  BY <1>1 DEF LookInv

(* Who is awaited, for the end of dispatch_prompt_for_conversation. *)
LEMMA DispatchOrAwaitIsAwaited ==
    ASSUME TypeInv, AwaitInv, DispatchOrAwait PROVE AwaitInv'
<1> DEFINE c == Head(work).conv
           a == Do("send", c, 0)
           T == GoodTask(Len(prompts))
<1>1. work # <<>> /\ Head(work).op = "dispatch" /\ c \in Convs
  BY HeadTypes DEF DispatchOrAwait, Doing
<1>2. UNCHANGED <<conversations, conv, pending_intercept, deferred_publishes, tracking, outside, prompts>>
  BY DEF DispatchOrAwait, pipe
<1>3. Then(<<>>) \/ Then(<<a>>)
  BY DEF DispatchOrAwait
<1>4. /\ <<a>> \in Seq(T) /\ <<>> \in Seq(T)
      /\ \A t \in Range(<<a>>) : t.op \notin {"answered", "called", "turn", "clear"}
      /\ \A t \in Range(<<>>) : t.op \notin {"answered", "called", "turn", "clear"}
  <2>1. a \in T /\ a.op = "send"
    BY <1>1, LengthTypes, DoTypes DEF Do
  <2>2. Range(<<a>>) = {a} /\ Range(<<>>) = {}
    BY RangeOfLists, RangeOfParts
  <2> HIDE DEF a
  <2> QED
    BY <2>1, <2>2, LengthTypes, TaskLists
<1> HIDE DEF a, c
<1> QED
  BY <1>1, <1>2, <1>3, <1>4, ThenIsQuiet

(* The look at the queue, for the same. *)
LEMMA DispatchOrAwaitLooks ==
    ASSUME TypeInv, LookInv, DispatchOrAwait PROVE LookInv'
<1> DEFINE c == Head(work).conv
           a == Do("send", c, 0)
           T == GoodTask(Len(prompts))
<1>1. work # <<>> /\ Head(work).op = "dispatch" /\ c \in Convs
  BY HeadTypes DEF DispatchOrAwait, Doing
<1>2. (GateOpen' <=> GateOpen) /\ Runnable' = Runnable
  BY DEF DispatchOrAwait, gates, GateOpen, ExtensionsReady, Runnable
<1>3. Then(<<>>) \/ Then(<<a>>)
  BY DEF DispatchOrAwait
<1>4. <<a>> \in Seq(T) /\ <<>> \in Seq(T)
  <2>1. a \in T
    BY <1>1, LengthTypes, DoTypes
  <2> QED
    BY <2>1, LengthTypes, TaskLists
<1> HIDE DEF a, c
<1> QED
  BY <1>1, <1>2, <1>3, <1>4, ThenLooks

(* A turn that a step is not about goes on. *)
LEMMA AwaitedStays ==
    ASSUME TypeInv, NEW c \in Convs, Awaited(c),
           /\ conv'[c].in_flight_prompt = conv[c].in_flight_prompt
           /\ conv'[c].turn_state = conv[c].turn_state
           /\ conv'[c].remaining_calls = conv[c].remaining_calls,
           \A p \in prompt_conversations \ canceled_prompts :
                prompts[p].conv = c => p \in prompt_conversations' \ canceled_prompts',
           \A p \in 1..Len(prompts) : prompts'[p] = prompts[p],
           \A p \in 1..Len(prompts) : Reaches(p) => Reaches(p)',
           \A d \in conv[c].remaining_calls :
                /\ d \in tool_conversations'
                /\ d \in running' \/ \E t \in Range(work') : t.op = "turn" /\ t.of = d
    PROVE  Awaited(c)'
<1>1. PICK p \in 0..Len(prompts) : p = conv[c].in_flight_prompt
  BY DEF TypeInv, GoodConversation
<1>2. p # 0 => Reaches(p)'
  <2> SUFFICES ASSUME p # 0 PROVE Reaches(p)'
    OBVIOUS
  <2>1. p \in 1..Len(prompts)
    BY <1>1, LengthTypes
  <2>2. Reaches(p)
    BY <1>1 DEF Awaited
  <2> QED
    BY <2>1, <2>2
<1>3. /\ conv[c].turn_state = "thinking" <=> p # 0
      /\ p # 0 => p \in prompt_conversations \ canceled_prompts /\ prompts[p].conv = c
      /\ conv[c].turn_state = "tools" <=> conv[c].remaining_calls # {}
      /\ \A d \in conv[c].remaining_calls : d \in tool_conversations /\ prompts[d].conv = c
  BY <1>1 DEF Awaited
<1>4. p # 0 => p \in prompt_conversations' \ canceled_prompts' /\ prompts'[p].conv = c
  BY <1>1, <1>3 DEF TypeInv
<1>5. \A d \in conv[c].remaining_calls : prompts'[d].conv = c
  <2>1. conv[c].remaining_calls \subseteq 1..Len(prompts)
    BY DEF TypeInv, GoodConversation
  <2> QED
    BY <1>3, <2>1
<1> QED
  BY <1>1, <1>2, <1>3, <1>4, <1>5 DEF Awaited, Reaches, Holds

(* A turn without a prompt or a call is awaited by nobody. *)
LEMMA IdleIsAwaited ==
    ASSUME NEW c, conv'[c].in_flight_prompt = 0, conv'[c].turn_state = "idle",
           conv'[c].remaining_calls = {}
    PROVE  Awaited(c)'
BY DEF Awaited

(* Who is awaited, for send_prompt_to_agent_for: the new prompt is on its way. *)
LEMMA SendIsAwaited == ASSUME TypeInv, TypeInv', AwaitInv, SendPrompt PROVE AwaitInv'
<1> DEFINE P == Len(prompts)
           a == Publish("prompt_created", None, P + 1, 0)
<1>0. PICK c \in Convs : c = Head(work).conv
  BY HeadTypes DEF SendPrompt, Doing
<1>1. work # <<>> /\ Head(work).op = "send" /\ c \in Convs /\ P \in Nat
  BY <1>0, HeadTypes, LengthTypes DEF SendPrompt, Doing
<1>2. /\ prompt_conversations' = prompt_conversations \cup {P + 1}
      /\ conv' = [conv EXCEPT ![c].in_flight_prompt = P + 1, ![c].turn_state = "thinking",
                              ![c].remaining_calls = {}]
      /\ work' = <<a>> \o Tail(work)
      /\ UNCHANGED <<conversations, pending_intercept, deferred_publishes, canceled_prompts,
                     tool_conversations, outside>>
  BY <1>0 DEF SendPrompt, Then, NextPrompt, pipe
<1>3. Len(prompts') = P + 1 /\ prompts'[P + 1].conv = c /\ \A q \in 1..P : prompts'[q] = prompts[q]
  <2>1. PICK x : prompts' = Append(prompts, x) /\ x.conv = c
    BY <1>0 DEF SendPrompt
  <2>2. prompts \in Seq(Prompt)
    BY DEF TypeInv
  <2> HIDE DEF Prompt
  <2> QED
    BY <2>1, <2>2
<1>4. /\ Range(work') = {a} \cup Range(Tail(work))
      /\ Range(work) = {Head(work)} \cup Range(Tail(work))
      /\ ClosingIsLast(work')
  <2> DEFINE T == GoodTask(P + 1)
  <2>1. Tail(work) \in Seq(T)
    <3>1. GoodTask(P) \subseteq T
      BY <1>1, GoodGrows
    <3>2. Tail(work) \in Seq(GoodTask(P))
      BY <1>1, HeadTypes
    <3> QED
      BY <3>1, <3>2, SeqGrows
  <2>2. a \in T
    <3>2. P + 1 \in Nat /\ P + 1 \in 1..(P + 1)
      BY <1>1
    <3>1. "prompt_created" \in Kinds /\ "prompt_created" \notin UserKinds \cup {"session_started"}
      BY DEF UserKinds, Kinds
    <3> QED
      BY <1>1, <3>1, <3>2, PublishTypes
  <2>3. a.op \notin Closing
    BY DEF Publish, Closing
  <2>4. /\ \A s, t \in Seq(T) : Range(s \o t) = Range(s) \cup Range(t)
        /\ \A s, t \in Seq(T) :
            ClosingIsLast(t) /\ (\A x \in Range(s) : x.op \notin Closing) => ClosingIsLast(s \o t)
    BY RangeOfParts, ClosingOfParts
  <2>5. ClosingIsLast(Tail(work)) /\ Range(work) = {Head(work)} \cup Range(Tail(work))
    BY <1>1, RangeOfWork DEF AwaitInv
  <2> HIDE DEF T, a
  <2>6. <<a>> \in Seq(T) /\ Range(<<a>>) = {a}
    BY <2>2, RangeOfLists
  <2> QED
    BY <1>2, <2>1, <2>3, <2>4, <2>5, <2>6
<1>5. a.op = "publish" /\ a.kind = "prompt_created" /\ a.of = P + 1 /\ Head(work).kind # "prompt_created"
  BY <1>1, <1>4, OnlyPublishesReach DEF Publish
<1> HIDE DEF a
<1>6. ASSUME NEW p \in 1..P, Reaches(p) PROVE Reaches(p)'
  BY <1>2, <1>4, <1>5, <1>6 DEF Reaches, Holds, outside
<1>7. Awaited(c)'
  <2>1. conv \in [Convs -> GoodConversation(P, Len(messages))]
    BY DEF TypeInv
  <2>2. conv[c] \in GoodConversation(P, Len(messages))
    BY <1>1, <2>1
  <2>3. conv'[c] = [conv[c] EXCEPT !.in_flight_prompt = P + 1, !.turn_state = "thinking",
                                   !.remaining_calls = {}]
    BY <1>1, <1>2, <2>1
  <2>4. /\ conv'[c].in_flight_prompt = P + 1
        /\ conv'[c].turn_state = "thinking"
        /\ conv'[c].remaining_calls = {}
    BY <2>2, <2>3 DEF GoodConversation
  <2>5. P + 1 # 0 /\ P + 1 \notin canceled_prompts
    BY <1>1 DEF TypeInv
  <2>6. \E t \in Range(work') : t.kind = "prompt_created" /\ t.of = P + 1
    BY <1>4, <1>5
  <2>7. P + 1 \in prompt_conversations' \ canceled_prompts'
    BY <1>2, <2>5
  <2>8. prompts'[conv'[c].in_flight_prompt].conv = c
    BY <1>3, <2>4
  <2>9. "thinking" # "tools"
    OBVIOUS
  <2> HIDE DEF P
  <2> QED
    BY <2>4, <2>5, <2>6, <2>7, <2>8, <2>9 DEF Awaited, Reaches, Holds
<1>8. ASSUME NEW d \in conversations', d # c PROVE Awaited(d)'
  <2>1. d \in Convs /\ Awaited(d)
    BY <1>2, <1>8 DEF AwaitInv, TypeInv
  <2>2. conv'[d] = conv[d]
    BY <1>2, <1>8, <2>1 DEF TypeInv
  <2>3. \A x \in conv[d].remaining_calls :
                /\ x \in tool_conversations'
                /\ x \in running' \/ \E t \in Range(work') : t.op = "turn" /\ t.of = x
    BY <1>1, <1>2, <1>4, <2>1 DEF Awaited, outside
  <2> QED
    BY <1>2, <1>3, <1>6, <2>1, <2>2, <2>3, AwaitedStays
<1>9. \A t \in Range(work') :
            /\ t.op \in {"answered", "called", "turn"} => prompts'[t.of].conv = t.conv
            /\ t.op = "clear" => t.of \notin running'
  <2> SUFFICES ASSUME NEW t \in Range(work'), t # a
               PROVE  /\ t.op \in {"answered", "called", "turn"} => prompts'[t.of].conv = t.conv
                      /\ t.op = "clear" => t.of \notin running'
    BY <1>5
  <2>1. t \in Range(work)
    BY <1>4
  <2>2. t \in GoodTask(P)
    BY <2>1, TasksAreGood
  <2>3. t.op \in {"answered", "called", "turn"} => t.of \in 1..P
    BY <2>2 DEF GoodTask
  <2> QED
    BY <1>2, <1>3, <2>1, <2>3 DEF AwaitInv, outside
<1> QED
  BY <1>2, <1>4, <1>7, <1>8, <1>9 DEF AwaitInv

(* The look at the queue, for the same. *)
LEMMA SendLooks == ASSUME TypeInv, LookInv, SendPrompt PROVE LookInv'
<1> DEFINE c == Head(work).conv
<1>1. work # <<>> /\ Head(work).op = "send" /\ c \in Convs
  BY HeadTypes DEF SendPrompt, Doing
<1>2. (GateOpen' <=> GateOpen) /\ conversations' = conversations
  BY DEF SendPrompt, gates, GateOpen, ExtensionsReady
<1>3. conv' = [conv EXCEPT ![c].in_flight_prompt = NextPrompt, ![c].turn_state = "thinking",
                           ![c].remaining_calls = {}]
  BY DEF SendPrompt
<1>4. Runnable' \subseteq Runnable
  <2> SUFFICES ASSUME NEW d \in conversations, conv'[d].pending_prompts # <<>>, conv'[d].turn_state = "idle"
               PROVE  conv[d].pending_prompts # <<>> /\ conv[d].turn_state = "idle"
    BY <1>2 DEF Runnable
  <2>1. d \in Convs /\ conv \in [Convs -> GoodConversation(Len(prompts), Len(messages))]
    BY DEF TypeInv
  <2>2. d # c
    <3> SUFFICES ASSUME d = c PROVE FALSE
      OBVIOUS
    <3>1. conv[c] \in GoodConversation(Len(prompts), Len(messages))
      BY <1>1, <2>1
    <3>2. conv'[c] = [conv[c] EXCEPT !.in_flight_prompt = NextPrompt, !.turn_state = "thinking",
                                     !.remaining_calls = {}]
      BY <1>1, <1>3, <2>1
    <3>3. conv'[c].turn_state = "thinking"
      BY <3>1, <3>2 DEF GoodConversation
    <3> QED
      BY <3>3
  <2> HIDE DEF c
  <2> QED
    BY <1>1, <1>3, <2>1, <2>2
<1>5. \A t \in Range(work) : t.op = "advance" => t \in Range(work')
  <2> DEFINE a == Publish("prompt_created", None, NextPrompt, 0)
             T == GoodTask(Len(prompts))
  <2>1. Range(work) = {Head(work)} \cup Range(Tail(work))
    BY <1>1, RangeOfWork
  <2>2. work' = <<a>> \o Tail(work)
    BY DEF SendPrompt, Then
  <2>3. Tail(work) \in Seq(T \cup {a}) /\ <<a>> \in Seq(T \cup {a})
    <3>1. Tail(work) \in Seq(T)
      BY <1>1, HeadTypes
    <3> HIDE DEF T, a
    <3> QED
      BY <3>1, SeqGrows
  <2>4. \A s, t \in Seq(T \cup {a}) : Range(s \o t) = Range(s) \cup Range(t)
    BY RangeOfParts
  <2> HIDE DEF a
  <2> QED
    BY <1>1, <2>1, <2>2, <2>3, <2>4
<1> QED
  BY <1>2, <1>4, <1>5 DEF LookInv

(* The end of the turn of a prompt, or of a prompt that is not wanted. *)
LEMMA ClosingTask ==
    ASSUME TypeInv, AwaitInv, work # <<>>, Head(work).op \in Closing
    PROVE  Tail(work) = <<>> /\ Range(work) = {Head(work)}
<1>1. Tail(work) = <<>>
  <2> DEFINE T == GoodTask(Len(prompts))
  <2>1. work \in Seq(T)
    BY DEF TypeInv
  <2>2. \A s \in Seq(T) : s # <<>> /\ ClosingIsLast(s) => (Head(s).op \in Closing => Tail(s) = <<>>)
    BY ClosingOfParts
  <2> HIDE DEF T
  <2> QED
    BY <2>1, <2>2 DEF AwaitInv
<1>2. Range(work) = {Head(work)} \cup Range(Tail(work)) /\ Range(<<>>) = {}
  BY RangeOfWork, RangeOfParts
<1> QED
  BY <1>1, <1>2

(* Who is awaited, for the end of a turn; the queue is looked at next. *)
LEMMA TurnEndsIsAwaited == ASSUME TypeInv, AwaitInv, TurnEnds PROVE AwaitInv' /\ LookInv'
<1> DEFINE n == Head(work).of
<1>0. PICK c \in Convs : c = Head(work).conv
  BY HeadTypes DEF TurnEnds, Doing
<1>1. work # <<>> /\ Head(work).op \in {"answered", "called"} /\ c \in Convs
  BY <1>0, HeadTypes DEF TurnEnds, Doing
<1>2. Tail(work) = <<>> /\ Range(work) = {Head(work)}
  BY <1>1, ClosingTask DEF Closing
<1>3. work' = <<Advance>> /\ Range(work') = {Advance} /\ ClosingIsLast(work') /\ Advance.op = "advance"
  <2>1. work' = <<Advance>> \o <<>>
    BY <1>0, <1>2 DEF TurnEnds, Then
  <2>2. work' = <<Advance>>
    BY <2>1
  <2> QED
    BY <2>2, RangeOfLists, ClosingOfLists DEF Advance, Do
<1>4. /\ prompt_conversations' = prompt_conversations \ {n}
      /\ UNCHANGED <<pending_intercept, deferred_publishes, canceled_prompts, tool_conversations,
                     outside, prompts>>
  BY <1>0 DEF TurnEnds, pipe
<1>5. prompts[n].conv = c /\ Head(work).kind # "prompt_created"
  BY <1>0, <1>1, <1>2, OnlyPublishesReach DEF AwaitInv
<1>6. ASSUME NEW p \in 1..Len(prompts), Reaches(p) PROVE Reaches(p)'
  BY <1>2, <1>4, <1>5, <1>6 DEF Reaches, Holds, outside
<1>7. conversations' \subseteq conversations /\ (c \in conversations' => c \notin Queries) /\ Default \in conversations'
      /\ \A d \in Convs : d # c => conv'[d] = conv[d]
  <2>1. CASE c \in Queries
    BY <1>0, <2>1, PromptDispatchAssumption DEF TurnEnds, AwaitInv, TypeInv
  <2>2. CASE c \notin Queries
    BY <1>0, <2>2 DEF TurnEnds, AwaitInv, TypeInv
  <2> QED
    BY <2>1, <2>2
<1>8. c \notin Queries => Awaited(c)'
  <2> SUFFICES ASSUME c \notin Queries PROVE Awaited(c)'
    OBVIOUS
  <2>1. conv[c] \in GoodConversation(Len(prompts), Len(messages))
    BY <1>1 DEF TypeInv
  <2>2. conv'[c] = [conv[c] EXCEPT !.in_flight_prompt = 0, !.turn_state = "idle", !.remaining_calls = {}]
    BY <1>0, <1>1 DEF TurnEnds, TypeInv
  <2>3. conv'[c].in_flight_prompt = 0 /\ conv'[c].turn_state = "idle" /\ conv'[c].remaining_calls = {}
    BY <2>1, <2>2 DEF GoodConversation
  <2> QED
    BY <2>3, IdleIsAwaited
<1> HIDE DEF n
<1>9. ASSUME NEW d \in conversations', d # c PROVE Awaited(d)'
  <2>1. d \in Convs /\ Awaited(d) /\ conv'[d] = conv[d]
    BY <1>7, <1>9 DEF AwaitInv, TypeInv
  <2>2. \A x \in conv[d].remaining_calls : x \in tool_conversations' /\ x \in running'
    BY <1>1, <1>2, <1>4, <2>1 DEF Awaited, outside
  <2>3. \A p \in prompt_conversations \ canceled_prompts :
                prompts[p].conv = d => p \in prompt_conversations' \ canceled_prompts'
    BY <1>4, <1>5, <1>9
  <2> QED
    BY <1>4, <1>6, <2>1, <2>2, <2>3, AwaitedStays
<1>10. AwaitInv'
  BY <1>3, <1>7, <1>8, <1>9 DEF AwaitInv
<1> QED
  BY <1>3, <1>10 DEF LookInv

(* Who is awaited, for a response that calls a tool: the call runs. *)
LEMMA ToolsStartIsAwaited == ASSUME TypeInv, AwaitInv, ToolsStart PROVE AwaitInv'
<1> DEFINE n == Head(work).of
<1>0. PICK c \in Convs : c = Head(work).conv
  BY HeadTypes DEF ToolsStart, Doing
<1>1. work # <<>> /\ Head(work).op = "called" /\ c \in Convs
  BY <1>0, HeadTypes DEF ToolsStart, Doing
<1>2. Tail(work) = <<>> /\ Range(work) = {Head(work)}
  BY <1>1, ClosingTask DEF Closing
<1>3. work' = <<>> /\ Range(work') = {} /\ ClosingIsLast(work')
  <2>1. work' = <<>> \o <<>>
    BY <1>0, <1>2 DEF ToolsStart, Then
  <2>2. work' = <<>>
    BY <2>1
  <2> QED
    BY <2>2 DEF Range, ClosingIsLast
<1>4. /\ prompt_conversations' = prompt_conversations \ {n}
      /\ tool_conversations' = tool_conversations \cup {n}
      /\ running' = running \cup {n}
      /\ conv' = IF c \in conversations
                 THEN [conv EXCEPT ![c].in_flight_prompt = 0, ![c].turn_state = "tools",
                                   ![c].remaining_calls = {n}]
                 ELSE conv
      /\ UNCHANGED <<conversations, pending_intercept, deferred_publishes, canceled_prompts, at_agent,
                     prompts>>
  BY <1>0 DEF ToolsStart, pipe
<1>5. prompts[n].conv = c /\ Head(work).kind # "prompt_created"
  BY <1>0, <1>1, <1>2, OnlyPublishesReach DEF AwaitInv
<1>6. ASSUME NEW p \in 1..Len(prompts), Reaches(p) PROVE Reaches(p)'
  BY <1>2, <1>4, <1>5, <1>6 DEF Reaches, Holds
<1> HIDE DEF n
<1>7. c \in conversations => Awaited(c)'
  <2> SUFFICES ASSUME c \in conversations PROVE Awaited(c)'
    OBVIOUS
  <2>1. conv[c] \in GoodConversation(Len(prompts), Len(messages))
    BY <1>1 DEF TypeInv
  <2>2. conv'[c] = [conv[c] EXCEPT !.in_flight_prompt = 0, !.turn_state = "tools", !.remaining_calls = {n}]
    BY <1>1, <1>4 DEF TypeInv
  <2>3. conv'[c].in_flight_prompt = 0 /\ conv'[c].turn_state = "tools" /\ conv'[c].remaining_calls = {n}
    BY <2>1, <2>2 DEF GoodConversation
  <2> QED
    BY <1>4, <1>5, <2>3 DEF Awaited
<1>9. ASSUME NEW d \in conversations', d # c PROVE Awaited(d)'
  <2>1. d \in Convs /\ Awaited(d) /\ conv'[d] = conv[d]
    BY <1>1, <1>4, <1>9 DEF AwaitInv, TypeInv
  <2>2. \A x \in conv[d].remaining_calls : x \in tool_conversations' /\ x \in running'
    BY <1>1, <1>2, <1>4, <2>1 DEF Awaited
  <2>3. \A p \in prompt_conversations \ canceled_prompts :
                prompts[p].conv = d => p \in prompt_conversations' \ canceled_prompts'
    BY <1>4, <1>5, <1>9
  <2> QED
    BY <1>4, <1>6, <2>1, <2>2, <2>3, AwaitedStays
<1> QED
  BY <1>3, <1>4, <1>7, <1>9 DEF AwaitInv

(* The look at the queue, for the same. *)
LEMMA ToolsStartLooks == ASSUME TypeInv, LookInv, ToolsStart PROVE LookInv'
<1> DEFINE c == Head(work).conv
           n == Head(work).of
<1>1. work # <<>> /\ Head(work).op = "called" /\ c \in Convs
  BY HeadTypes DEF ToolsStart, Doing
<1>2. (GateOpen' <=> GateOpen) /\ conversations' = conversations
  BY DEF ToolsStart, gates, GateOpen, ExtensionsReady
<1>3. conv' = IF c \in conversations
              THEN [conv EXCEPT ![c].in_flight_prompt = 0, ![c].turn_state = "tools",
                                ![c].remaining_calls = {n}]
              ELSE conv
  BY DEF ToolsStart
<1>4. Runnable' \subseteq Runnable
  <2> SUFFICES ASSUME NEW d \in conversations, conv'[d].pending_prompts # <<>>, conv'[d].turn_state = "idle"
               PROVE  conv[d].pending_prompts # <<>> /\ conv[d].turn_state = "idle"
    BY <1>2 DEF Runnable
  <2>1. d \in Convs /\ conv \in [Convs -> GoodConversation(Len(prompts), Len(messages))]
    BY DEF TypeInv
  <2>2. d # c
    <3> SUFFICES ASSUME d = c PROVE FALSE
      OBVIOUS
    <3>1. conv[c] \in GoodConversation(Len(prompts), Len(messages))
      BY <1>1, <2>1
    <3>2. conv'[c] = [conv[c] EXCEPT !.in_flight_prompt = 0, !.turn_state = "tools",
                                     !.remaining_calls = {n}]
      BY <1>1, <1>3, <2>1
    <3>3. conv'[c].turn_state = "tools"
      BY <3>1, <3>2 DEF GoodConversation
    <3> QED
      BY <3>3
  <2> HIDE DEF c
  <2> QED
    BY <1>1, <1>3, <2>1, <2>2
<1>5. Then(<<>>)
  BY DEF ToolsStart
<1> QED
  BY <1>1, <1>2, <1>4, <1>5, NoTasks, ThenLooks

(* Who is awaited, for clear_tool_call_tracking: its call runs no more. *)
LEMMA ClearIsAwaited == ASSUME TypeInv, AwaitInv, ClearTracking PROVE AwaitInv'
<1> DEFINE n == Head(work).of
<1>1. work # <<>> /\ Head(work).op = "clear"
  BY DEF ClearTracking, Doing
<1>2. Tail(work) = <<>> /\ Range(work) = {Head(work)}
  BY <1>1, ClosingTask DEF Closing
<1>3. work' = <<>> /\ Range(work') = {} /\ ClosingIsLast(work')
  <2>1. work' = <<>> \o <<>>
    BY <1>2 DEF ClearTracking, Then
  <2>2. work' = <<>>
    BY <2>1
  <2> QED
    BY <2>2 DEF Range, ClosingIsLast
<1>4. /\ tool_conversations' = tool_conversations \ {n}
      /\ UNCHANGED <<conversations, conv, pending_intercept, deferred_publishes, prompt_conversations,
                     canceled_prompts, outside, prompts>>
  BY DEF ClearTracking, pipe
<1>5. n \notin running /\ Head(work).kind # "prompt_created"
  BY <1>1, <1>2, OnlyPublishesReach DEF AwaitInv
<1>6. ASSUME NEW p \in 1..Len(prompts), Reaches(p) PROVE Reaches(p)'
  BY <1>2, <1>4, <1>5, <1>6 DEF Reaches, Holds, outside
<1>7. ASSUME NEW d \in conversations' PROVE Awaited(d)'
  <2>1. d \in Convs /\ Awaited(d)
    BY <1>4, <1>7 DEF AwaitInv, TypeInv
  <2>2. \A x \in conv[d].remaining_calls : x \in tool_conversations /\ x \in running
    BY <1>1, <1>2, <2>1 DEF Awaited
  <2>3. \A x \in conv[d].remaining_calls : x \in tool_conversations' /\ x \in running'
    BY <1>4, <1>5, <2>2 DEF outside
  <2> HIDE DEF n
  <2> QED
    BY <1>4, <1>6, <2>1, <2>3, AwaitedStays
<1> QED
  BY <1>3, <1>4, <1>7 DEF AwaitInv

(* The look at the queue, for the same. *)
LEMMA ClearLooks == ASSUME TypeInv, LookInv, ClearTracking PROVE LookInv'
<1>1. (GateOpen' <=> GateOpen) /\ Runnable' = Runnable
  BY DEF ClearTracking, gates, GateOpen, ExtensionsReady, Runnable
<1>2. work # <<>> /\ Head(work).op = "clear" /\ Then(<<>>)
  BY DEF ClearTracking, Doing
<1> QED
  BY <1>1, <1>2, NoTasks, ThenLooks

(* Who is awaited, for try_respawn_supervised_extension. *)
LEMMA RespawnIsAwaited == ASSUME TypeInv, AwaitInv, Respawn PROVE AwaitInv'
<1>1. work # <<>> /\ Head(work).op = "respawn" /\ Then(<<>>)
  BY DEF Respawn, Doing
<1>2. UNCHANGED <<conversations, conv, pending_intercept, deferred_publishes, tracking, outside, prompts>>
  BY DEF Respawn, pipe
<1> QED
  BY <1>1, <1>2, NoTasks, ThenIsQuiet, RangeOfParts

(* The look at the queue, for the same: the extension holds the queue back until *)
(* it is ready. *)
LEMMA RespawnLooks == ASSUME TypeInv, LookInv, ~SpawnsFail, Respawn PROVE LookInv'
<1>1. work # <<>> /\ Head(work).op = "respawn" /\ Then(<<>>) /\ Head(work).conv \in Providers
  BY HeadTypes DEF Respawn, Doing
<1>2. extension'[Head(work).conv] = "spawning"
  BY <1>1 DEF Respawn, TypeInv
<1>3. ~GateOpen'
  BY <1>1, <1>2 DEF GateOpen, ExtensionsReady
<1> QED
  BY <1>3 DEF LookInv

(* What is published for a queue carries no prompt to the agent, and ends nothing. *)
LEMMA TasksOfSteered ==
    ASSUME TypeInv, NEW c \in Convs
    PROVE  \A t \in Range(Append(Steered(c), Do("dispatch", c, 0))) : t.op \in {"publish", "dispatch"}
<1> DEFINE T == GoodTask(Len(prompts))
           s == conv[c].pending_prompts
           all == Append(Steered(c), Do("dispatch", c, 0))
<1>1. s \in Seq(1..Len(messages))
  BY DEF TypeInv, GoodConversation
<1>2. Steered(c) = [i \in DOMAIN s |-> Publish("steered", c, s[i], session)]
  BY DEF Steered
<1>3. \A i \in DOMAIN s : Steered(c)[i].op = "publish"
  BY <1>2 DEF Publish
<1>4. DOMAIN Steered(c) = 1..Len(s) /\ Len(s) \in Nat /\ DOMAIN s = 1..Len(s)
  BY <1>1, <1>2
<1>5. Len(Steered(c)) = Len(s)
  BY <1>4
<1>6. \A i \in 1..(Len(s) + 1) : all[i].op \in {"publish", "dispatch"}
  <2>1. \A i \in 1..Len(s) : all[i] = Steered(c)[i]
    BY <1>4, <1>5
  <2>2. all[Len(s) + 1] = Do("dispatch", c, 0)
    BY <1>4, <1>5
  <2>3. Do("dispatch", c, 0).op = "dispatch"
    BY DEF Do
  <2>4. \A i \in 1..(Len(s) + 1) : i \in 1..Len(s) \/ i = Len(s) + 1
    BY <1>4
  <2>5. \A i \in 1..Len(s) : all[i].op = "publish"
    BY <1>3, <1>4, <2>1
  <2>6. all[Len(s) + 1].op = "dispatch"
    BY <2>2, <2>3
  <2> HIDE DEF all, s
  <2> QED
    BY <2>4, <2>5, <2>6
<1>7. DOMAIN all = 1..(Len(s) + 1)
  BY <1>4, <1>5
<1> QED
  BY <1>6, <1>7 DEF Range

(* Who is awaited, for maybe_complete_agent_turn: another call, or nobody. *)
LEMMA TurnIsAwaited == ASSUME TypeInv, AwaitInv, MaybeCompleteTurn PROVE AwaitInv'
<1>0. PICK c \in Convs : c = Head(work).conv
  BY HeadTypes DEF MaybeCompleteTurn, Doing
<1>1. PICK n \in 1..Len(prompts) : n = Head(work).of
  BY HeadTypes DEF MaybeCompleteTurn, Doing
<1> DEFINE left == conv[c].remaining_calls \ {n}
           tasks == Append(Steered(c), Do("dispatch", c, 0))
           T == GoodTask(Len(prompts))
<1>2. work # <<>> /\ Head(work).op = "turn"
  BY DEF MaybeCompleteTurn, Doing
<1>3. UNCHANGED <<conversations, pending_intercept, deferred_publishes, tracking, outside, prompts>>
  BY DEF MaybeCompleteTurn, pipe
<1>4. Range(work) = {Head(work)} \cup Range(Tail(work)) /\ Head(work).kind # "prompt_created"
  <2>1. Range(work) = {Head(work)} \cup Range(Tail(work))
    BY <1>2, RangeOfWork
  <2> QED
    BY <1>2, <2>1, OnlyPublishesReach
<1>5. prompts[n].conv = c
  BY <1>0, <1>1, <1>2, <1>4 DEF AwaitInv
<1>6. /\ Range(Tail(work)) \subseteq Range(work')
      /\ ClosingIsLast(work')
      /\ \A t \in Range(work') : t \in Range(work) \/ t.op \in {"publish", "dispatch"}
  <2>1. tasks \in Seq(T) /\ <<>> \in Seq(T)
    BY SteeredTypes, NoTasks
  <2>2. \A t \in Range(tasks) : t.op \in {"publish", "dispatch"}
    BY TasksOfSteered
  <2>3. Range(<<>>) = {}
    BY RangeOfParts
  <2>4. Then(tasks) \/ Then(<<>>)
    BY <1>0 DEF MaybeCompleteTurn
  <2> HIDE DEF tasks
  <2> QED
    BY <1>2, <1>4, <2>1, <2>2, <2>3, <2>4, ThenRange DEF AwaitInv, Closing
<1>7. ASSUME NEW p \in 1..Len(prompts), Reaches(p) PROVE Reaches(p)'
  BY <1>3, <1>4, <1>6, <1>7 DEF Reaches, Holds, outside
<1>8. \/ /\ n \in tool_conversations /\ c \in conversations /\ conv[c].turn_state = "tools"
         /\ left = {}
         /\ conv' = [conv EXCEPT ![c].turn_state = "idle", ![c].remaining_calls = {},
                                 ![c].pending_prompts = <<>>]
      \/ /\ n \in tool_conversations /\ c \in conversations /\ conv[c].turn_state = "tools"
         /\ left # {}
         /\ conv' = [conv EXCEPT ![c].remaining_calls = left]
      \/ /\ ~(n \in tool_conversations /\ c \in conversations /\ conv[c].turn_state = "tools")
         /\ conv' = conv
  BY <1>0, <1>1 DEF MaybeCompleteTurn
<1>9. \A d \in Convs : d # c => conv'[d] = conv[d]
  BY <1>8 DEF TypeInv
(* A call that another task or the tool itself answers for. *)
<1>10. ASSUME NEW d \in conversations, NEW x \in conv[d].remaining_calls, x # n
       PROVE  x \in running' \/ \E t \in Range(work') : t.op = "turn" /\ t.of = x
  BY <1>1, <1>3, <1>4, <1>6, <1>10 DEF AwaitInv, Awaited, outside
<1>11. ASSUME NEW d \in conversations', d # c PROVE Awaited(d)'
  <2>1. d \in Convs /\ d \in conversations /\ Awaited(d) /\ conv'[d] = conv[d]
    BY <1>3, <1>9, <1>11 DEF AwaitInv, TypeInv
  <2>2. \A x \in conv[d].remaining_calls : x # n /\ x \in tool_conversations
    BY <1>5, <1>11, <2>1 DEF Awaited
  <2>3. \A x \in conv[d].remaining_calls :
            x \in running' \/ \E t \in Range(work') : t.op = "turn" /\ t.of = x
    BY <1>10, <2>1, <2>2
  <2> QED
    BY <1>3, <1>7, <2>1, <2>2, <2>3, AwaitedStays DEF tracking
<1>12. ASSUME c \in conversations' PROVE Awaited(c)'
  <2>1. c \in conversations /\ Awaited(c) /\ conv[c] \in GoodConversation(Len(prompts), Len(messages))
        /\ conv \in [Convs -> GoodConversation(Len(prompts), Len(messages))]
    BY <1>3, <1>12 DEF AwaitInv, TypeInv
  <2>2. CASE /\ conv[c].turn_state = "tools"
             /\ conv' = [conv EXCEPT ![c].turn_state = "idle", ![c].remaining_calls = {},
                                     ![c].pending_prompts = <<>>]
    <3>1. conv'[c] = [conv[c] EXCEPT !.turn_state = "idle", !.remaining_calls = {}, !.pending_prompts = <<>>]
      BY <2>1, <2>2
    <3>2. /\ conv'[c].in_flight_prompt = conv[c].in_flight_prompt
          /\ conv'[c].turn_state = "idle" /\ conv'[c].remaining_calls = {}
      BY <2>1, <3>1 DEF GoodConversation
    <3>3. conv[c].in_flight_prompt = 0
      BY <2>1, <2>2 DEF Awaited
    <3> QED
      BY <3>2, <3>3, IdleIsAwaited
  <2>3. CASE /\ conv[c].turn_state = "tools" /\ left # {}
             /\ conv' = [conv EXCEPT ![c].remaining_calls = left]
    <3>1. conv'[c] = [conv[c] EXCEPT !.remaining_calls = left]
      BY <2>1, <2>3
    <3>2. /\ conv'[c].in_flight_prompt = conv[c].in_flight_prompt
          /\ conv'[c].turn_state = "tools" /\ conv'[c].remaining_calls = left
      BY <2>1, <2>3, <3>1 DEF GoodConversation
    <3>3. conv[c].in_flight_prompt = 0
      BY <2>1, <2>3 DEF Awaited
    <3>4. \A x \in left : /\ x \in tool_conversations' /\ prompts'[x].conv = c
                          /\ x \in running' \/ \E t \in Range(work') : t.op = "turn" /\ t.of = x
      BY <1>3, <1>10, <2>1 DEF Awaited, tracking
    <3> QED
      BY <2>3, <3>2, <3>3, <3>4 DEF Awaited
  <2>4. CASE ~(n \in tool_conversations /\ c \in conversations /\ conv[c].turn_state = "tools") /\ conv' = conv
    <3>1. \A x \in conv[c].remaining_calls : x # n /\ x \in tool_conversations
      BY <2>1, <2>4 DEF Awaited
    <3>2. \A x \in conv[c].remaining_calls :
            x \in running' \/ \E t \in Range(work') : t.op = "turn" /\ t.of = x
      BY <1>10, <2>1, <3>1
    <3> QED
      BY <1>3, <1>7, <2>1, <2>4, <3>1, <3>2, AwaitedStays DEF tracking
  <2> QED
    BY <1>8, <2>2, <2>3, <2>4
<1>13. \A t \in Range(work') :
            /\ t.op \in {"answered", "called", "turn"} => prompts'[t.of].conv = t.conv
            /\ t.op = "clear" => t.of \notin running'
  BY <1>3, <1>6 DEF AwaitInv, outside
<1> QED
  BY <1>3, <1>6, <1>11, <1>12, <1>13 DEF AwaitInv

(* The look at the queue, for the same: the queue of the conversation is emptied. *)
LEMMA TurnLooks == ASSUME TypeInv, LookInv, MaybeCompleteTurn PROVE LookInv'
<1>0. PICK c \in Convs : c = Head(work).conv
  BY HeadTypes DEF MaybeCompleteTurn, Doing
<1> DEFINE left == conv[c].remaining_calls \ {Head(work).of}
           tasks == Append(Steered(c), Do("dispatch", c, 0))
<1>1. work # <<>> /\ Head(work).op = "turn"
  BY DEF MaybeCompleteTurn, Doing
<1>2. (GateOpen' <=> GateOpen) /\ conversations' = conversations
  BY DEF MaybeCompleteTurn, gates, GateOpen, ExtensionsReady
<1>3. \/ conv' = [conv EXCEPT ![c].turn_state = "idle", ![c].remaining_calls = {},
                              ![c].pending_prompts = <<>>]
      \/ conv' = [conv EXCEPT ![c].remaining_calls = left]
      \/ conv' = conv
  BY <1>0 DEF MaybeCompleteTurn
<1> HIDE DEF left
<1>4. Runnable' \subseteq Runnable
  <2> SUFFICES ASSUME NEW d \in conversations, conv'[d].pending_prompts # <<>>, conv'[d].turn_state = "idle"
               PROVE  conv[d].pending_prompts # <<>> /\ conv[d].turn_state = "idle"
    BY <1>2 DEF Runnable
  <2>1. d \in Convs /\ conv \in [Convs -> GoodConversation(Len(prompts), Len(messages))]
        /\ conv[d] \in GoodConversation(Len(prompts), Len(messages))
    BY DEF TypeInv
  <2>2. CASE d # c \/ conv' = conv
    BY <1>3, <2>1, <2>2
  <2>3. CASE d = c /\ conv' = [conv EXCEPT ![c].turn_state = "idle", ![c].remaining_calls = {},
                                           ![c].pending_prompts = <<>>]
    <3>1. conv'[d] = [conv[d] EXCEPT !.turn_state = "idle", !.remaining_calls = {}, !.pending_prompts = <<>>]
      BY <2>1, <2>3
    <3>2. conv'[d].pending_prompts = <<>>
      BY <2>1, <3>1 DEF GoodConversation
    <3> QED
      BY <3>2
  <2>4. CASE d = c /\ conv' = [conv EXCEPT ![c].remaining_calls = left]
    <3>1. conv'[d] = [conv[d] EXCEPT !.remaining_calls = left]
      BY <2>1, <2>4
    <3>2. conv'[d].pending_prompts = conv[d].pending_prompts /\ conv'[d].turn_state = conv[d].turn_state
      BY <2>1, <3>1 DEF GoodConversation
    <3> QED
      BY <3>2
  <2> QED
    BY <1>3, <2>2, <2>3, <2>4
<1>5. Then(tasks) \/ Then(<<>>)
  BY <1>0 DEF MaybeCompleteTurn
<1>6. tasks \in Seq(GoodTask(Len(prompts)))
  BY SteeredTypes
<1> HIDE DEF tasks
<1> QED
  BY <1>1, <1>2, <1>4, <1>5, <1>6, NoTasks, ThenLooks

(* Between two frames there is no task. *)
LEMMA IdleWork == ASSUME Idle PROVE Range(work) = {}
BY DEF Idle, Range

(* The look at the queue is a task that closes nothing. *)
LEMMA AdvanceTask ==
    /\ Advance.op = "advance" /\ Advance.kind # "prompt_created"
    /\ \A s : s = <<Advance>> => Range(s) = {Advance} /\ ClosingIsLast(s)
<1>1. Advance.op = "advance" /\ Advance.kind # "prompt_created"
  BY DEF Advance, Do
<1> QED
  BY <1>1, RangeOfLists, ClosingOfLists

(* A frame after which no more can go than before. *)
LEMMA FrameLooks ==
    ASSUME Idle, GateOpen' => GateOpen, Runnable' \subseteq Runnable
    PROVE  LookInv => LookInv'
BY IdleWork DEF LookInv

(* Who is awaited, for submit_user_prompt: a preempted summary waits for nobody. *)
LEMMA SubmitIsAwaited == ASSUME TypeInv, AwaitInv, SubmitUserPrompt PROVE AwaitInv'
<1> DEFINE m == Len(messages) + 1
           made_way == [c \in Convs |-> IF c \in Preempted THEN GiveUp(c) ELSE conv[c]]
           given_up == {conv[q].in_flight_prompt : q \in Preempted}
           G == GoodConversation(Len(prompts), Len(messages))
<1>1. /\ Idle
      /\ GiveUpPrompts(given_up)
      /\ \/ /\ conv' = [made_way EXCEPT ![Default].pending_prompts = Append(@, m)]
            /\ work' = <<Advance>>
         \/ /\ conv' = made_way
            /\ work' = Dispatch(Default, m)
      /\ UNCHANGED <<conversations, pending_intercept, deferred_publishes, tool_conversations,
                     outside, prompts>>
  BY DEF SubmitUserPrompt, pipe
<1>2. ClosingIsLast(work') /\ \A t \in Range(work') : t.op \in {"publish", "dispatch", "advance"}
  BY <1>1, AdvanceTask, TasksOfDispatch
<1>3. Range(work) = {}
  BY <1>1, IdleWork
<1>4. ASSUME NEW p \in 1..Len(prompts), Reaches(p) PROVE Reaches(p)'
  BY <1>1, <1>3, <1>4 DEF Reaches, Holds, outside
<1>5. ASSUME NEW c \in conversations' PROVE Awaited(c)'
  <2>1. c \in conversations /\ c \in Convs /\ Awaited(c) /\ conv[c] \in G /\ made_way \in [Convs -> G]
    <3>1. c \in conversations /\ c \in Convs /\ Awaited(c)
      BY <1>1, <1>5 DEF AwaitInv, TypeInv
    <3>2. \A x \in Convs : conv[x] \in G /\ GiveUp(x) \in G
      BY GiveUpTypes DEF TypeInv
    <3> HIDE DEF G
    <3> QED
      BY <3>1, <3>2
  <2>2. /\ conv'[c].in_flight_prompt = made_way[c].in_flight_prompt
        /\ conv'[c].turn_state = made_way[c].turn_state
        /\ conv'[c].remaining_calls = made_way[c].remaining_calls
    <3>1. CASE conv' = made_way
      BY <3>1
    <3>2. CASE conv' = [made_way EXCEPT ![Default].pending_prompts = Append(@, m)]
      <4> DEFINE x == Append(made_way[Default].pending_prompts, m)
      <4>1. conv'[c] = made_way[c] \/ conv'[c] = [made_way[c] EXCEPT !.pending_prompts = x]
        <5> HIDE DEF made_way, m, G
        <5> QED
          BY <2>1, <3>2
      <4>2. made_way[c] \in G
        <5> HIDE DEF made_way, G
        <5> QED
          BY <2>1
      <4> HIDE DEF made_way, x
      <4> QED
        BY <4>1, <4>2 DEF GoodConversation
    <3> QED
      BY <1>1, <3>1, <3>2
  <2>3. CASE c \in Preempted
    <3>1. made_way[c] = GiveUp(c)
      BY <2>1, <2>3
    <3>2. /\ GiveUp(c).in_flight_prompt = 0 /\ GiveUp(c).turn_state = "idle"
          /\ GiveUp(c).remaining_calls = {}
      BY <2>1 DEF GiveUp, GoodConversation
    <3> HIDE DEF made_way
    <3> QED
      BY <2>2, <3>1, <3>2, IdleIsAwaited
  <2>4. CASE c \notin Preempted
    <3>1. made_way[c] = conv[c]
      BY <2>1, <2>4
    <3>2. ASSUME NEW p \in prompt_conversations \ canceled_prompts, prompts[p].conv = c
          PROVE  p \notin given_up
      <4> SUFFICES ASSUME NEW q \in Preempted, p = conv[q].in_flight_prompt PROVE FALSE
        OBVIOUS
      <4>1. q \in conversations /\ conv[q].in_flight_prompt # 0
        BY DEF Preempted
      <4>2. prompts[p].conv = q
        BY <4>1 DEF AwaitInv, Awaited
      <4> QED
        BY <2>4, <3>2, <4>2
    <3>3. \A p \in prompt_conversations \ canceled_prompts :
                prompts[p].conv = c => p \in prompt_conversations' \ canceled_prompts'
      <4> HIDE DEF given_up
      <4> QED
        BY <1>1, <3>2 DEF GiveUpPrompts
    <3>4. \A x \in conv[c].remaining_calls : x \in tool_conversations' /\ x \in running'
      BY <1>1, <1>3, <2>1 DEF Awaited, outside
    <3> HIDE DEF made_way
    <3> QED
      BY <1>1, <1>4, <2>1, <2>2, <3>1, <3>3, <3>4, AwaitedStays
  <2> QED
    BY <2>3, <2>4
<1> QED
  BY <1>1, <1>2, <1>5 DEF AwaitInv

(* The look at the queue, for the same. *)
LEMMA SubmitLooks == ASSUME TypeInv, LookInv, SubmitUserPrompt PROVE LookInv'
<1> DEFINE m == Len(messages) + 1
           made_way == [c \in Convs |-> IF c \in Preempted THEN GiveUp(c) ELSE conv[c]]
<1>1. CASE DispatchBlocked(Default)
  <2>1. work' = <<Advance>>
    BY <1>1 DEF SubmitUserPrompt
  <2> QED
    BY <2>1, AdvanceTask DEF LookInv
<1>2. CASE ~DispatchBlocked(Default)
  <2>1. conv' = made_way /\ Idle
    BY <1>2 DEF SubmitUserPrompt
  <2>2. (GateOpen' <=> GateOpen) /\ conversations' = conversations
    BY DEF SubmitUserPrompt, gates, GateOpen, ExtensionsReady
  <2>3. ASSUME NEW d \in Runnable' PROVE d \in Runnable
    <3>1. d \in conversations /\ d \in Convs /\ made_way[d].pending_prompts # <<>> /\ made_way[d].turn_state = "idle"
      BY <2>1, <2>2, <2>3 DEF Runnable, TypeInv
    <3>2. conv[d] \in GoodConversation(Len(prompts), Len(messages))
      BY <3>1 DEF TypeInv
    <3>3. GiveUp(d).pending_prompts = <<>>
      BY <3>2 DEF GiveUp, GoodConversation
    <3>4. made_way[d] = conv[d]
      BY <3>1, <3>3
    <3> HIDE DEF made_way
    <3> QED
      BY <3>1, <3>4 DEF Runnable
  <2> QED
    BY <2>1, <2>2, <2>3, FrameLooks
<1> QED
  BY <1>1, <1>2

(* Who is awaited, for handle_cancel_prompt; the queue is looked at next. *)
LEMMA CancelIsAwaited == ASSUME TypeInv, AwaitInv, CancelPrompt PROVE AwaitInv' /\ LookInv'
<1>1. /\ Idle
      /\ conv[Default].in_flight_prompt # 0
      /\ GiveUpPrompts({conv[Default].in_flight_prompt})
      /\ conv' = [conv EXCEPT ![Default] = GiveUp(Default)]
      /\ work' = <<Advance>>
      /\ UNCHANGED <<conversations, pending_intercept, deferred_publishes, tool_conversations,
                     outside, prompts>>
  BY DEF CancelPrompt, pipe
<1>2. /\ ClosingIsLast(work') /\ Range(work') = {Advance} /\ Advance.op = "advance"
  BY <1>1, AdvanceTask
<1>3. Range(work) = {}
  BY <1>1, IdleWork
<1>4. ASSUME NEW p \in 1..Len(prompts), Reaches(p) PROVE Reaches(p)'
  BY <1>1, <1>3, <1>4 DEF Reaches, Holds, outside
<1>5. Default \in Convs /\ Default \in conversations /\ Awaited(Default)
      /\ conv[Default] \in GoodConversation(Len(prompts), Len(messages))
  BY DEF AwaitInv, TypeInv, Convs
<1>6. Awaited(Default)'
  <2>1. conv'[Default] = GiveUp(Default)
    BY <1>1, <1>5 DEF TypeInv
  <2>2. /\ GiveUp(Default).in_flight_prompt = 0 /\ GiveUp(Default).turn_state = "idle"
        /\ GiveUp(Default).remaining_calls = {}
    BY <1>5 DEF GiveUp, GoodConversation
  <2> QED
    BY <2>1, <2>2, IdleIsAwaited
<1>7. ASSUME NEW c \in conversations', c # Default PROVE Awaited(c)'
  <2>1. c \in Convs /\ Awaited(c) /\ conv'[c] = conv[c]
    BY <1>1, <1>7 DEF AwaitInv, TypeInv
  <2>2. prompts[conv[Default].in_flight_prompt].conv = Default
    BY <1>1, <1>5 DEF Awaited
  <2>3. \A p \in prompt_conversations \ canceled_prompts :
                prompts[p].conv = c => p \in prompt_conversations' \ canceled_prompts'
    BY <1>1, <1>7, <2>2 DEF GiveUpPrompts
  <2>4. \A x \in conv[c].remaining_calls : x \in tool_conversations' /\ x \in running'
    BY <1>1, <1>3, <2>1 DEF Awaited, outside
  <2> QED
    BY <1>1, <1>4, <2>1, <2>3, <2>4, AwaitedStays
<1>8. AwaitInv'
  BY <1>1, <1>2, <1>5, <1>6, <1>7 DEF AwaitInv
<1> QED
  BY <1>2, <1>8 DEF LookInv

(* The tasks of complete_session_init. *)
LEMMA CompleteInitTasks ==
    ASSUME TypeInv, NEW found, NEW s \in 1..MaxSessions,
           NEW rest \in Seq(GoodTask(Len(prompts))), CompleteInit(found, s, rest)
    PROVE  /\ \A t \in Range(work') : t \in Range(rest) \/ t.op \in {"publish", "advance"}
           /\ \E t \in Range(work') : t.op = "advance"
           /\ ClosingIsLast(rest) => ClosingIsLast(work')
<1> DEFINE T == GoodTask(Len(prompts))
           p == Publish("injected", Default, Len(messages) + 1, s)
<1>1. p \in T /\ p.op = "publish"
  <2>1. "injected" \in Kinds /\ "injected" \in UserKinds /\ Default \in Convs /\ s \in Nat
    BY PromptDispatchAssumption DEF Kinds, UserKinds, Convs
  <2> QED
    BY <2>1, LengthTypes, PublishTypes DEF Publish
<1>2. Advance \in T /\ Advance.op = "advance"
  BY LengthTypes, DoTypes, AdvanceTask
<1>3. work' = <<p, Advance>> \o rest \/ work' = <<Advance>> \o rest
  BY DEF CompleteInit
<1>4. /\ \A x, y \in Seq(T) : Range(x \o y) = Range(x) \cup Range(y)
      /\ \A x, y \in Seq(T) :
            ClosingIsLast(y) /\ (\A z \in Range(x) : z.op \notin Closing) => ClosingIsLast(x \o y)
  BY RangeOfParts, ClosingOfParts
<1>5. /\ <<p, Advance>> \in Seq(T) /\ Range(<<p, Advance>>) = {p, Advance}
      /\ <<Advance>> \in Seq(T) /\ Range(<<Advance>>) = {Advance}
      /\ rest \in Seq(T)
  <2> HIDE DEF p
  <2> QED
    BY <1>1, <1>2, LengthTypes, TaskLists, RangeOfLists
<1>6. p.op \notin Closing /\ Advance.op \notin Closing
  BY <1>1, <1>2 DEF Closing
<1> HIDE DEF p, T
<1>7. CASE work' = <<p, Advance>> \o rest
  <2>1. Range(work') = {p, Advance} \cup Range(rest)
    BY <1>4, <1>5, <1>7
  <2>2. ClosingIsLast(rest) => ClosingIsLast(work')
    BY <1>4, <1>5, <1>6, <1>7
  <2> QED
    BY <1>1, <1>2, <2>1, <2>2
<1>8. CASE work' = <<Advance>> \o rest
  <2>1. Range(work') = {Advance} \cup Range(rest)
    BY <1>4, <1>5, <1>8
  <2>2. ClosingIsLast(rest) => ClosingIsLast(work')
    BY <1>4, <1>5, <1>6, <1>8
  <2> QED
    BY <1>1, <1>2, <2>1, <2>2
<1> QED
  BY <1>3, <1>7, <1>8

(* Who is awaited, for switch_session: nobody. *)
LEMMA SwitchIsAwaited == ASSUME TypeInv, AwaitInv, SwitchSession PROVE AwaitInv' /\ LookInv'
<1>1. /\ conversations' = {Default} /\ conv' = Rebound
  BY DEF SwitchSession
<1>2. Awaited(Default)'
  <2>1. conv'[Default] = Fresh(0)
    BY <1>1 DEF Rebound, Convs
  <2>2. /\ conv'[Default].in_flight_prompt = 0 /\ conv'[Default].turn_state = "idle"
        /\ conv'[Default].remaining_calls = {}
    BY <2>1 DEF Fresh
  <2> QED
    BY <2>2, IdleIsAwaited
<1>3. ClosingIsLast(work') /\ \A t \in Range(work') : t.op \in {"publish", "advance"}
  <2>1. CASE Subscribers = {}
    <3>1. CompleteInit(discovered, session + 1, <<>>)
      BY <2>1 DEF SwitchSession
    <3>2. session + 1 \in 1..MaxSessions
      BY PromptDispatchAssumption DEF SwitchSession, TypeInv
    <3>3. Range(<<>>) = {} /\ ClosingIsLast(<<>>)
      BY RangeOfParts, ClosingOfParts
    <3> QED
      BY <3>1, <3>2, <3>3, NoTasks, CompleteInitTasks
  <2>2. CASE Subscribers # {}
    <3> DEFINE a == Publish("session_started", None, 0, session + 1)
    <3>1. work' = <<a>> /\ a.op = "publish"
      BY <2>2 DEF SwitchSession, Publish
    <3> HIDE DEF a
    <3> QED
      BY <3>1, RangeOfLists, ClosingOfLists
  <2> QED
    BY <2>1, <2>2
<1>4. AwaitInv'
  BY <1>1, <1>2, <1>3 DEF AwaitInv
<1>5. Runnable' = {}
  <2>1. conv'[Default] = Fresh(0)
    BY <1>1 DEF Rebound, Convs
  <2> QED
    BY <1>1, <2>1 DEF Runnable, Fresh
<1> QED
  BY <1>4, <1>5 DEF LookInv

(* Who is awaited, for handle_extension_context_ready; the queue is looked at when *)
(* the session is initialised. *)
LEMMA ContextIsAwaited ==
    ASSUME TypeInv, AwaitInv, NEW v \in Providers, NEW s \in 1..MaxSessions, ContextReady(v, s)
    PROVE  AwaitInv' /\ (LookInv => LookInv')
<1>1. /\ Idle
      /\ UNCHANGED <<conversations, conv, extension, pending_intercept, deferred_publishes, tracking,
                     at_agent, running, prompts>>
      /\ \/ CompleteInit(discovered', session, <<>>)
         \/ waiting_on' # {} /\ UNCHANGED work
         \/ UNCHANGED <<waiting_on, work>>
  BY DEF ContextReady, pipe
<1>2. session \in 1..MaxSessions /\ Range(<<>>) = {} /\ ClosingIsLast(<<>>)
  BY RangeOfParts, ClosingOfParts DEF TypeInv
<1>3. CASE CompleteInit(discovered', session, <<>>)
  <2>1. /\ \A t \in Range(work') : t.op \in {"publish", "advance"}
        /\ \E t \in Range(work') : t.op = "advance"
        /\ ClosingIsLast(work')
    BY <1>2, <1>3, NoTasks, CompleteInitTasks
  <2>2. AwaitInv'
    BY <1>1, <2>1, FrameIsQuiet
  <2> QED
    BY <2>1, <2>2 DEF LookInv
<1>4. CASE UNCHANGED work /\ (waiting_on' # {} \/ UNCHANGED waiting_on)
  <2>1. Range(work') = {} /\ ClosingIsLast(work')
    BY <1>1, <1>4, IdleWork, ClosingOfParts DEF Idle
  <2>2. AwaitInv'
    BY <1>1, <2>1, FrameIsQuiet
  <2>3. (GateOpen' => GateOpen) /\ Runnable' = Runnable
    BY <1>1, <1>4 DEF GateOpen, ExtensionsReady, Runnable
  <2> QED
    BY <1>1, <2>2, <2>3, FrameLooks
<1> QED
  BY <1>1, <1>3, <1>4

(* The same, for handle_disconnect of an extension. *)
LEMMA ExtensionGoneIsAwaited ==
    ASSUME TypeInv, AwaitInv, NEW v \in Providers, ExtensionGone(v)
    PROVE  AwaitInv' /\ (LookInv => LookInv')
<1> DEFINE d == Do("respawn", v, 0)
           rest == <<d>>
<1>1. /\ Idle
      /\ UNCHANGED <<conversations, conv, extension, pending_intercept, deferred_publishes, tracking,
                     at_agent, running, prompts>>
      /\ waiting_on' = waiting_on \ {v}
      /\ \/ CompleteInit(discovered', session, rest)
         \/ ~(v \in waiting_on /\ waiting_on' = {}) /\ work' = rest
  BY DEF ExtensionGone, pipe
<1>2. session \in 1..MaxSessions
  BY DEF TypeInv
<1>3. rest \in Seq(GoodTask(Len(prompts))) /\ Range(rest) = {d} /\ ClosingIsLast(rest) /\ d.op = "respawn"
  <2>1. d \in GoodTask(Len(prompts)) /\ d.op = "respawn"
    BY LengthTypes, DoTypes DEF Do
  <2> HIDE DEF d
  <2> QED
    BY <2>1, LengthTypes, TaskLists, RangeOfLists, ClosingOfLists
<1> HIDE DEF rest, d
<1>4. CASE CompleteInit(discovered', session, rest)
  <2>1. /\ \A t \in Range(work') : t.op \in {"publish", "advance", "respawn"}
        /\ \E t \in Range(work') : t.op = "advance"
        /\ ClosingIsLast(work')
    BY <1>2, <1>3, <1>4, CompleteInitTasks
  <2>2. AwaitInv'
    BY <1>1, <2>1, FrameIsQuiet
  <2> QED
    BY <2>1, <2>2 DEF LookInv
<1>5. CASE ~(v \in waiting_on /\ waiting_on' = {}) /\ work' = rest
  <2>1. AwaitInv'
    BY <1>1, <1>3, <1>5, FrameIsQuiet
  <2>2. (GateOpen' => GateOpen) /\ Runnable' = Runnable
    BY <1>1, <1>5 DEF GateOpen, ExtensionsReady, Runnable
  <2> QED
    BY <1>1, <2>1, <2>2, FrameLooks
<1> QED
  BY <1>1, <1>4, <1>5

(* The same, for an extension that subscribes or is ready. *)
LEMMA LifecycleIsAwaited ==
    ASSUME TypeInv, AwaitInv, NEW v \in Providers, ExtensionSubscribes(v) \/ ExtensionReady(v)
    PROVE  AwaitInv' /\ (LookInv => LookInv')
<1>1. UNCHANGED <<conversations, conv, waiting_on, pending_intercept, deferred_publishes, tracking,
                  at_agent, running, prompts>>
  BY DEF ExtensionSubscribes, ExtensionReady, pipe, outside
<1>2. CASE ExtensionSubscribes(v)
  <2>1. Idle /\ work' = work /\ extension' = [extension EXCEPT ![v] = "subscribed"]
    BY <1>2 DEF ExtensionSubscribes
  <2>2. Range(work') = {} /\ ClosingIsLast(work')
    BY <2>1, IdleWork, ClosingOfParts DEF Idle
  <2>3. AwaitInv'
    BY <1>1, <2>1, <2>2, FrameIsQuiet
  <2>4. ~GateOpen'
    <3>1. extension'[v] = "subscribed"
      BY <2>1 DEF TypeInv
    <3> QED
      BY <3>1 DEF GateOpen, ExtensionsReady
  <2> QED
    BY <2>3, <2>4 DEF LookInv
<1>3. CASE ExtensionReady(v)
  <2>1. Idle /\ work' = <<Advance>>
    BY <1>3 DEF ExtensionReady
  <2>2. Range(work') = {Advance} /\ ClosingIsLast(work') /\ Advance.op = "advance"
    BY <2>1, AdvanceTask
  <2>3. AwaitInv'
    BY <1>1, <2>1, <2>2, FrameIsQuiet
  <2> QED
    BY <2>2, <2>3 DEF LookInv
<1> QED
  BY <1>2, <1>3

(* The same, for inject_user_shell_output. *)
LEMMA ShellIsAwaited ==
    ASSUME TypeInv, AwaitInv, NEW s \in 1..session, ShellFinished(s)
    PROVE  AwaitInv' /\ (LookInv => LookInv')
<1>1. /\ Idle
      /\ UNCHANGED <<conversations, conv, waiting_on, extension, pending_intercept, deferred_publishes,
                     tracking, at_agent, running, prompts>>
  BY DEF ShellFinished, pipe, gates, outside
<1>2. PICK a : work' = <<a>> /\ a.op = "publish"
  BY DEF ShellFinished, Publish
<1>3. Range(work') = {a} /\ ClosingIsLast(work')
  BY <1>2, RangeOfLists, ClosingOfLists
<1>4. AwaitInv'
  BY <1>1, <1>2, <1>3, FrameIsQuiet
<1>5. (GateOpen' => GateOpen) /\ Runnable' = Runnable
  BY <1>1 DEF GateOpen, ExtensionsReady, Runnable
<1> QED
  BY <1>1, <1>4, <1>5, FrameLooks

(* Who is awaited, for the answer of the agent: a prompt that is waited for is not *)
(* cancelled, so its answer is not thrown away. *)
LEMMA RespondsIsAwaited ==
    ASSUME TypeInv, AwaitInv, NEW p \in at_agent, NEW how \in {"answered", "called"},
           AgentResponds(p, how)
    PROVE  AwaitInv' /\ (LookInv => LookInv')
<1> DEFINE a == Publish("response_finished", prompts[p].conv, p, 0)
           b == Do(how, prompts[p].conv, p)
<1>1. /\ Idle
      /\ UNCHANGED <<conversations, conv, waiting_on, extension, pending_intercept, deferred_publishes,
                     tool_conversations, at_agent, running, prompts>>
  BY DEF AgentResponds, gates, pipe, outside
<1>2. Range(work) = {}
  BY <1>1, IdleWork
<1>3. \A q \in 1..Len(prompts) : Reaches(q) => Reaches(q)'
  <2> SUFFICES ASSUME NEW q \in 1..Len(prompts), Reaches(q) PROVE Reaches(q)'
    OBVIOUS
  <2> QED
    BY <1>1, <1>2 DEF Reaches, Holds
<1>4. \A q \in prompt_conversations \ canceled_prompts : q \in prompt_conversations' \ canceled_prompts'
  BY DEF AgentResponds
<1>5. ASSUME NEW c \in conversations' PROVE Awaited(c)'
  <2>1. c \in Convs /\ Awaited(c)
    BY <1>1, <1>5 DEF AwaitInv, TypeInv
  <2>2. \A x \in conv[c].remaining_calls : x \in tool_conversations' /\ x \in running'
    BY <1>1, <1>2, <2>1 DEF Awaited
  <2> QED
    BY <1>1, <1>3, <1>4, <2>1, <2>2, AwaitedStays
<1>6. /\ \A t \in Range(work') :
            /\ t.op \in {"answered", "called", "turn"} => prompts'[t.of].conv = t.conv
            /\ t.op # "clear"
      /\ ClosingIsLast(work')
  <2>1. CASE work' = work
    BY <1>1, <1>2, <2>1, ClosingOfParts DEF Idle
  <2>2. CASE work' = <<a, b>>
    <3>1. a.op = "publish" /\ a.op \notin Closing /\ b.op \in {"answered", "called"}
          /\ b.of = p /\ b.conv = prompts[p].conv
      BY DEF Publish, Do, Closing
    <3> HIDE DEF a, b
    <3>2. Range(work') = {a, b} /\ ClosingIsLast(work')
      BY <2>2, <3>1, RangeOfLists, ClosingOfLists
    <3> QED
      BY <1>1, <3>1, <3>2
  <2> QED
    BY <2>1, <2>2 DEF AgentResponds
<1>7. AwaitInv'
  BY <1>1, <1>5, <1>6 DEF AwaitInv
<1>8. (GateOpen' => GateOpen) /\ Runnable' = Runnable
  BY <1>1 DEF GateOpen, ExtensionsReady, Runnable
<1> QED
  BY <1>1, <1>7, <1>8, FrameLooks

(* Who is awaited, for a tool result: its turn is about to be looked at. *)
LEMMA FinishesIsAwaited ==
    ASSUME TypeInv, AwaitInv, NEW p \in running, ToolFinishes(p)
    PROVE  AwaitInv' /\ (LookInv => LookInv')
<1> DEFINE a == Publish("tool_result", prompts[p].conv, p, 0)
           b == Do("turn", prompts[p].conv, p)
           d == Do("clear", None, p)
<1>1. /\ Idle
      /\ running' = running \ {p}
      /\ UNCHANGED <<conversations, conv, waiting_on, extension, pending_intercept, deferred_publishes,
                     tracking, at_agent, prompts>>
      /\ \/ p \in tool_conversations /\ work' = <<a, b, Advance, d>>
         \/ p \notin tool_conversations /\ work' = <<>>
  BY DEF ToolFinishes, gates, pipe
<1>2. Range(work) = {}
  BY <1>1, IdleWork
<1>3. \A q \in 1..Len(prompts) : Reaches(q) => Reaches(q)'
  <2> SUFFICES ASSUME NEW q \in 1..Len(prompts), Reaches(q) PROVE Reaches(q)'
    OBVIOUS
  <2> QED
    BY <1>1, <1>2 DEF Reaches, Holds
<1>4. /\ a.op = "publish" /\ b.op = "turn" /\ b.of = p /\ b.conv = prompts[p].conv
      /\ d.op = "clear" /\ d.of = p
      /\ a.op \notin Closing /\ b.op \notin Closing /\ Advance.op \notin Closing /\ Advance.op = "advance"
  BY DEF Publish, Do, Closing, Advance
<1> HIDE DEF a, b, d
<1>5. /\ \A t \in Range(work') :
            /\ t.op \in {"answered", "called", "turn"} => prompts'[t.of].conv = t.conv
            /\ t.op = "clear" => t.of \notin running'
      /\ ClosingIsLast(work')
      /\ p \in tool_conversations => b \in Range(work')
  <2>1. CASE p \in tool_conversations /\ work' = <<a, b, Advance, d>>
    <3>1. Range(work') = {a, b, Advance, d} /\ ClosingIsLast(work')
      BY <1>4, <2>1, RangeOfLists, ClosingOfLists
    <3> QED
      BY <1>1, <1>4, <3>1
  <2>2. CASE p \notin tool_conversations /\ work' = <<>>
    <3>1. Range(work') = {} /\ ClosingIsLast(work')
      BY <2>2, RangeOfParts, ClosingOfParts
    <3> QED
      BY <2>2, <3>1
  <2> QED
    BY <1>1, <2>1, <2>2
<1>6. ASSUME NEW c \in conversations' PROVE Awaited(c)'
  <2>1. c \in Convs /\ Awaited(c)
    BY <1>1, <1>6 DEF AwaitInv, TypeInv
  <2>2. ASSUME NEW x \in conv[c].remaining_calls
        PROVE  /\ x \in tool_conversations'
               /\ x \in running' \/ \E t \in Range(work') : t.op = "turn" /\ t.of = x
    <3>1. x \in tool_conversations /\ x \in running
      BY <1>2, <2>1 DEF Awaited
    <3>2. CASE x = p
      BY <1>1, <1>4, <1>5, <3>1, <3>2 DEF tracking
    <3>3. CASE x # p
      BY <1>1, <3>1, <3>3 DEF tracking
    <3> QED
      BY <3>2, <3>3
  <2> QED
    BY <1>1, <1>3, <2>1, <2>2, AwaitedStays DEF tracking
<1>7. AwaitInv'
  BY <1>1, <1>5, <1>6 DEF AwaitInv
<1>8. (GateOpen' => GateOpen) /\ Runnable' = Runnable
  BY <1>1 DEF GateOpen, ExtensionsReady, Runnable
<1> QED
  BY <1>1, <1>7, <1>8, FrameLooks

(* Who is awaited, for handle_ext_agent_query: the new conversation waits for nobody. *)
LEMMA QueryIsAwaited ==
    ASSUME TypeInv, AwaitInv, NEW q \in Queries, AgentQuery(q)
    PROVE  AwaitInv' /\ (LookInv => LookInv')
<1> DEFINE h == InitialHead(q)
<1>1. /\ Idle
      /\ conversations' = conversations \cup {q}
      /\ conv' = [conv EXCEPT ![q] = Fresh(h)]
      /\ work' = Dispatch(q, Len(messages) + 1)
      /\ UNCHANGED <<waiting_on, extension, pending_intercept, deferred_publishes, tracking, at_agent,
                     running, prompts>>
  BY DEF AgentQuery, gates, pipe, outside
<1>2. Range(work) = {} /\ q \in Convs
  BY <1>1, IdleWork DEF Convs
<1>3. \A p \in 1..Len(prompts) : Reaches(p) => Reaches(p)'
  <2> SUFFICES ASSUME NEW p \in 1..Len(prompts), Reaches(p) PROVE Reaches(p)'
    OBVIOUS
  <2> QED
    BY <1>1, <1>2 DEF Reaches, Holds
<1>4. conv'[q] = Fresh(h)
  BY <1>1, <1>2 DEF TypeInv
<1>5. /\ conv'[q].in_flight_prompt = 0 /\ conv'[q].turn_state = "idle"
      /\ conv'[q].remaining_calls = {} /\ conv'[q].pending_prompts = <<>>
  BY <1>4 DEF Fresh
<1> HIDE DEF h
<1>6. Awaited(q)'
  BY <1>5, IdleIsAwaited
<1>7. ASSUME NEW c \in conversations', c # q PROVE Awaited(c)'
  <2>1. c \in Convs /\ Awaited(c) /\ conv'[c] = conv[c]
    BY <1>1, <1>7 DEF AwaitInv, TypeInv
  <2>2. \A x \in conv[c].remaining_calls : x \in tool_conversations' /\ x \in running'
    BY <1>1, <1>2, <2>1 DEF Awaited, tracking
  <2> QED
    BY <1>1, <1>3, <2>1, <2>2, AwaitedStays DEF tracking
<1>8. ClosingIsLast(work') /\ \A t \in Range(work') : t.op \in {"publish", "dispatch"}
  BY <1>1, TasksOfDispatch
<1>9. Default \in conversations'
  BY <1>1 DEF AwaitInv
<1>10. AwaitInv'
  BY <1>6, <1>7, <1>8, <1>9 DEF AwaitInv
<1>11. GateOpen' => GateOpen
  BY <1>1 DEF GateOpen, ExtensionsReady
<1>12. Runnable' \subseteq Runnable
  <2> SUFFICES ASSUME NEW c \in conversations', conv'[c].pending_prompts # <<>>, conv'[c].turn_state = "idle"
               PROVE  c \in conversations /\ conv[c].pending_prompts # <<>> /\ conv[c].turn_state = "idle"
    BY DEF Runnable
  <2>1. c # q /\ c \in conversations
    BY <1>1, <1>5
  <2>2. conv'[c] = conv[c]
    BY <1>1, <2>1 DEF TypeInv
  <2> QED
    BY <2>1, <2>2
<1> QED
  BY <1>1, <1>10, <1>11, <1>12, FrameLooks

(* At the start nobody is awaited and nothing waits. *)
LEMMA InitIsAwaited == Init => AwaitInv /\ LookInv
<1> SUFFICES ASSUME Init PROVE AwaitInv /\ LookInv
  OBVIOUS
<1>1. Range(work) = {} /\ ClosingIsLast(work)
  BY IdleWork, ClosingOfParts DEF Init, Idle
<1>2. conversations = {Default} /\ Default \in Convs /\ conv[Default] = Fresh(0)
  BY DEF Init, Convs
<1>3. Awaited(Default)
  BY <1>2 DEF Awaited, Fresh
<1>4. Runnable = {}
  BY <1>2 DEF Runnable, Fresh
<1> QED
  BY <1>1, <1>2, <1>3, <1>4 DEF AwaitInv, LookInv

(* Who is awaited, for a step that moves publishes on. *)
LEMMA MovesAreAwaited == ASSUME TypeInv, AwaitInv, Moves PROVE AwaitInv'
BY MovesAreQuiet, QuietStep

(* Who is awaited, step by step. *)
LEMMA NextAwaits == TypeInv /\ TypeInv' /\ AwaitInv /\ [Next]_vars => AwaitInv'
<1> SUFFICES ASSUME TypeInv, TypeInv', AwaitInv, [Next]_vars PROVE AwaitInv'
  OBVIOUS
<1>1. CASE EnqueuePublish \/ DrainDeferred \/ InterceptReply \/ InterceptorGone
  BY <1>1, PublishMoves, DrainMoves, ReplyMoves, InterceptorGoneMoves, MovesAreAwaited
<1>2. CASE TryAdvanceQueue \/ DispatchOrAwait \/ SendPrompt \/ TurnEnds \/ ToolsStart
  BY <1>2, AdvanceIsAwaited, DispatchOrAwaitIsAwaited, SendIsAwaited, TurnEndsIsAwaited,
     ToolsStartIsAwaited
<1>3. CASE MaybeCompleteTurn \/ ClearTracking \/ Respawn
  BY <1>3, TurnIsAwaited, ClearIsAwaited, RespawnIsAwaited
<1>4. CASE SubmitUserPrompt \/ CancelPrompt \/ SwitchSession
  BY <1>4, SubmitIsAwaited, CancelIsAwaited, SwitchIsAwaited
<1>5. CASE \E s \in 1..session : ShellFinished(s)
  BY <1>5, ShellIsAwaited
<1>6. CASE \E v \in Providers : \/ ExtensionGone(v) \/ ExtensionSubscribes(v) \/ ExtensionReady(v)
                               \/ \E s \in 1..MaxSessions : ContextReady(v, s)
  BY <1>6, ExtensionGoneIsAwaited, LifecycleIsAwaited, ContextIsAwaited
<1>7. CASE \E p \in at_agent : \E how \in {"answered", "called"} : AgentResponds(p, how)
  BY <1>7, RespondsIsAwaited
<1>8. CASE \E p \in running : ToolFinishes(p)
  BY <1>8, FinishesIsAwaited
<1>9. CASE \E q \in Queries : AgentQuery(q)
  BY <1>9, QueryIsAwaited
<1>10. CASE UNCHANGED vars
  <2>1. Quiet
    BY <1>10 DEF vars, Quiet, tracking, Reaches, Holds, AwaitInv
  <2> QED
    BY <2>1, QuietStep
<1> QED
  BY <1>1, <1>2, <1>3, <1>4, <1>5, <1>6, <1>7, <1>8, <1>9, <1>10 DEF Next, Handler

(* Who looks at the queue, step by step. *)
LEMMA NextLooks ==
    ASSUME ~SpawnsFail
    PROVE  TypeInv /\ AwaitInv /\ LookInv /\ [Next]_vars => LookInv'
<1> SUFFICES ASSUME TypeInv, AwaitInv, LookInv, [Next]_vars PROVE LookInv'
  OBVIOUS
<1>1. CASE EnqueuePublish \/ DrainDeferred \/ InterceptReply \/ InterceptorGone
  BY <1>1, PublishMoves, DrainMoves, ReplyMoves, InterceptorGoneMoves, MovesLook
<1>2. CASE TryAdvanceQueue \/ DispatchOrAwait \/ SendPrompt \/ TurnEnds \/ ToolsStart
  BY <1>2, AdvanceLooks, DispatchOrAwaitLooks, SendLooks, TurnEndsIsAwaited, ToolsStartLooks
<1>3. CASE MaybeCompleteTurn \/ ClearTracking \/ Respawn
  BY <1>3, TurnLooks, ClearLooks, RespawnLooks
<1>4. CASE SubmitUserPrompt \/ CancelPrompt \/ SwitchSession
  BY <1>4, SubmitLooks, CancelIsAwaited, SwitchIsAwaited
<1>5. CASE \E s \in 1..session : ShellFinished(s)
  BY <1>5, ShellIsAwaited
<1>6. CASE \E v \in Providers : \/ ExtensionGone(v) \/ ExtensionSubscribes(v) \/ ExtensionReady(v)
                               \/ \E s \in 1..MaxSessions : ContextReady(v, s)
  BY <1>6, ExtensionGoneIsAwaited, LifecycleIsAwaited, ContextIsAwaited
<1>7. CASE \E p \in at_agent : \E how \in {"answered", "called"} : AgentResponds(p, how)
  BY <1>7, RespondsIsAwaited
<1>8. CASE \E p \in running : ToolFinishes(p)
  BY <1>8, FinishesIsAwaited
<1>9. CASE \E q \in Queries : AgentQuery(q)
  BY <1>9, QueryIsAwaited
<1>10. CASE UNCHANGED vars
  BY <1>10 DEF vars, LookInv, GateOpen, ExtensionsReady, Runnable
<1> QED
  BY <1>1, <1>2, <1>3, <1>4, <1>5, <1>6, <1>7, <1>8, <1>9, <1>10 DEF Next, Handler

(* A prompt that is held or to be published is counted as being in transit. *)
LEMMA HeldIsInTransit ==
    ASSUME TypeInv, NEW p,
           Holds(pending_intercept, p) \/ Holds(deferred_publishes, p) \/ Holds(work, p)
    PROVE  InTransit({"prompt_created"}, p) > 0
<1> DEFINE P == Len(prompts)
           T == GoodTask(P)
           S == {i \in DOMAIN OnTheWay : OnTheWay[i].kind \in {"prompt_created"} /\ OnTheWay[i].of = p}
<1>1. /\ pending_intercept \in Seq(T) /\ deferred_publishes \in Seq(T) /\ work \in Seq(T)
  <2>1. GoodEvent(P) \subseteq T
    BY LengthTypes, EventIsTask
  <2>2. /\ pending_intercept \in Seq(GoodEvent(P)) /\ deferred_publishes \in Seq(GoodEvent(P))
        /\ work \in Seq(T)
    BY DEF TypeInv
  <2> HIDE DEF T
  <2> QED
    BY <2>1, <2>2, SeqGrows
<1>2. OnTheWay \in Seq(T) /\ Range(OnTheWay) = Range(pending_intercept) \cup Range(deferred_publishes) \cup Range(work)
  <2>1. \A x, y \in Seq(T) : Range(x \o y) = Range(x) \cup Range(y)
    BY RangeOfParts
  <2> DEFINE x == pending_intercept \o deferred_publishes
  <2>2. OnTheWay = x \o work
    BY DEF OnTheWay
  <2> HIDE DEF T
  <2>3. x \in Seq(T) /\ Range(x) = Range(pending_intercept) \cup Range(deferred_publishes)
    BY <1>1, <2>1
  <2> HIDE DEF x
  <2> QED
    BY <1>1, <2>1, <2>2, <2>3
<1>3. PICK t \in Range(OnTheWay) : t.kind = "prompt_created" /\ t.of = p
  BY <1>2 DEF Holds
<1>4. PICK i \in DOMAIN OnTheWay : OnTheWay[i] = t
  BY DEF Range
<1>5. i \in S
  BY <1>3, <1>4
<1>6. IsFiniteSet(S)
  <2>1. DOMAIN OnTheWay = 1..Len(OnTheWay) /\ Len(OnTheWay) \in Nat
    <3> HIDE DEF T
    <3> QED
      BY <1>2
  <2>2. IsFiniteSet(DOMAIN OnTheWay)
    BY <2>1, FS_Interval
  <2>3. S \in SUBSET DOMAIN OnTheWay
    OBVIOUS
  <2> HIDE DEF S
  <2> QED
    BY <2>2, <2>3, FS_Subset
<1>7. Cardinality(S) \in Nat /\ Cardinality(S) # 0
  <2> HIDE DEF S
  <2> QED
    BY <1>5, <1>6, FS_EmptySet, FS_CardinalityType
<1>8. InTransit({"prompt_created"}, p) = Cardinality(S)
  BY DEF InTransit
<1> HIDE DEF S
<1> QED
  BY <1>7, <1>8

(* The invariant says who is awaited. *)
LEMMA AwaitSuffices == TypeInv /\ AwaitInv => BusyConversationsAreAwaited
<1> SUFFICES ASSUME TypeInv, AwaitInv PROVE BusyConversationsAreAwaited
  OBVIOUS
<1> SUFFICES ASSUME NEW c \in conversations
             PROVE  LET p == conv[c].in_flight_prompt IN
                    /\ conv[c].turn_state = "thinking" <=> p # 0
                    /\ p # 0 => /\ p \in prompt_conversations /\ prompts[p].conv = c
                                /\ p \in at_agent \/ InTransit({"prompt_created"}, p) > 0
                    /\ conv[c].turn_state = "tools" <=> conv[c].remaining_calls # {}
                    /\ \A d \in conv[c].remaining_calls :
                            /\ d \in tool_conversations /\ prompts[d].conv = c
                            /\ d \in running \/ \E i \in DOMAIN work : work[i].op = "turn" /\ work[i].of = d
  BY DEF BusyConversationsAreAwaited
<1>1. Awaited(c)
  BY DEF AwaitInv
<1>2. ASSUME NEW p, Reaches(p) PROVE p \in at_agent \/ InTransit({"prompt_created"}, p) > 0
  BY <1>2, HeldIsInTransit DEF Reaches
<1>3. \A d : (\E t \in Range(work) : t.op = "turn" /\ t.of = d)
                => \E i \in DOMAIN work : work[i].op = "turn" /\ work[i].of = d
  BY DEF Range
<1> QED
  BY <1>1, <1>2, <1>3 DEF Awaited

(* The invariant says that nothing that could go waits. *)
LEMMA LookSuffices == LookInv => NothingRunnableIsLeft
BY IdleWork DEF LookInv, NothingRunnableIsLeft

(* Who a conversation waits for owes it something, whatever the interceptor    *)
(* holds and whatever the user cancels (ConversationTurnState).                *)
THEOREM WhoIsWaitedForOwes == Spec => []BusyConversationsAreAwaited
<1> DEFINE Inv == TypeInv /\ AwaitInv
<1>1. Init => Inv
  BY InitTypes, InitIsAwaited
<1>2. Inv /\ [Next]_vars => Inv'
  BY NextTypes, NextAwaits
<1>3. Inv => BusyConversationsAreAwaited
  BY AwaitSuffices
<1> QED
  BY <1>1, <1>2, <1>3, PTL DEF Spec

(* The queue moves on, if an extension that dies can be started again: one     *)
(* that cannot leaves the queue to the next frame that looks at it             *)
(* (try_advance_queue, try_respawn_supervised_extension).                      *)
THEOREM NothingThatCanGoWaits == ASSUME ~SpawnsFail PROVE Spec => []QueueMovesOn
<1> DEFINE Inv == TypeInv /\ AwaitInv /\ LookInv
<1>1. Init => Inv
  BY InitTypes, InitIsAwaited
<1>2. Inv /\ [Next]_vars => Inv'
  BY NextTypes, NextAwaits, NextLooks
<1>3. Inv => QueueMovesOn
  BY AwaitSuffices, LookSuffices DEF QueueMovesOn
<1> QED
  BY <1>1, <1>2, <1>3, PTL DEF Spec

-----------------------------------------------------------------------------
(* Prompts take turns. *)

Asks == {"dispatch", "send"}

(* A prompt that is asked for comes behind nothing but publishes, and alone. *)
Orderly(s) ==
    \A i \in DOMAIN s : s[i].op \in Asks =>
        \A j \in DOMAIN s : /\ j < i => s[j].op = "publish"
                            /\ j > i => s[j].op \notin Asks

(* A prompt may be asked for. *)
MayAsk(t) ==
    /\ t.conv \in conversations
    /\ conv[t.conv].turn_state = "idle"
    /\ t.conv = Default => waiting_on = {}

(* Nobody stands between a publish and its commit. *)
DirectInv ==
    pending_intercept = <<>> /\ deferred_publishes = <<>> /\ pending_user_prompt_dispatches = <<>>

(* A query's conversation was asked for in a message. *)
Known(c) == \E m \in DOMAIN messages : messages[m].conv = c

AskedInv == \A c \in conversations \ {Default} : Known(c)

(* A prompt that is tracked is the one its conversation waits for. *)
TrackInv ==
    \A p \in prompt_conversations :
        prompts[p].conv \in conversations /\ conv[prompts[p].conv].in_flight_prompt = p

TurnInv ==
    /\ Orderly(work)
    /\ \A t \in Range(work) :
            /\ t.op \in Asks => MayAsk(t)
            /\ t.op \in {"answered", "called"} => t.of \in prompt_conversations
    /\ waiting_on # {} => conv[Default].turn_state = "idle"

-----------------------------------------------------------------------------
(* Tasks that ask for nothing are orderly. *)
LEMMA NoAsks ==
    ASSUME NEW s, \A t \in Range(s) : t.op \notin Asks
    PROVE  Orderly(s)
BY DEF Orderly, Range

(* Orderly tasks that are put together, or taken apart. *)
LEMMA OrderlyParts ==
    ASSUME NEW S
    PROVE  /\ \A s, t \in Seq(S) :
                Orderly(s) /\ (\A x \in Range(t) : x.op \notin Asks) => Orderly(s \o t)
           /\ \A s \in Seq(S), x \in S :
                (\A y \in Range(s) : y.op = "publish") => Orderly(Append(s, x))
           /\ \A s \in Seq(S) : s # <<>> /\ Orderly(s) =>
                /\ Orderly(Tail(s))
                /\ Head(s).op # "publish" => \A x \in Range(Tail(s)) : x.op \notin Asks
<1>1. ASSUME NEW s \in Seq(S), NEW t \in Seq(S), Orderly(s), \A x \in Range(t) : x.op \notin Asks
      PROVE  Orderly(s \o t)
  <2> DEFINE u == s \o t
  <2>1. /\ DOMAIN s = 1..Len(s) /\ DOMAIN t = 1..Len(t) /\ Len(s) \in Nat /\ Len(t) \in Nat
        /\ DOMAIN u = 1..(Len(s) + Len(t))
        /\ \A i \in 1..(Len(s) + Len(t)) : u[i] = IF i <= Len(s) THEN s[i] ELSE t[i - Len(s)]
    OBVIOUS
  <2> HIDE DEF u
  <2>2. \A i \in DOMAIN u : u[i].op \in Asks => i \in DOMAIN s /\ u[i] = s[i]
    <3> SUFFICES ASSUME NEW i \in DOMAIN u, u[i].op \in Asks PROVE i \in DOMAIN s /\ u[i] = s[i]
      OBVIOUS
    <3>1. CASE i <= Len(s)
      BY <2>1, <3>1
    <3>2. CASE ~(i <= Len(s))
      <4>1. i - Len(s) \in DOMAIN t /\ u[i] = t[i - Len(s)]
        BY <2>1, <3>2
      <4> QED
        BY <1>1, <4>1 DEF Range
    <3> QED
      BY <3>1, <3>2
  <2>3. ASSUME NEW i \in DOMAIN u, u[i].op \in Asks, NEW j \in DOMAIN u
        PROVE  (j < i => u[j].op = "publish") /\ (j > i => u[j].op \notin Asks)
    <3>1. i \in DOMAIN s /\ u[i] = s[i]
      BY <2>2, <2>3
    <3>2. ASSUME j < i PROVE u[j].op = "publish"
      <4>1. j \in DOMAIN s /\ u[j] = s[j]
        BY <2>1, <3>1, <3>2
      <4> QED
        BY <1>1, <2>3, <3>1, <3>2, <4>1 DEF Orderly
    <3>3. ASSUME j > i, u[j].op \in Asks PROVE FALSE
      <4>1. j \in DOMAIN s /\ u[j] = s[j]
        BY <2>2, <3>3
      <4> QED
        BY <1>1, <2>3, <3>1, <3>3, <4>1 DEF Orderly
    <3> QED
      BY <3>2, <3>3
  <2>4. Orderly(u)
    BY <2>3 DEF Orderly
  <2> QED
    BY <2>4 DEF u
<1>2. ASSUME NEW s \in Seq(S), NEW x \in S, \A y \in Range(s) : y.op = "publish"
      PROVE  Orderly(Append(s, x))
  <2> DEFINE u == Append(s, x)
  <2>1. /\ DOMAIN s = 1..Len(s) /\ Len(s) \in Nat
        /\ DOMAIN u = 1..(Len(s) + 1)
        /\ \A i \in 1..Len(s) : u[i] = s[i]
    OBVIOUS
  <2> HIDE DEF u
  <2>2. \A i \in DOMAIN u : i # Len(s) + 1 => u[i].op = "publish"
    <3> SUFFICES ASSUME NEW i \in DOMAIN u, i # Len(s) + 1 PROVE u[i].op = "publish"
      OBVIOUS
    <3>1. i \in DOMAIN s
      BY <2>1
    <3> QED
      BY <1>2, <2>1, <3>1 DEF Range
  <2>3. "publish" \notin Asks
    BY DEF Asks
  <2>4. \A i \in DOMAIN u : u[i].op \in Asks => i = Len(s) + 1
    BY <2>2, <2>3
  <2>5. \A j \in DOMAIN u : ~(j > Len(s) + 1) /\ (j < Len(s) + 1 => j # Len(s) + 1)
    BY <2>1
  <2>6. Orderly(u)
    BY <2>2, <2>4, <2>5 DEF Orderly
  <2> QED
    BY <2>6 DEF u
<1>3. ASSUME NEW s \in Seq(S), s # <<>>, Orderly(s)
      PROVE  /\ Orderly(Tail(s))
             /\ Head(s).op # "publish" => \A x \in Range(Tail(s)) : x.op \notin Asks
  <2> DEFINE u == Tail(s)
  <2>1. /\ Len(s) \in Nat \ {0} /\ DOMAIN s = 1..Len(s) /\ Head(s) = s[1]
        /\ DOMAIN u = 1..(Len(s) - 1)
        /\ \A i \in 1..(Len(s) - 1) : u[i] = s[i + 1]
    BY <1>3
  <2> HIDE DEF u
  <2>2. \A i \in DOMAIN u : i + 1 \in DOMAIN s /\ u[i] = s[i + 1] /\ i + 1 > 1 /\ i \in Nat
    BY <2>1
  <2>3. Orderly(u)
    <3> SUFFICES ASSUME NEW i \in DOMAIN u, u[i].op \in Asks, NEW j \in DOMAIN u
                 PROVE  (j < i => u[j].op = "publish") /\ (j > i => u[j].op \notin Asks)
      BY DEF Orderly
    <3>1. /\ i + 1 \in DOMAIN s /\ j + 1 \in DOMAIN s /\ u[i] = s[i + 1] /\ u[j] = s[j + 1]
          /\ j < i => j + 1 < i + 1
          /\ j > i => j + 1 > i + 1
      BY <2>2
    <3> QED
      BY <1>3, <3>1 DEF Orderly
  <2>4. ASSUME Head(s).op # "publish", NEW i \in DOMAIN u PROVE u[i].op \notin Asks
    <3>1. i + 1 \in DOMAIN s /\ u[i] = s[i + 1] /\ 1 < i + 1 /\ 1 \in DOMAIN s
      BY <2>1, <2>2
    <3> QED
      BY <1>3, <2>1, <2>4, <3>1 DEF Orderly
  <2> QED
    BY <2>3, <2>4 DEF u, Range
<1> QED
  BY <1>1, <1>2, <1>3

(* What Then makes of the tasks there are, when the head is no publish. *)
LEMMA ThenIsOrderly ==
    ASSUME TypeInv, work # <<>>, Head(work).op # "publish", Orderly(work),
           NEW tasks \in Seq(GoodTask(Len(prompts))), Orderly(tasks), Then(tasks)
    PROVE  /\ Orderly(work')
           /\ \A t \in Range(work') : t.op \in Asks => t \in Range(tasks)
           /\ \A t \in Range(work') : t \in Range(tasks) \/ t \in Range(work)
<1> DEFINE T == GoodTask(Len(prompts))
<1>1. work \in Seq(T) /\ Tail(work) \in Seq(T) /\ tasks \in Seq(T) /\ work' = tasks \o Tail(work)
  BY HeadTypes DEF Then, TypeInv
<1>2. \A x \in Range(Tail(work)) : x.op \notin Asks
  <2>1. \A s \in Seq(T) : s # <<>> /\ Orderly(s) =>
                (Head(s).op # "publish" => \A x \in Range(Tail(s)) : x.op \notin Asks)
    BY OrderlyParts
  <2> HIDE DEF T
  <2> QED
    BY <1>1, <2>1
<1>3. \A s, t \in Seq(T) : Orderly(s) /\ (\A x \in Range(t) : x.op \notin Asks) => Orderly(s \o t)
  BY OrderlyParts
<1>4. Range(work') = Range(tasks) \cup Range(Tail(work)) /\ Range(work) = {Head(work)} \cup Range(Tail(work))
  BY ThenRange
<1> HIDE DEF T
<1>5. Orderly(work')
  BY <1>1, <1>2, <1>3
<1> QED
  BY <1>2, <1>4, <1>5

-----------------------------------------------------------------------------
(* Nothing is held without an interceptor. *)
LEMMA DirectStays ==
    ASSUME Intercepted = {}, TypeInv, DirectInv, [Next]_vars
    PROVE  DirectInv'
<1>1. \A e : ~Intercepts(e)
  BY DEF Intercepts
<1>2. ASSUME NEW e, NEW rest, DispatchStep(e, rest)
      PROVE  pending_intercept' = <<>> /\ pending_user_prompt_dispatches' = <<>> /\ work' = rest
  BY <1>1, <1>2 DEF DispatchStep, Commit, DirectInv
<1>3. CASE EnqueuePublish
  BY <1>2, <1>3 DEF EnqueuePublish, DirectInv
<1>4. CASE DrainDeferred
  BY <1>4 DEF DrainDeferred, DirectInv
<1>5. CASE InterceptReply \/ InterceptorGone
  BY <1>5 DEF InterceptReply, InterceptorGone, DirectInv
<1>6. CASE DispatchOrAwait
  BY <1>6 DEF DispatchOrAwait, DirectInv, pipe
<1>7. CASE TryAdvanceQueue \/ SendPrompt \/ TurnEnds \/ ToolsStart \/ MaybeCompleteTurn
  BY <1>7 DEF TryAdvanceQueue, SendPrompt, TurnEnds, ToolsStart, MaybeCompleteTurn, DirectInv, pipe
<1>8. CASE ClearTracking \/ Respawn \/ SubmitUserPrompt \/ CancelPrompt \/ SwitchSession
  BY <1>8 DEF ClearTracking, Respawn, SubmitUserPrompt, CancelPrompt, SwitchSession, DirectInv, pipe
<1>9. CASE \E s \in 1..session : ShellFinished(s)
  BY <1>9 DEF ShellFinished, DirectInv, pipe
<1>10. CASE \E v \in Providers : \/ ExtensionGone(v) \/ ExtensionSubscribes(v) \/ ExtensionReady(v)
                                \/ \E s \in 1..MaxSessions : ContextReady(v, s)
  BY <1>10 DEF ExtensionGone, ExtensionSubscribes, ExtensionReady, ContextReady, DirectInv, pipe
<1>11. CASE \E p \in at_agent : \E how \in {"answered", "called"} : AgentResponds(p, how)
  BY <1>11 DEF AgentResponds, DirectInv, pipe
<1>12. CASE \E p \in running : ToolFinishes(p)
  BY <1>12 DEF ToolFinishes, DirectInv, pipe
<1>13. CASE \E q \in Queries : AgentQuery(q)
  BY <1>13 DEF AgentQuery, DirectInv, pipe
<1>14. CASE UNCHANGED vars
  BY <1>14 DEF vars, DirectInv
<1> QED
  BY <1>3, <1>4, <1>5, <1>6, <1>7, <1>8, <1>9, <1>10, <1>11, <1>12, <1>13, <1>14 DEF Next, Handler

(* A new message belongs to its conversation. *)
LEMMA MessagesGrow ==
    ASSUME TypeInv, NEW c, NEW kind, NewMessage(c, kind)
    PROVE  Known(c)' /\ \A d : Known(d) => Known(d)'
<1> DEFINE M == Len(messages)
           x == [conv |-> c, kind |-> kind]
<1>1. M \in Nat /\ DOMAIN messages = 1..M /\ messages' = Append(messages, x) /\ x.conv = c
  BY DEF TypeInv, NewMessage
<1> HIDE DEF x
<1>2. /\ DOMAIN messages' = 1..(M + 1)
      /\ messages'[M + 1] = x
      /\ \A m \in 1..M : messages'[m] = messages[m]
  <2>1. messages \in Seq(Message)
    BY DEF TypeInv
  <2> HIDE DEF Message
  <2> QED
    BY <1>1, <2>1
<1>3. Known(c)'
  BY <1>1, <1>2 DEF Known
<1>4. ASSUME NEW d, Known(d) PROVE Known(d)'
  <2>1. PICK m \in 1..M : messages[m].conv = d
    BY <1>1, <1>4 DEF Known
  <2>2. m \in 1..(M + 1)
    BY <1>1
  <2> QED
    BY <1>2, <2>1, <2>2 DEF Known
<1> QED
  BY <1>3, <1>4

(* What is known stays so. *)
LEMMA KnownStays == ASSUME TypeInv, [Next]_vars PROVE \A d : Known(d) => Known(d)'
<1>1. ASSUME UNCHANGED messages PROVE \A d : Known(d) => Known(d)'
  BY <1>1 DEF Known
<1>2. ASSUME NEW found, NEW s, NEW rest, CompleteInit(found, s, rest)
      PROVE  \A d : Known(d) => Known(d)'
  BY <1>1, <1>2, MessagesGrow DEF CompleteInit
<1>3. CASE Handler
  BY <1>1, <1>3 DEF Handler, EnqueuePublish, DrainDeferred, TryAdvanceQueue, DispatchOrAwait, SendPrompt,
     TurnEnds, ToolsStart, MaybeCompleteTurn, ClearTracking, Respawn
<1>4. CASE InterceptReply \/ InterceptorGone
  BY <1>1, <1>4 DEF InterceptReply, InterceptorGone
<1>5. CASE SubmitUserPrompt
  <2>1. NewMessage(Default, "prompt")
    BY <1>5 DEF SubmitUserPrompt
  <2> QED
    BY <2>1, MessagesGrow
<1>6. CASE CancelPrompt
  BY <1>1, <1>6 DEF CancelPrompt
<1>7. CASE SwitchSession
  BY <1>1, <1>2, <1>7 DEF SwitchSession
<1>8. CASE \E s \in 1..session : ShellFinished(s)
  <2>1. NewMessage(Default, "shell")
    BY <1>8 DEF ShellFinished
  <2> QED
    BY <2>1, MessagesGrow
<1>9. ASSUME NEW v \in Providers, \/ ExtensionGone(v) \/ ExtensionSubscribes(v) \/ ExtensionReady(v)
                                 \/ \E s \in 1..MaxSessions : ContextReady(v, s)
      PROVE  \A d : Known(d) => Known(d)'
  <2>1. CASE ExtensionGone(v)
    BY <1>1, <1>2, <2>1 DEF ExtensionGone
  <2>2. CASE ExtensionSubscribes(v) \/ ExtensionReady(v)
    BY <1>1, <2>2 DEF ExtensionSubscribes, ExtensionReady
  <2>3. CASE \E s \in 1..MaxSessions : ContextReady(v, s)
    BY <1>1, <1>2, <2>3 DEF ContextReady
  <2> QED
    BY <1>9, <2>1, <2>2, <2>3
<1>10. CASE \E p \in at_agent : \E how \in {"answered", "called"} : AgentResponds(p, how)
  BY <1>1, <1>10 DEF AgentResponds
<1>11. CASE \E p \in running : ToolFinishes(p)
  BY <1>1, <1>11 DEF ToolFinishes
<1>12. ASSUME NEW q \in Queries, AgentQuery(q) PROVE \A d : Known(d) => Known(d)'
  <2>1. NewMessage(q, "query")
    BY <1>12 DEF AgentQuery
  <2> QED
    BY <2>1, MessagesGrow
<1>13. CASE UNCHANGED vars
  BY <1>1, <1>13 DEF vars
<1> QED
  BY <1>3, <1>4, <1>5, <1>6, <1>7, <1>8, <1>9, <1>10, <1>11, <1>12, <1>13 DEF Next

(* A conversation begins with a message of its own. *)
LEMMA AskedStays == ASSUME TypeInv, AskedInv, [Next]_vars PROVE AskedInv'
<1>1. \A d : Known(d) => Known(d)'
  BY KnownStays
<1>2. ASSUME conversations' \subseteq conversations \cup {Default} PROVE AskedInv'
  BY <1>1, <1>2 DEF AskedInv
<1>3. CASE Handler
  <2>1. CASE TurnEnds
    BY <1>2, <2>1 DEF TurnEnds
  <2>2. CASE Handler /\ ~TurnEnds
    BY <1>2, <2>2 DEF Handler, EnqueuePublish, DrainDeferred, TryAdvanceQueue, DispatchOrAwait, SendPrompt,
       ToolsStart, MaybeCompleteTurn, ClearTracking, Respawn
  <2> QED
    BY <1>3, <2>1, <2>2
<1>4. CASE InterceptReply \/ InterceptorGone
  BY <1>2, <1>4 DEF InterceptReply, InterceptorGone
<1>5. CASE SubmitUserPrompt \/ CancelPrompt \/ SwitchSession
  BY <1>2, <1>5 DEF SubmitUserPrompt, CancelPrompt, SwitchSession
<1>6. CASE \E s \in 1..session : ShellFinished(s)
  BY <1>2, <1>6 DEF ShellFinished
<1>7. CASE \E v \in Providers : \/ ExtensionGone(v) \/ ExtensionSubscribes(v) \/ ExtensionReady(v)
                               \/ \E s \in 1..MaxSessions : ContextReady(v, s)
  BY <1>2, <1>7 DEF ExtensionGone, ExtensionSubscribes, ExtensionReady, ContextReady
<1>8. CASE \E p \in at_agent : \E how \in {"answered", "called"} : AgentResponds(p, how)
  BY <1>2, <1>8 DEF AgentResponds
<1>9. CASE \E p \in running : ToolFinishes(p)
  BY <1>2, <1>9 DEF ToolFinishes
<1>10. ASSUME NEW q \in Queries, AgentQuery(q) PROVE AskedInv'
  <2>1. NewMessage(q, "query") /\ conversations' = conversations \cup {q}
    BY <1>10 DEF AgentQuery
  <2>2. Known(q)'
    BY <2>1, MessagesGrow
  <2> QED
    BY <1>1, <2>1, <2>2 DEF AskedInv
<1>11. CASE UNCHANGED vars
  BY <1>2, <1>11 DEF vars
<1> QED
  BY <1>3, <1>4, <1>5, <1>6, <1>7, <1>8, <1>9, <1>10, <1>11 DEF Next

-----------------------------------------------------------------------------
(* A step that moves publishes on takes tasks off, if nobody holds any. *)
LEMMA MovesTakeTurns ==
    ASSUME TypeInv, TrackInv, TurnInv, Moves,
           \/ work # <<>> /\ work' = Tail(work)
           \/ work' = work
    PROVE  TrackInv' /\ TurnInv'
<1>1. /\ conversations' = conversations /\ waiting_on' = waiting_on /\ prompts' = prompts
      /\ prompt_conversations' = prompt_conversations
      /\ \A c \in Convs : /\ conv'[c].in_flight_prompt = conv[c].in_flight_prompt
                          /\ conv'[c].turn_state = conv[c].turn_state
  BY DEF Moves, SameTurns, gates, tracking
<1>2. Default \in Convs /\ conversations \subseteq Convs
  BY DEF Convs, TypeInv
<1>3. TrackInv'
  BY <1>1, <1>2 DEF TrackInv
<1>4. Orderly(work') /\ Range(work') \subseteq Range(work)
  <2>1. CASE work' = work
    BY <2>1 DEF TurnInv
  <2>2. CASE work # <<>> /\ work' = Tail(work)
    <3> DEFINE T == GoodTask(Len(prompts))
    <3>1. work \in Seq(T)
      BY DEF TypeInv
    <3>2. \A s \in Seq(T) : s # <<>> /\ Orderly(s) => Orderly(Tail(s))
      BY OrderlyParts
    <3>3. Range(work) = {Head(work)} \cup Range(Tail(work))
      BY <2>2, RangeOfWork
    <3> HIDE DEF T
    <3> QED
      BY <2>2, <3>1, <3>2, <3>3 DEF TurnInv
  <2> QED
    BY <2>1, <2>2
<1>5. TurnInv'
  BY <1>1, <1>2, <1>4 DEF TurnInv, MayAsk
<1> QED
  BY <1>3, <1>5

(* Turns, for publishes that nobody holds. *)
LEMMA DirectMoves ==
    ASSUME Intercepted = {}, TypeInv, DirectInv, TrackInv, TurnInv,
           EnqueuePublish \/ DrainDeferred \/ InterceptReply \/ InterceptorGone
    PROVE  TrackInv' /\ TurnInv'
<1>1. \A e : ~Intercepts(e)
  BY DEF Intercepts
<1>2. CASE EnqueuePublish
  <2>1. PICK e : DispatchStep(e, Tail(work))
    BY <1>2 DEF EnqueuePublish, DirectInv
  <2>2. work # <<>> /\ work' = Tail(work)
    BY <1>1, <1>2, <2>1 DEF EnqueuePublish, Doing, DispatchStep, Commit, DirectInv
  <2> QED
    BY <1>2, <2>2, PublishMoves, MovesTakeTurns
<1>3. CASE DrainDeferred
  <2>1. work # <<>> /\ work' = <<>> \o Tail(work)
    BY <1>3 DEF DrainDeferred, Doing, DirectInv, Then
  <2>2. Tail(work) \in Seq(GoodTask(Len(prompts)))
    BY <2>1, HeadTypes
  <2>3. work' = Tail(work)
    BY <2>1, <2>2
  <2> QED
    BY <1>3, <2>1, <2>3, DrainMoves, MovesTakeTurns
<1>4. CASE InterceptReply \/ InterceptorGone
  <2>1. work' = work
    BY <1>4 DEF InterceptReply, InterceptorGone, DirectInv
  <2> QED
    BY <1>4, <2>1, ReplyMoves, InterceptorGoneMoves, MovesTakeTurns
<1> QED
  BY <1>2, <1>3, <1>4

(* A handler that goes on with tasks that may be asked for. *)
LEMMA ThenTakesTurns ==
    ASSUME TypeInv, TurnInv, work # <<>>, Head(work).op # "publish",
           NEW tasks \in Seq(GoodTask(Len(prompts))), Orderly(tasks), Then(tasks),
           \A t \in Range(tasks) : /\ t.op \in Asks => MayAsk(t)'
                                   /\ t.op \notin {"answered", "called"},
           prompt_conversations \subseteq prompt_conversations',
           waiting_on' # {} => conv'[Default].turn_state = "idle"
    PROVE  TurnInv'
<1>1. /\ Orderly(work')
      /\ \A t \in Range(work') : t.op \in Asks => t \in Range(tasks)
      /\ \A t \in Range(work') : t \in Range(tasks) \/ t \in Range(work)
  BY ThenIsOrderly DEF TurnInv
<1> QED
  BY <1>1 DEF TurnInv

(* A step after which no prompt is asked for. *)
LEMMA QuietTakesTurns ==
    ASSUME \A t \in Range(work') : t.op \notin Asks \cup {"answered", "called"},
           waiting_on' # {} => conv'[Default].turn_state = "idle"
    PROVE  TurnInv'
<1>1. Orderly(work')
  BY NoAsks
<1> QED
  BY <1>1 DEF TurnInv

(* A step that starts no prompt and ends no turn. *)
LEMMA TracksStay ==
    ASSUME TypeInv, TrackInv, prompt_conversations' \subseteq prompt_conversations,
           conversations' = conversations, prompts' = prompts,
           \A c \in Convs : conv'[c].in_flight_prompt = conv[c].in_flight_prompt
    PROVE  TrackInv'
BY DEF TrackInv, TypeInv

(* The tasks of dispatch_prompt_for_conversation are orderly. *)
LEMMA DispatchIsOrderly ==
    ASSUME NEW c, NEW m
    PROVE  Orderly(Dispatch(c, m))
<1> DEFINE a == Publish("prompt_submitted", c, m, session)
           b == Do("dispatch", c, 0)
           s == <<a, b>>
<1>1. a.op = "publish" /\ b.op = "dispatch"
  BY DEF Publish, Do
<1> HIDE DEF a, b
<1>2. DOMAIN s = {1, 2} /\ s[1] = a /\ s[2] = b
  OBVIOUS
<1> HIDE DEF s
<1>3. Orderly(s)
  BY <1>1, <1>2 DEF Orderly, Asks
<1> QED
  BY <1>3 DEF s, a, b, Dispatch

(* Turns, for try_advance_queue: it asks where nothing is asked for. *)
LEMMA AdvanceTakesTurns ==
    ASSUME TypeInv, TrackInv, TurnInv, TryAdvanceQueue PROVE TrackInv' /\ TurnInv'
<1>1. work # <<>> /\ Head(work).op = "advance"
  BY DEF TryAdvanceQueue, Doing
<1>2. UNCHANGED <<conversations, waiting_on, prompt_conversations, prompts>>
  BY DEF TryAdvanceQueue, gates, tracking
<1>3. Default \in Convs
  BY DEF Convs
<1>4. ASSUME NEW c \in Runnable, GateOpen,
             conv' = [conv EXCEPT ![c].pending_prompts = Tail(@)],
             work' = Dispatch(c, Head(conv[c].pending_prompts)) \o work
      PROVE  TrackInv' /\ TurnInv'
  <2> DEFINE T == GoodTask(Len(prompts))
             m == Head(conv[c].pending_prompts)
             d == Dispatch(c, m)
  <2>1. c \in Convs /\ c \in conversations /\ conv[c].turn_state = "idle" /\ m \in Nat
    <3>1. conv[c].pending_prompts \in Seq(1..Len(messages)) /\ conv[c].pending_prompts # <<>> /\ c \in Convs
      BY DEF TypeInv, Runnable, GoodConversation
    <3> QED
      BY <3>1, LengthTypes DEF Runnable
  <2>2. d \in Seq(T) /\ work \in Seq(T) /\ work' = d \o work
    BY <1>4, <2>1, DispatchTypes DEF TypeInv
  <2>3. \A x \in Convs : /\ conv'[x].in_flight_prompt = conv[x].in_flight_prompt
                         /\ conv'[x].turn_state = conv[x].turn_state
    BY <1>4, <2>1 DEF TypeInv, GoodConversation
  <2>4. \A x \in Range(work) : x.op \notin Asks
    <3>1. \A s \in Seq(T) : s # <<>> /\ Orderly(s) =>
                (Head(s).op # "publish" => \A x \in Range(Tail(s)) : x.op \notin Asks)
      BY OrderlyParts
    <3>2. Range(work) = {Head(work)} \cup Range(Tail(work))
      BY <1>1, RangeOfWork
    <3>3. "advance" \notin Asks /\ "advance" # "publish"
      BY DEF Asks
    <3> HIDE DEF T
    <3> QED
      BY <1>1, <2>2, <3>1, <3>2, <3>3 DEF TurnInv
  <2>5. Orderly(work') /\ Range(work') = Range(d) \cup Range(work)
    <3>1. Orderly(d)
      BY DispatchIsOrderly
    <3>2. /\ \A s, t \in Seq(T) : Orderly(s) /\ (\A x \in Range(t) : x.op \notin Asks) => Orderly(s \o t)
          /\ \A s, t \in Seq(T) : Range(s \o t) = Range(s) \cup Range(t)
      BY OrderlyParts, RangeOfParts
    <3> HIDE DEF T, d
    <3> QED
      BY <2>2, <2>4, <3>1, <3>2
  <2>6. \A t \in Range(d) : t.op \in {"publish", "dispatch"} /\ (t.op = "dispatch" => t.conv = c)
    <3>1. Range(d) = {Publish("prompt_submitted", c, m, session), Do("dispatch", c, 0)}
      BY TasksOfDispatch
    <3> HIDE DEF m
    <3> QED
      BY <3>1 DEF Publish, Do
  <2>7. waiting_on = {}
    BY <1>4 DEF GateOpen
  <2> HIDE DEF d
  <2>8. \A t \in Range(d) : t.op \in Asks => MayAsk(t)'
    BY <1>2, <2>1, <2>3, <2>6, <2>7 DEF MayAsk, Asks
  <2>9. \A t \in Range(work') : /\ t.op \in Asks => MayAsk(t)'
                                /\ t.op \in {"answered", "called"} => t.of \in prompt_conversations'
    BY <1>2, <2>4, <2>5, <2>6, <2>8 DEF TurnInv
  <2>10. TurnInv'
    BY <1>2, <2>5, <2>7, <2>9 DEF TurnInv
  <2> QED
    BY <1>2, <2>3, <2>10, TracksStay
<1>5. ASSUME Then(<<>>), UNCHANGED conv PROVE TrackInv' /\ TurnInv'
  <2>1. Range(<<>>) = {}
    BY RangeOfParts
  <2>2. Orderly(<<>>)
    BY <2>1, NoAsks
  <2>3. TurnInv'
    BY <1>1, <1>2, <1>5, <2>1, <2>2, NoTasks, ThenTakesTurns DEF TurnInv
  <2> QED
    BY <1>2, <1>5, <2>3, TracksStay
<1> QED
  BY <1>4, <1>5 DEF TryAdvanceQueue

(* Turns, for the end of dispatch_prompt_for_conversation. *)
LEMMA DispatchTakesTurns ==
    ASSUME TypeInv, DirectInv, TrackInv, TurnInv, DispatchOrAwait PROVE TrackInv' /\ TurnInv'
<1>0. PICK c \in Convs : c = Head(work).conv
  BY HeadTypes DEF DispatchOrAwait, Doing
<1> DEFINE a == Do("send", c, 0)
           T == GoodTask(Len(prompts))
<1>1. work # <<>> /\ Head(work).op = "dispatch" /\ Head(work) \in Range(work)
  BY RangeOfWork DEF DispatchOrAwait, Doing
<1>2. UNCHANGED <<conversations, conv, waiting_on, prompt_conversations, prompts>>
  BY DEF DispatchOrAwait, gates, tracking
<1>3. Then(<<a>>)
  BY <1>0 DEF DispatchOrAwait, DirectInv
<1>4. MayAsk(Head(work))
  BY <1>1 DEF TurnInv, Asks
<1>5. a \in T /\ a.op = "send" /\ a.conv = c
  BY LengthTypes, DoTypes DEF Do
<1> HIDE DEF a
<1>6. <<a>> \in Seq(T) /\ Range(<<a>>) = {a}
  BY <1>5, LengthTypes, TaskLists, RangeOfLists
<1>7. Orderly(<<a>>)
  BY DEF Orderly
<1>8. MayAsk(a)'
  BY <1>0, <1>2, <1>4, <1>5 DEF MayAsk
<1>9. waiting_on' # {} => conv'[Default].turn_state = "idle"
  BY <1>2 DEF TurnInv
<1>10. TurnInv'
  BY <1>1, <1>2, <1>3, <1>5, <1>6, <1>7, <1>8, <1>9, ThenTakesTurns
<1> QED
  BY <1>2, <1>10, TracksStay

(* The new prompt is the only one of its conversation. *)
LEMMA SendTakesTurns ==
    ASSUME TypeInv, AwaitInv, TrackInv, TurnInv, SendPrompt
    PROVE  /\ TrackInv' /\ TurnInv'
           /\ \A p \in DOMAIN prompts' \ DOMAIN prompts : prompts'[p].conv = Default => waiting_on = {}
<1> DEFINE P == Len(prompts)
           a == Publish("prompt_created", None, P + 1, 0)
           T == GoodTask(P)
<1>0. PICK c \in Convs : c = Head(work).conv
  BY HeadTypes DEF SendPrompt, Doing
<1>1. work # <<>> /\ Head(work).op = "send" /\ Head(work) \in Range(work) /\ P \in Nat
  BY <1>0, RangeOfWork, LengthTypes DEF SendPrompt, Doing
<1>2. /\ prompt_conversations' = prompt_conversations \cup {P + 1}
      /\ conv' = [conv EXCEPT ![c].in_flight_prompt = P + 1, ![c].turn_state = "thinking",
                              ![c].remaining_calls = {}]
      /\ work' = <<a>> \o Tail(work)
      /\ UNCHANGED <<conversations, waiting_on>>
  BY <1>0 DEF SendPrompt, Then, NextPrompt, gates
<1>3. /\ DOMAIN prompts = 1..P /\ DOMAIN prompts' = 1..(P + 1) /\ prompts'[P + 1].conv = c
      /\ \A q \in 1..P : prompts'[q] = prompts[q]
  <2>1. PICK x : prompts' = Append(prompts, x) /\ x.conv = c
    BY <1>0 DEF SendPrompt
  <2>2. prompts \in Seq(Prompt)
    BY DEF TypeInv
  <2> HIDE DEF Prompt
  <2> QED
    BY <2>1, <2>2
<1>4. c \in conversations /\ conv[c].turn_state = "idle" /\ (c = Default => waiting_on = {})
  BY <1>0, <1>1 DEF TurnInv, Asks, MayAsk
<1>5. conv[c].in_flight_prompt = 0
  BY <1>4 DEF AwaitInv, Awaited
<1>6. conv'[c].in_flight_prompt = P + 1 /\ \A d \in Convs : d # c => conv'[d] = conv[d]
  <2>1. conv \in [Convs -> GoodConversation(P, Len(messages))]
    BY DEF TypeInv
  <2>2. conv[c] \in GoodConversation(P, Len(messages))
    BY <2>1
  <2>3. conv'[c] = [conv[c] EXCEPT !.in_flight_prompt = P + 1, !.turn_state = "thinking",
                                   !.remaining_calls = {}]
    BY <1>2, <2>1
  <2>4. conv'[c].in_flight_prompt = P + 1
    BY <2>2, <2>3 DEF GoodConversation
  <2>5. \A d \in Convs : d # c => conv'[d] = conv[d]
    BY <1>2, <2>1
  <2> QED
    BY <2>4, <2>5
<1>7. TrackInv'
  <2> SUFFICES ASSUME NEW q \in prompt_conversations'
               PROVE  prompts'[q].conv \in conversations' /\ conv'[prompts'[q].conv].in_flight_prompt = q
    BY DEF TrackInv
  <2>1. CASE q = P + 1
    BY <1>2, <1>3, <1>4, <1>6, <2>1
  <2>2. CASE q # P + 1
    <3>1. q \in prompt_conversations /\ q \in 1..P /\ q # 0 /\ prompts'[q] = prompts[q]
      BY <1>1, <1>2, <1>3, <2>2 DEF TypeInv
    <3>2. PICK d \in conversations : d = prompts[q].conv
      BY <3>1 DEF TrackInv
    <3>3. conv[d].in_flight_prompt = q /\ d \in Convs
      BY <3>1, <3>2 DEF TrackInv, TypeInv
    <3>4. d # c
      BY <1>5, <3>1, <3>3
    <3> QED
      BY <1>2, <1>6, <3>1, <3>2, <3>3, <3>4
  <2> QED
    BY <2>1, <2>2
<1>8. /\ \A t \in Range(work') : t.op \notin Asks
      /\ \A t \in Range(work') : t.op \in {"answered", "called"} => t \in Range(work)
  <2> DEFINE U == T \cup {a}
  <2>1. work \in Seq(T) /\ Tail(work) \in Seq(T)
    BY <1>1, HeadTypes DEF TypeInv
  <2>2. a.op = "publish" /\ a.op \notin Asks
    BY DEF Publish, Asks
  <2>3. \A x \in Range(Tail(work)) : x.op \notin Asks
    <3>1. \A s \in Seq(T) : s # <<>> /\ Orderly(s) =>
                (Head(s).op # "publish" => \A x \in Range(Tail(s)) : x.op \notin Asks)
      BY OrderlyParts
    <3> HIDE DEF T
    <3> QED
      BY <1>1, <2>1, <3>1 DEF TurnInv
  <2>4. Range(work') = {a} \cup Range(Tail(work)) /\ Range(work) = {Head(work)} \cup Range(Tail(work))
    <3>1. Tail(work) \in Seq(U) /\ <<a>> \in Seq(U) /\ Range(<<a>>) = {a}
      <4> HIDE DEF T, a
      <4> QED
        BY <2>1, SeqGrows, RangeOfLists
    <3>2. \A s, t \in Seq(U) : Range(s \o t) = Range(s) \cup Range(t)
      BY RangeOfParts
    <3>3. Range(work) = {Head(work)} \cup Range(Tail(work))
      BY <1>1, RangeOfWork
    <3> HIDE DEF U, a
    <3> QED
      BY <1>2, <3>1, <3>2, <3>3
  <2> HIDE DEF a
  <2> QED
    BY <2>2, <2>3, <2>4
<1>9. waiting_on' # {} => conv'[Default].turn_state = "idle"
  <2> SUFFICES ASSUME waiting_on # {} PROVE conv'[Default].turn_state = "idle"
    BY <1>2
  <2>1. c # Default /\ Default \in Convs
    BY <1>4 DEF Convs
  <2> QED
    BY <1>6, <2>1 DEF TurnInv
<1> HIDE DEF P, a, T
<1>10. TurnInv'
  <2>1. Orderly(work')
    BY <1>8, NoAsks
  <2> QED
    BY <1>2, <1>8, <1>9, <2>1 DEF TurnInv
<1>11. \A p \in DOMAIN prompts' \ DOMAIN prompts : prompts'[p].conv = Default => waiting_on = {}
  <2>1. \A p \in 1..(P + 1) \ 1..P : p = P + 1
    BY <1>1
  <2> QED
    BY <1>3, <1>4, <2>1
<1> QED
  BY <1>7, <1>10, <1>11

(* What ends a prompt's turn ends the only prompt of its conversation. *)
LEMMA TheOnePrompt ==
    ASSUME TypeInv, AwaitInv, TrackInv, TurnInv, work # <<>>, Head(work).op \in {"answered", "called"},
           NEW c \in Convs, c = Head(work).conv, NEW n, n = Head(work).of
    PROVE  /\ Tail(work) = <<>>
           /\ n \in prompt_conversations /\ n # 0
           /\ c \in conversations /\ conv[c].in_flight_prompt = n /\ conv[c].turn_state = "thinking"
           /\ \A q \in prompt_conversations \ {n} : prompts[q].conv \in conversations \ {c}
<1>1. Tail(work) = <<>> /\ Range(work) = {Head(work)}
  BY ClosingTask DEF Closing
<1>2. n \in prompt_conversations /\ prompts[n].conv = c
  BY <1>1 DEF TurnInv, AwaitInv
<1>3. c \in conversations /\ conv[c].in_flight_prompt = n
  BY <1>2 DEF TrackInv
<1>4. n # 0
  <2>1. n \in 1..Len(prompts)
    BY <1>2 DEF TypeInv
  <2> QED
    BY <2>1, LengthTypes
<1>5. conv[c].turn_state = "thinking"
  BY <1>3, <1>4 DEF AwaitInv, Awaited
<1>6. \A q \in prompt_conversations \ {n} : prompts[q].conv \in conversations \ {c}
  BY <1>3 DEF TrackInv
<1> QED
  BY <1>1, <1>2, <1>3, <1>4, <1>5, <1>6

(* Turns, for the end of a turn. *)
LEMMA EndsTakesTurns ==
    ASSUME TypeInv, AwaitInv, TrackInv, TurnInv, TurnEnds PROVE TrackInv' /\ TurnInv'
<1>0. PICK c \in Convs : c = Head(work).conv
  BY HeadTypes DEF TurnEnds, Doing
<1>n. PICK n : n = Head(work).of
  OBVIOUS
<1>1. work # <<>> /\ Head(work).op \in {"answered", "called"}
  BY DEF TurnEnds, Doing
<1>2. /\ Tail(work) = <<>> /\ conv[c].in_flight_prompt = n
      /\ c \in conversations
      /\ \A q \in prompt_conversations \ {n} : prompts[q].conv \in conversations \ {c}
  BY <1>0, <1>n, <1>1, TheOnePrompt
<1>3. /\ prompt_conversations' = prompt_conversations \ {n}
      /\ UNCHANGED <<waiting_on, prompts>>
      /\ work' = <<Advance>> \o <<>>
  BY <1>0, <1>n, <1>2 DEF TurnEnds, Then, gates
<1>4. Range(work') = {Advance} /\ Advance.op = "advance"
  <2>1. work' = <<Advance>>
    BY <1>3
  <2> QED
    BY <2>1, AdvanceTask
<1>5. /\ \A d \in Convs : d # c => conv'[d] = conv[d]
      /\ conversations \ {c} \subseteq conversations'
      /\ c = Default => conv'[c].turn_state = "idle"
  <2>1. conv[c] \in GoodConversation(Len(prompts), Len(messages))
    BY DEF TypeInv
  <2>2. CASE c \in Queries
    BY <1>0, <2>2, PromptDispatchAssumption DEF TurnEnds, TypeInv
  <2>3. CASE c \notin Queries
    <3>1. /\ conv' = [conv EXCEPT ![c].in_flight_prompt = 0, ![c].turn_state = "idle",
                                  ![c].remaining_calls = {}]
          /\ UNCHANGED conversations
      BY <1>0, <2>3 DEF TurnEnds
    <3>2. conv'[c] = [conv[c] EXCEPT !.in_flight_prompt = 0, !.turn_state = "idle", !.remaining_calls = {}]
      BY <3>1 DEF TypeInv
    <3>3. conv'[c].turn_state = "idle"
      BY <2>1, <3>2 DEF GoodConversation
    <3> QED
      BY <3>1, <3>3 DEF TypeInv
  <2> QED
    BY <2>2, <2>3
<1>6. TrackInv'
  <2> SUFFICES ASSUME NEW q \in prompt_conversations \ {n}
               PROVE  prompts[q].conv \in conversations' /\ conv'[prompts[q].conv].in_flight_prompt = q
    BY <1>3 DEF TrackInv
  <2>1. PICK d \in conversations \ {c} : d = prompts[q].conv
    BY <1>2
  <2>2. d \in Convs /\ conv[d].in_flight_prompt = q
    BY <2>1 DEF TypeInv, TrackInv
  <2> QED
    BY <1>5, <2>1, <2>2
<1>7. waiting_on' # {} => conv'[Default].turn_state = "idle"
  <2>1. Default \in Convs
    BY DEF Convs
  <2> QED
    BY <1>3, <1>5, <2>1 DEF TurnInv
<1>8. TurnInv'
  BY <1>4, <1>7, QuietTakesTurns DEF Asks
<1> QED
  BY <1>6, <1>8

(* Turns, for a response that calls a tool. *)
LEMMA ToolsTakeTurns ==
    ASSUME TypeInv, AwaitInv, TrackInv, TurnInv, ToolsStart PROVE TrackInv' /\ TurnInv'
<1>0. PICK c \in Convs : c = Head(work).conv
  BY HeadTypes DEF ToolsStart, Doing
<1>n. PICK n : n = Head(work).of
  OBVIOUS
<1>1. work # <<>> /\ Head(work).op \in {"answered", "called"}
  BY DEF ToolsStart, Doing
<1>2. /\ Tail(work) = <<>> /\ conv[c].in_flight_prompt = n
      /\ c \in conversations /\ conv[c].turn_state = "thinking"
      /\ \A q \in prompt_conversations \ {n} : prompts[q].conv \in conversations \ {c}
  BY <1>0, <1>n, <1>1, TheOnePrompt
<1>3. /\ prompt_conversations' = prompt_conversations \ {n}
      /\ UNCHANGED <<waiting_on, prompts, conversations>>
      /\ work' = <<>> \o <<>>
      /\ conv' = [conv EXCEPT ![c].in_flight_prompt = 0, ![c].turn_state = "tools",
                              ![c].remaining_calls = {n}]
  BY <1>0, <1>n, <1>2 DEF ToolsStart, Then, gates
<1>4. Range(work') = {}
  <2>1. work' = <<>>
    BY <1>3
  <2> QED
    BY <2>1, RangeOfParts
<1>5. \A d \in Convs : d # c => conv'[d] = conv[d]
  BY <1>3 DEF TypeInv
<1>6. TrackInv'
  <2> SUFFICES ASSUME NEW q \in prompt_conversations \ {n}
               PROVE  prompts[q].conv \in conversations' /\ conv'[prompts[q].conv].in_flight_prompt = q
    BY <1>3 DEF TrackInv
  <2>1. PICK d \in conversations \ {c} : d = prompts[q].conv
    BY <1>2
  <2>2. d \in Convs /\ conv[d].in_flight_prompt = q
    BY <2>1 DEF TypeInv, TrackInv
  <2> QED
    BY <1>3, <1>5, <2>1, <2>2
<1>7. waiting_on' # {} => conv'[Default].turn_state = "idle"
  <2>1. Default \in Convs /\ "thinking" # "idle"
    BY DEF Convs
  <2>2. c = Default => waiting_on = {}
    BY <1>2, <2>1 DEF TurnInv
  <2> QED
    BY <1>3, <1>5, <2>1, <2>2 DEF TurnInv
<1>8. TurnInv'
  BY <1>4, <1>7, QuietTakesTurns
<1> QED
  BY <1>6, <1>8

(* What is folded into a turn is published before the prompt is asked for. *)
LEMMA SteeredIsOrderly ==
    ASSUME TypeInv, NEW c \in Convs
    PROVE  /\ Orderly(Append(Steered(c), Do("dispatch", c, 0)))
           /\ \A t \in Range(Append(Steered(c), Do("dispatch", c, 0))) :
                t.op = "publish" \/ t = Do("dispatch", c, 0)
<1> DEFINE P == [op : {"publish"}, kind : {"steered"}, conv : {c}, of : Nat, session : 1..MaxSessions]
           d == Do("dispatch", c, 0)
           s == conv[c].pending_prompts
           S == P \cup {d}
<1>1. s \in Seq(1..Len(messages)) /\ session \in 1..MaxSessions
  BY DEF TypeInv, GoodConversation
<1>2. Steered(c) = [i \in DOMAIN s |-> Publish("steered", c, s[i], session)]
  BY DEF Steered
<1>3. Len(s) \in Nat /\ DOMAIN s = 1..Len(s) /\ \A i \in 1..Len(s) : s[i] \in Nat
  <2> HIDE DEF s
  <2> QED
    BY <1>1
<1>4. \A i \in DOMAIN s : Publish("steered", c, s[i], session) \in P
  <2> HIDE DEF s
  <2> QED
    BY <1>1, <1>3 DEF Publish
<1> HIDE DEF P, s, d
<1>5. Steered(c) \in Seq(P)
  <2>1. Steered(c) \in [1..Len(s) -> P]
    BY <1>2, <1>3, <1>4
  <2> QED
    BY <1>3, <2>1
<1>6. Steered(c) \in Seq(S) /\ d \in S
  <2>1. P \subseteq S
    OBVIOUS
  <2> HIDE DEF S
  <2>2. Steered(c) \in Seq(S)
    BY <1>5, <2>1, SeqGrows
  <2> QED
    BY <2>2 DEF S
<1>7. \A t \in Range(Steered(c)) : t.op = "publish"
  <2>1. \A t \in Range(Steered(c)) : t \in P
    BY <1>5 DEF Range
  <2> QED
    BY <2>1 DEF P
<1> HIDE DEF S
<1>8. Orderly(Append(Steered(c), d))
  <2>1. \A x \in Seq(S), y \in S : (\A z \in Range(x) : z.op = "publish") => Orderly(Append(x, y))
    BY OrderlyParts
  <2> QED
    BY <1>6, <1>7, <2>1
<1>9. Range(Append(Steered(c), d)) = Range(Steered(c)) \cup {d}
  <2>1. \A x \in Seq(S), y \in S : Range(Append(x, y)) = Range(x) \cup {y}
    BY RangeOfParts
  <2> QED
    BY <1>6, <2>1
<1>10. \A t \in Range(Append(Steered(c), d)) : t.op = "publish" \/ t = d
  BY <1>7, <1>9
<1> QED
  BY <1>8, <1>10 DEF d

(* Turns, for maybe_complete_agent_turn: a turn that ends asks for its next prompt. *)
LEMMA CompleteTakesTurns ==
    ASSUME TypeInv, TrackInv, TurnInv, MaybeCompleteTurn PROVE TrackInv' /\ TurnInv'
<1>0. PICK c \in Convs : c = Head(work).conv
  BY HeadTypes DEF MaybeCompleteTurn, Doing
<1> DEFINE left == conv[c].remaining_calls \ {Head(work).of}
           d == Do("dispatch", c, 0)
           tasks == Append(Steered(c), d)
<1>1. work # <<>> /\ Head(work).op = "turn"
  BY DEF MaybeCompleteTurn, Doing
<1>2. UNCHANGED <<conversations, waiting_on, prompt_conversations, prompts>>
  BY DEF MaybeCompleteTurn, gates, tracking
<1>3. \/ /\ c \in conversations /\ conv[c].turn_state = "tools"
         /\ conv' = [conv EXCEPT ![c].turn_state = "idle", ![c].remaining_calls = {},
                                 ![c].pending_prompts = <<>>]
         /\ Then(tasks)
      \/ /\ conv' = [conv EXCEPT ![c].remaining_calls = left]
         /\ Then(<<>>)
      \/ /\ conv' = conv
         /\ Then(<<>>)
  BY <1>0 DEF MaybeCompleteTurn
<1> HIDE DEF left, tasks
<1>4. Default \in Convs /\ conv \in [Convs -> GoodConversation(Len(prompts), Len(messages))]
      /\ conv[c] \in GoodConversation(Len(prompts), Len(messages))
  BY DEF Convs, TypeInv
<1>5. CASE /\ c \in conversations /\ conv[c].turn_state = "tools"
           /\ conv' = [conv EXCEPT ![c].turn_state = "idle", ![c].remaining_calls = {},
                                   ![c].pending_prompts = <<>>]
           /\ Then(tasks)
  <2>1. conv'[c] = [conv[c] EXCEPT !.turn_state = "idle", !.remaining_calls = {}, !.pending_prompts = <<>>]
    BY <1>4, <1>5
  <2>2. conv'[c].in_flight_prompt = conv[c].in_flight_prompt /\ conv'[c].turn_state = "idle"
    BY <1>4, <2>1 DEF GoodConversation
  <2>3. \A x \in Convs : x # c => conv'[x] = conv[x]
    BY <1>4, <1>5
  <2>4. c = Default => waiting_on = {}
    BY <1>5 DEF TurnInv
  <2>5. MayAsk(d)'
    BY <1>2, <1>5, <2>2, <2>4 DEF MayAsk, Do
  <2>6. /\ tasks \in Seq(GoodTask(Len(prompts))) /\ Orderly(tasks)
        /\ \A t \in Range(tasks) : t.op = "publish" \/ t = d
    BY SteeredTypes, SteeredIsOrderly DEF tasks
  <2>7. d.op = "dispatch"
    BY DEF Do
  <2> HIDE DEF d
  <2>8. \A t \in Range(tasks) : (t.op \in Asks => MayAsk(t)') /\ t.op \notin {"answered", "called"}
    <3> TAKE t \in Range(tasks)
    <3>1. CASE t.op = "publish"
      BY <3>1 DEF Asks
    <3>2. CASE t = d
      BY <2>5, <2>7, <3>2
    <3> QED
      BY <2>6, <3>1, <3>2
  <2>9. waiting_on' # {} => conv'[Default].turn_state = "idle"
    BY <1>2, <1>4, <2>2, <2>3 DEF TurnInv
  <2>10. TurnInv'
    BY <1>1, <1>2, <1>5, <2>6, <2>8, <2>9, ThenTakesTurns
  <2> QED
    BY <1>2, <2>2, <2>3, <2>10, TracksStay
<1>6. CASE (conv' = [conv EXCEPT ![c].remaining_calls = left] \/ conv' = conv) /\ Then(<<>>)
  <2>1. conv'[c] = [conv[c] EXCEPT !.remaining_calls = left] \/ conv'[c] = conv[c]
    BY <1>4, <1>6
  <2>2. conv'[c].in_flight_prompt = conv[c].in_flight_prompt /\ conv'[c].turn_state = conv[c].turn_state
    BY <1>4, <2>1 DEF GoodConversation
  <2>3. \A x \in Convs : x # c => conv'[x] = conv[x]
    BY <1>4, <1>6
  <2>4. Range(<<>>) = {} /\ Orderly(<<>>)
    BY RangeOfParts, NoAsks
  <2>5. waiting_on' # {} => conv'[Default].turn_state = "idle"
    BY <1>2, <1>4, <2>2, <2>3 DEF TurnInv
  <2>6. TurnInv'
    BY <1>1, <1>2, <1>6, <2>4, <2>5, NoTasks, ThenTakesTurns
  <2> QED
    BY <1>2, <2>2, <2>3, <2>6, TracksStay
<1> QED
  BY <1>3, <1>5, <1>6

(* Turns, for the ends of the frames. *)
LEMMA ClearTakesTurns ==
    ASSUME TypeInv, TrackInv, TurnInv, ClearTracking \/ Respawn PROVE TrackInv' /\ TurnInv'
<1>1. work # <<>> /\ Head(work).op # "publish" /\ Then(<<>>)
  BY DEF ClearTracking, Respawn, Doing
<1>2. UNCHANGED <<conversations, conv, waiting_on, prompt_conversations, prompts>>
  BY DEF ClearTracking, Respawn, gates, tracking
<1>3. Range(<<>>) = {} /\ Orderly(<<>>)
  BY RangeOfParts, NoAsks
<1>4. TurnInv'
  BY <1>1, <1>2, <1>3, NoTasks, ThenTakesTurns DEF TurnInv
<1> QED
  BY <1>2, <1>4, TracksStay

(* A frame that asks for a prompt. *)
LEMMA AskingTakesTurns ==
    ASSUME NEW c, NEW m, work' = Dispatch(c, m),
           c \in conversations', conv'[c].turn_state = "idle", c = Default => waiting_on' = {},
           waiting_on' # {} => conv'[Default].turn_state = "idle"
    PROVE  TurnInv'
<1> DEFINE a == Publish("prompt_submitted", c, m, session)
           d == Do("dispatch", c, 0)
<1>1. Orderly(work') /\ Range(work') = {a, d}
  BY DispatchIsOrderly, TasksOfDispatch
<1>2. a.op = "publish" /\ d.op = "dispatch" /\ d.conv = c
  BY DEF Publish, Do
<1> HIDE DEF a, d
<1>3. MayAsk(d)'
  BY <1>2 DEF MayAsk
<1> QED
  BY <1>1, <1>2, <1>3 DEF TurnInv, Asks

(* Turns, for submit_user_prompt: a busy conversation is not asked. *)
LEMMA SubmitTakesTurns ==
    ASSUME TypeInv, AwaitInv, TrackInv, TurnInv, SubmitUserPrompt PROVE TrackInv' /\ TurnInv'
<1> DEFINE m == Len(messages) + 1
           made_way == [c \in Convs |-> IF c \in Preempted THEN GiveUp(c) ELSE conv[c]]
           given_up == {conv[q].in_flight_prompt : q \in Preempted}
<1>1. /\ GiveUpPrompts(given_up)
      /\ UNCHANGED <<conversations, waiting_on, extension, prompts>>
  BY DEF SubmitUserPrompt, gates
<1>2. /\ DispatchBlocked(Default)
            => conv' = [made_way EXCEPT ![Default].pending_prompts = Append(@, m)] /\ work' = <<Advance>>
      /\ ~DispatchBlocked(Default) => conv' = made_way /\ work' = Dispatch(Default, m)
  BY DEF SubmitUserPrompt
<1>3. Default \in Convs /\ Default \notin Preempted /\ conversations \subseteq Convs
  BY DEF Convs, Preempted, TypeInv
<1>4. \A c \in Convs \ Preempted : conv'[c].in_flight_prompt = conv[c].in_flight_prompt
                                   /\ conv'[c].turn_state = conv[c].turn_state
  <2> SUFFICES ASSUME NEW c \in Convs, c \notin Preempted
               PROVE  conv'[c].in_flight_prompt = conv[c].in_flight_prompt
                      /\ conv'[c].turn_state = conv[c].turn_state
    OBVIOUS
  <2>1. made_way[c] = conv[c]
    OBVIOUS
  <2>2. conv[c] \in GoodConversation(Len(prompts), Len(messages))
    BY DEF TypeInv
  <2>3. CASE conv' = made_way
    BY <2>1, <2>3
  <2>4. CASE conv' = [made_way EXCEPT ![Default].pending_prompts = Append(@, m)]
    <3> DEFINE x == Append(made_way[Default].pending_prompts, m)
    <3>1. DOMAIN made_way = Convs
      OBVIOUS
    <3>2. conv'[c] = made_way[c] \/ conv'[c] = [made_way[c] EXCEPT !.pending_prompts = x]
      <4> HIDE DEF made_way, m
      <4> QED
        BY <2>4, <3>1
    <3> HIDE DEF x, made_way
    <3>3. conv'[c] = conv[c] \/ conv'[c] = [conv[c] EXCEPT !.pending_prompts = x]
      BY <2>1, <3>2
    <3> QED
      BY <2>2, <3>3 DEF GoodConversation
  <2> QED
    BY <1>2, <2>3, <2>4
<1> HIDE DEF made_way
<1>5. TrackInv'
  <2> SUFFICES ASSUME NEW q \in prompt_conversations \ given_up
               PROVE  prompts[q].conv \in conversations /\ conv'[prompts[q].conv].in_flight_prompt = q
    BY <1>1 DEF TrackInv, GiveUpPrompts
  <2>1. PICK d \in conversations : d = prompts[q].conv
    BY DEF TrackInv
  <2>2. conv[d].in_flight_prompt = q
    BY <2>1 DEF TrackInv
  <2>3. d \notin Preempted
    BY <2>2
  <2> QED
    BY <1>3, <1>4, <2>1, <2>2, <2>3
<1>6. waiting_on' # {} => conv'[Default].turn_state = "idle"
  BY <1>1, <1>3, <1>4 DEF TurnInv
<1>7. CASE DispatchBlocked(Default)
  <2>1. Range(work') = {Advance} /\ Advance.op = "advance"
    BY <1>2, <1>7, AdvanceTask
  <2> QED
    BY <1>5, <1>6, <2>1, QuietTakesTurns DEF Asks
<1>8. CASE ~DispatchBlocked(Default)
  <2>1. waiting_on = {} /\ conv[Default].turn_state = "idle" /\ work' = Dispatch(Default, m)
    BY <1>2, <1>8 DEF DispatchBlocked, GateOpen
  <2>2. Default \in conversations' /\ conv'[Default].turn_state = "idle" /\ waiting_on' = {}
    BY <1>1, <1>3, <1>4, <2>1 DEF AwaitInv
  <2> HIDE DEF m
  <2> QED
    BY <1>5, <2>1, <2>2, AskingTakesTurns
<1> QED
  BY <1>7, <1>8

(* Turns, for handle_cancel_prompt. *)
LEMMA CancelTakesTurns ==
    ASSUME TypeInv, TrackInv, TurnInv, CancelPrompt PROVE TrackInv' /\ TurnInv'
<1> DEFINE n == conv[Default].in_flight_prompt
<1>1. /\ GiveUpPrompts({n})
      /\ conv' = [conv EXCEPT ![Default] = GiveUp(Default)]
      /\ work' = <<Advance>>
      /\ UNCHANGED <<conversations, waiting_on, prompts>>
  BY DEF CancelPrompt, gates
<1>2. Default \in Convs /\ conversations \subseteq Convs
  BY DEF Convs, TypeInv
<1>3. conv'[Default].turn_state = "idle" /\ \A d \in Convs : d # Default => conv'[d] = conv[d]
  <2>1. conv[Default] \in GoodConversation(Len(prompts), Len(messages))
    BY <1>2 DEF TypeInv
  <2>2. GiveUp(Default).turn_state = "idle"
    BY <2>1 DEF GiveUp, GoodConversation
  <2> QED
    BY <1>1, <1>2, <2>2 DEF TypeInv
<1>4. TrackInv'
  <2> SUFFICES ASSUME NEW q \in prompt_conversations \ {n}
               PROVE  prompts[q].conv \in conversations /\ conv'[prompts[q].conv].in_flight_prompt = q
    BY <1>1 DEF TrackInv, GiveUpPrompts
  <2>1. PICK d \in conversations : d = prompts[q].conv
    BY DEF TrackInv
  <2>2. conv[d].in_flight_prompt = q
    BY <2>1 DEF TrackInv
  <2>3. d # Default
    BY <2>2
  <2> QED
    BY <1>2, <1>3, <2>1, <2>2, <2>3
<1>5. Range(work') = {Advance} /\ Advance.op = "advance"
  BY <1>1, AdvanceTask
<1> QED
  BY <1>3, <1>4, <1>5, QuietTakesTurns DEF Asks

(* Turns, for switch_session. *)
LEMMA SwitchTakesTurns ==
    ASSUME TypeInv, SwitchSession PROVE TrackInv' /\ TurnInv'
<1>1. prompt_conversations' = {} /\ conv'[Default].turn_state = "idle"
  <2>1. conv'[Default] = Fresh(0)
    BY DEF SwitchSession, Rebound, Convs
  <2> QED
    BY <2>1 DEF SwitchSession, Fresh
<1>2. \A t \in Range(work') : t.op \in {"publish", "advance"}
  <2>1. CASE Subscribers = {}
    <3>1. CompleteInit(discovered, session + 1, <<>>)
      BY <2>1 DEF SwitchSession
    <3>2. session + 1 \in 1..MaxSessions
      BY PromptDispatchAssumption DEF SwitchSession, TypeInv
    <3>3. Range(<<>>) = {}
      BY RangeOfParts
    <3> QED
      BY <3>1, <3>2, <3>3, NoTasks, CompleteInitTasks
  <2>2. CASE Subscribers # {}
    <3> DEFINE a == Publish("session_started", None, 0, session + 1)
    <3>1. work' = <<a>> /\ a.op = "publish"
      BY <2>2 DEF SwitchSession, Publish
    <3> HIDE DEF a
    <3> QED
      BY <3>1, RangeOfLists
  <2> QED
    BY <2>1, <2>2
<1>3. TurnInv'
  BY <1>1, <1>2, QuietTakesTurns DEF Asks
<1> QED
  BY <1>1, <1>3 DEF TrackInv

(* A frame that leaves the turns as they are. *)
LEMMA FrameTakesTurns ==
    ASSUME TypeInv, TrackInv, TurnInv,
           UNCHANGED <<conversations, conv, prompt_conversations, prompts>>,
           waiting_on' \subseteq waiting_on,
           \A t \in Range(work') : t.op \notin Asks \cup {"answered", "called"}
    PROVE  TrackInv' /\ TurnInv'
<1>1. waiting_on' # {} => conv'[Default].turn_state = "idle"
  BY DEF TurnInv
<1>2. TurnInv'
  BY <1>1, QuietTakesTurns
<1> QED
  BY <1>2, TracksStay

(* Turns, for handle_extension_context_ready. *)
LEMMA ContextTakesTurns ==
    ASSUME TypeInv, TrackInv, TurnInv, NEW v \in Providers, NEW s \in 1..MaxSessions, ContextReady(v, s)
    PROVE  TrackInv' /\ TurnInv'
<1>1. /\ Idle /\ waiting_on' \subseteq waiting_on
      /\ UNCHANGED <<conversations, conv, prompt_conversations, prompts>>
      /\ CompleteInit(discovered', session, <<>>) \/ work' = work
  BY DEF ContextReady, tracking
<1>2. \A t \in Range(work') : t.op \in {"publish", "advance"}
  <2>1. session \in 1..MaxSessions /\ Range(<<>>) = {}
    BY RangeOfParts DEF TypeInv
  <2>2. CASE work' = work
    BY <1>1, <2>2, IdleWork
  <2>3. CASE CompleteInit(discovered', session, <<>>)
    BY <2>1, <2>3, NoTasks, CompleteInitTasks
  <2> QED
    BY <1>1, <2>2, <2>3
<1> QED
  BY <1>1, <1>2, FrameTakesTurns DEF Asks

(* Turns, for handle_disconnect of an extension. *)
LEMMA GoneTakesTurns ==
    ASSUME TypeInv, TrackInv, TurnInv, NEW v \in Providers, ExtensionGone(v)
    PROVE  TrackInv' /\ TurnInv'
<1> DEFINE d == Do("respawn", v, 0)
           rest == <<d>>
<1>1. /\ waiting_on' \subseteq waiting_on
      /\ UNCHANGED <<conversations, conv, prompt_conversations, prompts>>
      /\ CompleteInit(discovered', session, rest) \/ work' = rest
  BY DEF ExtensionGone, tracking
<1>2. rest \in Seq(GoodTask(Len(prompts))) /\ Range(rest) = {d} /\ d.op = "respawn"
  <2>1. d \in GoodTask(Len(prompts)) /\ d.op = "respawn"
    BY LengthTypes, DoTypes DEF Do
  <2> HIDE DEF d
  <2> QED
    BY <2>1, LengthTypes, TaskLists, RangeOfLists
<1> HIDE DEF rest, d
<1>3. \A t \in Range(work') : t.op \in {"publish", "advance", "respawn"}
  <2>1. session \in 1..MaxSessions
    BY DEF TypeInv
  <2>2. CASE work' = rest
    BY <1>2, <2>2
  <2>3. CASE CompleteInit(discovered', session, rest)
    BY <1>2, <2>1, <2>3, CompleteInitTasks
  <2> QED
    BY <1>1, <2>2, <2>3
<1> QED
  BY <1>1, <1>3, FrameTakesTurns DEF Asks

(* Turns, for an extension that subscribes or is ready. *)
LEMMA LifecycleTakesTurns ==
    ASSUME TypeInv, TrackInv, TurnInv, NEW v \in Providers, ExtensionSubscribes(v) \/ ExtensionReady(v)
    PROVE  TrackInv' /\ TurnInv'
<1>1. /\ UNCHANGED <<conversations, conv, prompt_conversations, prompts, waiting_on>>
      /\ Idle
      /\ work' = work \/ work' = <<Advance>>
  BY DEF ExtensionSubscribes, ExtensionReady, tracking
<1>2. \A t \in Range(work') : t.op = "advance"
  BY <1>1, IdleWork, AdvanceTask
<1> QED
  BY <1>1, <1>2, FrameTakesTurns DEF Asks

(* Turns, for inject_user_shell_output. *)
LEMMA ShellTakesTurns ==
    ASSUME TypeInv, TrackInv, TurnInv, NEW s \in 1..session, ShellFinished(s)
    PROVE  TrackInv' /\ TurnInv'
<1>1. UNCHANGED <<conversations, conv, prompt_conversations, prompts, waiting_on>>
  BY DEF ShellFinished, tracking, gates
<1>2. PICK a : work' = <<a>> /\ a.op = "publish"
  BY DEF ShellFinished, Publish
<1>3. Range(work') = {a}
  BY <1>2, RangeOfLists
<1> QED
  BY <1>1, <1>2, <1>3, FrameTakesTurns DEF Asks

(* Turns, for a tool result. *)
LEMMA FinishesTakesTurns ==
    ASSUME TypeInv, TrackInv, TurnInv, NEW p \in running, ToolFinishes(p)
    PROVE  TrackInv' /\ TurnInv'
<1> DEFINE a == Publish("tool_result", prompts[p].conv, p, 0)
           b == Do("turn", prompts[p].conv, p)
           d == Do("clear", None, p)
<1>1. /\ UNCHANGED <<conversations, conv, prompt_conversations, prompts, waiting_on>>
      /\ work' = <<a, b, Advance, d>> \/ work' = <<>>
  BY DEF ToolFinishes, tracking, gates
<1>2. a.op = "publish" /\ b.op = "turn" /\ Advance.op = "advance" /\ d.op = "clear"
  BY DEF Publish, Do, Advance
<1> HIDE DEF a, b, d
<1>3. Range(work') = {a, b, Advance, d} \/ Range(work') = {}
  BY <1>1, RangeOfLists, RangeOfParts
<1>4. \A t \in Range(work') : t.op \notin Asks \cup {"answered", "called"}
  BY <1>2, <1>3 DEF Asks
<1> QED
  BY <1>1, <1>4, FrameTakesTurns

(* Turns, for the answer of the agent. *)
LEMMA RespondsTakesTurns ==
    ASSUME TypeInv, TrackInv, TurnInv, NEW p \in at_agent, NEW how \in {"answered", "called"},
           AgentResponds(p, how)
    PROVE  TrackInv' /\ TurnInv'
<1> DEFINE a == Publish("response_finished", prompts[p].conv, p, 0)
           b == Do(how, prompts[p].conv, p)
<1>1. /\ Idle
      /\ UNCHANGED <<conversations, conv, prompts, waiting_on>>
      /\ prompt_conversations' \subseteq prompt_conversations
      /\ \/ work' = work
         \/ p \in prompt_conversations' /\ work' = <<a, b>>
  BY DEF AgentResponds, gates
<1>2. a.op = "publish" /\ b.op \in {"answered", "called"} /\ b.of = p
  BY DEF Publish, Do
<1> HIDE DEF a, b
<1>3. \A t \in Range(work') : /\ t.op \notin Asks
                              /\ t.op \in {"answered", "called"} => t.of \in prompt_conversations'
  <2>1. CASE work' = work
    BY <1>1, <2>1, IdleWork
  <2>2. CASE p \in prompt_conversations' /\ work' = <<a, b>>
    <3>1. Range(work') = {a, b}
      BY <2>2, RangeOfLists
    <3> QED
      BY <1>2, <2>2, <3>1 DEF Asks
  <2> QED
    BY <1>1, <2>1, <2>2
<1>4. Orderly(work')
  BY <1>3, NoAsks
<1>5. TurnInv'
  BY <1>1, <1>3, <1>4 DEF TurnInv
<1> QED
  BY <1>1, <1>5, TracksStay

(* Turns, for handle_ext_agent_query: the conversation is a new one. *)
LEMMA QueryTakesTurns ==
    ASSUME TypeInv, AskedInv, TrackInv, TurnInv, NEW q \in Queries, AgentQuery(q)
    PROVE  TrackInv' /\ TurnInv'
<1> DEFINE h == InitialHead(q)
           m == Len(messages) + 1
<1>1. /\ conversations' = conversations \cup {q}
      /\ conv' = [conv EXCEPT ![q] = Fresh(h)]
      /\ work' = Dispatch(q, m)
      /\ UNCHANGED <<waiting_on, prompt_conversations, prompts>>
  BY DEF AgentQuery, gates, tracking
<1>2. q \in Convs /\ q # Default /\ Default \in Convs
  BY PromptDispatchAssumption DEF Convs
<1>3. q \notin conversations
  BY <1>2 DEF AgentQuery, AskedInv, Known
<1> HIDE DEF h, m
<1>4. conv'[q].turn_state = "idle" /\ \A d \in Convs : d # q => conv'[d] = conv[d]
  <2>1. conv'[q] = Fresh(h)
    BY <1>1, <1>2 DEF TypeInv
  <2> QED
    BY <1>1, <2>1 DEF TypeInv, Fresh
<1>5. TrackInv'
  <2> SUFFICES ASSUME NEW p \in prompt_conversations
               PROVE  prompts[p].conv \in conversations' /\ conv'[prompts[p].conv].in_flight_prompt = p
    BY <1>1 DEF TrackInv
  <2>1. PICK d \in conversations : d = prompts[p].conv
    BY DEF TrackInv
  <2>2. conv[d].in_flight_prompt = p /\ d # q /\ d \in Convs
    BY <1>3, <2>1 DEF TrackInv, TypeInv
  <2> QED
    BY <1>1, <1>4, <2>1, <2>2
<1>6. waiting_on' # {} => conv'[Default].turn_state = "idle"
  BY <1>1, <1>2, <1>4 DEF TurnInv
<1>7. TurnInv'
  BY <1>1, <1>2, <1>4, <1>6, AskingTakesTurns
<1> QED
  BY <1>5, <1>7

(* At the start no prompt is with the agent. *)
LEMMA InitTakesTurns == Init => DirectInv /\ AskedInv /\ TrackInv /\ TurnInv
<1> SUFFICES ASSUME Init PROVE DirectInv /\ AskedInv /\ TrackInv /\ TurnInv
  OBVIOUS
<1>1. Range(work) = {} /\ Orderly(work)
  BY IdleWork, NoAsks DEF Init, Idle
<1>2. TurnInv
  BY <1>1 DEF Init, TurnInv
<1> QED
  BY <1>2 DEF Init, DirectInv, AskedInv, TrackInv

(* Prompts take turns, step by step. *)
LEMMA NextTakesTurns ==
    ASSUME Intercepted = {}
    PROVE  TypeInv /\ AwaitInv /\ DirectInv /\ AskedInv /\ TrackInv /\ TurnInv /\ [Next]_vars
                => TrackInv' /\ TurnInv'
<1> SUFFICES ASSUME TypeInv, AwaitInv, DirectInv, AskedInv, TrackInv, TurnInv, [Next]_vars
             PROVE  TrackInv' /\ TurnInv'
  OBVIOUS
<1>1. CASE EnqueuePublish \/ DrainDeferred \/ InterceptReply \/ InterceptorGone
  BY <1>1, DirectMoves
<1>2. CASE TryAdvanceQueue \/ DispatchOrAwait \/ SendPrompt \/ TurnEnds \/ ToolsStart
  BY <1>2, AdvanceTakesTurns, DispatchTakesTurns, SendTakesTurns, EndsTakesTurns, ToolsTakeTurns
<1>3. CASE MaybeCompleteTurn \/ ClearTracking \/ Respawn
  BY <1>3, CompleteTakesTurns, ClearTakesTurns
<1>4. CASE SubmitUserPrompt \/ CancelPrompt \/ SwitchSession
  BY <1>4, SubmitTakesTurns, CancelTakesTurns, SwitchTakesTurns
<1>5. CASE \E s \in 1..session : ShellFinished(s)
  BY <1>5, ShellTakesTurns
<1>6. CASE \E v \in Providers : \/ ExtensionGone(v) \/ ExtensionSubscribes(v) \/ ExtensionReady(v)
                               \/ \E s \in 1..MaxSessions : ContextReady(v, s)
  BY <1>6, GoneTakesTurns, LifecycleTakesTurns, ContextTakesTurns
<1>7. CASE \E p \in at_agent : \E how \in {"answered", "called"} : AgentResponds(p, how)
  BY <1>7, RespondsTakesTurns
<1>8. CASE \E p \in running : ToolFinishes(p)
  BY <1>8, FinishesTakesTurns
<1>9. CASE \E q \in Queries : AgentQuery(q)
  BY <1>9, QueryTakesTurns
<1>10. CASE UNCHANGED vars
  BY <1>10 DEF vars, TrackInv, TurnInv, MayAsk
<1> QED
  BY <1>1, <1>2, <1>3, <1>4, <1>5, <1>6, <1>7, <1>8, <1>9, <1>10 DEF Next, Handler

(* Only one action makes a prompt. *)
LEMMA OnlySendPrompts ==
    ASSUME [Next]_vars, prompts' # prompts
    PROVE  SendPrompt
<1>1. CASE Handler
  BY <1>1 DEF Handler, EnqueuePublish, DrainDeferred, TryAdvanceQueue, DispatchOrAwait,
     TurnEnds, ToolsStart, MaybeCompleteTurn, ClearTracking, Respawn
<1>2. CASE ~Handler
  BY <1>2 DEF Next, InterceptReply, InterceptorGone, SubmitUserPrompt, CancelPrompt, SwitchSession,
     ShellFinished, ExtensionGone, ExtensionSubscribes, ExtensionReady, ContextReady, AgentResponds,
     ToolFinishes, AgentQuery, vars
<1> QED
  BY <1>1, <1>2

(* The invariant says that a conversation has one prompt. *)
LEMMA TrackSuffices == TrackInv => OnePromptAtATime
BY DEF TrackInv, OnePromptAtATime

(* Where no publish is held back, a conversation has one prompt with the agent *)
(* at a time, and the user's has none before its session is initialised        *)
(* (dispatch_blocked_for, try_advance_queue, start_session_init).              *)
THEOREM PromptsGoOneByOne == ASSUME Intercepted = {} PROVE Spec => PromptsTakeTurns
<1> DEFINE Inv == TypeInv /\ AwaitInv /\ DirectInv /\ AskedInv /\ TrackInv /\ TurnInv
           Step == [\A p \in DOMAIN prompts' \ DOMAIN prompts :
                        prompts'[p].conv = Default => waiting_on = {}]_vars
<1>1. Init => Inv
  BY InitTypes, InitIsAwaited, InitTakesTurns
<1>2. Inv /\ [Next]_vars => Inv'
  BY NextTypes, NextAwaits, DirectStays, AskedStays, NextTakesTurns
<1>3. Inv => OnePromptAtATime
  BY TrackSuffices
<1>4. Inv /\ [Next]_vars => Step
  <2> SUFFICES ASSUME Inv, [Next]_vars, NEW p \in DOMAIN prompts' \ DOMAIN prompts,
                      prompts'[p].conv = Default
               PROVE  waiting_on = {}
    OBVIOUS
  <2>1. SendPrompt
    BY OnlySendPrompts
  <2> QED
    BY <2>1, SendTakesTurns
<1> QED
  BY <1>1, <1>2, <1>3, <1>4, PTL DEF Spec, PromptsTakeTurns, InitComesFirst

-----------------------------------------------------------------------------
(* Induction, as a statement about sets of numbers. *)
LEMMA Induction ==
    ASSUME NEW T, 0 \in T, \A n \in Nat : n \in T => n + 1 \in T
    PROVE  Nat \subseteq T
<1> SUFFICES ASSUME Nat \ T # {} PROVE FALSE
  OBVIOUS
<1>1. PICK m \in Nat \ T : \A k \in Nat \ T : ~ (<<k, m>> \in OpToRel(<, Nat))
  BY NatLessThanWellFounded, WFMin
<1>2. \A k \in Nat \ T : k < m => <<k, m>> \in OpToRel(<, Nat)
  BY Zenon DEF OpToRel
<1>3. \A k \in Nat \ T : ~ (k < m)
  BY <1>1, <1>2, Zenon
<1>4. m # 0 /\ m - 1 \in Nat
  OBVIOUS
<1>5. m - 1 \in T
  BY <1>3, <1>4
<1> QED
  BY <1>4, <1>5

(* The way up from node n, in l steps. *)
Climbing(nodes, n, l, up) ==
    up = [i \in 0..l |-> IF i = 0 THEN {n}
                         ELSE up[i - 1] \cup {nodes[k].parent : k \in up[i - 1] \cap DOMAIN nodes}]

(* It can be climbed as far as one likes, so that the recursion of Branch *)
(* defines a function.                                                    *)
LEMMA ClimbingExists == ASSUME NEW nodes, NEW n PROVE \A l \in Nat : \E up : Climbing(nodes, n, l, up)
<1> DEFINE T == {l \in Nat : \E up : Climbing(nodes, n, l, up)}
           Onward(S) == S \cup {nodes[k].parent : k \in S \cap DOMAIN nodes}
<1>1. 0 \in T
  <2>1. Climbing(nodes, n, 0, [i \in 0..0 |-> {n}])
    BY DEF Climbing
  <2> QED
    BY <2>1
<1>2. ASSUME NEW l \in T PROVE l + 1 \in T
  <2>1. PICK up : Climbing(nodes, n, l, up)
    OBVIOUS
  <2>2. up = [i \in 0..l |-> IF i = 0 THEN {n} ELSE Onward(up[i - 1])]
    BY <2>1 DEF Climbing
  <2> DEFINE more == [i \in 0..l + 1 |-> IF i = l + 1 THEN Onward(up[l]) ELSE up[i]]
  <2> HIDE DEF Onward
  <2>3. l \in Nat /\ l + 1 \in Nat /\ l + 1 # 0
    OBVIOUS
  <2>4. ASSUME NEW i \in 0..l + 1 PROVE more[i] = IF i = 0 THEN {n} ELSE Onward(more[i - 1])
    <3>1. CASE i = l + 1
      <4>1. i - 1 = l /\ i - 1 # l + 1 /\ i - 1 \in 0..l + 1
        BY <2>3, <3>1
      <4> QED
        BY <2>3, <3>1, <4>1
    <3>2. CASE i = 0
      <4>1. 0 \in 0..l /\ up[0] = {n}
        BY <2>2, <2>3
      <4> QED
        BY <2>3, <3>2, <4>1
    <3>3. CASE i # 0 /\ i # l + 1
      <4>1. i \in 0..l /\ i - 1 \in 0..l + 1 /\ i - 1 # l + 1
        BY <2>3, <3>3
      <4>2. up[i] = Onward(up[i - 1])
        BY <2>2, <3>3, <4>1
      <4> QED
        BY <3>3, <4>1, <4>2
    <3> QED
      BY <3>1, <3>2, <3>3
  <2>5. more = [i \in 0..l + 1 |-> IF i = 0 THEN {n} ELSE Onward(more[i - 1])]
    <3>1. more = [i \in 0..l + 1 |-> more[i]]
      OBVIOUS
    <3> HIDE DEF more
    <3> QED
      BY <2>4, <3>1
  <2> HIDE DEF more
  <2>6. Climbing(nodes, n, l + 1, more)
    BY <2>5 DEF Climbing, Onward
  <2> QED
    BY <2>6
<1> HIDE DEF T
<1>3. Nat \subseteq T
  BY <1>1, <1>2, Induction
<1> QED
  BY <1>3 DEF T

(* Parents come first. *)
Ends(nodes) == \A i \in DOMAIN nodes : nodes[i].parent < i

(* What has the parents of all it has. *)
ClosedUp(nodes, S) == \A k \in S \cap DOMAIN nodes : nodes[k].parent \in S

(* A branch is climbed in as many steps as there are nodes. *)
LEMMA BranchIsClimbed ==
    ASSUME NEW nodes, Len(nodes) \in Nat, NEW n
    PROVE  \E up : /\ Climbing(nodes, n, Len(nodes), up)
                   /\ Branch(nodes, n) = {nodes[k].entry : k \in up[Len(nodes)] \cap DOMAIN nodes}
<1> DEFINE up == CHOOSE up : up = [i \in 0..Len(nodes) |->
                        IF i = 0 THEN {n}
                        ELSE up[i - 1] \cup {nodes[k].parent : k \in up[i - 1] \cap DOMAIN nodes}]
<1>1. \E a : Climbing(nodes, n, Len(nodes), a)
  BY ClimbingExists
<1>2. Climbing(nodes, n, Len(nodes), up)
  BY <1>1 DEF Climbing
<1>3. Branch(nodes, n) = {nodes[k].entry : k \in up[Len(nodes)] \cap DOMAIN nodes}
  BY DEF Branch
<1> HIDE DEF up
<1> QED
  BY <1>2, <1>3

(* The nodes of a branch are the least that have their parents and its leaf. *)
LEMMA WayUp ==
    ASSUME NEW nodes \in Seq(Node), Ends(nodes), NEW n \in 0..Len(nodes)
    PROVE  \E way \in SUBSET (0..n) :
              /\ n \in way /\ ClosedUp(nodes, way)
              /\ \A S : n \in S /\ ClosedUp(nodes, S) => way \subseteq S
              /\ Branch(nodes, n) = {nodes[k].entry : k \in way \cap DOMAIN nodes}
<1> DEFINE L == Len(nodes)
<1>1. /\ L \in Nat /\ n \in Nat /\ n <= L /\ DOMAIN nodes = 1..L
      /\ \A k \in 1..L : nodes[k].parent \in Nat /\ nodes[k].parent < k
  <2>1. \A k \in 1..Len(nodes) : nodes[k] \in Node
    OBVIOUS
  <2> QED
    BY <2>1 DEF Ends, Node
<1> HIDE DEF L
<1>2. PICK up : /\ Climbing(nodes, n, L, up)
                /\ Branch(nodes, n) = {nodes[k].entry : k \in up[L] \cap DOMAIN nodes}
  BY <1>1, BranchIsClimbed DEF L
<1>3. /\ up[0] = {n}
      /\ \A i \in 0..L : i + 1 <= L =>
            up[i + 1] = up[i] \cup {nodes[k].parent : k \in up[i] \cap DOMAIN nodes}
  <2>1. up = [i \in 0..L |-> IF i = 0 THEN {n}
                              ELSE up[i - 1] \cup {nodes[k].parent : k \in up[i - 1] \cap DOMAIN nodes}]
    BY <1>2 DEF Climbing
  <2>2. up[0] = {n}
    BY <1>1, <2>1
  <2>3. ASSUME NEW i \in 0..L, i + 1 <= L
        PROVE  up[i + 1] = up[i] \cup {nodes[k].parent : k \in up[i] \cap DOMAIN nodes}
    <3>1. i + 1 \in 0..L /\ i + 1 # 0 /\ (i + 1) - 1 = i
      BY <1>1, <2>3
    <3>2. \A j \in 0..L : j # 0 => up[j] = up[j - 1] \cup {nodes[k].parent : k \in up[j - 1] \cap DOMAIN nodes}
      BY <2>1
    <3>3. up[i + 1] = up[(i + 1) - 1] \cup {nodes[k].parent : k \in up[(i + 1) - 1] \cap DOMAIN nodes}
      BY <3>1, <3>2
    <3> QED
      BY <3>1, <3>3
  <2> QED
    BY <2>2, <2>3
(* The i-th step adds nodes i below the leaf, or lower. *)
<1>4. \A i \in Nat : i <= L =>
          /\ up[i] \subseteq 0..n /\ n \in up[i]
          /\ \A k \in up[i] : k + i <= n \/ (i > 0 /\ k \in up[i - 1])
          /\ \A S : n \in S /\ ClosedUp(nodes, S) => up[i] \subseteq S
  <2> DEFINE Good(i) == /\ up[i] \subseteq 0..n /\ n \in up[i]
                        /\ \A k \in up[i] : k + i <= n \/ (i > 0 /\ k \in up[i - 1])
                        /\ \A S : n \in S /\ ClosedUp(nodes, S) => up[i] \subseteq S
             T == {i \in Nat : i <= L => Good(i)}
  <2>1. 0 \in T
    BY <1>1, <1>3
  <2>2. ASSUME NEW i \in Nat, i \in T PROVE i + 1 \in T
    <3> SUFFICES ASSUME i + 1 <= L PROVE Good(i + 1)
      OBVIOUS
    <3>1. i \in 0..L /\ Good(i) /\ (i + 1) - 1 = i
      BY <1>1, <2>2
    <3>2. up[i + 1] = up[i] \cup {nodes[k].parent : k \in up[i] \cap 1..L}
      BY <1>1, <1>3, <3>1
    <3>3. \A k \in up[i] \cap 1..L : nodes[k].parent \in 0..n /\ nodes[k].parent < k
      BY <1>1, <3>1
    <3>4. up[i + 1] \subseteq 0..n /\ n \in up[i + 1]
      BY <3>1, <3>2, <3>3
    <3>5. ASSUME NEW k \in up[i + 1] PROVE k + (i + 1) <= n \/ k \in up[i]
      <4>1. CASE k \in up[i]
        BY <4>1
      <4>2. CASE k \notin up[i]
        <5>1. PICK j \in up[i] \cap 1..L : k = nodes[j].parent
          BY <3>2, <4>2
        <5>2. j + i <= n \/ (i > 0 /\ j \in up[i - 1])
          BY <3>1
        <5>3. CASE j + i <= n
          <6>1. k < j /\ k \in Nat /\ j \in Nat
            BY <1>1, <5>1
          <6> QED
            BY <1>1, <5>3, <6>1
        <5>4. CASE i > 0 /\ j \in up[i - 1]
          <6>1. i - 1 \in 0..L /\ (i - 1) + 1 = i /\ i <= L
            BY <1>1, <3>1, <5>4
          <6>2. up[i] = up[i - 1] \cup {nodes[m].parent : m \in up[i - 1] \cap DOMAIN nodes}
            BY <1>3, <6>1
          <6>3. k \in up[i]
            BY <1>1, <5>1, <5>4, <6>2
          <6> QED
            BY <6>3
        <5> QED
          BY <5>2, <5>3, <5>4
      <4> QED
        BY <4>1, <4>2
    <3>6. \A S : n \in S /\ ClosedUp(nodes, S) => up[i + 1] \subseteq S
      <4> SUFFICES ASSUME NEW S, n \in S, ClosedUp(nodes, S) PROVE up[i + 1] \subseteq S
        OBVIOUS
      <4>1. up[i] \subseteq S
        BY <3>1
      <4> QED
        BY <1>1, <3>2, <4>1 DEF ClosedUp
    <3> QED
      BY <3>1, <3>4, <3>5, <3>6
  <2> HIDE DEF T
  <2>3. Nat \subseteq T
    BY <2>1, <2>2, Induction
  <2> QED
    BY <2>3 DEF T
<1>5. ClosedUp(nodes, up[L])
  <2> SUFFICES ASSUME NEW k \in up[L], k \in 1..L PROVE nodes[k].parent \in up[L]
    BY <1>1 DEF ClosedUp
  <2>1. L > 0 /\ L - 1 \in 0..L /\ (L - 1) + 1 = L
    BY <1>1
  <2>2. k + L <= n \/ k \in up[L - 1]
    BY <1>1, <1>4
  <2>3. k \in up[L - 1]
    BY <1>1, <2>2
  <2>4. up[L] = up[L - 1] \cup {nodes[m].parent : m \in up[L - 1] \cap DOMAIN nodes}
    BY <1>3, <2>1
  <2> QED
    BY <1>1, <2>3, <2>4
<1> QED
  BY <1>1, <1>2, <1>4, <1>5

(* A branch of a tree that grows stays what it was.                         *)
LEMMA BranchStays ==
    ASSUME NEW nodes \in Seq(Node), Ends(nodes), NEW n \in 0..Len(nodes),
           NEW x \in Node, x.parent <= Len(nodes)
    PROVE  /\ Ends(Append(nodes, x))
           /\ Branch(Append(nodes, x), n) = Branch(nodes, n)
           /\ Branch(Append(nodes, x), Len(nodes) + 1) =
                  {x.entry} \cup Branch(nodes, x.parent)
<1> DEFINE more == Append(nodes, x)
           L == Len(nodes)
<1>1. /\ L \in Nat /\ DOMAIN nodes = 1..L /\ DOMAIN more = 1..L + 1 /\ Len(more) = L + 1
      /\ more \in Seq(Node) /\ more[L + 1] = x /\ \A k \in 1..L : more[k] = nodes[k]
      /\ x.parent \in 0..L
  BY DEF Node
<1>2. Ends(more)
  BY <1>1 DEF Ends
<1> HIDE DEF more, L
<1>3. ASSUME NEW m \in 0..L PROVE Branch(more, m) = Branch(nodes, m)
  <2>1. PICK a \in SUBSET (0..m) : /\ m \in a /\ ClosedUp(nodes, a)
              /\ \A S : m \in S /\ ClosedUp(nodes, S) => a \subseteq S
              /\ Branch(nodes, m) = {nodes[k].entry : k \in a \cap DOMAIN nodes}
    BY WayUp DEF L
  <2>2. PICK b \in SUBSET (0..m) : /\ m \in b /\ ClosedUp(more, b)
              /\ \A S : m \in S /\ ClosedUp(more, S) => b \subseteq S
              /\ Branch(more, m) = {more[k].entry : k \in b \cap DOMAIN more}
    <3>1. m \in 0..Len(more)
      BY <1>1
    <3> QED
      BY <1>1, <1>2, <3>1, WayUp
  <2>3. a \cap DOMAIN more = a \cap DOMAIN nodes /\ b \cap DOMAIN more = b \cap DOMAIN nodes
    BY <1>1
  <2>4. ClosedUp(more, a) /\ ClosedUp(nodes, b)
    BY <1>1, <2>1, <2>2, <2>3 DEF ClosedUp
  <2>5. a = b
    <3>1. a \subseteq b
      BY <2>1, <2>2, <2>4
    <3>2. b \subseteq a
      BY <2>1, <2>2, <2>4
    <3> QED
      BY <3>1, <3>2
  <2>6. \A k \in a \cap DOMAIN nodes : more[k].entry = nodes[k].entry
    BY <1>1
  <2>7. Branch(more, m) = {more[k].entry : k \in a \cap DOMAIN nodes}
    BY <2>2, <2>3, <2>5
  <2>8. Branch(nodes, m) = {nodes[k].entry : k \in a \cap DOMAIN nodes}
    BY <2>1
  <2> QED
    BY <2>6, <2>7, <2>8
<1>4. Branch(more, L + 1) = {x.entry} \cup Branch(nodes, x.parent)
  <2>1. PICK a \in SUBSET (0..x.parent) : /\ x.parent \in a /\ ClosedUp(nodes, a)
              /\ \A S : x.parent \in S /\ ClosedUp(nodes, S) => a \subseteq S
              /\ Branch(nodes, x.parent) = {nodes[k].entry : k \in a \cap DOMAIN nodes}
    BY <1>1, WayUp DEF L
  <2>2. PICK b \in SUBSET (0..L + 1) : /\ L + 1 \in b /\ ClosedUp(more, b)
              /\ \A S : L + 1 \in S /\ ClosedUp(more, S) => b \subseteq S
              /\ Branch(more, L + 1) = {more[k].entry : k \in b \cap DOMAIN more}
    <3>1. L + 1 \in 0..Len(more)
      BY <1>1
    <3> QED
      BY <1>1, <1>2, <3>1, WayUp
  <2>3. b \subseteq {L + 1} \cup a
    <3>1. a \cap DOMAIN more = a \cap DOMAIN nodes
      BY <1>1, <2>1
    <3>2. ClosedUp(more, {L + 1} \cup a)
      BY <1>1, <2>1, <3>1 DEF ClosedUp
    <3> QED
      BY <2>2, <3>2
  <2>4. a \subseteq b
    <3>1. x.parent \in b
      BY <1>1, <2>2 DEF ClosedUp
    <3>2. ClosedUp(nodes, b)
      BY <1>1, <2>2 DEF ClosedUp
    <3> QED
      BY <2>1, <3>1, <3>2
  <2>5. b \cap DOMAIN more = {L + 1} \cup (a \cap DOMAIN nodes)
    BY <1>1, <2>1, <2>2, <2>3, <2>4
  <2>6. {more[k].entry : k \in b \cap DOMAIN more} = {x.entry} \cup {nodes[k].entry : k \in a \cap DOMAIN nodes}
    <3>1. \A k \in a \cap DOMAIN nodes : more[k] = nodes[k]
      BY <1>1
    <3> QED
      BY <1>1, <2>5, <3>1
  <2> QED
    BY <2>1, <2>2, <2>6
<1>5. n \in 0..L
  BY DEF L
<1> QED
  BY <1>2, <1>3, <1>4, <1>5 DEF more, L

(* The branch of the root is empty. *)
LEMMA BranchOfRoot ==
    ASSUME NEW nodes \in Seq(Node), Ends(nodes)
    PROVE  Branch(nodes, 0) = {}
<1>1. 0 \in 0..Len(nodes) /\ 0 \notin DOMAIN nodes
  OBVIOUS
<1>2. PICK way \in SUBSET (0..0) : Branch(nodes, 0) = {nodes[k].entry : k \in way \cap DOMAIN nodes}
  BY <1>1, WayUp
<1> QED
  BY <1>1, <1>2

(* An entry of c, or one that the summary c may see. *)
Owned(x, c) ==
    /\ x.of \in (IF x.what = "message" THEN DOMAIN messages ELSE DOMAIN prompts)
    /\ ConvOf(x) = c \/ (Summary(c) /\ ConvOf(x) = Default)

(* The branch of a conversation has what was said in it, and what it may see. *)
HeadIsExact(c) ==
    LET branch == Branch(tree[session], conv[c].head) IN
    /\ conv[c].head \in 0..Len(tree[session])
    /\ \A x \in branch : Owned(x, c)
    /\ \A x \in said : x.conv = c /\ x.session = session => x.entry \in branch

(* The trees of the sessions, and the branches in that of the session. *)
TreeInv ==
    /\ \A s \in 1..MaxSessions : Ends(tree[s])
    /\ \A c \in conversations : HeadIsExact(c)

(* What was said is in the history of its session. *)
SaidInv ==
    \A x \in said : /\ x.session <= session
                    /\ x.conv # Default => Known(x.conv)
                    /\ Nodes(x.session, x.entry) # {}

(* A prompt has what was said, and nothing of the others. *)
SentIsExact(p) ==
    /\ prompts[p].missing = {}
    /\ \A x \in prompts[p].seen : Owned(x, prompts[p].conv)

SentInv == \A p \in DOMAIN prompts : SentIsExact(p)

(* A queue has messages of its own conversation. *)
WaitingInv ==
    \A c \in conversations : \A m \in Range(conv[c].pending_prompts) : messages[m].conv = c

(* What is published for a conversation is its own. *)
Own(t) ==
    /\ t.kind \in UserKinds =>
            /\ t.conv # None => t.of \in DOMAIN messages /\ messages[t.of].conv = t.conv
            /\ t.conv \in conversations => t.session = session
    /\ t.kind = "response_finished" =>
            t.of \in prompt_conversations /\ prompts[t.of].conv = t.conv
    /\ t.kind = "tool_result" =>
            t.of \in tool_conversations /\ prompts[t.of].conv = t.conv

WorkInv == \A t \in Range(work) : Own(t)

BranchInv == TreeInv /\ SaidInv /\ SentInv /\ WaitingInv /\ WorkInv

(* What was asked and what was sent stay what they were. *)
Grew ==
    /\ \A m \in DOMAIN messages : m \in DOMAIN messages' /\ messages'[m] = messages[m]
    /\ \A p \in DOMAIN prompts : p \in DOMAIN prompts' /\ prompts'[p] = prompts[p]

(* What is appended comes last; the rest stays. *)
LEMMA AppendGrows ==
    ASSUME NEW S, NEW s \in Seq(S), NEW x
    PROVE  /\ \A i \in DOMAIN s : i \in DOMAIN Append(s, x) /\ Append(s, x)[i] = s[i]
           /\ Len(s) + 1 \in DOMAIN Append(s, x) /\ Append(s, x)[Len(s) + 1] = x
           /\ DOMAIN Append(s, x) = DOMAIN s \cup {Len(s) + 1}
<1>1. /\ Len(s) \in Nat /\ DOMAIN s = 1..Len(s) /\ DOMAIN Append(s, x) = 1..(Len(s) + 1)
      /\ \A i \in 1..Len(s) : Append(s, x)[i] = s[i]
      /\ Append(s, x)[Len(s) + 1] = x
  OBVIOUS
<1> QED
  BY <1>1

(* No step takes back a message or a prompt. *)
LEMMA HistoryGrows == ASSUME TypeInv, [Next]_vars PROVE Grew
<1>1. messages \in Seq(Message) /\ prompts \in Seq(Prompt)
  BY DEF TypeInv
<1>2. ASSUME UNCHANGED <<messages, prompts>> PROVE Grew
  BY <1>2 DEF Grew
<1>3. ASSUME NEW x, messages' = Append(messages, x), prompts' = prompts PROVE Grew
  <2>1. \A m \in DOMAIN messages : m \in DOMAIN messages' /\ messages'[m] = messages[m]
    BY <1>1, <1>3, AppendGrows
  <2> QED
    BY <1>3, <2>1 DEF Grew
<1>4. ASSUME NEW x, prompts' = Append(prompts, x), messages' = messages PROVE Grew
  <2>1. \A m \in DOMAIN prompts : m \in DOMAIN prompts' /\ prompts'[m] = prompts[m]
    BY <1>1, <1>4, AppendGrows
  <2> QED
    BY <1>4, <2>1 DEF Grew
<1>5. ASSUME NEW found, NEW s, NEW rest, CompleteInit(found, s, rest), prompts' = prompts PROVE Grew
  BY <1>2, <1>3, <1>5 DEF CompleteInit, NewMessage
<1>6. CASE SendPrompt
  BY <1>4, <1>6 DEF SendPrompt
<1>7. CASE prompts' # prompts
  BY <1>6, <1>7, OnlySendPrompts
<1>8. CASE prompts' = prompts
  <2>1. CASE EnqueuePublish \/ DrainDeferred \/ TryAdvanceQueue \/ DispatchOrAwait
             \/ TurnEnds \/ ToolsStart \/ MaybeCompleteTurn \/ ClearTracking \/ Respawn
             \/ InterceptReply \/ InterceptorGone \/ CancelPrompt
    BY <1>2, <1>8, <2>1 DEF EnqueuePublish, DrainDeferred, TryAdvanceQueue, DispatchOrAwait,
       TurnEnds, ToolsStart, MaybeCompleteTurn, ClearTracking, Respawn, InterceptReply, InterceptorGone,
       CancelPrompt
  <2>2. CASE SubmitUserPrompt
    BY <1>3, <2>2 DEF SubmitUserPrompt, NewMessage
  <2>3. CASE SwitchSession
    BY <1>2, <1>5, <2>3 DEF SwitchSession
  <2>4. ASSUME NEW s, ShellFinished(s) PROVE Grew
    BY <1>3, <2>4 DEF ShellFinished, NewMessage
  <2>5. ASSUME NEW v, ExtensionGone(v) PROVE Grew
    BY <1>2, <1>5, <1>8, <2>5 DEF ExtensionGone
  <2>6. ASSUME NEW v, ExtensionSubscribes(v) \/ ExtensionReady(v) PROVE Grew
    BY <1>2, <2>6 DEF ExtensionSubscribes, ExtensionReady
  <2>7. ASSUME NEW v, NEW s, ContextReady(v, s) PROVE Grew
    BY <1>2, <1>5, <1>8, <2>7 DEF ContextReady
  <2>8. ASSUME NEW p, NEW how, AgentResponds(p, how) PROVE Grew
    BY <1>2, <2>8 DEF AgentResponds
  <2>9. ASSUME NEW p, ToolFinishes(p) PROVE Grew
    BY <1>2, <2>9 DEF ToolFinishes
  <2>10. ASSUME NEW q, AgentQuery(q) PROVE Grew
    BY <1>3, <2>10 DEF AgentQuery, NewMessage
  <2>11. CASE UNCHANGED vars
    BY <1>2, <2>11 DEF vars
  <2>12. CASE SendPrompt
    BY <1>6, <2>12
  <2> QED
    BY <2>1, <2>2, <2>3, <2>4, <2>5, <2>6, <2>7, <2>8, <2>9, <2>10, <2>11, <2>12 DEF Next, Handler
<1> QED
  BY <1>7, <1>8

(* An entry stays its conversation's. *)
LEMMA OwnedStays == ASSUME Grew, NEW x, NEW c, Owned(x, c) PROVE Owned(x, c)'
BY DEF Grew, Owned, ConvOf, Summary

(* A prompt that was sent stays exact. *)
LEMMA SentStays == ASSUME Grew, NEW p \in DOMAIN prompts, SentIsExact(p) PROVE SentIsExact(p)'
<1>1. prompts'[p] = prompts[p]
  BY DEF Grew
<1>2. PICK c : c = prompts[p].conv
  OBVIOUS
<1>3. \A x \in prompts[p].seen : Owned(x, c)'
  BY <1>2, OwnedStays DEF SentIsExact
<1>4. \A x \in prompts'[p].seen : Owned(x, prompts[p].conv)'
  BY <1>1, <1>2, <1>3 DEF Owned
<1> QED
  BY <1>1, <1>4 DEF SentIsExact

(* A conversation that was asked for stays so. *)
LEMMA KnownGrows == ASSUME Grew, NEW c, Known(c) PROVE Known(c)'
BY DEF Grew, Known

(* A branch that is what it was is exact if nothing else was said. *)
LEMMA ExactStays ==
    ASSUME Grew, NEW c, HeadIsExact(c), session' = session,
           conv'[c].head \in 0..Len(tree'[session]),
           Branch(tree'[session], conv'[c].head) = Branch(tree[session], conv[c].head),
           \A x \in said' : x.conv = c => x \in said
    PROVE  HeadIsExact(c)'
<1> DEFINE branch == Branch(tree[session], conv[c].head)
<1>1. Branch(tree'[session'], conv'[c].head) = branch
  OBVIOUS
<1>2. \A x \in branch : Owned(x, c)'
  BY OwnedStays DEF HeadIsExact
<1>3. \A x \in said' : x.conv = c /\ x.session = session' => x.entry \in branch
  BY DEF HeadIsExact
<1> HIDE DEF branch
<1> QED
  BY <1>1, <1>2, <1>3 DEF HeadIsExact

(* A task stays its conversation's while nothing is forgotten. *)
LEMMA OwnStays ==
    ASSUME TypeInv, Grew, NEW t, Own(t), session' = session, t.conv \in conversations' => t.conv \in conversations,
           prompt_conversations \subseteq prompt_conversations', tool_conversations \subseteq tool_conversations'
    PROVE  Own(t)'
<1>0. prompt_conversations \subseteq DOMAIN prompts /\ tool_conversations \subseteq DOMAIN prompts
  <2>1. prompts \in Seq(Prompt) /\ prompt_conversations \subseteq 1..Len(prompts)
        /\ tool_conversations \subseteq 1..Len(prompts)
    BY DEF TypeInv
  <2> QED
    BY <2>1
<1>1. t.kind = "response_finished" => t.of \in DOMAIN prompts
  BY <1>0 DEF Own
<1>2. t.kind = "tool_result" => t.of \in DOMAIN prompts
  BY <1>0 DEF Own
<1> QED
  BY <1>1, <1>2 DEF Grew, Own

(* A task that publishes nothing. *)
LEMMA NoneIsOwn == ASSUME NEW t, t.kind = "none" PROVE Own(t) /\ Own(t)'
BY DEF Own, UserKinds

(* A step that only queues, dispatches or forgets. *)
LEMMA BranchRests ==
    ASSUME TypeInv, BranchInv, Grew, UNCHANGED <<tree, session, said, prompts>>,
           conversations' \subseteq conversations,
           \A c \in conversations' :
              /\ conv'[c].head = conv[c].head
              /\ \A m \in Range(conv'[c].pending_prompts) :
                    m \in Range(conv[c].pending_prompts) \/ messages'[m].conv = c,
           \A t \in Range(work') : Own(t)'
    PROVE  BranchInv'
<1>1. TreeInv'
  <2>1. ASSUME NEW c \in conversations' PROVE HeadIsExact(c)'
    <3>1. HeadIsExact(c) /\ conv[c].head \in 0..Len(tree[session])
      BY <2>1 DEF BranchInv, TreeInv, HeadIsExact
    <3>2. conv'[c].head = conv[c].head
      OBVIOUS
    <3> QED
      BY <3>1, <3>2, ExactStays
  <2> QED
    BY <2>1 DEF BranchInv, TreeInv
<1>2. SaidInv'
  BY KnownGrows DEF BranchInv, SaidInv, Nodes
<1>3. SentInv'
  BY SentStays DEF BranchInv, SentInv
<1>4. WaitingInv'
  <2> SUFFICES ASSUME NEW c \in conversations', NEW m \in Range(conv'[c].pending_prompts) PROVE messages'[m].conv = c
    BY DEF WaitingInv
  <2>1. CASE m \in Range(conv[c].pending_prompts)
    <3>1. messages[m].conv = c
      BY <2>1 DEF BranchInv, WaitingInv
    <3>2. conv[c].pending_prompts \in Seq(1..Len(messages)) /\ messages \in Seq(Message)
      BY DEF TypeInv, GoodConversation
    <3>3. m \in DOMAIN messages
      BY <2>1, <3>2 DEF Range
    <3> QED
      BY <3>1, <3>3 DEF Grew
  <2> QED
    BY <2>1
<1>5. WorkInv'
  BY DEF WorkInv
<1> QED
  BY <1>1, <1>2, <1>3, <1>4, <1>5 DEF BranchInv

(* What the running handler has still to do stays its own. *)
LEMMA TailIsOwn ==
    ASSUME TypeInv, Grew, WorkInv, work # <<>>, session' = session, conversations' \subseteq conversations,
           prompt_conversations \subseteq prompt_conversations', tool_conversations \subseteq tool_conversations',
           NEW S, NEW tasks \in Seq(S), work' = tasks \o Tail(work), \A t \in Range(tasks) : Own(t)'
    PROVE  \A t \in Range(work') : Own(t)'
<1> DEFINE U == S \cup GoodTask(Len(prompts))
<1>1. tasks \in Seq(U) /\ Tail(work) \in Seq(U)
  <2>1. Tail(work) \in Seq(GoodTask(Len(prompts)))
    BY HeadTypes
  <2> QED
    BY <2>1, SeqGrows
<1>2. \A s, t \in Seq(U) : Range(s \o t) = Range(s) \cup Range(t)
  BY RangeOfParts
<1> HIDE DEF U
<1>3. Range(work') = Range(tasks) \cup Range(Tail(work))
  BY <1>1, <1>2
<1>4. Range(Tail(work)) \subseteq Range(work)
  BY RangeOfWork
<1>5. \A t \in Range(Tail(work)) : Own(t)'
  BY <1>4, OwnStays DEF WorkInv
<1> QED
  BY <1>3, <1>5

(* A message is published for its conversation. *)
LEMMA MessageIsOwn ==
    ASSUME NEW kind \in UserKinds, NEW c, NEW m \in DOMAIN messages', messages'[m].conv = c,
           NEW t, t = Publish(kind, c, m, session')
    PROVE  Own(t)'
<1>1. t.kind = kind /\ t.conv = c /\ t.of = m /\ t.session = session'
  BY DEF Publish
<1>2. kind # "response_finished" /\ kind # "tool_result"
  BY DEF UserKinds
<1> QED
  BY <1>1, <1>2 DEF Own

(* The tasks that publish nothing. *)
LEMMA DoIsOwn == ASSUME NEW op, NEW c, NEW n, NEW t, t = Do(op, c, n) PROVE Own(t)'
BY NoneIsOwn DEF Do

(* try_advance_queue. *)
LEMMA AdvanceBranches ==
    ASSUME TypeInv, Grew, BranchInv, TryAdvanceQueue
    PROVE  BranchInv'
<1>1. /\ UNCHANGED <<tree, session, said, prompts, conversations, messages, prompt_conversations, tool_conversations>>
      /\ work # <<>>
  BY DEF TryAdvanceQueue, gates, tracking, Doing
<1>2. ASSUME NEW c \in Runnable, conv' = [conv EXCEPT ![c].pending_prompts = Tail(@)],
             work' = Dispatch(c, Head(conv[c].pending_prompts)) \o work
      PROVE  BranchInv'
  <2> DEFINE m == Head(conv[c].pending_prompts)
             T == GoodTask(Len(prompts))
  <2>1. /\ c \in conversations /\ c \in Convs
        /\ conv \in [Convs -> GoodConversation(Len(prompts), Len(messages))]
        /\ conv[c].pending_prompts \in Seq(1..Len(messages)) /\ conv[c].pending_prompts # <<>>
    BY DEF TypeInv, Runnable, GoodConversation
  <2>2. /\ Range(conv[c].pending_prompts) = {m} \cup Range(Tail(conv[c].pending_prompts))
        /\ m \in 1..Len(messages)
    <3> DEFINE q == conv[c].pending_prompts
    <3> HIDE DEF q
    <3>1. \A s \in Seq(1..Len(messages)) : s # <<>> => Range(s) = {Head(s)} \cup Range(Tail(s))
      BY RangeOfParts
    <3>2. q \in Seq(1..Len(messages)) /\ q # <<>>
      BY <2>1 DEF q
    <3>3. Range(q) = {Head(q)} \cup Range(Tail(q)) /\ Head(q) \in 1..Len(messages)
      BY <3>1, <3>2
    <3> QED
      BY <3>3 DEF q
  <2>3. \A d \in Convs : /\ conv'[d].head = conv[d].head
                         /\ d # c => conv'[d] = conv[d]
    BY <1>2, <2>1 DEF GoodConversation
  <2>4. conv'[c].pending_prompts = Tail(conv[c].pending_prompts)
    BY <1>2, <2>1 DEF GoodConversation
  <2>5. ASSUME NEW d \in conversations, NEW n \in Range(conv'[d].pending_prompts)
        PROVE  n \in Range(conv[d].pending_prompts)
    BY <2>2, <2>3, <2>4, <2>5 DEF TypeInv
  <2>6. m \in DOMAIN messages /\ messages[m].conv = c
    <3>1. messages \in Seq(Message)
      BY DEF TypeInv
    <3>2. messages[m].conv = c
      BY <2>1, <2>2 DEF BranchInv, WaitingInv
    <3> QED
      BY <2>2, <3>1, <3>2
  <2>7. \A t \in Range(work') : Own(t)'
    <3>1. Range(work') = Range(Dispatch(c, m)) \cup Range(work)
      <4>1. Dispatch(c, m) \in Seq(T)
        <5>1. m \in Nat
          BY <2>2
        <5> QED
          BY <2>1, <5>1, DispatchTypes
      <4>2. work \in Seq(T) /\ work' = Dispatch(c, m) \o work
        BY <1>2 DEF TypeInv
      <4>3. \A s, t \in Seq(T) : Range(s \o t) = Range(s) \cup Range(t)
        BY RangeOfParts
      <4> HIDE DEF m, T
      <4> QED
        BY <4>1, <4>2, <4>3
    <3>2. Range(Dispatch(c, m)) = {Publish("prompt_submitted", c, m, session), Do("dispatch", c, 0)}
      BY TasksOfDispatch
    <3>3. \A t : t = Publish("prompt_submitted", c, m, session) => Own(t)'
      <4>1. m \in DOMAIN messages' /\ messages'[m].conv = c /\ session' = session
        BY <1>1, <2>6
      <4>2. "prompt_submitted" \in UserKinds
        BY DEF UserKinds
      <4> HIDE DEF m
      <4> QED
        BY <4>1, <4>2, MessageIsOwn
    <3>4. \A t \in Range(work) : Own(t)'
      BY <1>1, OwnStays DEF BranchInv, WorkInv
    <3>5. \A t : t = Do("dispatch", c, 0) => Own(t)'
      BY DoIsOwn
    <3> QED
      BY <3>1, <3>2, <3>3, <3>4, <3>5
  <2> QED
    BY <1>1, <2>3, <2>5, <2>7, BranchRests DEF TypeInv
<1>3. ASSUME Then(<<>>), UNCHANGED conv PROVE BranchInv'
  <2>1. \A t \in Range(work') : Own(t)'
    <3>1. <<>> \in Seq({}) /\ work' = <<>> \o Tail(work) /\ Range(<<>>) = {}
      BY <1>3, RangeOfParts DEF Then
    <3> QED
      BY <1>1, <3>1, TailIsOwn DEF BranchInv
  <2> QED
    BY <1>1, <1>3, <2>1, BranchRests
<1> QED
  BY <1>2, <1>3 DEF TryAdvanceQueue

(* A step of the handler that leaves conversations and histories alone. *)
LEMMA HandlerRests ==
    ASSUME TypeInv, Grew, BranchInv, work # <<>>,
           UNCHANGED <<tree, session, said, prompts, conversations, messages, prompt_conversations>>,
           tool_conversations' = tool_conversations \/ Tail(work) = <<>>,
           NEW S, NEW tasks \in Seq(S), Then(tasks), \A t \in Range(tasks) : Own(t)',
           \A c \in conversations : /\ conv'[c].head = conv[c].head
                                    /\ Range(conv'[c].pending_prompts) \subseteq Range(conv[c].pending_prompts)
    PROVE  BranchInv'
<1>1. \A t \in Range(work') : Own(t)'
  <2>1. CASE tool_conversations' = tool_conversations
    BY <2>1, TailIsOwn DEF Then, BranchInv
  <2>2. CASE Tail(work) = <<>>
    <3>1. work' = tasks
      BY <2>2 DEF Then
    <3> QED
      BY <3>1
  <2> QED
    BY <2>1, <2>2
<1> QED
  BY <1>1, BranchRests

(* The end of dispatch_prompt_for_conversation. *)
LEMMA DispatchBranches ==
    ASSUME TypeInv, Grew, DirectInv, BranchInv, DispatchOrAwait
    PROVE  BranchInv'
<1>1. /\ UNCHANGED <<tree, session, said, prompts, conversations, messages, prompt_conversations,
                     tool_conversations, conv>>
      /\ work # <<>> /\ Then(<<Do("send", Head(work).conv, 0)>>)
  BY DEF DispatchOrAwait, DirectInv, gates, tracking, Doing
<1>2. PICK a : a = Do("send", Head(work).conv, 0)
  OBVIOUS
<1>3. Own(a)'
  BY <1>2, DoIsOwn
<1>4. <<a>> \in Seq({a}) /\ Range(<<a>>) = {a}
  BY RangeOfLists
<1>5. Then(<<a>>)
  BY <1>1, <1>2
<1>6. \A t \in Range(<<a>>) : Own(t)'
  BY <1>3, <1>4
<1> QED
  BY <1>1, <1>4, <1>5, <1>6, HandlerRests

(* try_respawn_supervised_extension, and drain_deferred_publishes. *)
LEMMA RespawnBranches ==
    ASSUME TypeInv, Grew, BranchInv, Respawn \/ (DrainDeferred /\ DirectInv)
    PROVE  BranchInv'
<1>1. /\ UNCHANGED <<tree, session, said, prompts, conversations, messages, prompt_conversations,
                     tool_conversations, conv>>
      /\ work # <<>> /\ Then(<<>>)
  BY DEF Respawn, DrainDeferred, DirectInv, gates, tracking, Doing
<1>2. <<>> \in Seq({}) /\ Range(<<>>) = {}
  BY RangeOfParts
<1> QED
  BY <1>1, <1>2, HandlerRests

(* clear_tool_call_tracking. *)
LEMMA ClearBranches ==
    ASSUME TypeInv, AwaitInv, Grew, BranchInv, ClearTracking
    PROVE  BranchInv'
<1>1. /\ UNCHANGED <<tree, session, said, prompts, conversations, messages, prompt_conversations, conv>>
      /\ work # <<>> /\ Then(<<>>) /\ Head(work).op = "clear"
  BY DEF ClearTracking, gates, Doing
<1>2. <<>> \in Seq({}) /\ Range(<<>>) = {} /\ Tail(work) = <<>>
  BY <1>1, RangeOfParts, ClosingTask DEF Closing
<1> QED
  BY <1>1, <1>2, HandlerRests

(* send_prompt_to_agent_for: what the agent is sent is the branch. *)
LEMMA SendBranches ==
    ASSUME TypeInv, Grew, TurnInv, BranchInv, SendPrompt
    PROVE  BranchInv'
<1> DEFINE P == Len(prompts)
<1>0. PICK c \in Convs : c = Head(work).conv
  BY HeadTypes DEF SendPrompt, Doing
<1>1. /\ work # <<>> /\ Head(work).op = "send" /\ Head(work) \in Range(work) /\ P \in Nat
      /\ c \in conversations
  <2>1. work # <<>> /\ Head(work).op = "send" /\ Head(work) \in Range(work) /\ P \in Nat
    BY RangeOfWork, LengthTypes DEF SendPrompt, Doing
  <2> QED
    BY <1>0, <2>1 DEF TurnInv, Asks, MayAsk
<1>2. /\ conv' = [conv EXCEPT ![c].in_flight_prompt = P + 1, ![c].turn_state = "thinking",
                              ![c].remaining_calls = {}]
      /\ work' = <<Publish("prompt_created", None, P + 1, 0)>> \o Tail(work)
      /\ UNCHANGED <<conversations, tree, session, said, messages, tool_conversations>>
      /\ prompt_conversations \subseteq prompt_conversations'
  BY <1>0 DEF SendPrompt, Then, NextPrompt, gates
<1> DEFINE seen == Branch(tree[session], conv[c].head)
<1>3. prompts' = Append(prompts, [conv |-> c, session |-> session, seen |-> seen, missing |-> Missing(c, seen)])
  BY <1>0 DEF SendPrompt
<1>4. \A d \in Convs : conv'[d].head = conv[d].head /\ conv'[d].pending_prompts = conv[d].pending_prompts
  <2>1. conv \in [Convs -> GoodConversation(P, Len(messages))]
    BY DEF TypeInv
  <2> QED
    BY <1>2, <2>1 DEF GoodConversation
<1>5. DOMAIN prompts' = DOMAIN prompts \cup {P + 1} /\ P + 1 \in DOMAIN prompts'
      /\ prompts'[P + 1].conv = c /\ prompts'[P + 1].seen = seen /\ prompts'[P + 1].missing = Missing(c, seen)
  <2>1. PICK x : x = [conv |-> c, session |-> session, seen |-> seen, missing |-> Missing(c, seen)]
    OBVIOUS
  <2>2. x.conv = c /\ x.seen = seen /\ x.missing = Missing(c, seen)
    BY <2>1
  <2>3. prompts \in Seq(Prompt) /\ prompts' = Append(prompts, x)
    BY <1>3, <2>1 DEF TypeInv
  <2> HIDE DEF Prompt, seen
  <2>4. DOMAIN prompts' = DOMAIN prompts \cup {P + 1} /\ P + 1 \in DOMAIN prompts' /\ prompts'[P + 1] = x
    BY <2>3, AppendGrows
  <2> QED
    BY <2>2, <2>4
<1> HIDE DEF P
<1>6. HeadIsExact(c)
  BY <1>1 DEF BranchInv, TreeInv
<1>7. Missing(c, seen) = {} /\ \A x \in seen : Owned(x, c)'
  <2>1. \A x \in said : x.conv = c /\ x.session = session => x.entry \in seen
    BY <1>6 DEF HeadIsExact
  <2>2. \A x \in seen : Owned(x, c)
    BY <1>6 DEF HeadIsExact
  <2> HIDE DEF seen
  <2>3. Missing(c, seen) = {}
    BY <2>1 DEF Missing
  <2> QED
    BY <2>2, <2>3, OwnedStays
<1>8. SentInv'
  <2>1. \A p \in DOMAIN prompts : SentIsExact(p)'
    BY SentStays DEF BranchInv, SentInv
  <2>2. PICK p : p = P + 1
    OBVIOUS
  <2>3. \A x \in prompts'[p].seen : Owned(x, prompts[p].conv)'
    <3> HIDE DEF seen
    <3> QED
      BY <1>5, <1>7, <2>2 DEF Owned
  <2>4. SentIsExact(p)'
    BY <1>5, <1>7, <2>2, <2>3 DEF SentIsExact
  <2> QED
    BY <1>5, <2>1, <2>2, <2>4 DEF SentInv
<1> HIDE DEF seen
<1>9. TreeInv'
  <2>1. ASSUME NEW d \in conversations PROVE HeadIsExact(d)'
    <3>1. HeadIsExact(d) /\ conv[d].head \in 0..Len(tree[session]) /\ conv'[d].head = conv[d].head
      BY <1>4 DEF BranchInv, TreeInv, HeadIsExact, TypeInv
    <3> QED
      BY <1>2, <3>1, ExactStays
  <2> QED
    BY <1>2, <2>1 DEF BranchInv, TreeInv
<1>10. SaidInv'
  BY <1>2, KnownGrows DEF BranchInv, SaidInv, Nodes
<1>11. WaitingInv'
  BY <1>2, <1>4 DEF BranchInv, WaitingInv, TypeInv
<1>12. WorkInv'
  <2>1. PICK a : a = Publish("prompt_created", None, P + 1, 0)
    OBVIOUS
  <2>2. a.kind = "prompt_created"
    BY <2>1 DEF Publish
  <2>3. Own(a)'
    BY <2>2 DEF Own, UserKinds
  <2>4. <<a>> \in Seq({a}) /\ Range(<<a>>) = {a} /\ work' = <<a>> \o Tail(work)
    BY <1>2, <2>1, RangeOfLists
  <2>5. \A t \in Range(<<a>>) : Own(t)'
    BY <2>3, <2>4
  <2> QED
    BY <1>1, <1>2, <2>4, <2>5, TailIsOwn DEF BranchInv, WorkInv
<1> QED
  BY <1>8, <1>9, <1>10, <1>11, <1>12 DEF BranchInv

(* The end of a turn, or its tools. *)
LEMMA EndsBranches ==
    ASSUME TypeInv, AwaitInv, Grew, BranchInv, TurnEnds \/ ToolsStart
    PROVE  BranchInv'
<1> DEFINE c == Head(work).conv
<1>1. /\ UNCHANGED <<tree, session, said, prompts, messages>>
      /\ work # <<>> /\ Head(work).op \in Closing
      /\ conversations' \subseteq conversations
  BY DEF TurnEnds, ToolsStart, gates, Doing, Closing
<1>2. Tail(work) = <<>>
  BY <1>1, ClosingTask
<1>3. \A t \in Range(work') : Own(t)'
  <2>1. PICK a : a = Advance
    OBVIOUS
  <2>2. work' = <<a>> \o <<>> \/ work' = <<>> \o <<>>
    BY <1>2, <2>1 DEF TurnEnds, ToolsStart, Then
  <2>3. work' = <<a>> \/ work' = <<>>
    BY <2>2
  <2>4. Range(work') \subseteq {a}
    BY <2>3, RangeOfLists, RangeOfParts
  <2> QED
    BY <2>1, <2>4, DoIsOwn DEF Advance
<1>4. conv \in [Convs -> GoodConversation(Len(prompts), Len(messages))] /\ conversations \subseteq Convs
  BY DEF TypeInv
<1>5. \A d \in conversations' : /\ conv'[d].head = conv[d].head
                                /\ conv'[d].pending_prompts = conv[d].pending_prompts
  <2> SUFFICES ASSUME NEW d \in conversations'
               PROVE  conv'[d].head = conv[d].head /\ conv'[d].pending_prompts = conv[d].pending_prompts
    OBVIOUS
  <2>0. /\ d \in Convs
        /\ conv[d] \in [head : Nat, pending_prompts : Seq(1..Len(messages)), in_flight_prompt : 0..Len(prompts),
                        turn_state : {"idle", "thinking", "tools"}, remaining_calls : SUBSET (1..Len(prompts))]
    BY <1>1, <1>4 DEF GoodConversation
  <2>1. CASE conv' = [conv EXCEPT ![c].in_flight_prompt = 0, ![c].turn_state = "idle", ![c].remaining_calls = {}]
             \/ conv' = conv
    BY <1>4, <2>0, <2>1
  <2>2. CASE \E p : conv' = [conv EXCEPT ![c].in_flight_prompt = 0, ![c].turn_state = "tools", ![c].remaining_calls = {p}]
    BY <1>4, <2>0, <2>2
  <2>3. CASE conversations' = conversations \ {c} /\ conv' = [conv EXCEPT ![c] = Fresh(0)]
    BY <1>1, <1>4, <2>0, <2>3
  <2>4. \/ conv' = [conv EXCEPT ![c].in_flight_prompt = 0, ![c].turn_state = "idle", ![c].remaining_calls = {}]
        \/ conv' = conv
        \/ \E p : conv' = [conv EXCEPT ![c].in_flight_prompt = 0, ![c].turn_state = "tools", ![c].remaining_calls = {p}]
        \/ conversations' = conversations \ {c} /\ conv' = [conv EXCEPT ![c] = Fresh(0)]
    BY DEF TurnEnds, ToolsStart
  <2> QED
    BY <2>1, <2>2, <2>3, <2>4
<1> HIDE DEF c
<1> QED
  BY <1>1, <1>3, <1>5, BranchRests

(* maybe_complete_agent_turn: what waited is folded into the turn. *)
LEMMA CompleteBranches ==
    ASSUME TypeInv, Grew, BranchInv, AwaitInv, MaybeCompleteTurn
    PROVE  BranchInv'
<1>0. PICK c \in Convs : c = Head(work).conv
  BY HeadTypes DEF MaybeCompleteTurn, Doing
<1>1. /\ UNCHANGED <<tree, session, said, prompts, messages, conversations, prompt_conversations, tool_conversations>>
      /\ work # <<>>
  BY DEF MaybeCompleteTurn, gates, Doing, tracking
<1>2. conv \in [Convs -> GoodConversation(Len(prompts), Len(messages))] /\ conversations \subseteq Convs
  BY DEF TypeInv
<1>3. ASSUME Then(<<>>), \A d \in Convs : conv'[d].head = conv[d].head /\ conv'[d].pending_prompts = conv[d].pending_prompts
      PROVE  BranchInv'
  <2>1. <<>> \in Seq({}) /\ Range(<<>>) = {}
    BY RangeOfParts
  <2> QED
    BY <1>1, <1>2, <1>3, <2>1, HandlerRests
<1>4. ASSUME conv' = [conv EXCEPT ![c].turn_state = "idle", ![c].remaining_calls = {}, ![c].pending_prompts = <<>>],
             Then(Append(Steered(c), Do("dispatch", c, 0))), c \in conversations
      PROVE  BranchInv'
  <2> DEFINE q == conv[c].pending_prompts
             T == GoodTask(Len(prompts))
  <2>1. PICK tasks \in Seq(T) : tasks = Append(Steered(c), Do("dispatch", c, 0))
    BY SteeredTypes
  <2>2. q \in Seq(1..Len(messages)) /\ DOMAIN q = 1..Len(q) /\ Len(q) \in Nat
    BY <1>2 DEF GoodConversation
  <2>3. \A t \in Range(tasks) : t = Do("dispatch", c, 0) \/ \E i \in DOMAIN q : t = Publish("steered", c, q[i], session)
    <3>1. PICK d : d = Do("dispatch", c, 0)
      OBVIOUS
    <3>2. PICK s : s = Steered(c)
      OBVIOUS
    <3>3. s = [i \in DOMAIN q |-> Publish("steered", c, q[i], session)]
      BY <3>2 DEF Steered
    <3>4. tasks = Append(s, d) /\ s \in [1..Len(q) -> {Publish("steered", c, q[i], session) : i \in DOMAIN q}]
      BY <2>1, <2>2, <3>1, <3>2, <3>3
    <3>5. s \in Seq({Publish("steered", c, q[i], session) : i \in DOMAIN q})
      <4> DEFINE S == {Publish("steered", c, q[i], session) : i \in DOMAIN q}
      <4> HIDE DEF S
      <4>1. s \in [1..Len(q) -> S]
        BY <3>4 DEF S
      <4>2. s \in Seq(S)
        <5>1. PICK n \in Nat : n = Len(q)
          BY <2>2
        <5>2. s \in [1..n -> S]
          BY <4>1, <5>1
        <5> QED
          BY <5>2
      <4> QED
        BY <4>2 DEF S
    <3>6. Len(s) = Len(q) /\ DOMAIN tasks = 1..(Len(q) + 1)
          /\ \A i \in 1..(Len(q) + 1) : tasks[i] = IF i = Len(q) + 1 THEN d ELSE s[i]
      <4> DEFINE S == {Publish("steered", c, q[i], session) : i \in DOMAIN q}
      <4> HIDE DEF S, q
      <4>1. s \in Seq(S) /\ DOMAIN s = 1..Len(q) /\ Len(q) \in Nat
        BY <2>2, <3>3, <3>5 DEF S
      <4> QED
        BY <3>4, <4>1
    <3>7. \A i \in DOMAIN q : s[i] = Publish("steered", c, q[i], session)
      BY <3>3
    <3> SUFFICES ASSUME NEW i \in DOMAIN tasks
                 PROVE  tasks[i] = d \/ \E j \in DOMAIN q : tasks[i] = Publish("steered", c, q[j], session)
      BY <3>1 DEF Range
    <3>8. i = Len(q) + 1 \/ i \in DOMAIN q
      <4> HIDE DEF q
      <4> QED
        BY <2>2, <3>6
    <3>9. CASE i = Len(q) + 1
      BY <3>6, <3>9
    <3>10. CASE i \in DOMAIN q
      <4>1. tasks[i] = s[i]
        <5> HIDE DEF q
        <5> QED
          BY <2>2, <3>6, <3>10
      <4> QED
        BY <3>7, <3>10, <4>1
    <3> QED
      BY <3>8, <3>9, <3>10
  <2>4. \A i \in DOMAIN q : q[i] \in DOMAIN messages /\ messages[q[i]].conv = c
    <3>1. \A m \in Range(q) : messages[m].conv = c
      BY <1>4 DEF BranchInv, WaitingInv
    <3>2. messages \in Seq(Message)
      BY DEF TypeInv
    <3> HIDE DEF q
    <3>3. \A i \in DOMAIN q : q[i] \in Range(q) /\ q[i] \in 1..Len(messages)
      BY <2>2 DEF Range
    <3> QED
      BY <3>1, <3>2, <3>3
  <2>5. \A t \in Range(tasks) : Own(t)'
    <3> SUFFICES ASSUME NEW t \in Range(tasks) PROVE Own(t)'
      OBVIOUS
    <3>1. CASE t = Do("dispatch", c, 0)
      BY <3>1, DoIsOwn
    <3>2. ASSUME NEW i \in DOMAIN q, t = Publish("steered", c, q[i], session) PROVE Own(t)'
      <4>1. PICK m : m = q[i]
        OBVIOUS
      <4>2. m \in DOMAIN messages' /\ messages'[m].conv = c /\ t = Publish("steered", c, m, session')
        BY <1>1, <2>4, <3>2, <4>1
      <4>3. "steered" \in UserKinds
        BY DEF UserKinds
      <4> QED
        BY <4>2, <4>3, MessageIsOwn
    <3> QED
      BY <2>3, <3>1, <3>2
  <2>6. \A d \in Convs : /\ conv'[d].head = conv[d].head
                         /\ Range(conv'[d].pending_prompts) \subseteq Range(conv[d].pending_prompts)
    <3>1. \A d \in Convs : d # c => conv'[d] = conv[d]
      BY <1>2, <1>4
    <3>2. conv'[c].head = conv[c].head /\ conv'[c].pending_prompts = <<>>
      BY <1>2, <1>4 DEF GoodConversation
    <3> QED
      BY <3>1, <3>2, RangeOfParts
  <2>7. Then(tasks)
    BY <1>4, <2>1
  <2> HIDE DEF T, q
  <2> QED
    BY <1>1, <1>2, <2>1, <2>5, <2>6, <2>7, HandlerRests
<1>5. CASE conv' = conv /\ Then(<<>>)
  BY <1>3, <1>5
<1>6. ASSUME NEW left, conv' = [conv EXCEPT ![c].remaining_calls = left], Then(<<>>) PROVE BranchInv'
  BY <1>2, <1>3, <1>6 DEF GoodConversation
<1> QED
  BY <1>0, <1>4, <1>5, <1>6 DEF MaybeCompleteTurn

(* A new message, and what becomes of it. *)
LEMMA NewIsOwn ==
    ASSUME TypeInv, NEW c, NEW kind, NewMessage(c, kind)
    PROVE  Len(messages) + 1 \in DOMAIN messages' /\ messages'[Len(messages) + 1].conv = c
<1>1. PICK x : x = [conv |-> c, kind |-> kind]
  OBVIOUS
<1>2. messages \in Seq(Message) /\ messages' = Append(messages, x) /\ x.conv = c
  BY <1>1 DEF TypeInv, NewMessage
<1> HIDE DEF Message
<1> QED
  BY <1>2, AppendGrows

(* A message that is dispatched at once. *)
LEMMA DispatchIsOwn ==
    ASSUME NEW c, NEW m \in DOMAIN messages', messages'[m].conv = c, session' = session,
           work' = Dispatch(c, m)
    PROVE  \A t \in Range(work') : Own(t)'
<1>1. \A t \in Range(work') : t = Publish("prompt_submitted", c, m, session') \/ t = Do("dispatch", c, 0)
  BY TasksOfDispatch
<1>2. "prompt_submitted" \in UserKinds
  BY DEF UserKinds
<1> QED
  BY <1>1, <1>2, MessageIsOwn, DoIsOwn

(* A frame that looks at the queue. *)
LEMMA AdvanceIsOwn == ASSUME work' = <<Advance>> PROVE \A t \in Range(work') : Own(t)'
<1>1. \A t \in Range(work') : t = Do("advance", None, 0)
  BY RangeOfLists DEF Advance
<1> QED
  BY <1>1, DoIsOwn

(* A frame that leaves conversations and histories alone. *)
LEMMA FrameBranches ==
    ASSUME TypeInv, Grew, BranchInv,
           UNCHANGED <<tree, session, said, prompts, conversations, conv>>,
           \A t \in Range(work') : Own(t)'
    PROVE  BranchInv'
BY BranchRests

(* submit_user_prompt. *)
LEMMA SubmitBranches ==
    ASSUME TypeInv, Grew, BranchInv, SubmitUserPrompt
    PROVE  BranchInv'
<1> DEFINE m == Len(messages) + 1
           made_way == [c \in Convs |-> IF c \in Preempted THEN GiveUp(c) ELSE conv[c]]
<1>1. /\ UNCHANGED <<tree, session, said, prompts, conversations>>
      /\ \/ /\ conv' = [made_way EXCEPT ![Default].pending_prompts = Append(@, m)]
            /\ work' = <<Advance>>
         \/ /\ conv' = made_way
            /\ work' = Dispatch(Default, m)
  BY DEF SubmitUserPrompt, gates
<1>2. m \in DOMAIN messages' /\ messages'[m].conv = Default
  BY NewIsOwn DEF SubmitUserPrompt
<1>3. \A c \in Convs : conv[c] \in [head : Nat, pending_prompts : Seq(1..Len(messages)), in_flight_prompt : 0..Len(prompts),
                                    turn_state : {"idle", "thinking", "tools"}, remaining_calls : SUBSET (1..Len(prompts))]
  BY DEF TypeInv, GoodConversation
<1>4. \A c \in Convs : /\ made_way[c].head = conv[c].head
                       /\ made_way[c].pending_prompts = conv[c].pending_prompts \/ made_way[c].pending_prompts = <<>>
  <2> SUFFICES ASSUME NEW c \in Convs
               PROVE  /\ made_way[c].head = conv[c].head
                      /\ made_way[c].pending_prompts = conv[c].pending_prompts \/ made_way[c].pending_prompts = <<>>
    OBVIOUS
  <2>1. GiveUp(c).head = conv[c].head /\ GiveUp(c).pending_prompts = <<>>
    BY <1>3 DEF GiveUp
  <2>2. made_way[c] = GiveUp(c) \/ made_way[c] = conv[c]
    OBVIOUS
  <2> HIDE DEF made_way
  <2> QED
    BY <2>1, <2>2
<1>5. \A c \in conversations' :
         /\ conv'[c].head = conv[c].head
         /\ \A n \in Range(conv'[c].pending_prompts) : n \in Range(conv[c].pending_prompts) \/ messages'[n].conv = c
  <2> SUFFICES ASSUME NEW c \in conversations
               PROVE  /\ conv'[c].head = conv[c].head
                      /\ \A n \in Range(conv'[c].pending_prompts) :
                            n \in Range(conv[c].pending_prompts) \/ messages'[n].conv = c
    BY <1>1
  <2>1. c \in Convs /\ Default \in Convs
    BY DEF TypeInv, Convs
  <2>2. Range(made_way[c].pending_prompts) \subseteq Range(conv[c].pending_prompts)
    <3> HIDE DEF made_way
    <3> QED
      BY <1>4, <2>1, RangeOfParts
  <2>3. CASE conv' = made_way \/ (c # Default /\ conv'[c] = made_way[c])
    <3> HIDE DEF made_way
    <3> QED
      BY <1>4, <2>1, <2>2, <2>3
  <2>4. CASE conv' = [made_way EXCEPT ![Default].pending_prompts = Append(@, m)] /\ c = Default
    <3> DEFINE q == made_way[c].pending_prompts
    <3>1. PICK k : k = made_way[c]
      OBVIOUS
    <3>2. k \in [head : Nat, pending_prompts : Seq(1..Len(messages)), in_flight_prompt : 0..Len(prompts),
                 turn_state : {"idle", "thinking", "tools"}, remaining_calls : SUBSET (1..Len(prompts))]
      <4>1. k = GiveUp(c) \/ k = conv[c]
        BY <2>1, <3>1
      <4> QED
        BY <1>3, <2>1, <4>1, GiveUpTypes DEF GoodConversation
    <3>3. conv'[c] = [k EXCEPT !.pending_prompts = Append(k.pending_prompts, m)]
      <4>1. made_way = [d \in Convs |-> made_way[d]]
        OBVIOUS
      <4> HIDE DEF made_way
      <4> QED
        BY <2>1, <2>4, <3>1, <4>1
    <3>4. conv'[c].head = k.head /\ conv'[c].pending_prompts = Append(k.pending_prompts, m)
      BY <3>2, <3>3
    <3>5. Range(Append(k.pending_prompts, m)) = Range(k.pending_prompts) \cup {m}
      <4>1. PICK S : S = Nat
        OBVIOUS
      <4>2. k.pending_prompts \in Seq(S) /\ m \in S
        BY <3>2, <4>1, LengthTypes
      <4>3. \A s \in Seq(S), x \in S : Range(Append(s, x)) = Range(s) \cup {x}
        BY RangeOfParts
      <4> HIDE DEF m
      <4> QED
        BY <4>2, <4>3
    <3> HIDE DEF made_way, m, q
    <3> QED
      BY <1>2, <1>4, <2>1, <2>2, <2>4, <3>1, <3>4, <3>5
  <2>5. conv' = [made_way EXCEPT ![Default].pending_prompts = Append(@, m)] /\ c # Default => conv'[c] = made_way[c]
    <3>1. made_way = [d \in Convs |-> made_way[d]]
      OBVIOUS
    <3> HIDE DEF made_way
    <3> QED
      BY <2>1, <3>1
  <2> HIDE DEF made_way, m
  <2> QED
    BY <1>1, <2>3, <2>4, <2>5
<1> HIDE DEF made_way, m
<1>6. \A t \in Range(work') : Own(t)'
  BY <1>1, <1>2, AdvanceIsOwn, DispatchIsOwn
<1> QED
  BY <1>1, <1>5, <1>6, BranchRests

(* handle_cancel_prompt. *)
LEMMA CancelBranches ==
    ASSUME TypeInv, Grew, BranchInv, CancelPrompt
    PROVE  BranchInv'
<1>1. UNCHANGED <<tree, session, said, prompts, conversations>> /\ conv' = [conv EXCEPT ![Default] = GiveUp(Default)]
  BY DEF CancelPrompt, gates
<1>2. \A t \in Range(work') : Own(t)'
  BY AdvanceIsOwn DEF CancelPrompt
<1>3. \A c \in conversations : conv[c] \in GoodConversation(Len(prompts), Len(messages)) /\ c \in Convs
  BY DEF TypeInv
<1>4. ASSUME NEW c \in conversations
      PROVE  conv'[c].head = conv[c].head /\ Range(conv'[c].pending_prompts) \subseteq Range(conv[c].pending_prompts)
  <2>1. CASE c = Default
    <3>1. GiveUp(c).head = conv[c].head /\ GiveUp(c).pending_prompts = <<>>
      BY <1>3 DEF GiveUp, GoodConversation
    <3>2. conv'[c] = GiveUp(c)
      BY <1>1, <1>3, <2>1 DEF TypeInv
    <3> QED
      BY <3>1, <3>2, RangeOfParts
  <2>2. CASE c # Default
    <3>1. conv'[c] = conv[c]
      BY <1>1, <1>3, <2>2 DEF TypeInv
    <3> QED
      BY <3>1
  <2> QED
    BY <2>1, <2>2
<1> QED
  BY <1>1, <1>2, <1>4, BranchRests

(* inject_user_shell_output. *)
LEMMA ShellBranches ==
    ASSUME TypeInv, Grew, BranchInv, NEW s \in 1..session, ShellFinished(s)
    PROVE  BranchInv'
<1>1. PICK c : c = IF s = session THEN Default ELSE None
  OBVIOUS
<1>2. PICK a : a = Publish("injected", c, Len(messages) + 1, s)
  OBVIOUS
<1>3. UNCHANGED <<tree, session, said, prompts, conversations, conv>> /\ work' = <<a>>
  BY <1>1, <1>2 DEF ShellFinished, gates
<1>4. Len(messages) + 1 \in DOMAIN messages' /\ messages'[Len(messages) + 1].conv = Default
  BY NewIsOwn DEF ShellFinished
<1>5. a.kind = "injected" /\ a.conv = c /\ a.of = Len(messages) + 1 /\ a.session = s
  BY <1>2 DEF Publish
<1>6. None \notin conversations
  BY PromptDispatchAssumption DEF TypeInv
<1>7. Own(a)'
  BY <1>1, <1>3, <1>4, <1>5, <1>6 DEF Own
<1>8. Range(work') = {a}
  BY <1>3, RangeOfLists
<1> QED
  BY <1>3, <1>7, <1>8, FrameBranches

(* complete_session_init. *)
LEMMA InitIsOwn ==
    ASSUME TypeInv, NEW found, NEW rest \in Seq(GoodTask(Len(prompts))), CompleteInit(found, session', rest),
           session' \in 1..MaxSessions, \A t \in Range(rest) : t.kind = "none"
    PROVE  \A t \in Range(work') : Own(t)'
<1>1. PICK p : p = Publish("injected", Default, Len(messages) + 1, session')
  OBVIOUS
<1>2. PICK a : a = Advance
  OBVIOUS
<1>3. PICK S : S = GoodTask(Len(prompts)) \cup {p, a}
  OBVIOUS
<1>4. rest \in Seq(S)
  BY <1>3, SeqGrows
<1>5. <<p, a>> \in Seq(S) /\ <<a>> \in Seq(S) /\ Range(<<p, a>>) = {p, a} /\ Range(<<a>>) = {a}
  BY <1>3, RangeOfLists
<1>6. \A x, y \in Seq(S) : Range(x \o y) = Range(x) \cup Range(y)
  BY RangeOfParts
<1>7. \A t \in Range(rest) : Own(t)'
  BY NoneIsOwn
<1>8. Own(a)'
  BY <1>2, DoIsOwn DEF Advance
<1>9. CASE found # {}
  <2>1. work' = <<p, a>> \o rest /\ NewMessage(Default, "context")
    BY <1>1, <1>2, <1>9 DEF CompleteInit
  <2>2. Own(p)'
    <3>1. PICK m : m = Len(messages) + 1
      OBVIOUS
    <3>2. m \in DOMAIN messages' /\ messages'[m].conv = Default
      BY <2>1, <3>1, NewIsOwn
    <3>3. "injected" \in UserKinds
      BY DEF UserKinds
    <3> QED
      BY <1>1, <3>1, <3>2, <3>3, MessageIsOwn
  <2>3. Range(work') = {p, a} \cup Range(rest)
    BY <1>4, <1>5, <1>6, <2>1
  <2> QED
    BY <1>7, <1>8, <2>2, <2>3
<1>10. CASE found = {}
  <2>1. work' = <<a>> \o rest
    BY <1>2, <1>10 DEF CompleteInit
  <2>2. Range(work') = {a} \cup Range(rest)
    BY <1>4, <1>5, <1>6, <2>1
  <2> QED
    BY <1>7, <1>8, <2>2
<1> QED
  BY <1>9, <1>10

(* handle_extension_context_ready. *)
LEMMA ContextBranches ==
    ASSUME TypeInv, Grew, BranchInv, NEW v \in Providers, NEW s \in 1..MaxSessions, ContextReady(v, s)
    PROVE  BranchInv'
<1>1. UNCHANGED <<tree, session, said, prompts, conversations, conv>> /\ Idle
  BY DEF ContextReady
<1>2. CASE work' = work
  <2>1. Range(work') = {}
    BY <1>1, <1>2, IdleWork
  <2> QED
    BY <1>1, <2>1, FrameBranches
<1>3. CASE CompleteInit(discovered', session', <<>>)
  <2>1. \A t \in Range(work') : Own(t)'
    <3>1. <<>> \in Seq(GoodTask(Len(prompts))) /\ Range(<<>>) = {} /\ session' \in 1..MaxSessions
      BY <1>1, NoTasks, RangeOfParts DEF TypeInv
    <3> QED
      BY <1>3, <3>1, InitIsOwn
  <2> QED
    BY <1>1, <2>1, FrameBranches
<1> QED
  BY <1>1, <1>2, <1>3 DEF ContextReady

(* handle_disconnect of a tool extension. *)
LEMMA GoneBranches ==
    ASSUME TypeInv, Grew, BranchInv, NEW v \in Providers, ExtensionGone(v)
    PROVE  BranchInv'
<1>1. UNCHANGED <<tree, session, said, prompts, conversations, conv>>
  BY DEF ExtensionGone
<1>2. PICK a : a = Do("respawn", v, 0)
  OBVIOUS
<1>3. CompleteInit(discovered', session', <<a>>) \/ work' = <<a>>
  BY <1>1, <1>2 DEF ExtensionGone
<1>4. a.kind = "none" /\ Own(a)' /\ Range(<<a>>) = {a}
  BY <1>2, DoIsOwn, RangeOfLists DEF Do
<1>5. a \in GoodTask(Len(prompts))
  BY <1>2, LengthTypes, DoTypes
<1>6. <<a>> \in Seq(GoodTask(Len(prompts))) /\ session' \in 1..MaxSessions
  BY <1>1, <1>5, LengthTypes, TaskLists DEF TypeInv
<1>7. \A t \in Range(work') : Own(t)'
  BY <1>3, <1>4, <1>6, InitIsOwn
<1> QED
  BY <1>1, <1>7, FrameBranches

(* Message::Subscribe and Message::Ready of an extension. *)
LEMMA LifecycleBranches ==
    ASSUME TypeInv, Grew, BranchInv, NEW v \in Providers, ExtensionSubscribes(v) \/ ExtensionReady(v)
    PROVE  BranchInv'
<1>1. UNCHANGED <<tree, session, said, prompts, conversations, conv>>
  BY DEF ExtensionSubscribes, ExtensionReady
<1>2. CASE ExtensionSubscribes(v)
  <2>1. Range(work') = {}
    BY <1>2, IdleWork DEF ExtensionSubscribes
  <2> QED
    BY <1>1, <2>1, FrameBranches
<1>3. CASE ExtensionReady(v)
  <2>1. \A t \in Range(work') : Own(t)'
    BY <1>3, AdvanceIsOwn DEF ExtensionReady
  <2> QED
    BY <1>1, <2>1, FrameBranches
<1> QED
  BY <1>2, <1>3

(* handle_agent_response_finished. *)
LEMMA RespondsBranches ==
    ASSUME TypeInv, Grew, BranchInv, NEW p \in at_agent, NEW how \in {"answered", "called"}, AgentResponds(p, how)
    PROVE  BranchInv'
<1>1. UNCHANGED <<tree, session, said, prompts, conversations, conv>> /\ Idle
  BY DEF AgentResponds, gates
<1>2. CASE work' = work
  <2>1. Range(work') = {}
    BY <1>1, <1>2, IdleWork
  <2> QED
    BY <1>1, <2>1, FrameBranches
<1>3. ASSUME p \in prompt_conversations', work' = <<Publish("response_finished", prompts[p].conv, p, 0), Do(how, prompts[p].conv, p)>>
      PROVE  BranchInv'
  <2>1. PICK a : a = Publish("response_finished", prompts[p].conv, p, 0)
    OBVIOUS
  <2>2. PICK b : b = Do(how, prompts[p].conv, p)
    OBVIOUS
  <2>3. a.kind = "response_finished" /\ a.of = p /\ a.conv = prompts[p].conv
    BY <2>1 DEF Publish
  <2>4. Own(a)' /\ Own(b)'
    BY <1>1, <1>3, <2>2, <2>3, DoIsOwn DEF Own, UserKinds
  <2>5. Range(work') = {a, b}
    BY <1>3, <2>1, <2>2, RangeOfLists
  <2> QED
    BY <1>1, <2>4, <2>5, FrameBranches
<1> QED
  BY <1>2, <1>3 DEF AgentResponds

(* A tool result. *)
LEMMA FinishesBranches ==
    ASSUME TypeInv, Grew, BranchInv, NEW p \in running, ToolFinishes(p)
    PROVE  BranchInv'
<1>1. UNCHANGED <<tree, session, said, prompts, conversations, conv, tool_conversations>>
  BY DEF ToolFinishes, gates, tracking
<1>2. CASE work' = <<>>
  BY <1>1, <1>2, RangeOfParts, FrameBranches
<1>3. ASSUME p \in tool_conversations,
             work' = <<Publish("tool_result", prompts[p].conv, p, 0), Do("turn", prompts[p].conv, p),
                       Advance, Do("clear", None, p)>>
      PROVE  BranchInv'
  <2>1. PICK a : a = Publish("tool_result", prompts[p].conv, p, 0)
    OBVIOUS
  <2>2. PICK b : b = Do("turn", prompts[p].conv, p)
    OBVIOUS
  <2>3. PICK c : c = Advance
    OBVIOUS
  <2>4. PICK d : d = Do("clear", None, p)
    OBVIOUS
  <2>5. a.kind = "tool_result" /\ a.of = p /\ a.conv = prompts[p].conv
    BY <2>1 DEF Publish
  <2>6. Own(a)'
    BY <1>1, <1>3, <2>5 DEF Own, UserKinds
  <2>7. Own(b)' /\ Own(c)' /\ Own(d)'
    BY <2>2, <2>3, <2>4, DoIsOwn DEF Advance
  <2>8. Range(work') = {a, b, c, d}
    BY <1>3, <2>1, <2>2, <2>3, <2>4, RangeOfLists
  <2> QED
    BY <1>1, <2>6, <2>7, <2>8, FrameBranches
<1> QED
  BY <1>2, <1>3 DEF ToolFinishes

(* A tree that gets a node keeps what it had. *)
LEMMA TreeGrows ==
    ASSUME TypeInv, \A z \in 1..MaxSessions : Ends(tree[z]), NEW s \in 1..MaxSessions,
           NEW x \in Node, x.parent <= Len(tree[s]), tree' = [tree EXCEPT ![s] = Append(tree[s], x)]
    PROVE  /\ \A z \in 1..MaxSessions : Ends(tree'[z])
           /\ \A n \in 0..Len(tree[session]) : /\ n \in 0..Len(tree'[session])
                                               /\ Branch(tree'[session], n) = Branch(tree[session], n)
           /\ s = session => /\ Len(tree[s]) + 1 \in 0..Len(tree'[s])
                             /\ Branch(tree'[s], Len(tree[s]) + 1) = {x.entry} \cup Branch(tree[s], x.parent)
           /\ \A z \in 1..MaxSessions : \A y : Nodes(z, y) # {} => Nodes(z, y)' # {}
           /\ Nodes(s, x.entry)' # {}
<1>1. /\ tree \in [1..MaxSessions -> Seq(Node)] /\ session \in 1..MaxSessions
      /\ \A z \in 1..MaxSessions : z # s => tree'[z] = tree[z]
      /\ tree'[s] = Append(tree[s], x) /\ tree[s] \in Seq(Node) /\ Ends(tree[s])
  <2>1. tree \in [1..MaxSessions -> Seq(Node)] /\ session \in 1..MaxSessions
    BY DEF TypeInv
  <2> HIDE DEF Node
  <2> QED
    BY <2>1
<1>2. PICK L : L = Len(tree[s])
  OBVIOUS
<1>3. /\ L \in Nat /\ Len(tree'[s]) = L + 1 /\ DOMAIN tree[s] = 1..L /\ DOMAIN tree'[s] = 1..(L + 1)
      /\ tree'[s][L + 1] = x /\ \A i \in 1..L : tree'[s][i] = tree[s][i]
  <2> HIDE DEF Node
  <2> QED
    BY <1>1, <1>2
<1>4. /\ Ends(tree'[s])
      /\ \A n \in 0..L : Branch(tree'[s], n) = Branch(tree[s], n)
      /\ Branch(tree'[s], L + 1) = {x.entry} \cup Branch(tree[s], x.parent)
  <2>1. 0 \in 0..Len(tree[s])
    BY <1>2, <1>3
  <2>2. \A n \in 0..Len(tree[s]) : /\ Ends(Append(tree[s], x))
                                   /\ Branch(Append(tree[s], x), n) = Branch(tree[s], n)
                                   /\ Branch(Append(tree[s], x), Len(tree[s]) + 1) =
                                        {x.entry} \cup Branch(tree[s], x.parent)
    BY <1>1, BranchStays
  <2> QED
    BY <1>1, <1>2, <2>1, <2>2
<1>5. \A z \in 1..MaxSessions : Ends(tree'[z])
  BY <1>1, <1>4
<1>6. ASSUME NEW n \in 0..Len(tree[session])
      PROVE  n \in 0..Len(tree'[session]) /\ Branch(tree'[session], n) = Branch(tree[session], n)
  <2>1. CASE session = s
    BY <1>2, <1>3, <1>4, <1>6, <2>1
  <2>2. CASE session # s
    BY <1>1, <1>6, <2>2
  <2> QED
    BY <2>1, <2>2
<1>7. s = session => L + 1 \in 0..Len(tree'[s])
  BY <1>3
<1>8. ASSUME NEW z \in 1..MaxSessions, NEW y, Nodes(z, y) # {} PROVE Nodes(z, y)' # {}
  <2>1. PICK i \in DOMAIN tree[z] : tree[z][i].entry = y
    BY <1>8 DEF Nodes
  <2>2. i \in DOMAIN tree'[z] /\ tree'[z][i].entry = y
    BY <1>1, <1>3, <2>1
  <2> QED
    BY <2>2 DEF Nodes
<1>9. Nodes(s, x.entry)' # {}
  <2>1. L + 1 \in DOMAIN tree'[s] /\ tree'[s][L + 1].entry = x.entry
    BY <1>3
  <2> QED
    BY <2>1 DEF Nodes
<1> QED
  BY <1>2, <1>4, <1>5, <1>6, <1>7, <1>8, <1>9

(* A node that is nobody's, or one of a conversation under its head. *)
LEMMA NodeBranches ==
    ASSUME TypeInv, Grew, BranchInv, NEW s \in 1..MaxSessions, NEW x \in Node, x.parent <= Len(tree[s]),
           tree' = [tree EXCEPT ![s] = Append(tree[s], x)],
           UNCHANGED <<session, conversations, prompts, messages>>, SameTurns, NEW c,
           \A d \in conversations : d # c => conv'[d].head = conv[d].head,
           \/ c \notin conversations /\ said' = said
           \/ /\ c \in conversations /\ s = session /\ x.parent = conv[c].head /\ conv'[c].head = Len(tree[s]) + 1
              /\ Owned(x.entry, c) /\ (c # Default => Known(c))
              /\ said' = said \cup {[conv |-> c, session |-> session, entry |-> x.entry]},
           \A t \in Range(work') : Own(t)'
    PROVE  BranchInv'
<1>1. \A z \in 1..MaxSessions : Ends(tree[z])
  BY DEF BranchInv, TreeInv
<1>2. /\ \A z \in 1..MaxSessions : Ends(tree'[z])
      /\ \A n \in 0..Len(tree[session]) : /\ n \in 0..Len(tree'[session])
                                          /\ Branch(tree'[session], n) = Branch(tree[session], n)
      /\ s = session => /\ Len(tree[s]) + 1 \in 0..Len(tree'[s])
                        /\ Branch(tree'[s], Len(tree[s]) + 1) = {x.entry} \cup Branch(tree[s], x.parent)
      /\ \A z \in 1..MaxSessions : \A y : Nodes(z, y) # {} => Nodes(z, y)' # {}
      /\ Nodes(s, x.entry)' # {}
  BY <1>1, TreeGrows
<1>3. session \in 1..MaxSessions /\ conversations \subseteq Convs
  BY DEF TypeInv
<1>4. PICK y : y = [conv |-> c, session |-> session, entry |-> x.entry]
  OBVIOUS
<1>5. y.conv = c /\ y.session = session /\ y.entry = x.entry
      /\ (said' = said \/ (said' = said \cup {y} /\ c \in conversations))
  BY <1>4
<1>6. TreeInv'
  <2>1. ASSUME NEW d \in conversations, d # c PROVE HeadIsExact(d)'
    <3>1. HeadIsExact(d) /\ conv[d].head \in 0..Len(tree[session]) /\ conv'[d].head = conv[d].head
      BY <2>1 DEF BranchInv, TreeInv, HeadIsExact
    <3>2. \A z \in said' : z.conv = d => z \in said
      BY <1>5, <2>1
    <3>3. conv'[d].head \in 0..Len(tree'[session])
          /\ Branch(tree'[session], conv'[d].head) = Branch(tree[session], conv[d].head)
      BY <1>2, <3>1
    <3> QED
      BY <3>1, <3>2, <3>3, ExactStays
  <2>2. ASSUME c \in conversations PROVE HeadIsExact(c)'
    <3> DEFINE old == Branch(tree[session], conv[c].head)
    <3>1. HeadIsExact(c)
      BY <2>2 DEF BranchInv, TreeInv
    <3>2. /\ s = session /\ x.parent = conv[c].head /\ conv'[c].head = Len(tree[s]) + 1
          /\ Owned(x.entry, c) /\ said' = said \cup {y}
      BY <1>4, <2>2
    <3>3. Branch(tree'[session'], conv'[c].head) = {x.entry} \cup old /\ conv'[c].head \in 0..Len(tree'[session'])
      BY <1>2, <3>2
    <3>4. \A z \in old : Owned(z, c)'
      BY <3>1, OwnedStays DEF HeadIsExact
    <3>5. \A z \in said : z.conv = c /\ z.session = session => z.entry \in old
      BY <3>1 DEF HeadIsExact
    <3>6. Owned(x.entry, c)'
      BY <3>2, OwnedStays
    <3> HIDE DEF old
    <3>7. \A z \in {x.entry} \cup old : Owned(z, c)'
      BY <3>4, <3>6
    <3>8. \A z \in said' : z.conv = c /\ z.session = session' => z.entry \in {x.entry} \cup old
      BY <1>5, <3>2, <3>5
    <3> QED
      BY <3>3, <3>7, <3>8 DEF HeadIsExact
  <2>3. \A d \in conversations' : HeadIsExact(d)'
    BY <2>1, <2>2
  <2> QED
    BY <1>2, <2>3 DEF TreeInv
<1>7. SaidInv'
  <2>1. ASSUME NEW z \in said
        PROVE  /\ z.session <= session' /\ (z.conv # Default => Known(z.conv)')
               /\ Nodes(z.session, z.entry)' # {}
    <3>1. z.session <= session /\ (z.conv # Default => Known(z.conv)) /\ Nodes(z.session, z.entry) # {}
      BY <2>1 DEF BranchInv, SaidInv
    <3>2. z.session \in 1..MaxSessions
      BY <2>1 DEF TypeInv
    <3> QED
      BY <1>2, <3>1, <3>2, KnownGrows
  <2>2. ASSUME c \in conversations
        PROVE  /\ y.session <= session' /\ (y.conv # Default => Known(y.conv)')
               /\ Nodes(y.session, y.entry)' # {}
    <3>1. s = session /\ (c # Default => Known(c)')
      BY <2>2, KnownGrows
    <3> QED
      BY <1>2, <1>3, <1>5, <3>1
  <2> QED
    BY <1>5, <2>1, <2>2 DEF SaidInv
<1>8. SentInv'
  BY SentStays DEF BranchInv, SentInv
<1>9. WaitingInv'
  BY <1>3 DEF BranchInv, WaitingInv, SameTurns
<1>10. WorkInv'
  BY DEF WorkInv
<1> QED
  BY <1>6, <1>7, <1>8, <1>9, <1>10 DEF BranchInv

(* publish_event_for_conversation, when nobody holds publishes. *)
LEMMA PublishBranches ==
    ASSUME Intercepted = {}, TypeInv, DirectInv, AskedInv, Grew, BranchInv, EnqueuePublish
    PROVE  BranchInv'
<1> DEFINE head == Head(work)
           e == IF head.conv \in conversations THEN head ELSE [head EXCEPT !.conv = None]
           s == SessionFor(e)
           node == [parent |-> ParentOf(e, s), entry |-> EntryOf(e)]
<1>0. None \notin Convs /\ conversations \subseteq Convs /\ session \in 1..MaxSessions
  BY PromptDispatchAssumption DEF TypeInv
<1>1. /\ work # <<>> /\ head \in Range(work)
      /\ UNCHANGED <<conversations, session, prompts, messages, prompt_conversations, tool_conversations>>
      /\ Fold(e) /\ work' = Tail(work)
      /\ said' = IF Folds(e) /\ e.conv # None
                 THEN said \cup {[conv |-> e.conv, session |-> session, entry |-> EntryOf(e)]}
                 ELSE said
  <2>1. work # <<>> /\ head \in Range(work)
    BY RangeOfWork DEF EnqueuePublish, Doing
  <2>2. DispatchStep(e, Tail(work))
    BY DEF EnqueuePublish, DirectInv
  <2>3. Fold(e) /\ work' = Tail(work)
    <3> HIDE DEF e
    <3> QED
      BY <2>2 DEF DispatchStep, Intercepts, Commit, DirectInv
  <2>4. /\ UNCHANGED <<conversations, session, prompts, messages, prompt_conversations, tool_conversations>>
        /\ said' = IF Folds(e) /\ e.conv # None
                   THEN said \cup {[conv |-> e.conv, session |-> session, entry |-> EntryOf(e)]}
                   ELSE said
    BY DEF EnqueuePublish, gates, tracking
  <2> QED
    BY <2>1, <2>3, <2>4
<1>2. head \in GoodEvent(Len(prompts)) /\ Own(head) /\ head \in Event
  <2>1. head \in GoodEvent(Len(prompts))
    BY HeadTypes DEF EnqueuePublish, Doing
  <2> QED
    BY <1>1, <2>1 DEF BranchInv, WorkInv, GoodEvent
<1>3. /\ e.kind = head.kind /\ e.of = head.of /\ e.session = head.session
      /\ (head.conv \in conversations /\ e.conv = head.conv) \/ (head.conv \notin conversations /\ e.conv = None)
  BY <1>2 DEF Event
<1>4. e \in GoodEvent(Len(prompts))
  <2>1. [head EXCEPT !.conv = None] \in Event
    BY <1>2 DEF Event
  <2>2. e \in Event
    BY <1>2, <2>1
  <2> HIDE DEF e, head, Event
  <2> QED
    BY <1>2, <1>3, <2>2 DEF GoodEvent
<1> HIDE DEF e, head
<1>5. \A t \in Range(work') : Own(t)'
  <2>1. <<>> \in Seq({}) /\ work' = <<>> \o Tail(work) /\ Range(<<>>) = {}
    <3>1. Tail(work) = <<>> \o Tail(work)
      <4>1. Tail(work) \in Seq(GoodTask(Len(prompts)))
        BY <1>1, HeadTypes
      <4> QED
        BY <4>1
    <3> QED
      BY <1>1, <3>1, RangeOfParts
  <2> QED
    BY <1>1, <2>1, TailIsOwn DEF BranchInv
<1>6. SameTurns
  BY <1>1, FoldKeepsTurns
<1>7. s \in 0..MaxSessions
  BY <1>4, SessionForTypes
<1>8. EntryOf(e) \in Entry
  <2>1. e.of \in Nat
    BY <1>4 DEF GoodEvent, Event
  <2> QED
    BY <2>1 DEF EntryOf, Entry
<1>9. conv \in [Convs -> GoodConversation(Len(prompts), Len(messages))]
  BY DEF TypeInv
(* Nothing is appended. *)
<1>10. CASE s = 0 /\ (~Folds(e) \/ e.conv = None)
  <2>1. UNCHANGED <<tree, conv, said>>
    BY <1>1, <1>10 DEF Fold
  <2> QED
    BY <1>1, <1>5, <2>1, FrameBranches
<1>11. \A z \in 1..MaxSessions : Len(tree[z]) \in Nat
  <2>1. \A z \in 1..MaxSessions : tree[z] \in Seq(Node)
    BY DEF TypeInv
  <2> HIDE DEF Node
  <2> QED
    BY <2>1
(* A node of nobody. *)
<1>12. CASE s # 0 /\ (~Folds(e) \/ e.conv = None)
  <2>1. e.conv = None /\ said' = said
    <3>1. s # 0 => Folds(e)
      BY DEF SessionFor, Folds, UserKinds
    <3> QED
      BY <1>1, <1>12, <3>1
  <2>2. s \in 1..MaxSessions
    BY <1>7, <1>12, PromptDispatchAssumption
  <2>3. e.conv \notin conversations
    BY <1>0, <2>1
  <2>4. ParentOf(e, s) = Len(tree[s])
    BY <2>3 DEF ParentOf
  <2>5. tree' = [tree EXCEPT ![s] = Append(tree[s], node)] /\ conv' = conv
    BY <1>1, <1>12, <2>3 DEF Fold
  <2> HIDE DEF s
  <2>6. node \in Node /\ node.parent <= Len(tree[s])
    BY <1>8, <1>11, <2>2, <2>4 DEF Node
  <2> HIDE DEF node
  <2>7. \A d \in conversations : d # None => conv'[d].head = conv[d].head
    BY <2>5
  <2> QED
    BY <1>0, <1>1, <1>5, <1>6, <2>1, <2>2, <2>5, <2>6, <2>7, NodeBranches
(* A node of the conversation. *)
<1>13. CASE Folds(e) /\ e.conv # None
  <2>1. PICK c : c = e.conv
    OBVIOUS
  <2>2. c \in conversations /\ c \in Convs /\ c # None
    BY <1>0, <1>3, <1>13, <2>1
  <2>3. s = session /\ Owned(EntryOf(e), c)
    <3>1. head.conv = c /\ c # None
      BY <1>3, <2>1, <2>2
    <3>2. CASE e.kind \in UserKinds
      <4>1. e.session = session /\ e.of \in DOMAIN messages /\ messages[e.of].conv = c
        BY <1>2, <1>3, <2>2, <3>1, <3>2 DEF Own
      <4>2. s = session
        BY <3>2, <4>1 DEF SessionFor, UserKinds
      <4>3. EntryOf(e) = [what |-> "message", of |-> e.of]
        BY <3>2 DEF EntryOf, UserKinds
      <4>4. Owned(EntryOf(e), c)
        BY <4>1, <4>3 DEF Owned, ConvOf
      <4> QED
        BY <4>2, <4>4
    <3>3. CASE e.kind = "response_finished"
      <4>1. e.of \in prompt_conversations /\ prompts[e.of].conv = c
        BY <1>2, <1>3, <3>1, <3>3 DEF Own
      <4>2. s = session
        BY <2>2, <3>3, <4>1 DEF SessionFor, Attributed, UserKinds
      <4>3. EntryOf(e) = [what |-> "answer", of |-> e.of]
        BY <3>3 DEF EntryOf
      <4>4. prompt_conversations \subseteq DOMAIN prompts
        <5>1. prompts \in Seq(Prompt) /\ prompt_conversations \subseteq 1..Len(prompts)
          BY DEF TypeInv
        <5> HIDE DEF Prompt
        <5> QED
          BY <5>1
      <4>5. Owned(EntryOf(e), c)
        BY <4>1, <4>3, <4>4 DEF Owned, ConvOf
      <4> QED
        BY <4>2, <4>5
    <3>4. CASE e.kind = "tool_result"
      <4>1. e.of \in tool_conversations /\ prompts[e.of].conv = c
        BY <1>2, <1>3, <3>1, <3>4 DEF Own
      <4>2. s = session
        BY <2>2, <3>4, <4>1 DEF SessionFor, Attributed, UserKinds
      <4>3. EntryOf(e) = [what |-> "result", of |-> e.of]
        BY <3>4 DEF EntryOf
      <4>4. tool_conversations \subseteq DOMAIN prompts
        <5>1. prompts \in Seq(Prompt) /\ tool_conversations \subseteq 1..Len(prompts)
          BY DEF TypeInv
        <5> HIDE DEF Prompt
        <5> QED
          BY <5>1
      <4>5. Owned(EntryOf(e), c)
        BY <4>1, <4>3, <4>4 DEF Owned, ConvOf
      <4> QED
        BY <4>2, <4>5
    <3> QED
      BY <1>13, <3>2, <3>3, <3>4 DEF Folds
  <2>4. s # 0 /\ s \in 1..MaxSessions
    BY <1>0, <2>3
  <2>5. ParentOf(e, s) = conv[c].head
    BY <2>1, <2>2 DEF ParentOf
  <2>6. tree' = [tree EXCEPT ![s] = Append(tree[s], node)]
        /\ conv' = [conv EXCEPT ![c].head = Len(tree[s]) + 1]
    BY <1>1, <2>1, <2>2, <2>4 DEF Fold
  <2>7. conv[c].head \in 0..Len(tree[session])
    BY <2>2 DEF BranchInv, TreeInv, HeadIsExact
  <2> HIDE DEF s
  <2>8. node \in Node /\ node.parent = conv[c].head /\ node.parent <= Len(tree[s]) /\ node.entry = EntryOf(e)
    BY <1>8, <1>11, <2>3, <2>4, <2>5, <2>7 DEF Node
  <2>9. conv'[c].head = Len(tree[s]) + 1 /\ \A d \in Convs : d # c => conv'[d] = conv[d]
    BY <1>9, <2>2, <2>6 DEF GoodConversation
  <2>10. \A d \in conversations : d # c => conv'[d].head = conv[d].head
    BY <1>0, <2>9
  <2>11. c # Default => Known(c)
    BY <2>2 DEF AskedInv
  <2>12. said' = said \cup {[conv |-> c, session |-> session, entry |-> node.entry]}
    BY <1>1, <1>13, <2>1, <2>8
  <2>13. Owned(node.entry, c)
    BY <2>3, <2>8
  <2> HIDE DEF node
  <2> QED
    BY <1>1, <1>5, <1>6, <2>2, <2>3, <2>4, <2>6, <2>8, <2>9, <2>10, <2>11, <2>12, <2>13, NodeBranches
<1> QED
  BY <1>10, <1>12, <1>13

(* switch_session: the branch of a new session is empty. *)
LEMMA SwitchBranches ==
    ASSUME TypeInv, Grew, BranchInv, SwitchSession
    PROVE  BranchInv'
<1>1. /\ UNCHANGED <<tree, said, prompts>> /\ session' = session + 1 /\ session < MaxSessions
      /\ conversations' = {Default} /\ conv'[Default] = Fresh(0)
  <2>1. conv' = Rebound /\ Default \in Convs
    BY DEF SwitchSession, Convs
  <2>2. conv'[Default] = Fresh(0)
    BY <2>1 DEF Rebound
  <2> QED
    BY <2>2 DEF SwitchSession
<1>2. session \in Nat /\ session + 1 \in 1..MaxSessions
  BY <1>1, PromptDispatchAssumption DEF TypeInv
<1>3. conv'[Default].head = 0 /\ conv'[Default].pending_prompts = <<>>
  BY <1>1 DEF Fresh
<1>4. TreeInv'
  <2>1. tree[session + 1] \in Seq(Node) /\ Ends(tree[session + 1])
    BY <1>2 DEF TypeInv, BranchInv, TreeInv
  <2>2. Branch(tree'[session'], conv'[Default].head) = {}
    BY <1>1, <1>3, <2>1, BranchOfRoot
  <2>3. conv'[Default].head \in 0..Len(tree'[session'])
    <3>1. Len(tree[session + 1]) \in Nat
      <4> HIDE DEF Node
      <4> QED
        BY <2>1
    <3> QED
      BY <1>1, <1>3, <3>1
  <2>4. \A x \in said' : x.session # session'
    <3> SUFFICES ASSUME NEW x \in said PROVE x.session # session + 1
      BY <1>1
    <3>1. x.session <= session /\ x.session \in 1..MaxSessions
      BY DEF TypeInv, BranchInv, SaidInv
    <3> QED
      BY <1>2, <3>1
  <2>5. HeadIsExact(Default)'
    BY <2>2, <2>3, <2>4 DEF HeadIsExact
  <2> QED
    BY <1>1, <2>5 DEF BranchInv, TreeInv
<1>5. SaidInv'
  <2> SUFFICES ASSUME NEW x \in said
               PROVE  /\ x.session <= session' /\ (x.conv # Default => Known(x.conv)')
                      /\ Nodes(x.session, x.entry)' # {}
    BY <1>1 DEF SaidInv
  <2>1. x.session <= session /\ (x.conv # Default => Known(x.conv)) /\ Nodes(x.session, x.entry) # {}
        /\ x.session \in Nat
    BY DEF TypeInv, BranchInv, SaidInv
  <2> QED
    BY <1>1, <1>2, <2>1, KnownGrows DEF Nodes
<1>6. SentInv'
  BY <1>1, SentStays DEF BranchInv, SentInv
<1>7. WaitingInv'
  BY <1>1, <1>3, RangeOfParts DEF WaitingInv
<1>8. WorkInv'
  <2>1. CASE Subscribers = {}
    <3>1. CompleteInit(discovered, session', <<>>)
      BY <1>1, <2>1 DEF SwitchSession
    <3>2. <<>> \in Seq(GoodTask(Len(prompts))) /\ Range(<<>>) = {} /\ session' \in 1..MaxSessions
      BY <1>1, <1>2, NoTasks, RangeOfParts
    <3> QED
      BY <3>1, <3>2, InitIsOwn DEF WorkInv
  <2>2. CASE Subscribers # {}
    <3>1. PICK a : a = Publish("session_started", None, 0, session + 1)
      OBVIOUS
    <3>2. work' = <<a>>
      BY <2>2, <3>1 DEF SwitchSession
    <3>3. a.kind = "session_started"
      BY <3>1 DEF Publish
    <3>4. Own(a)'
      BY <3>3 DEF Own, UserKinds
    <3>5. Range(work') = {a}
      BY <3>2, RangeOfLists
    <3> QED
      BY <3>4, <3>5 DEF WorkInv
  <2> QED
    BY <2>1, <2>2
<1> QED
  BY <1>4, <1>5, <1>6, <1>7, <1>8 DEF BranchInv

(* handle_ext_agent_query: a delegate begins with nothing, a summary with the *)
(* branch of the user.                                                       *)
LEMMA QueryBranches ==
    ASSUME TypeInv, AwaitInv, AskedInv, Grew, BranchInv, NEW q \in Queries, AgentQuery(q)
    PROVE  BranchInv'
<1>1. /\ UNCHANGED <<tree, session, said, prompts>> /\ conversations' = conversations \cup {q}
      /\ conv' = [conv EXCEPT ![q] = Fresh(InitialHead(q))]
      /\ work' = Dispatch(q, Len(messages) + 1) /\ ~Known(q)
  BY DEF AgentQuery, gates, Known
<1>2. q \in Convs /\ q # Default /\ Default \in Convs /\ Default \in conversations /\ Default \notin Queries
  BY PromptDispatchAssumption DEF Convs, AwaitInv
<1>3. PICK h : h = InitialHead(q)
  OBVIOUS
<1>4. conv'[q].head = h /\ conv'[q].pending_prompts = <<>> /\ \A d \in Convs : d # q => conv'[d] = conv[d]
  <2>1. conv \in [Convs -> GoodConversation(Len(prompts), Len(messages))]
    BY DEF TypeInv
  <2>2. conv'[q] = Fresh(h) /\ \A d \in Convs : d # q => conv'[d] = conv[d]
    BY <1>1, <1>2, <1>3, <2>1
  <2> QED
    BY <2>2 DEF Fresh
<1>5. q \notin conversations /\ conversations \subseteq Convs
  BY <1>1, <1>2 DEF AskedInv, TypeInv
<1>6. h \in 0..Len(tree[session]) /\ \A x \in Branch(tree[session], h) : Owned(x, q)
  <2>1. session \in 1..MaxSessions /\ tree[session] \in Seq(Node) /\ Ends(tree[session])
    BY DEF TypeInv, BranchInv, TreeInv
  <2>2. CASE q \in Delegated
    <3>1. h = 0 /\ Branch(tree[session], 0) = {}
      BY <1>3, <2>1, <2>2, BranchOfRoot DEF InitialHead
    <3>2. Len(tree[session]) \in Nat
      <4> HIDE DEF Node
      <4> QED
        BY <2>1
    <3> QED
      BY <3>1, <3>2
  <2>3. CASE q \notin Delegated
    <3>1. h = conv[Default].head /\ Summary(q) /\ ~Summary(Default)
      BY <1>2, <1>3, <2>3 DEF InitialHead, Summary
    <3>2. HeadIsExact(Default)
      BY <1>2 DEF BranchInv, TreeInv
    <3>3. h \in 0..Len(tree[session]) /\ \A x \in Branch(tree[session], h) : Owned(x, Default)
      BY <3>1, <3>2 DEF HeadIsExact
    <3>4. \A x : Owned(x, Default) => Owned(x, q)
      BY <3>1 DEF Owned
    <3> QED
      BY <3>3, <3>4
  <2> QED
    BY <2>2, <2>3
<1>7. TreeInv'
  <2>1. ASSUME NEW d \in conversations PROVE HeadIsExact(d)'
    <3>1. HeadIsExact(d) /\ conv[d].head \in 0..Len(tree[session])
      BY <2>1 DEF BranchInv, TreeInv, HeadIsExact
    <3>2. conv'[d] = conv[d]
      BY <1>4, <1>5
    <3> QED
      BY <1>1, <3>1, <3>2, ExactStays
  <2>2. HeadIsExact(q)'
    <3>1. \A x \in said : x.conv # q
      BY <1>1, <1>2 DEF BranchInv, SaidInv
    <3>2. \A x \in Branch(tree'[session'], conv'[q].head) : Owned(x, q)'
      BY <1>1, <1>4, <1>6, OwnedStays
    <3> QED
      BY <1>1, <1>4, <1>6, <3>1, <3>2 DEF HeadIsExact
  <2> QED
    BY <1>1, <2>1, <2>2 DEF BranchInv, TreeInv
<1>8. SaidInv'
  BY <1>1, KnownGrows DEF BranchInv, SaidInv, Nodes
<1>9. SentInv'
  BY <1>1, SentStays DEF BranchInv, SentInv
<1>10. WaitingInv'
  <2> SUFFICES ASSUME NEW c \in conversations', NEW m \in Range(conv'[c].pending_prompts) PROVE messages'[m].conv = c
    BY DEF WaitingInv
  <2>1. c # q
    BY <1>4, RangeOfParts
  <2>2. c \in conversations /\ conv'[c] = conv[c]
    BY <1>1, <1>4, <1>5, <2>1
  <2>3. messages[m].conv = c
    BY <2>2 DEF BranchInv, WaitingInv
  <2>4. conv[c].pending_prompts \in Seq(1..Len(messages)) /\ messages \in Seq(Message)
    BY <1>5, <2>2 DEF TypeInv, GoodConversation
  <2>5. m \in DOMAIN messages
    BY <2>2, <2>4 DEF Range
  <2> QED
    BY <2>3, <2>5 DEF Grew
<1>11. WorkInv'
  <2>1. PICK m : m = Len(messages) + 1
    OBVIOUS
  <2>2. m \in DOMAIN messages' /\ messages'[m].conv = q
    BY <2>1, NewIsOwn DEF AgentQuery
  <2> QED
    BY <1>1, <2>1, <2>2, DispatchIsOwn DEF WorkInv
<1> QED
  BY <1>7, <1>8, <1>9, <1>10, <1>11 DEF BranchInv

(* At the start every branch is empty. *)
LEMMA InitBranches == Init => BranchInv
<1> SUFFICES ASSUME Init PROVE BranchInv
  OBVIOUS
<1>1. /\ conversations = {Default} /\ said = {} /\ work = <<>> /\ session = 1
      /\ conv[Default].head = 0 /\ conv[Default].pending_prompts = <<>>
  BY DEF Init, Fresh, Convs
<1>2. \A s \in 1..MaxSessions : tree[s] = <<>>
  BY DEF Init
<1>3. <<>> \in Seq(Node) /\ Len(<<>>) = 0 /\ DOMAIN <<>> = {}
  OBVIOUS
<1>4. Ends(<<>>)
  BY <1>3 DEF Ends
<1>5. Branch(<<>>, 0) = {}
  BY <1>3, <1>4, BranchOfRoot
<1>6. 1 \in 1..MaxSessions
  BY PromptDispatchAssumption
<1>7. HeadIsExact(Default)
  BY <1>1, <1>2, <1>3, <1>5, <1>6 DEF HeadIsExact
<1>8. TreeInv
  BY <1>1, <1>2, <1>4, <1>7 DEF TreeInv
<1>9. DOMAIN prompts = {}
  BY <1>3 DEF Init
<1>10. WaitingInv /\ WorkInv
  BY <1>1, RangeOfParts DEF WaitingInv, WorkInv
<1> QED
  BY <1>1, <1>8, <1>9, <1>10 DEF BranchInv, SaidInv, SentInv

(* Branches are exact, step by step. *)
LEMMA NextBranches ==
    ASSUME Intercepted = {}
    PROVE  TypeInv /\ AwaitInv /\ DirectInv /\ AskedInv /\ TurnInv /\ BranchInv /\ [Next]_vars => BranchInv'
<1> SUFFICES ASSUME TypeInv, AwaitInv, DirectInv, AskedInv, TurnInv, BranchInv, [Next]_vars
             PROVE  BranchInv'
  OBVIOUS
<1>0. Grew
  BY HistoryGrows
<1>1. CASE EnqueuePublish \/ DrainDeferred \/ Respawn
  BY <1>0, <1>1, PublishBranches, RespawnBranches
<1>2. CASE TryAdvanceQueue \/ DispatchOrAwait \/ SendPrompt \/ TurnEnds \/ ToolsStart
  BY <1>0, <1>2, AdvanceBranches, DispatchBranches, SendBranches, EndsBranches
<1>3. CASE MaybeCompleteTurn \/ ClearTracking
  BY <1>0, <1>3, CompleteBranches, ClearBranches
<1>4. CASE SubmitUserPrompt \/ CancelPrompt \/ SwitchSession
  BY <1>0, <1>4, SubmitBranches, CancelBranches, SwitchBranches
<1>5. CASE \E s \in 1..session : ShellFinished(s)
  BY <1>0, <1>5, ShellBranches
<1>6. CASE \E v \in Providers : \/ ExtensionGone(v) \/ ExtensionSubscribes(v) \/ ExtensionReady(v)
                               \/ \E s \in 1..MaxSessions : ContextReady(v, s)
  BY <1>0, <1>6, GoneBranches, LifecycleBranches, ContextBranches
<1>7. CASE \E p \in at_agent : \E how \in {"answered", "called"} : AgentResponds(p, how)
  BY <1>0, <1>7, RespondsBranches
<1>8. CASE \E p \in running : ToolFinishes(p)
  BY <1>0, <1>8, FinishesBranches
<1>9. CASE \E q \in Queries : AgentQuery(q)
  BY <1>0, <1>9, QueryBranches
<1>10. CASE InterceptReply \/ InterceptorGone \/ UNCHANGED vars
  <2>1. UNCHANGED <<tree, session, said, prompts, conversations, conv, work, prompt_conversations, tool_conversations>>
    BY <1>10 DEF InterceptReply, InterceptorGone, DirectInv, gates, tracking, vars
  <2>2. \A t \in Range(work') : Own(t)'
    BY <1>0, <2>1, OwnStays DEF BranchInv, WorkInv
  <2> QED
    BY <1>0, <2>1, <2>2, FrameBranches
<1> QED
  BY <1>1, <1>2, <1>3, <1>4, <1>5, <1>6, <1>7, <1>8, <1>9, <1>10 DEF Next, Handler

(* The invariant says that branches are exact. *)
LEMMA BranchSuffices == TypeInv /\ BranchInv => BranchesAreExact
<1> SUFFICES ASSUME TypeInv, BranchInv PROVE BranchesAreExact
  OBVIOUS
<1>1. BranchesDoNotMix /\ PromptsAreComplete
  BY DEF BranchInv, SentInv, SentIsExact, Owned, BranchesDoNotMix, PromptsAreComplete
<1>2. NothingSaidIsLost
  BY DEF BranchInv, SaidInv, NothingSaidIsLost
<1>3. BranchesEnd
  BY DEF BranchInv, TreeInv, Ends, BranchesEnd
<1> QED
  BY <1>1, <1>2, <1>3, TypeInvSuffices DEF BranchesAreExact

(* Where no publish is held back, what the agent is prompted with is the branch *)
(* of its conversation: all that was said on it, and nothing of the others      *)
(* (send_prompt_to_agent_for, append_node_at).                                *)
THEOREM PromptsHoldTheirBranch == ASSUME Intercepted = {} PROVE Spec => []BranchesAreExact
<1> DEFINE Inv == TypeInv /\ AwaitInv /\ DirectInv /\ AskedInv /\ TrackInv /\ TurnInv /\ BranchInv
<1>1. Init => Inv
  BY InitTypes, InitIsAwaited, InitTakesTurns, InitBranches
<1>2. Inv /\ [Next]_vars => Inv'
  BY NextTypes, NextAwaits, DirectStays, AskedStays, NextTakesTurns, NextBranches
<1>3. Inv => BranchesAreExact
  BY BranchSuffices
<1> QED
  BY <1>1, <1>2, <1>3, PTL DEF Spec
===============================================================================
