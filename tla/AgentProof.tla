----------------------------- MODULE AgentProof -----------------------------
(* Every prompt is answered once and in the order it was sent, and nothing *)
(* is acknowledged before; the pool and its queue agree: for any sessions, *)
(* settings, retries and bounds, whatever the provider and the user do.    *)
EXTENDS Agent, FiniteSetTheorems, SequenceTheorems, TLAPS

-----------------------------------------------------------------------------
(* What holds of each conversation, frame and job.                         *)
Sent == Cardinality(DOMAIN snapshots)

IsConversation(conv, sent) ==
  /\ {"session", "inflight"} \subseteq DOMAIN conv
  /\ conv.session \in Sessions /\ conv.inflight \in 0..sent

Conversations ==
  /\ DOMAIN conversations \subseteq {"user", "side"}
  /\ conversations # <<>> => "user" \in DOMAIN conversations
  /\ \A c \in DOMAIN conversations : IsConversation(conversations[c], Sent)

Harness ==
  /\ Conversations /\ config \in Configs
  /\ DOMAIN snapshots = 1..Sent /\ Sent \in 0..MaxPrompts
  /\ DOMAIN route \subseteq 1..Sent /\ cancelled \subseteq 1..Sent
  /\ published \in Nat

(* A frame, when so many prompts were sent.                                *)
IsPrompt(f, sent) == f.t = "prompt" /\ f.id \in 1..sent /\ f.session \in Sessions
IsStop(f, sent) == f.t = "cancel" /\ f.id \in 0..sent
IsWarm(f) == f.t = "prewarm" /\ f.session \in Sessions

(* What waits for the agent, when so many events were published.           *)
IsEntry(e, sent, top) ==
  \/ e.logged = FALSE /\ e.frame.t = "disconnect"
  \/ e.logged = TRUE /\ e.log \in 1..top /\ (IsPrompt(e.frame, sent) \/ IsStop(e.frame, sent) \/ IsWarm(e.frame))

IsJob ==
  /\ {"id", "log", "session", "retries"} \subseteq DOMAIN job
  /\ job.id \in 1..Sent /\ job.session \in Sessions /\ job.log \in 1..published

InHand == pc \in {"dispatch", "cached", "fresh", "http", "replay", "sleep"}

AgentInv ==
  /\ canceledSpids \subseteq 1..Sent /\ DOMAIN snaps \subseteq 1..Sent
  /\ acked \in 0..published
  /\ \/ job = NoJob /\ pc \in {"idle", "gone"}
     \/ IsJob /\ InHand

(* The frames between harness and agent, as one sequence.                  *)
IsList(s) == \E S : s \in Seq(S)

Lists == IsList(inbox) /\ IsList(deferred)

Logged == {i \in DOMAIN Waiting : Waiting[i].logged}

(* The order of the logs is that of the frames, and the frame in hand is   *)
(* before them; an acknowledgement covers none of them.                    *)
LogInv ==
  /\ \A i \in DOMAIN Waiting : IsEntry(Waiting[i], Sent, published)
  /\ \A i, j \in Logged : i < j => Waiting[i].log < Waiting[j].log
  /\ \A i \in Logged : acked < Waiting[i].log /\ (job # NoJob => job.log < Waiting[i].log)
  /\ job # NoJob => acked < job.log

(* The prompts that wait are those that were not begun, in their order.    *)
OrderInv ==
  /\ IsList(answered) /\ \A i \in DOMAIN answered : answered[i] = i
  /\ job # NoJob => job.id = Begun
  /\ \A i \in Queued : Waiting[i].frame.id \in (Begun + 1)..Sent
  /\ \A k \in (Begun + 1)..Sent : \E i \in Queued : Waiting[i].frame.id = k
  /\ \A i, j \in Queued : i < j => Waiting[i].frame.id < Waiting[j].frame.id

QueueInv == LogInv /\ OrderInv /\ Begun \in 0..Sent

IInv == Harness /\ AgentInv /\ Lists /\ QueueInv

-----------------------------------------------------------------------------
(* Sequences: what is where in one that was put behind another.            *)
LEMMA Concatenation ==
    ASSUME NEW S, NEW s \in Seq(S), NEW t \in Seq(S)
    PROVE  /\ s \o t \in Seq(S)
           /\ Len(s \o t) = Len(s) + Len(t)
           /\ DOMAIN (s \o t) = 1..(Len(s) + Len(t))
           /\ \A i \in 1..Len(s) : (s \o t)[i] = s[i]
           /\ \A i \in 1..Len(t) : (s \o t)[Len(s) + i] = t[i]
  OBVIOUS

(* A function on the first numbers is a sequence.                          *)
LEMMA FunctionIsSequence ==
    ASSUME NEW S, NEW n \in Nat, NEW f \in [1..n -> S]
    PROVE  f \in Seq(S) /\ Len(f) = n
  OBVIOUS

(* Three sequences behind each other, however they are put together.      *)
LEMMA Association ==
    ASSUME NEW S, NEW s \in Seq(S), NEW t \in Seq(S), NEW u \in Seq(S)
    PROVE  s \o (t \o u) = (s \o t) \o u
  OBVIOUS

(* Lists have a common set of members.                                     *)
LEMMA CommonList ==
    ASSUME NEW s, NEW t, IsList(s), IsList(t)
    PROVE  \E S : s \in Seq(S) /\ t \in Seq(S)
<1> PICK A : s \in Seq(A)
  BY DEF IsList
<1> PICK B : t \in Seq(B)
  BY DEF IsList
<1>1. s \in Seq(A \cup B) /\ t \in Seq(A \cup B)
  OBVIOUS
<1> QED
  BY <1>1

(* The frames that wait are a sequence.                                    *)
LEMMA WaitingIsList ==
    ASSUME Lists
    PROVE  /\ IsList(Waiting) /\ Len(Waiting) \in Nat /\ DOMAIN Waiting = 1..Len(Waiting)
<1>1. PICK S : deferred \in Seq(S) /\ inbox \in Seq(S)
  BY CommonList DEF Lists
<1>2. Waiting \in Seq(S)
  BY <1>1, Concatenation DEF Waiting
<1> QED
  BY <1>2 DEF IsList

(* The harness sends: the frames go behind those that wait.                *)
LEMMA WaitingGrows ==
    ASSUME Lists, NEW new, IsList(new), inbox' = inbox \o new, deferred' = deferred
    PROVE  /\ Lists' /\ Len(new) \in Nat
           /\ DOMAIN Waiting' = 1..(Len(Waiting) + Len(new))
           /\ \A i \in 1..Len(Waiting) : Waiting'[i] = Waiting[i]
           /\ \A i \in 1..Len(new) : Waiting'[Len(Waiting) + i] = new[i]
<1>1. PICK A : deferred \in Seq(A) /\ inbox \in Seq(A)
  BY CommonList DEF Lists
<1>2. PICK B : inbox \in Seq(B) /\ new \in Seq(B)
  BY CommonList DEF Lists
<1> DEFINE S == A \cup B
<1>3. deferred \in Seq(S) /\ inbox \in Seq(S) /\ new \in Seq(S)
  BY <1>1, <1>2
<1> HIDE DEF S
<1>4. inbox \o new \in Seq(S) /\ deferred \o inbox \in Seq(S)
  BY <1>3, Concatenation
<1>5. Waiting' = (deferred \o inbox) \o new
  BY <1>3, Association DEF Waiting
<1>6. /\ DOMAIN ((deferred \o inbox) \o new) = 1..(Len(deferred \o inbox) + Len(new))
      /\ \A i \in 1..Len(deferred \o inbox) : ((deferred \o inbox) \o new)[i] = (deferred \o inbox)[i]
      /\ \A i \in 1..Len(new) : ((deferred \o inbox) \o new)[Len(deferred \o inbox) + i] = new[i]
  BY <1>3, <1>4, Concatenation
<1> QED
  BY <1>3, <1>4, <1>5, <1>6 DEF Waiting, IsList, Lists

(* The agent takes the frame that waits longest.                           *)
LEMMA WaitingIsTaken ==
    ASSUME Lists, Waiting # <<>>, TakeFrame
    PROVE  /\ Lists' /\ Len(Waiting) \in Nat \ {0}
           /\ DOMAIN Waiting = 1..Len(Waiting) /\ DOMAIN Waiting' = 1..(Len(Waiting) - 1)
           /\ Head(Waiting) = Waiting[1]
           /\ \A i \in 1..(Len(Waiting) - 1) : Waiting'[i] = Waiting[i + 1]
<1>1. PICK S : deferred \in Seq(S) /\ inbox \in Seq(S)
  BY CommonList DEF Lists
<1>2. Waiting \in Seq(S) /\ Len(Waiting) \in Nat \ {0}
  BY <1>1, Concatenation DEF Waiting
<1>3. Waiting' = Tail(Waiting) /\ deferred' \in Seq(S) /\ inbox' \in Seq(S)
  <2>1. CASE deferred # <<>>
    <3>1. deferred' = Tail(deferred) /\ inbox' = inbox
      BY <2>1 DEF TakeFrame
    <3>2. Tail(deferred \o inbox) = Tail(deferred) \o inbox
      BY <1>1, <2>1
    <3> QED
      BY <1>1, <2>1, <3>1, <3>2 DEF Waiting
  <2>2. CASE deferred = <<>>
    <3>1. deferred' = deferred /\ inbox' = Tail(inbox)
      BY <2>2 DEF TakeFrame
    <3>2. deferred \o inbox = inbox /\ deferred \o Tail(inbox) = Tail(inbox) /\ inbox # <<>>
      BY <1>1, <2>2 DEF Waiting
    <3> QED
      BY <1>1, <2>2, <3>1, <3>2 DEF Waiting
  <2> QED
    BY <2>1, <2>2
<1>4. Lists'
  BY <1>3 DEF Lists, IsList
<1> QED
  BY <1>2, <1>3, <1>4

(* A frame that is set aside keeps its place.                              *)
LEMMA WaitingIsKept ==
    ASSUME Lists, inbox # <<>>, deferred' = Append(deferred, Head(inbox)), inbox' = Tail(inbox)
    PROVE  Lists' /\ Waiting' = Waiting
<1>1. PICK S : deferred \in Seq(S) /\ inbox \in Seq(S)
  BY CommonList DEF Lists
<1>2. Head(inbox) \in S /\ Tail(inbox) \in Seq(S) /\ <<Head(inbox)>> \in Seq(S)
  BY <1>1
<1>3. Append(deferred, Head(inbox)) = deferred \o <<Head(inbox)>> /\ inbox = <<Head(inbox)>> \o Tail(inbox)
  BY <1>1, <1>2
<1>4. Append(deferred, Head(inbox)) \in Seq(S)
  BY <1>1, <1>2
<1>5. deferred \o (<<Head(inbox)>> \o Tail(inbox)) = (deferred \o <<Head(inbox)>>) \o Tail(inbox)
  BY <1>1, <1>2, Association
<1> QED
  BY <1>2, <1>3, <1>4, <1>5 DEF Waiting, IsList, Lists

-----------------------------------------------------------------------------
(* What a step leaves of the queue and its order.                          *)
SameHarness == UNCHANGED <<conversations, config, route, cancelled, snapshots, published>>

(* A job is not the absence of one.                                        *)
LEMMA JobIsSome ==
    ASSUME NEW j, NEW n, j.id \in 1..n
    PROVE  j # NoJob
<1>1. NoJob.id = 0
  BY DEF NoJob
<1> QED
  BY <1>1

(* The agent goes on with its job, or goes on without one.                 *)
LEMMA GoingOnKeepsQueue ==
    ASSUME QueueInv, Waiting' = Waiting, UNCHANGED <<snapshots, published, answered, acked>>,
           \/ job' = job
           \/ job # NoJob /\ job' # NoJob /\ job'.id = job.id /\ job'.log = job.log
    PROVE  QueueInv'
<1>1. Begun' = Begun /\ Sent' = Sent /\ Queued' = Queued /\ Logged' = Logged
  BY DEF Begun, Sent, Queued, Logged
<1>2. LogInv'
  <2>1. \A i \in DOMAIN Waiting' : IsEntry(Waiting'[i], Sent', published')
    BY <1>1 DEF QueueInv, LogInv
  <2> QED
    BY <1>1, <2>1 DEF QueueInv, LogInv
<1>3. OrderInv' /\ Begun' \in 0..Sent'
  BY <1>1 DEF QueueInv, OrderInv
<1> QED
  BY <1>1, <1>2, <1>3 DEF QueueInv

(* The answer: what was in hand is behind those answered before.           *)
LEMMA FinishKeepsQueue ==
    ASSUME QueueInv, Waiting' = Waiting, UNCHANGED <<snapshots, published>>,
           job # NoJob, NEW reply, NEW response, Finish(reply, response)
    PROVE  QueueInv'
<1>1. /\ answered' = Append(answered, job.id) /\ acked' = job.log /\ job' = NoJob
  BY DEF Finish, Answer
<1>2. PICK S : answered \in Seq(S)
  BY DEF QueueInv, OrderInv, IsList
<1>3. /\ Len(answered) \in Nat /\ DOMAIN answered = 1..Len(answered)
      /\ answered' \in Seq(S \cup {job.id}) /\ Len(answered') = Len(answered) + 1
      /\ answered'[Len(answered) + 1] = job.id /\ \A i \in 1..Len(answered) : answered'[i] = answered[i]
  BY <1>1, <1>2
<1>4. Begun = Len(answered) + 1 /\ Begun' = Begun
  BY <1>1, <1>3 DEF Begun
<1>5. Sent' = Sent /\ Queued' = Queued /\ Logged' = Logged
  BY DEF Sent, Queued, Logged
<1>6. OrderInv'
  <2>1. IsList(answered')
    BY <1>3 DEF IsList
  <2>2. DOMAIN answered' = 1..(Len(answered) + 1)
    BY <1>3
  <2>3. \A i \in DOMAIN answered' : answered'[i] = i
    BY <1>3, <1>4, <2>2 DEF QueueInv, OrderInv
  <2> QED
    BY <1>1, <1>4, <1>5, <2>1, <2>3 DEF QueueInv, OrderInv
<1>7. LogInv'
  <2>1. \A i \in DOMAIN Waiting' : IsEntry(Waiting'[i], Sent', published')
    BY <1>5 DEF QueueInv, LogInv
  <2> QED
    BY <1>1, <1>5, <2>1 DEF QueueInv, LogInv
<1> QED
  BY <1>4, <1>5, <1>6, <1>7 DEF QueueInv

(* A frame is taken off, and Rest is what is left of the order.            *)
LEMMA TakingKeepsOrder ==
    ASSUME IInv, job = NoJob, Waiting # <<>>, TakeFrame, UNCHANGED <<snapshots, published>>
    PROVE  LET first == Waiting[1]
           IN  /\ IsEntry(first, Sent, published) /\ Lists' /\ Head(Waiting) = first
               /\ \A i \in DOMAIN Waiting' : IsEntry(Waiting'[i], Sent', published')
               /\ \A i, j \in Logged' : i < j => Waiting'[i].log < Waiting'[j].log
               /\ \A i \in Logged' : acked < Waiting'[i].log /\ (first.logged => first.log < Waiting'[i].log)
               /\ first.logged => acked < first.log
               /\ first.frame.t = "prompt" => first.frame.id = Begun + 1
               /\ \A i \in Queued' : /\ Waiting'[i].frame.id \in (Begun + 1)..Sent
                                     /\ first.frame.t = "prompt" => Waiting'[i].frame.id # Begun + 1
               /\ \A k \in (Begun + 1)..Sent :
                    (\E i \in Queued' : Waiting'[i].frame.id = k) \/ (first.frame.t = "prompt" /\ k = Begun + 1)
               /\ \A i, j \in Queued' : i < j => Waiting'[i].frame.id < Waiting'[j].frame.id
<1> DEFINE n == Len(Waiting)
<1> DEFINE first == Waiting[1]
<1>1. /\ Lists' /\ n \in Nat \ {0} /\ DOMAIN Waiting = 1..n /\ DOMAIN Waiting' = 1..(n - 1)
      /\ Head(Waiting) = Waiting[1] /\ \A i \in 1..(n - 1) : Waiting'[i] = Waiting[i + 1]
  BY WaitingIsTaken DEF IInv
<1> HIDE DEF n
<1>2. 1 \in DOMAIN Waiting /\ \A i \in DOMAIN Waiting' : i + 1 \in DOMAIN Waiting /\ 1 < i + 1 /\ i \in Nat
  BY <1>1
<1>3. \A i \in DOMAIN Waiting' : Waiting'[i] = Waiting[i + 1]
  BY <1>1
<1>4. Sent' = Sent /\ Sent \in Nat /\ Begun \in Nat
  <2>1. MaxPrompts \in Nat
    BY AgentAssumption
  <2> QED
    BY <2>1 DEF Sent, IInv, QueueInv, Harness
<1>6. LogInv /\ OrderInv
  BY DEF IInv, QueueInv
<1>7. IsEntry(first, Sent, published) /\ \A i \in DOMAIN Waiting' : IsEntry(Waiting'[i], Sent', published')
  <2>1. \A i \in DOMAIN Waiting : IsEntry(Waiting[i], Sent, published)
    BY <1>6 DEF LogInv
  <2>2. \A i \in DOMAIN Waiting' : IsEntry(Waiting[i + 1], Sent, published)
    BY <1>2, <2>1
  <2> QED
    BY <1>2, <1>3, <1>4, <2>1, <2>2
<1>8. \A i \in Logged' : i + 1 \in Logged /\ Waiting'[i].log = Waiting[i + 1].log /\ i \in Nat
  BY <1>2, <1>3 DEF Logged
<1>9. \A i, j \in Logged' : i < j => Waiting'[i].log < Waiting'[j].log
  <2> SUFFICES ASSUME NEW i \in Logged', NEW j \in Logged', i < j
               PROVE  Waiting'[i].log < Waiting'[j].log
    OBVIOUS
  <2>1. i + 1 < j + 1
    BY <1>8
  <2> QED
    BY <1>6, <1>8, <2>1 DEF LogInv
<1>10. \A i \in Logged' : acked < Waiting'[i].log /\ (first.logged => first.log < Waiting'[i].log)
  <2> SUFFICES ASSUME NEW i \in Logged'
               PROVE  acked < Waiting'[i].log /\ (first.logged => first.log < Waiting'[i].log)
    OBVIOUS
  <2>1. i + 1 \in Logged /\ 1 < i + 1 /\ Waiting'[i].log = Waiting[i + 1].log
    <3>1. i \in DOMAIN Waiting'
      BY DEF Logged
    <3> QED
      BY <1>2, <1>8, <3>1
  <2>2. first.logged => 1 \in Logged
    BY <1>2 DEF Logged
  <2> QED
    BY <1>6, <2>1, <2>2 DEF LogInv
<1>11. first.logged => acked < first.log
  BY <1>2, <1>6 DEF LogInv, Logged
<1>12. \A i \in Queued' : i + 1 \in Queued /\ Waiting'[i].frame.id = Waiting[i + 1].frame.id /\ i \in Nat /\ 1 < i + 1
  BY <1>2, <1>3 DEF Queued
<1>13. first.frame.t = "prompt" => 1 \in Queued
  BY <1>2 DEF Queued
<1>14. \A i \in Queued : i = 1 \/ (i - 1 \in Queued' /\ Waiting'[i - 1] = Waiting[i])
  <2> SUFFICES ASSUME NEW i \in Queued, i # 1 PROVE i - 1 \in Queued' /\ Waiting'[i - 1] = Waiting[i]
    OBVIOUS
  <2>1. i \in 1..n /\ Waiting[i].frame.t = "prompt"
    BY <1>1 DEF Queued
  <2>2. i - 1 \in 1..(n - 1) /\ (i - 1) + 1 = i
    BY <1>1, <2>1
  <2>3. Waiting'[i - 1] = Waiting[i]
    BY <1>1, <2>2
  <2> QED
    BY <1>1, <2>1, <2>2, <2>3 DEF Queued
<1>15. \A i \in Queued : Waiting[i].frame.id \in (Begun + 1)..Sent
  BY <1>6 DEF OrderInv
<1>16. \A i \in Queued : 1 \in Queued /\ i # 1 => Waiting[1].frame.id < Waiting[i].frame.id
  <2> SUFFICES ASSUME NEW i \in Queued, 1 \in Queued, i # 1 PROVE Waiting[1].frame.id < Waiting[i].frame.id
    OBVIOUS
  <2>1. 1 < i
    BY <1>1 DEF Queued
  <2> QED
    BY <1>6, <2>1 DEF OrderInv
<1>17. first.frame.t = "prompt" => first.frame.id = Begun + 1
  <2> SUFFICES ASSUME first.frame.t = "prompt", first.frame.id # Begun + 1 PROVE FALSE
    OBVIOUS
  <2>1. 1 \in Queued /\ Waiting[1].frame.id \in (Begun + 1)..Sent
    BY <1>13, <1>15
  <2>2. Begun + 1 \in (Begun + 1)..Sent
    BY <1>4, <2>1
  <2>3. PICK i \in Queued : Waiting[i].frame.id = Begun + 1
    BY <1>6, <2>2 DEF OrderInv
  <2>4. i # 1
    BY <2>3
  <2>5. Waiting[1].frame.id < Waiting[i].frame.id
    BY <1>16, <2>1, <2>4
  <2> QED
    BY <1>4, <2>1, <2>3, <2>5
<1>18. \A i \in Queued' : /\ Waiting'[i].frame.id \in (Begun + 1)..Sent
                          /\ first.frame.t = "prompt" => Waiting'[i].frame.id # Begun + 1
  <2> SUFFICES ASSUME NEW i \in Queued'
               PROVE  /\ Waiting'[i].frame.id \in (Begun + 1)..Sent
                      /\ first.frame.t = "prompt" => Waiting'[i].frame.id # Begun + 1
    OBVIOUS
  <2>1. i + 1 \in Queued /\ Waiting'[i].frame.id = Waiting[i + 1].frame.id /\ i + 1 # 1
    BY <1>12
  <2>2. Waiting[i + 1].frame.id \in (Begun + 1)..Sent
    BY <1>15, <2>1
  <2>3. first.frame.t = "prompt" => Begun + 1 < Waiting[i + 1].frame.id
    BY <1>13, <1>16, <1>17, <2>1
  <2> QED
    BY <1>4, <2>1, <2>2, <2>3
<1>19. ASSUME NEW k \in (Begun + 1)..Sent
       PROVE  (\E i \in Queued' : Waiting'[i].frame.id = k) \/ (first.frame.t = "prompt" /\ k = Begun + 1)
  <2>1. PICK i \in Queued : Waiting[i].frame.id = k
    BY <1>6 DEF OrderInv
  <2>2. CASE i = 1
    <3>1. first.frame.t = "prompt"
      <4>1. first.frame.t = "prompt"
        BY <2>1, <2>2 DEF Queued
      <4> QED
        BY <1>7, <4>1 DEF IsEntry, IsStop, IsWarm, IsPrompt
    <3> QED
      BY <1>17, <2>1, <2>2, <3>1
  <2>3. CASE i # 1
    BY <1>14, <2>1, <2>3
  <2> QED
    BY <2>2, <2>3
<1>20. \A i, j \in Queued' : i < j => Waiting'[i].frame.id < Waiting'[j].frame.id
  <2> SUFFICES ASSUME NEW i \in Queued', NEW j \in Queued', i < j
               PROVE  Waiting'[i].frame.id < Waiting'[j].frame.id
    OBVIOUS
  <2>1. i + 1 < j + 1
    BY <1>12
  <2> QED
    BY <1>6, <1>12, <2>1 DEF OrderInv
<1> QED
  BY <1>1, <1>7, <1>9, <1>10, <1>11, <1>17, <1>18, <1>19, <1>20

(* What is taken is passed over, answered at once, or in hand from now on. *)
LEMMA TakingKeepsQueue ==
    ASSUME IInv, pc = "idle", Waiting # <<>>, TakeFrame, UNCHANGED <<snapshots, published>>,
           \/ /\ Head(Waiting).frame.t # "prompt" /\ UNCHANGED <<answered, job>>
              /\ acked' = acked \/ (Head(Waiting).logged /\ acked' = Head(Waiting).log)
           \/ /\ Head(Waiting).frame.t = "prompt" /\ job' = job
              /\ answered' = Append(answered, Head(Waiting).frame.id) /\ acked' = Head(Waiting).log
           \/ /\ Head(Waiting).frame.t = "prompt" /\ UNCHANGED <<answered, acked>>
              /\ job'.id = Head(Waiting).frame.id /\ job'.log = Head(Waiting).log
    PROVE  Lists' /\ QueueInv'
<1> DEFINE first == Waiting[1]
<1>1. job = NoJob
  BY DEF IInv, AgentInv, InHand
<1>2. /\ IsEntry(first, Sent, published) /\ Lists' /\ Head(Waiting) = first
      /\ \A i \in DOMAIN Waiting' : IsEntry(Waiting'[i], Sent', published')
      /\ \A i, j \in Logged' : i < j => Waiting'[i].log < Waiting'[j].log
      /\ \A i \in Logged' : acked < Waiting'[i].log /\ (first.logged => first.log < Waiting'[i].log)
      /\ first.logged => acked < first.log
      /\ first.frame.t = "prompt" => first.frame.id = Begun + 1
      /\ \A i \in Queued' : /\ Waiting'[i].frame.id \in (Begun + 1)..Sent
                            /\ first.frame.t = "prompt" => Waiting'[i].frame.id # Begun + 1
      /\ \A k \in (Begun + 1)..Sent :
           (\E i \in Queued' : Waiting'[i].frame.id = k) \/ (first.frame.t = "prompt" /\ k = Begun + 1)
      /\ \A i, j \in Queued' : i < j => Waiting'[i].frame.id < Waiting'[j].frame.id
  BY <1>1, TakingKeepsOrder
<1> HIDE DEF first
<1>3. /\ Sent' = Sent /\ Sent \in Nat /\ IsList(answered) /\ Begun \in 0..Sent
      /\ \A i \in DOMAIN answered : answered[i] = i
  <2>1. MaxPrompts \in Nat
    BY AgentAssumption
  <2> QED
    BY <2>1 DEF Sent, IInv, QueueInv, OrderInv, Harness
<1>4. PICK S : answered \in Seq(S)
  BY <1>3 DEF IsList
<1>5. Begun = Len(answered) /\ Len(answered) \in Nat
  BY <1>1, <1>4 DEF Begun
<1>6. first.frame.t = "prompt" => first.logged /\ first.log \in 1..published /\ first.frame.id \in 1..Sent
  BY <1>2 DEF IsEntry, IsPrompt, IsStop, IsWarm
<1>7. CASE /\ first.frame.t # "prompt" /\ UNCHANGED <<answered, job>>
           /\ acked' = acked \/ (first.logged /\ acked' = first.log)
  <2>1. Begun' = Begun
    BY <1>7 DEF Begun
  <2>2. LogInv'
    BY <1>1, <1>2, <1>7 DEF LogInv
  <2>3. OrderInv'
    BY <1>1, <1>2, <1>3, <1>7, <2>1 DEF OrderInv, IsList
  <2> QED
    BY <1>2, <1>3, <2>1, <2>2, <2>3 DEF QueueInv
<1>8. CASE /\ first.frame.t = "prompt" /\ job' = job
           /\ answered' = Append(answered, first.frame.id) /\ acked' = first.log
  <2>1. /\ answered' \in Seq(S \cup {first.frame.id}) /\ Len(answered') = Len(answered) + 1
        /\ \A i \in DOMAIN answered' : answered'[i] = i
    BY <1>2, <1>3, <1>4, <1>5, <1>8
  <2>2. Begun' = Begun + 1
    <3>1. Begun' = IF job' = NoJob THEN Len(answered') + 0 ELSE Len(answered') + 1
      BY DEF Begun
    <3>2. job' = NoJob
      BY <1>1, <1>8
    <3> QED
      BY <1>5, <2>1, <3>1, <3>2
  <2>3. LogInv'
    BY <1>1, <1>2, <1>6, <1>8 DEF LogInv
  <2>4. \A i \in Queued' : Waiting'[i].frame.id \in (Begun' + 1)..Sent'
    BY <1>2, <1>3, <1>8, <2>2
  <2>5. \A k \in (Begun' + 1)..Sent' : \E i \in Queued' : Waiting'[i].frame.id = k
    BY <1>2, <1>3, <1>8, <2>2
  <2>6. OrderInv'
    BY <1>1, <1>2, <1>8, <2>1, <2>4, <2>5 DEF OrderInv, IsList
  <2> QED
    BY <1>2, <1>3, <1>6, <1>8, <2>2, <2>3, <2>6 DEF QueueInv
<1>9. CASE /\ first.frame.t = "prompt" /\ UNCHANGED <<answered, acked>>
           /\ job'.id = first.frame.id /\ job'.log = first.log
  <2>1. job' # NoJob
    BY <1>6, <1>9, JobIsSome
  <2>2. Begun' = Begun + 1
    BY <1>5, <1>9, <2>1 DEF Begun
  <2>3. LogInv'
    BY <1>2, <1>6, <1>9, <2>1 DEF LogInv
  <2>4. \A i \in Queued' : Waiting'[i].frame.id \in (Begun' + 1)..Sent'
    BY <1>2, <1>3, <1>9, <2>2
  <2>5. \A k \in (Begun' + 1)..Sent' : \E i \in Queued' : Waiting'[i].frame.id = k
    BY <1>2, <1>3, <1>9, <2>2
  <2>6. OrderInv'
    BY <1>2, <1>3, <1>9, <2>1, <2>2, <2>4, <2>5 DEF OrderInv, IsList
  <2> QED
    BY <1>2, <1>3, <1>6, <1>9, <2>2, <2>3, <2>6 DEF QueueInv
<1> QED
  BY <1>2, <1>7, <1>8, <1>9

-----------------------------------------------------------------------------
(* The agent's steps.                                                      *)
LEMMA SameHarnessKeeps ==
    ASSUME Harness, SameHarness
    PROVE  Harness' /\ Sent' = Sent
BY DEF Harness, SameHarness, Sent, Conversations

(* What a frame that is taken does.                                        *)
LEMMA HandleKeeps ==
    ASSUME IInv, Handle
    PROVE  IInv'
<1> DEFINE entry == Head(Waiting)
<1>1. /\ pc = "idle" /\ Waiting # <<>> /\ TakeFrame /\ SameHarness
      /\ \/ entry.frame.t = "prompt"  /\ HandlePrompt(entry)
         \/ entry.frame.t = "cancel"  /\ HandleCancel(entry)
         \/ entry.frame.t = "prewarm" /\ HandlePrewarm(entry)
  BY DEF Handle, harness, SameHarness
<1>2. job = NoJob /\ Harness' /\ Sent' = Sent /\ published' = published /\ published \in Nat
  BY <1>1, SameHarnessKeeps DEF IInv, AgentInv, InHand, SameHarness, Harness
<1>3. IsEntry(entry, Sent, published)
  BY <1>1, <1>2, TakingKeepsOrder DEF SameHarness
<1> HIDE DEF entry
<1>4. AgentInv
  BY DEF IInv
<1>5. CASE entry.frame.t = "prompt" /\ HandlePrompt(entry)
  <2>1. entry.log \in 1..published /\ entry.frame.id \in 1..Sent /\ entry.frame.session \in Sessions
    BY <1>3, <1>5 DEF IsEntry, IsPrompt, IsStop, IsWarm
  <2>2. canceledSpids' \subseteq 1..Sent' /\ DOMAIN snaps' \subseteq 1..Sent'
    BY <1>2, <1>4, <1>5, <2>1 DEF HandlePrompt, AgentInv, With
  <2>3. CASE Answer(entry.frame.id, entry.log, "text", 0) /\ UNCHANGED <<job, pc>>
    <3>1. AgentInv'
      BY <1>1, <1>2, <2>1, <2>2, <2>3 DEF AgentInv, Answer
    <3>2. Lists' /\ QueueInv'
      BY <1>1, <1>5, <2>3, TakingKeepsQueue DEF Answer, SameHarness, entry
    <3> QED
      BY <1>2, <3>1, <3>2 DEF IInv
  <2>4. CASE /\ job' = [id |-> entry.frame.id, log |-> entry.log, session |-> entry.frame.session,
                      by |-> entry.frame.by, body |-> Materialize(entry.frame.sent, snaps),
                      whole |-> entry.frame.whole, settings |-> entry.frame.settings,
                      link |-> entry.frame.link, bearer |-> bearer, retries |-> 0]
             /\ pc' = "dispatch" /\ UNCHANGED done
    <3>1. IsJob' /\ job'.id = entry.frame.id /\ job'.log = entry.log
      BY <1>2, <2>1, <2>4 DEF IsJob
    <3>2. AgentInv'
      BY <1>2, <1>4, <2>2, <2>4, <3>1 DEF AgentInv, InHand, done
    <3>3. Lists' /\ QueueInv'
      BY <1>1, <1>5, <2>4, <3>1, TakingKeepsQueue DEF done, SameHarness, entry
    <3> QED
      BY <1>2, <3>2, <3>3 DEF IInv
  <2> QED
    BY <1>5, <2>3, <2>4 DEF HandlePrompt
<1>6. CASE entry.frame.t = "cancel" /\ HandleCancel(entry)
  <2>1. entry.logged /\ entry.log \in 1..published /\ entry.frame.id \in 0..Sent
    BY <1>3, <1>6 DEF IsEntry, IsPrompt, IsStop, IsWarm
  <2>2. AgentInv'
    <3>1. acked' = entry.log /\ UNCHANGED <<snaps, job, pc>>
      BY <1>6 DEF HandleCancel
    <3>2. canceledSpids' \subseteq 1..Sent
      <4>1. canceledSpids' = canceledSpids \cup ({entry.frame.id} \ {0})
        BY <1>6 DEF HandleCancel
      <4>2. {entry.frame.id} \ {0} \subseteq 1..Sent
        BY <2>1
      <4> QED
        BY <1>4, <4>1, <4>2 DEF AgentInv
    <3> QED
      BY <1>1, <1>2, <1>4, <2>1, <3>1, <3>2 DEF AgentInv
  <2>3. Lists' /\ QueueInv'
    BY <1>1, <1>6, <2>1, TakingKeepsQueue DEF HandleCancel, SameHarness, entry
  <2> QED
    BY <1>2, <2>2, <2>3 DEF IInv
<1>7. CASE entry.frame.t = "prewarm" /\ HandlePrewarm(entry)
  <2>1. entry.logged /\ entry.log \in 1..published
    BY <1>3, <1>7 DEF IsEntry, IsPrompt, IsStop, IsWarm
  <2>2. acked' = entry.log /\ UNCHANGED <<snaps, canceledSpids, job, pc, outbox, answered>>
    BY <1>7 DEF HandlePrewarm
  <2>3. AgentInv'
    BY <1>1, <1>2, <1>4, <2>1, <2>2 DEF AgentInv
  <2>4. Lists' /\ QueueInv'
    BY <1>1, <1>7, <2>1, <2>2, TakingKeepsQueue DEF SameHarness, entry
  <2> QED
    BY <1>2, <2>3, <2>4 DEF IInv
<1> QED
  BY <1>1, <1>5, <1>6, <1>7

(* The harness is gone.                                                    *)
LEMMA DisconnectedKeeps ==
    ASSUME IInv, Disconnected
    PROVE  IInv'
<1>1. /\ pc = "idle" /\ Waiting # <<>> /\ Head(Waiting).frame.t = "disconnect" /\ TakeFrame /\ pc' = "gone"
      /\ SameHarness /\ UNCHANGED <<canceledSpids, snaps, answered, acked, job>>
  BY DEF Disconnected, harness, SameHarness, done
<1>2. Harness' /\ Sent' = Sent
  BY <1>1, SameHarnessKeeps DEF IInv
<1>3. Lists' /\ QueueInv'
  BY <1>1, TakingKeepsQueue DEF SameHarness
<1>4. AgentInv'
  BY <1>1, <1>2 DEF IInv, AgentInv, SameHarness, InHand
<1> QED
  BY <1>2, <1>3, <1>4 DEF IInv

(* The job stays what it is when its connection or retries are set.        *)
LEMMA SameJob ==
    ASSUME IsJob, NEW j, NEW v, j = With(job, "conn", v) \/ j = [job EXCEPT !.retries = v]
    PROVE  /\ {"id", "log", "session", "retries"} \subseteq DOMAIN j
           /\ j.id = job.id /\ j.log = job.log /\ j.session = job.session
<1>1. {"id", "log", "session", "retries"} \subseteq DOMAIN job
  BY DEF IsJob
<1>2. CASE j = With(job, "conn", v)
  BY <1>1, <1>2 DEF With
<1>3. CASE j = [job EXCEPT !.retries = v]
  BY <1>1, <1>3
<1> QED
  BY <1>2, <1>3

(* An attempt at the job ends with its answer or goes on with it.          *)
GoesOn ==
  /\ pc' \in {"dispatch", "cached", "fresh", "http", "replay", "sleep"}
  /\ UNCHANGED done
  /\ \/ job' = job
     \/ \E v : job' = With(job, "conn", v) \/ job' = [job EXCEPT !.retries = v]

Ends == \E reply, response : Finish(reply, response)

(* The invariant, across an attempt.                                       *)
LEMMA AttemptKeeps ==
    ASSUME IInv, InHand, SameHarness, Lists' /\ Waiting' = Waiting,
           canceledSpids' \subseteq 1..Sent, snaps' = snaps, GoesOn \/ Ends
    PROVE  IInv'
<1>1. Harness' /\ Sent' = Sent /\ UNCHANGED <<snapshots, published>>
  BY SameHarnessKeeps DEF IInv, SameHarness
<1>2. IsJob /\ job # NoJob
  <2>1. IsJob
    BY DEF IInv, AgentInv, InHand
  <2> QED
    BY <2>1, JobIsSome DEF IsJob
<1>3. CASE GoesOn
  <2>1. /\ {"id", "log", "session", "retries"} \subseteq DOMAIN job'
        /\ job'.id = job.id /\ job'.log = job.log /\ job'.session = job.session
    BY <1>2, <1>3, SameJob DEF GoesOn, IsJob
  <2>2. IsJob'
    BY <1>1, <1>2, <2>1 DEF IsJob
  <2>3. AgentInv'
    BY <1>1, <1>3, <2>2 DEF AgentInv, InHand, GoesOn, done, IInv
  <2>4. job' # NoJob
    BY <1>1, <2>2, JobIsSome DEF IsJob
  <2>5. QueueInv'
    BY <1>1, <1>2, <1>3, <2>1, <2>4, GoingOnKeepsQueue DEF IInv, GoesOn, done
  <2> QED
    BY <1>1, <2>3, <2>5 DEF IInv
<1>4. CASE Ends
  <2>1. PICK reply, response : Finish(reply, response)
    BY <1>4 DEF Ends
  <2>2. QueueInv'
    BY <1>1, <1>2, <2>1, FinishKeepsQueue DEF IInv
  <2>3. job' = NoJob /\ pc' = "idle" /\ acked' = job.log
    BY <2>1 DEF Finish, Answer
  <2>4. acked' \in 0..published'
    BY <1>1, <1>2, <2>3 DEF IsJob, IInv, Harness
  <2>5. AgentInv'
    BY <1>1, <2>3, <2>4 DEF AgentInv, IInv
  <2> QED
    BY <1>1, <2>2, <2>5 DEF IInv
<1> QED
  BY <1>3, <1>4

(* The steps of an attempt change neither harness nor queue.               *)
Attempt ==
  /\ InHand /\ SameHarness /\ UNCHANGED <<inbox, deferred, canceledSpids, snaps>>
  /\ GoesOn \/ Ends

(* Every turn, over whatever connection, is one.                           *)
LEMMA TurnsAreAttempts ==
    ASSUME Dispatch \/ CachedTurn \/ FreshTurn \/ HttpTurn \/ Elapse
    PROVE  Attempt
<1>1. \A reply, response : Finish(reply, response) => Ends
  BY DEF Ends
<1>2. Fail => GoesOn \/ Ends
  BY <1>1 DEF Fail, GoesOn
<1>3. ToHttp => GoesOn
  BY DEF ToHttp, GoesOn
<1>4. \A conn, req : TurnOver(conn, req) => Ends
  BY <1>1 DEF TurnOver
<1>5. CASE Dispatch
  <2>1. pc' \in {"cached", "fresh", "http"} /\ (job' = job \/ \E v : job' = With(job, "conn", v))
    BY <1>5 DEF Dispatch
  <2>2. GoesOn
    BY <1>5, <2>1 DEF GoesOn, Dispatch, done
  <2> QED
    BY <1>5, <2>2 DEF Attempt, Dispatch, InHand, SameHarness, harness, loop
<1>6. CASE CachedTurn
  <2>1. GoesOn \/ Ends
    <3>1. CASE pc' = "fresh" /\ UNCHANGED <<done, job>>
      BY <3>1 DEF GoesOn
    <3> QED
      BY <1>2, <1>3, <1>4, <1>6, <3>1 DEF CachedTurn
  <2> QED
    BY <1>6, <2>1 DEF Attempt, CachedTurn, InHand, SameHarness, harness, loop
<1>7. CASE FreshTurn
  <2>1. GoesOn \/ Ends
    BY <1>2, <1>3, <1>4, <1>7 DEF FreshTurn
  <2> QED
    BY <1>7, <2>1 DEF Attempt, FreshTurn, InHand, SameHarness, harness, loop
<1>8. CASE HttpTurn
  <2>1. GoesOn \/ Ends
    <3>1. CASE pc' = "replay" /\ UNCHANGED <<done, job>>
      BY <3>1 DEF GoesOn
    <3> QED
      BY <1>1, <1>2, <1>8, <3>1 DEF HttpTurn
  <2> QED
    BY <1>8, <2>1 DEF Attempt, HttpTurn, InHand, SameHarness, harness, loop
<1>9. CASE Elapse
  BY <1>9 DEF Attempt, Elapse, InHand, SameHarness, harness, loop, GoesOn
<1> QED
  BY <1>5, <1>6, <1>7, <1>8, <1>9

(* An attempt takes no frame.                                              *)
LEMMA AttemptsKeep ==
    ASSUME IInv, Attempt
    PROVE  IInv'
<1>1. Waiting' = Waiting /\ Lists' /\ canceledSpids' \subseteq 1..Sent
  BY DEF Attempt, Waiting, Lists, IsList, IInv, AgentInv
<1> QED
  BY <1>1, AttemptKeeps DEF Attempt

(* During the sleep a frame is set aside.  The only bare frame is the      *)
(* harness's last, which is not passed over.                               *)
LEMMA ListenKeeps ==
    ASSUME IInv, Listen
    PROVE  IInv'
<1> DEFINE entry == Head(inbox)
<1>1. /\ pc = "sleep" /\ inbox # <<>> /\ inbox' = Tail(inbox) /\ SameHarness /\ snaps' = snaps
      /\ IF Aborts(entry) THEN Finish("text", 0) ELSE UNCHANGED <<done, job, pc>>
  BY DEF Listen, harness, SameHarness
<1>2. PICK S : deferred \in Seq(S) /\ inbox \in Seq(S)
  BY CommonList DEF IInv, Lists
<1>3. Waiting[Len(deferred) + 1] = Head(inbox) /\ Len(deferred) + 1 \in DOMAIN Waiting
  <2>1. Len(inbox) \in Nat \ {0} /\ Len(deferred) \in Nat /\ Head(inbox) = inbox[1]
    BY <1>1, <1>2
  <2> QED
    BY <1>2, <2>1, Concatenation DEF Waiting
<1>4. ~IsCancel(entry)
  <2>1. IsEntry(entry, Sent, published)
    BY <1>3 DEF IInv, QueueInv, LogInv
  <2> QED
    BY <2>1 DEF IsEntry, IsCancel
<1>5. deferred' = Append(deferred, entry) /\ canceledSpids' = canceledSpids
  BY <1>4 DEF Listen
<1>6. Lists' /\ Waiting' = Waiting
  BY <1>1, <1>5, WaitingIsKept DEF IInv
<1>7. GoesOn \/ Ends
  BY <1>1 DEF GoesOn, Ends
<1> QED
  BY <1>1, <1>5, <1>6, <1>7, AttemptKeeps DEF IInv, AgentInv, InHand

-----------------------------------------------------------------------------
(* The harness's steps.                                                    *)
(* What is published goes behind what waits; a prompt comes last and is    *)
(* the one sent last.                                                      *)
LEMMA PublishKeepsQueue ==
    ASSUME IInv, NEW frames, IsList(frames), Publish(frames),
           UNCHANGED <<deferred, answered, acked, job>>, Sent' \in {Sent, Sent + 1},
           \A i \in 1..Len(frames) :
             IsPrompt(frames[i], Sent') \/ IsStop(frames[i], Sent') \/ IsWarm(frames[i]),
           \A i \in 1..Len(frames) :
             frames[i].t = "prompt" => i = Len(frames) /\ frames[i].id = Sent + 1 /\ Sent' = Sent + 1,
           Sent' = Sent + 1 => frames # <<>> /\ frames[Len(frames)].t = "prompt"
    PROVE  Lists' /\ QueueInv' /\ published' \in Nat /\ published <= published'
<1> DEFINE n == Len(Waiting)
<1> DEFINE m == Len(frames)
<1> DEFINE new == [i \in DOMAIN frames |-> [log |-> published + i, logged |-> TRUE, frame |-> frames[i]]]
<1>1. m \in Nat /\ DOMAIN frames = 1..m /\ IsList(new) /\ Len(new) = m
  <2>1. PICK S : frames \in Seq(S)
    BY DEF IsList
  <2>2. m \in Nat /\ DOMAIN frames = 1..m
    BY <2>1
  <2>3. new \in [1..m -> {new[i] : i \in 1..m}]
    BY <2>2
  <2>4. new \in Seq({new[i] : i \in 1..m}) /\ Len(new) = m
    <3> HIDE DEF new, m
    <3> QED
      BY <2>2, <2>3, FunctionIsSequence
  <2> QED
    BY <2>2, <2>4 DEF IsList
<1>2. inbox' = inbox \o new /\ published' = published + m
  BY DEF Publish
<1>3. n \in Nat /\ DOMAIN Waiting = 1..n
  BY WaitingIsList DEF IInv
<1>4. /\ Lists' /\ DOMAIN Waiting' = 1..(n + m)
      /\ \A i \in 1..n : Waiting'[i] = Waiting[i]
      /\ \A i \in 1..m : Waiting'[n + i] = new[i]
  BY <1>1, <1>2, WaitingGrows DEF IInv
<1>5. \A i \in 1..m : /\ Waiting'[n + i].log = published + i /\ Waiting'[n + i].logged = TRUE
                      /\ Waiting'[n + i].frame = frames[i]
  <2> SUFFICES ASSUME NEW i \in 1..m
               PROVE  /\ Waiting'[n + i].log = published + i /\ Waiting'[n + i].logged = TRUE
                      /\ Waiting'[n + i].frame = frames[i]
    OBVIOUS
  <2>1. Waiting'[n + i] = new[i] /\ i \in DOMAIN frames
    BY <1>1, <1>4
  <2>2. Waiting'[n + i] = [log |-> published + i, logged |-> TRUE, frame |-> frames[i]]
    BY <2>1
  <2> QED
    BY <2>2
<1> HIDE DEF n, m, new
<1>6. \A i \in DOMAIN Waiting' : i \in 1..n \/ \E k \in 1..m : i = n + k
  <2> SUFFICES ASSUME NEW i \in 1..(n + m), ~(i \in 1..n) PROVE \E k \in 1..m : i = n + k
    BY <1>4
  <2>1. i - n \in 1..m /\ i = n + (i - n)
    BY <1>1, <1>3
  <2> QED
    BY <2>1
<1>7. published \in Nat /\ Sent \in Nat /\ Sent' \in Nat /\ Sent <= Sent' /\ published <= published'
  <2>1. published \in Nat /\ Sent \in Nat
    <3>1. MaxPrompts \in Nat
      BY AgentAssumption
    <3> QED
      BY <3>1 DEF IInv, Harness
  <2> QED
    BY <1>1, <1>2, <2>1
<1>8. LogInv /\ OrderInv /\ Begun' = Begun /\ Begun \in 0..Sent
  BY DEF IInv, QueueInv, Begun
<1>9. \A i \in Logged : Waiting[i].log \in 1..published /\ i \in 1..n
  <2> SUFFICES ASSUME NEW i \in Logged PROVE Waiting[i].log \in 1..published /\ i \in 1..n
    OBVIOUS
  <2>1. IsEntry(Waiting[i], Sent, published) /\ Waiting[i].logged
    BY <1>8 DEF LogInv, Logged
  <2> QED
    BY <1>3, <2>1 DEF IsEntry, Logged
<1>10. \A i \in DOMAIN Waiting' : IsEntry(Waiting'[i], Sent', published')
  <2> SUFFICES ASSUME NEW i \in DOMAIN Waiting' PROVE IsEntry(Waiting'[i], Sent', published')
    OBVIOUS
  <2>1. CASE i \in 1..n
    <3>1. IsEntry(Waiting[i], Sent, published) /\ Waiting'[i] = Waiting[i]
      BY <1>3, <1>4, <1>8, <2>1 DEF LogInv
    <3>2. 1..published \subseteq 1..published' /\ 1..Sent \subseteq 1..Sent' /\ 0..Sent \subseteq 0..Sent'
      BY <1>1, <1>2, <1>7
    <3> QED
      BY <3>1, <3>2 DEF IsEntry, IsPrompt, IsStop, IsWarm
  <2>2. ASSUME NEW k \in 1..m, i = n + k PROVE IsEntry(Waiting'[i], Sent', published')
    <3>1. IsPrompt(frames[k], Sent') \/ IsStop(frames[k], Sent') \/ IsWarm(frames[k])
      BY <2>2 DEF m
    <3>2. published + k \in 1..published'
      BY <1>1, <1>2, <1>7, <2>2
    <3> QED
      BY <1>5, <2>2, <3>1, <3>2 DEF IsEntry
  <2> QED
    BY <1>6, <2>1, <2>2
<1>11. \A i \in Logged' : \/ i \in Logged /\ Waiting'[i] = Waiting[i]
                         \/ \E k \in 1..m : i = n + k
  BY <1>3, <1>4, <1>6 DEF Logged
<1>12. \A i, j \in Logged' : i < j => Waiting'[i].log < Waiting'[j].log
  <2> SUFFICES ASSUME NEW i \in Logged', NEW j \in Logged', i < j PROVE Waiting'[i].log < Waiting'[j].log
    OBVIOUS
  <2>1. CASE i \in Logged /\ Waiting'[i] = Waiting[i] /\ j \in Logged /\ Waiting'[j] = Waiting[j]
    BY <1>8, <2>1 DEF LogInv
  <2>2. ASSUME i \in Logged, Waiting'[i] = Waiting[i], NEW k \in 1..m, j = n + k
        PROVE  Waiting'[i].log < Waiting'[j].log
    <3>1. Waiting[i].log \in 1..published /\ Waiting'[j].log = published + k
      BY <1>5, <1>9, <2>2
    <3> QED
      BY <1>1, <1>7, <2>2, <3>1
  <2>3. ASSUME NEW h \in 1..m, i = n + h, j \in Logged, Waiting'[j] = Waiting[j]
        PROVE  FALSE
    BY <1>1, <1>3, <1>9, <2>3
  <2>4. ASSUME NEW h \in 1..m, i = n + h, NEW k \in 1..m, j = n + k
        PROVE  Waiting'[i].log < Waiting'[j].log
    <3>1. Waiting'[i].log = published + h /\ Waiting'[j].log = published + k
      BY <1>5, <2>4
    <3> QED
      BY <1>1, <1>3, <1>7, <2>4, <3>1
  <2> QED
    BY <1>11, <2>1, <2>2, <2>3, <2>4
<1>13. acked \in 0..published /\ (job # NoJob => job.log \in 1..published)
  BY DEF IInv, AgentInv, IsJob
<1>14. \A i \in Logged' : acked < Waiting'[i].log /\ (job # NoJob => job.log < Waiting'[i].log)
  <2> SUFFICES ASSUME NEW i \in Logged'
               PROVE  acked < Waiting'[i].log /\ (job # NoJob => job.log < Waiting'[i].log)
    OBVIOUS
  <2>1. CASE i \in Logged /\ Waiting'[i] = Waiting[i]
    BY <1>8, <2>1 DEF LogInv
  <2>2. ASSUME NEW k \in 1..m, i = n + k
        PROVE  acked < Waiting'[i].log /\ (job # NoJob => job.log < Waiting'[i].log)
    <3>1. Waiting'[i].log = published + k
      BY <1>5, <2>2
    <3> QED
      BY <1>1, <1>7, <1>13, <2>2, <3>1
  <2> QED
    BY <1>11, <2>1, <2>2
<1>15. LogInv'
  BY <1>8, <1>10, <1>12, <1>14 DEF LogInv
<1>16. \A i \in Queued : i \in 1..n /\ i \in Queued' /\ Waiting'[i] = Waiting[i]
  <2>1. 1..n \subseteq 1..(n + m)
    BY <1>1, <1>3
  <2> QED
    BY <1>3, <1>4, <2>1 DEF Queued
<1>17. ASSUME NEW i \in Queued', i \notin Queued
       PROVE  i = n + m /\ Waiting'[i].frame.id = Sent + 1 /\ Sent' = Sent + 1
  <2>1. i \in DOMAIN Waiting' /\ Waiting'[i].frame.t = "prompt"
    BY <1>17 DEF Queued
  <2>2. CASE i \in 1..n
    BY <1>3, <1>4, <1>17, <2>1, <2>2 DEF Queued
  <2>3. ASSUME NEW k \in 1..m, i = n + k
        PROVE  i = n + m /\ Waiting'[i].frame.id = Sent + 1 /\ Sent' = Sent + 1
    <3>1. Waiting'[i].frame = frames[k]
      BY <1>5, <2>3
    <3>2. k = m /\ frames[k].id = Sent + 1 /\ Sent' = Sent + 1
      BY <2>1, <2>3, <3>1 DEF m
    <3> QED
      BY <1>1, <2>3, <3>1, <3>2
  <2> QED
    BY <1>6, <2>1, <2>2, <2>3
<1>18. \A i \in Queued' : Waiting'[i].frame.id \in (Begun + 1)..Sent'
  <2> SUFFICES ASSUME NEW i \in Queued' PROVE Waiting'[i].frame.id \in (Begun + 1)..Sent'
    OBVIOUS
  <2>1. CASE i \in Queued
    <3>1. Waiting'[i].frame.id \in (Begun + 1)..Sent
      BY <1>8, <1>16, <2>1 DEF OrderInv
    <3> QED
      BY <1>7, <1>8, <3>1
  <2>2. CASE Waiting'[i].frame.id = Sent + 1 /\ Sent' = Sent + 1
    BY <1>7, <1>8, <2>2
  <2> QED
    BY <1>17, <2>1, <2>2
<1>19. \A k \in (Begun + 1)..Sent' : \E i \in Queued' : Waiting'[i].frame.id = k
  <2> SUFFICES ASSUME NEW k \in (Begun + 1)..Sent' PROVE \E i \in Queued' : Waiting'[i].frame.id = k
    OBVIOUS
  <2>1. CASE k \in (Begun + 1)..Sent
    <3>1. PICK i \in Queued : Waiting[i].frame.id = k
      BY <1>8, <2>1 DEF OrderInv
    <3> QED
      BY <1>16, <3>1
  <2>2. CASE k = Sent + 1 /\ Sent' = Sent + 1
    <3>1. m \in 1..m /\ frames[m].t = "prompt" /\ frames[m].id = Sent + 1
      <4>1. frames # <<>> /\ frames[m].t = "prompt"
        BY <2>2 DEF m
      <4>2. m # 0
        <5>1. PICK S : frames \in Seq(S)
          BY DEF IsList
        <5> QED
          BY <4>1, <5>1 DEF m
      <4>3. m \in 1..m
        BY <1>1, <4>2
      <4> QED
        BY <4>1, <4>3 DEF m
    <3>2. n + m \in DOMAIN Waiting' /\ Waiting'[n + m].frame = frames[m]
      BY <1>1, <1>3, <1>4, <1>5, <3>1
    <3>3. n + m \in Queued'
      BY <3>1, <3>2 DEF Queued
    <3> QED
      BY <2>2, <3>1, <3>2, <3>3
  <2>3. k \in (Begun + 1)..Sent \/ (k = Sent + 1 /\ Sent' = Sent + 1)
    BY <1>7, <1>8
  <2> QED
    BY <2>1, <2>2, <2>3
<1>20. \A i, j \in Queued' : i < j => Waiting'[i].frame.id < Waiting'[j].frame.id
  <2> SUFFICES ASSUME NEW i \in Queued', NEW j \in Queued', i < j
               PROVE  Waiting'[i].frame.id < Waiting'[j].frame.id
    OBVIOUS
  <2>1. CASE i \in Queued /\ j \in Queued
    BY <1>8, <1>16, <2>1 DEF OrderInv
  <2>2. CASE i \in Queued /\ Waiting'[j].frame.id = Sent + 1
    <3>1. Waiting'[i].frame.id \in (Begun + 1)..Sent
      BY <1>8, <1>16, <2>2 DEF OrderInv
    <3> QED
      BY <1>7, <1>8, <2>2, <3>1
  <2>3. CASE i = n + m
    <3>1. j \in 1..(n + m)
      BY <1>4 DEF Queued
    <3> QED
      BY <1>1, <1>3, <2>3, <3>1
  <2> QED
    BY <1>17, <2>1, <2>2, <2>3
<1>21. OrderInv'
  BY <1>8, <1>18, <1>19, <1>20 DEF OrderInv
<1>22. Begun' \in 0..Sent' /\ published' \in Nat
  BY <1>1, <1>2, <1>7, <1>8
<1> QED
  BY <1>4, <1>7, <1>15, <1>21, <1>22 DEF QueueInv

(* What a harness step has to leave alone of the agent.                    *)
SameAgent == UNCHANGED <<deferred, canceledSpids, snaps, answered, acked, job, pc>>

(* The agent's state fits what was sent and published later, too.          *)
LEMMA SameAgentKeeps ==
    ASSUME IInv, SameAgent, Sent' \in Nat, Sent <= Sent', published' \in Nat, published <= published'
    PROVE  AgentInv'
<1>1. 1..Sent \subseteq 1..Sent' /\ 1..published \subseteq 1..published' /\ 0..published \subseteq 0..published'
  <2>1. published \in Nat /\ Sent \in Nat
    <3>1. MaxPrompts \in Nat
      BY AgentAssumption
    <3> QED
      BY <3>1 DEF IInv, Harness
  <2> QED
    BY <2>1
<1> QED
  BY <1>1 DEF IInv, AgentInv, SameAgent, IsJob, InHand

(* A prompt is sent, after some others are stopped.                        *)
LEMMA SendingKeeps ==
    ASSUME IInv, NEW convs, NEW routes, NEW c, NEW first, SendPrompt(convs, routes, c, first),
           SameAgent, config' = config, cancelled' \subseteq 1..Sent,
           DOMAIN convs \subseteq {"user", "side"}, "user" \in DOMAIN convs, c \in DOMAIN convs,
           \A d \in DOMAIN convs : IsConversation(convs[d], Sent),
           DOMAIN routes \subseteq 1..Sent, IsList(first), \A i \in 1..Len(first) : IsStop(first[i], Sent)
    PROVE  IInv'
<1>1. /\ MaxPrompts \in Nat /\ Sent \in Nat /\ Sent + 1 <= MaxPrompts
      /\ DOMAIN snapshots = 1..Sent
  <2>1. MaxPrompts \in Nat
    BY AgentAssumption
  <2>2. Sent \in Nat /\ DOMAIN snapshots = 1..Sent
    BY <2>1 DEF IInv, Harness
  <2>3. Sent + 1 <= MaxPrompts
    BY DEF SendPrompt, Sent
  <2> QED
    BY <2>1, <2>2, <2>3
<1>2. DOMAIN snapshots' = 1..(Sent + 1) /\ Sent' = Sent + 1
  <2>1. DOMAIN snapshots' = DOMAIN snapshots \cup {Sent + 1}
    BY DEF SendPrompt, With, Sent
  <2>2. DOMAIN snapshots' = 1..(Sent + 1)
    BY <1>1, <2>1
  <2>3. Cardinality(1..(Sent + 1)) = Sent + 1
    <3>1. Sent + 1 \in Int /\ 1 \in Int /\ (Sent + 1) - 1 + 1 = Sent + 1 /\ ~(1 > Sent + 1)
      BY <1>1
    <3> QED
      BY <3>1, FS_Interval
  <2>4. Sent' = Cardinality(DOMAIN snapshots')
    BY DEF Sent
  <2> QED
    BY <2>2, <2>3, <2>4
<1>3. PICK frame : /\ Publish(Append(first, frame)) /\ IsPrompt(frame, Sent + 1) /\ frame.id = Sent + 1
  <2> DEFINE conv == convs[c]
             messages == Assemble(conv.branch)
             body == Body(config.system, config.tools, messages)
             frame == [t |-> "prompt", id |-> Sent + 1, session |-> conv.session,
                       by |-> IF c = "user" THEN "user" ELSE "extension",
                       sent |-> Compress(body, conv.last, snapshots), settings |-> Settings(config), whole |-> body,
                       link |-> IF AnchorHolds(conv.anchor, messages)
                                THEN [id |-> conv.anchor.id, index |-> conv.anchor.count]
                                ELSE NoLink]
  <2>1. Publish(Append(first, frame))
    BY DEF SendPrompt, Sent
  <2>2. frame.t = "prompt" /\ frame.id = Sent + 1 /\ frame.session = conv.session
    OBVIOUS
  <2>3. conv.session \in Sessions
    BY DEF IsConversation
  <2>4. IsPrompt(frame, Sent + 1)
    <3> HIDE DEF frame
    <3> QED
      BY <1>1, <2>2, <2>3 DEF IsPrompt
  <2> QED
    BY <2>1, <2>2, <2>4
<1>4. /\ IsList(Append(first, frame)) /\ Len(first) \in Nat /\ Len(Append(first, frame)) = Len(first) + 1
      /\ Append(first, frame)[Len(first) + 1] = frame
      /\ \A i \in 1..Len(first) : Append(first, frame)[i] = first[i]
  <2>1. PICK S : first \in Seq(S)
    BY DEF IsList
  <2>2. first \in Seq(S \cup {frame}) /\ frame \in S \cup {frame}
    BY <2>1
  <2> QED
    BY <2>2 DEF IsList
<1> DEFINE frames == Append(first, frame)
<1> HIDE DEF frames
<1>5. \A i \in 1..Len(frames) : \/ i = Len(frames) /\ frames[i] = frame
                                \/ IsStop(frames[i], Sent)
  BY <1>4 DEF frames
<1>6. \A i \in 1..Len(frames) :
        IsPrompt(frames[i], Sent') \/ IsStop(frames[i], Sent') \/ IsWarm(frames[i])
  <2>1. 0..Sent \subseteq 0..Sent'
    BY <1>1, <1>2
  <2> QED
    BY <1>2, <1>3, <1>5, <2>1 DEF IsStop
<1>7. \A i \in 1..Len(frames) :
        frames[i].t = "prompt" => i = Len(frames) /\ frames[i].id = Sent + 1 /\ Sent' = Sent + 1
  BY <1>2, <1>3, <1>5 DEF IsStop
<1>8. frames # <<>> /\ frames[Len(frames)].t = "prompt" /\ IsList(frames)
  BY <1>3, <1>4 DEF IsPrompt, frames
<1>9. Lists' /\ QueueInv' /\ published' \in Nat /\ published <= published'
  BY <1>2, <1>3, <1>6, <1>7, <1>8, PublishKeepsQueue DEF frames, SameAgent
<1>10. AgentInv'
  BY <1>1, <1>2, <1>9, SameAgentKeeps
<1>11. Conversations'
  <2>1. DOMAIN conversations' = DOMAIN convs
    BY DEF SendPrompt
  <2>2. ASSUME NEW d \in DOMAIN convs PROVE IsConversation(conversations'[d], Sent + 1)
    <3>1. conversations'[d] = convs[d] \/
          \E a, id : id = Sent + 1 /\ conversations'[d] = [convs[d] EXCEPT !.inflight = id, !.last = id, !.anchor = a]
      BY DEF SendPrompt, Sent
    <3>2. IsConversation(convs[d], Sent)
      OBVIOUS
    <3>3. 0..Sent \subseteq 0..(Sent + 1) /\ Sent + 1 \in 0..(Sent + 1)
      BY <1>1
    <3>4. CASE conversations'[d] = convs[d]
      BY <3>2, <3>3, <3>4 DEF IsConversation
    <3>5. ASSUME NEW a, conversations'[d] = [convs[d] EXCEPT !.inflight = Sent + 1, !.last = Sent + 1, !.anchor = a]
          PROVE  IsConversation(conversations'[d], Sent + 1)
      BY <3>2, <3>3, <3>5 DEF IsConversation
    <3> QED
      BY <3>1, <3>4, <3>5
  <2> QED
    BY <1>2, <2>1, <2>2 DEF Conversations
<1>12. Harness'
  <2>1. DOMAIN route' = DOMAIN routes \cup {Sent + 1}
    BY DEF SendPrompt, With, Sent
  <2>2. config' \in Configs
    BY DEF IInv, Harness
  <2>3. DOMAIN route' \subseteq 1..(Sent + 1) /\ cancelled' \subseteq 1..(Sent + 1) /\ Sent' \in 0..MaxPrompts
    BY <1>1, <1>2, <2>1
  <2> QED
    BY <1>2, <1>9, <1>11, <2>2, <2>3 DEF Harness
<1> QED
  BY <1>9, <1>10, <1>12 DEF IInv

(* What the harness's conversations are before a step.                     *)
LEMMA ConversationsAre ==
    ASSUME IInv, conversations # <<>>
    PROVE  /\ DOMAIN conversations \subseteq {"user", "side"} /\ "user" \in DOMAIN conversations
           /\ \A c \in DOMAIN conversations : IsConversation(conversations[c], Sent)
           /\ DOMAIN route \subseteq 1..Sent /\ cancelled \subseteq 1..Sent /\ Sent \in Nat
<1>1. MaxPrompts \in Nat
  BY AgentAssumption
<1> QED
  BY <1>1 DEF IInv, Harness, Conversations

(* A prompt of the user's.                                                 *)
LEMMA UserSaysKeeps ==
    ASSUME IInv, conversations # <<>>, UserSays
    PROVE  IInv'
<1> DEFINE stop == {conversations[c].inflight : c \in Preempted}
           convs == [c \in DOMAIN conversations |->
                      IF c \in Preempted THEN Stopped(c)
                      ELSE IF c = "user"
                      THEN [conversations[c] EXCEPT
                             !.branch = Append(@, <<"user", published + 1>>)]
                      ELSE conversations[c]]
           first == [i \in 1..Cardinality(stop) |-> CancelFrame(conversations["side"].inflight)]
<1>1. SendPrompt(convs, Without(route, stop), "user", first) /\ cancelled' = cancelled \cup stop
  BY DEF UserSays
<1>2. /\ DOMAIN conversations \subseteq {"user", "side"} /\ "user" \in DOMAIN conversations
      /\ \A c \in DOMAIN conversations : IsConversation(conversations[c], Sent)
      /\ DOMAIN route \subseteq 1..Sent /\ cancelled \subseteq 1..Sent /\ Sent \in Nat
  BY ConversationsAre
<1>3. \A d \in DOMAIN convs : IsConversation(convs[d], Sent)
  <2> SUFFICES ASSUME NEW d \in DOMAIN conversations PROVE IsConversation(convs[d], Sent)
    OBVIOUS
  <2>1. 0 \in 0..Sent /\ IsConversation(conversations[d], Sent)
    BY <1>2
  <2>2. \/ convs[d] = conversations[d] \/ convs[d] = [conversations[d] EXCEPT !.inflight = 0]
        \/ \E b : convs[d] = [conversations[d] EXCEPT !.branch = b]
    BY DEF Stopped
  <2> HIDE DEF convs
  <2> QED
    BY <2>1, <2>2 DEF IsConversation
<1>4. stop = {} \/ ("side" \in DOMAIN conversations /\ stop = {conversations["side"].inflight}
                   /\ conversations["side"].inflight # 0)
  BY DEF Preempted
<1>5. stop \subseteq 1..Sent
  <2>1. ASSUME "side" \in DOMAIN conversations, conversations["side"].inflight # 0
        PROVE  conversations["side"].inflight \in 1..Sent
    BY <1>2, <2>1 DEF IsConversation
  <2> HIDE DEF stop
  <2> QED
    BY <1>4, <2>1
<1> HIDE DEF stop
<1>6. IsList(first) /\ \A i \in 1..Len(first) : IsStop(first[i], Sent)
  <2> DEFINE cancel == CancelFrame(conversations["side"].inflight)
  <2>1. \/ stop = {} /\ Cardinality(stop) = 0
        \/ /\ "side" \in DOMAIN conversations /\ stop = {conversations["side"].inflight}
           /\ Cardinality(stop) = 1
    BY <1>4, FS_EmptySet, FS_Singleton
  <2>2. first \in [1..Cardinality(stop) -> {cancel}]
    OBVIOUS
  <2>3. first \in Seq({cancel}) /\ Len(first) = Cardinality(stop)
    <3> HIDE DEF first, cancel
    <3> QED
      BY <2>1, <2>2, FunctionIsSequence
  <2>4. Cardinality(stop) = 1 => IsStop(cancel, Sent)
    <3> SUFFICES ASSUME "side" \in DOMAIN conversations PROVE IsStop(cancel, Sent)
      BY <2>1
    <3> QED
      BY <1>2 DEF CancelFrame, IsStop, IsConversation
  <2> HIDE DEF first, cancel
  <2>5. \A i \in 1..Cardinality(stop) : first[i] = cancel /\ Cardinality(stop) = 1
    BY <2>1, <2>2
  <2> QED
    BY <2>3, <2>4, <2>5 DEF IsList
<1>7. DOMAIN Without(route, stop) \subseteq 1..Sent
  BY <1>2 DEF Without
<1>8. SameAgent /\ config' = config /\ cancelled' \subseteq 1..Sent
  BY <1>1, <1>2, <1>5 DEF UserSays, SameAgent, loop, done
<1>9. DOMAIN convs \subseteq {"user", "side"} /\ "user" \in DOMAIN convs
  BY <1>2
<1> HIDE DEF convs, first
<1> QED
  BY <1>1, <1>3, <1>6, <1>7, <1>8, <1>9, SendingKeeps

(* A side query.                                                           *)
LEMMA AskAsideKeeps ==
    ASSUME IInv, conversations # <<>>, AskAside
    PROVE  IInv'
<1> DEFINE user == conversations["user"]
           side == Conversation(user.session, Append(user.branch, <<"user", published + 1>>), user.anchor)
           convs == With(conversations, "side", side)
<1>1. SendPrompt(convs, route, "side", <<>>)
  BY DEF AskAside
<1>2. /\ DOMAIN conversations \subseteq {"user", "side"} /\ "user" \in DOMAIN conversations
      /\ \A c \in DOMAIN conversations : IsConversation(conversations[c], Sent)
      /\ DOMAIN route \subseteq 1..Sent /\ cancelled \subseteq 1..Sent /\ Sent \in Nat
  BY ConversationsAre
<1>3. IsConversation(side, Sent)
  <2>1. user.session \in Sessions /\ 0 \in 0..Sent
    BY <1>2 DEF IsConversation
  <2>2. side.session = user.session /\ side.inflight = 0 /\ {"session", "inflight"} \subseteq DOMAIN side
    BY DEF Conversation
  <2> HIDE DEF side, user
  <2> QED
    BY <2>1, <2>2 DEF IsConversation
<1> HIDE DEF side
<1>4. /\ DOMAIN convs \subseteq {"user", "side"} /\ "user" \in DOMAIN convs /\ "side" \in DOMAIN convs
      /\ \A d \in DOMAIN convs : IsConversation(convs[d], Sent)
  BY <1>2, <1>3 DEF With
<1>5. IsList(<<>>) /\ \A i \in 1..Len(<<>>) : IsStop(<<>>[i], Sent)
  <2>1. <<>> \in Seq({}) /\ Len(<<>>) = 0
    OBVIOUS
  <2> QED
    BY <2>1 DEF IsList
<1>6. SameAgent /\ config' = config /\ cancelled' \subseteq 1..Sent
  BY <1>2 DEF AskAside, SameAgent, loop, done
<1> HIDE DEF convs
<1> QED
  BY <1>1, <1>2, <1>4, <1>5, <1>6, SendingKeeps

(* The tools' results are sent.                                            *)
LEMMA ToolsAnswerKeeps ==
    ASSUME IInv, conversations # <<>>, ToolsAnswer
    PROVE  IInv'
<1> DEFINE call == conversations["user"].calls
           convs == [conversations EXCEPT
                      !["user"].branch = Append(@, <<"result", call>>),
                      !["user"].calls = 0]
<1>1. SendPrompt(convs, route, "user", <<>>)
  BY DEF ToolsAnswer
<1>2. /\ DOMAIN conversations \subseteq {"user", "side"} /\ "user" \in DOMAIN conversations
      /\ \A c \in DOMAIN conversations : IsConversation(conversations[c], Sent)
      /\ DOMAIN route \subseteq 1..Sent /\ cancelled \subseteq 1..Sent /\ Sent \in Nat
  BY ConversationsAre
<1>3. DOMAIN convs = DOMAIN conversations
  OBVIOUS
<1>4. ASSUME NEW d \in DOMAIN convs PROVE IsConversation(convs[d], Sent)
  <2>1. \/ convs[d] = conversations[d]
        \/ \E b : convs[d] = [[conversations[d] EXCEPT !.branch = b] EXCEPT !.calls = 0]
    OBVIOUS
  <2>2. IsConversation(conversations[d], Sent)
    BY <1>2, <1>3
  <2> HIDE DEF convs
  <2> QED
    BY <2>1, <2>2 DEF IsConversation
<1>5. IsList(<<>>) /\ \A i \in 1..Len(<<>>) : IsStop(<<>>[i], Sent)
  <2>1. <<>> \in Seq({}) /\ Len(<<>>) = 0
    OBVIOUS
  <2> QED
    BY <2>1 DEF IsList
<1>6. SameAgent /\ config' = config /\ cancelled' \subseteq 1..Sent
  BY <1>2 DEF ToolsAnswer, SameAgent, loop, done
<1> HIDE DEF convs
<1> QED
  BY <1>1, <1>2, <1>3, <1>4, <1>5, <1>6, SendingKeeps

(* A cancel or the notice of a new session is published by itself.         *)
LEMMA NoticeKeeps ==
    ASSUME IInv, NEW frame, Publish(<<frame>>), SameAgent, snapshots' = snapshots, config' = config,
           IsStop(frame, Sent) \/ IsWarm(frame),
           Conversations', DOMAIN route' \subseteq 1..Sent, cancelled' \subseteq 1..Sent
    PROVE  IInv'
<1>1. Sent' = Sent /\ Sent \in Nat
  <2>1. MaxPrompts \in Nat
    BY AgentAssumption
  <2> QED
    BY <2>1 DEF Sent, IInv, Harness
<1>2. IsList(<<frame>>) /\ \A i \in 1..Len(<<frame>>) : <<frame>>[i] = frame
  <2>1. <<frame>> \in Seq({frame}) /\ Len(<<frame>>) = 1 /\ <<frame>>[1] = frame
    OBVIOUS
  <2>2. \A i \in 1..1 : i = 1
    OBVIOUS
  <2> DEFINE list == <<frame>>
  <2> HIDE DEF list
  <2>3. list \in Seq({frame}) /\ Len(list) = 1 /\ list[1] = frame
    BY <2>1 DEF list
  <2>4. IsList(list) /\ \A i \in 1..Len(list) : list[i] = frame
    BY <2>2, <2>3 DEF IsList
  <2> QED
    BY <2>4 DEF list
<1>3. frame.t # "prompt"
  BY DEF IsStop, IsWarm
<1>4. Lists' /\ QueueInv' /\ published' \in Nat /\ published <= published'
  BY <1>1, <1>2, <1>3, PublishKeepsQueue DEF SameAgent
<1>5. AgentInv'
  BY <1>1, <1>4, SameAgentKeeps
<1>6. Harness'
  BY <1>1, <1>4 DEF IInv, Harness
<1> QED
  BY <1>4, <1>5, <1>6 DEF IInv

(* The user gives the prompt in flight up.                                 *)
LEMMA CancelUserKeeps ==
    ASSUME IInv, conversations # <<>>, CancelUser
    PROVE  IInv'
<1> DEFINE id == conversations["user"].inflight
<1>1. /\ DOMAIN conversations \subseteq {"user", "side"} /\ "user" \in DOMAIN conversations
      /\ \A c \in DOMAIN conversations : IsConversation(conversations[c], Sent)
      /\ DOMAIN route \subseteq 1..Sent /\ cancelled \subseteq 1..Sent /\ Sent \in Nat
  BY ConversationsAre
<1>2. id \in 1..Sent
  BY <1>1 DEF CancelUser, IsConversation
<1>3. Sent' = Sent /\ 0 \in 0..Sent
  BY <1>1 DEF Sent, CancelUser
<1>4. conversations' = [conversations EXCEPT !["user"].inflight = 0]
  BY DEF CancelUser
<1>5. ASSUME NEW d \in DOMAIN conversations PROVE IsConversation(conversations'[d], Sent)
  <2>1. IsConversation(conversations[d], Sent)
    BY <1>1
  <2>2. conversations'[d] = conversations[d] \/ conversations'[d] = [conversations[d] EXCEPT !.inflight = 0]
    BY <1>4
  <2> QED
    BY <1>3, <2>1, <2>2 DEF IsConversation
<1>6. Conversations'
  <2>1. DOMAIN conversations' = DOMAIN conversations
    BY <1>4
  <2> QED
    BY <1>1, <1>3, <1>5, <2>1 DEF Conversations
<1>7. DOMAIN route' \subseteq 1..Sent /\ cancelled' \subseteq 1..Sent
  BY <1>1, <1>2 DEF CancelUser, Without
<1>8. SameAgent /\ snapshots' = snapshots /\ config' = config /\ Publish(<<CancelFrame(0)>>)
  BY DEF CancelUser, SameAgent, loop, done
<1>9. IsStop(CancelFrame(0), Sent)
  BY <1>3 DEF IsStop, CancelFrame
<1> QED
  BY <1>6, <1>7, <1>8, <1>9, NoticeKeeps

(* The user starts a new session: the agent is told to warm up for it.     *)
LEMMA SwitchSessionKeeps ==
    ASSUME IInv, conversations # <<>>, NEW session \in Sessions, SwitchSession(session)
    PROVE  IInv'
<1> DEFINE branch == <<<<"user", published + 1>>>>
<1>1. /\ cancelled \subseteq 1..Sent /\ Sent \in Nat
  BY ConversationsAre
<1>2. /\ conversations' = [user |-> Conversation(session, branch, NoAnchor)]
      /\ Publish(<<WarmFrame(session, branch)>>) /\ route' = <<>>
  BY DEF SwitchSession
<1>3. Sent' = Sent /\ 0 \in 0..Sent
  BY <1>1 DEF Sent, SwitchSession
<1>4. IsWarm(WarmFrame(session, branch))
  BY DEF IsWarm, WarmFrame
<1>5. IsConversation(Conversation(session, branch, NoAnchor), Sent)
  BY <1>3 DEF IsConversation, Conversation
<1>6. Conversations'
  <2> HIDE DEF branch
  <2>1. DOMAIN conversations' = {"user"} /\ conversations'["user"] = Conversation(session, branch, NoAnchor)
    BY <1>2
  <2> QED
    BY <1>3, <1>5, <2>1 DEF Conversations
<1>7. DOMAIN route' \subseteq 1..Sent /\ cancelled' \subseteq 1..Sent
  BY <1>1, <1>2 DEF SwitchSession
<1>8. SameAgent /\ snapshots' = snapshots /\ config' = config
  BY DEF SwitchSession, SameAgent, loop, done
<1> HIDE DEF branch
<1> QED
  BY <1>2, <1>4, <1>6, <1>7, <1>8, NoticeKeeps

(* Steps of the harness that send nothing.                                 *)
LEMMA QuietKeeps ==
    ASSUME IInv, SameAgent, UNCHANGED <<inbox, snapshots, published>>, config' \in Configs,
           Conversations', DOMAIN route' \subseteq 1..Sent, cancelled' \subseteq 1..Sent
    PROVE  IInv'
<1>1. Sent' = Sent /\ Waiting' = Waiting /\ Lists'
  BY DEF Sent, Waiting, SameAgent, IInv, Lists, IsList
<1>2. QueueInv'
  BY <1>1, GoingOnKeepsQueue DEF IInv, SameAgent
<1>3. AgentInv'
  BY <1>1 DEF IInv, AgentInv, SameAgent, IsJob, InHand
<1>4. Harness'
  BY <1>1 DEF IInv, Harness
<1> QED
  BY <1>1, <1>2, <1>3, <1>4 DEF IInv

(* An answer is taken; the agent is not asked anything by it.              *)
LEMMA TakeAnswerKeeps ==
    ASSUME IInv, conversations # <<>>, TakeAnswer
    PROVE  IInv'
<1> DEFINE c == route[Head(outbox).id].conv
           Taken(x, y, z) == [conversations EXCEPT ![c].anchor = x, ![c].branch = y, ![c].inflight = 0, ![c].calls = z]
<1>1. /\ DOMAIN conversations \subseteq {"user", "side"} /\ "user" \in DOMAIN conversations
      /\ \A d \in DOMAIN conversations : IsConversation(conversations[d], Sent)
      /\ DOMAIN route \subseteq 1..Sent /\ cancelled \subseteq 1..Sent /\ Sent \in Nat
  BY ConversationsAre
<1>2. Sent' = Sent /\ 0 \in 0..Sent
  <2>1. snapshots' = snapshots
    BY DEF TakeAnswer
  <2> QED
    BY <1>1, <2>1 DEF Sent
<1>3. \/ conversations' = conversations
      \/ conversations' = Without(conversations, {"side"})
      \/ \E x, y, z : conversations' = Taken(x, y, z)
  <2> DEFINE answer == Head(outbox)
             conv == conversations[c]
             branch == conv.branch \o ReplyEntries(answer)
  <2>1. \/ conversations' = conversations
        \/ conversations' = Without(conversations, {"side"})
        \/ conversations' = Taken(Anchored(conv, answer, branch), branch \o CallEntries(answer),
                                   IF CallEntries(answer) = <<>> THEN 0 ELSE answer.id)
    BY DEF TakeAnswer
  <2> HIDE DEF Taken, c
  <2> QED
    BY <2>1
<1>4. ASSUME NEW x, NEW y, NEW z, conversations' = Taken(x, y, z)
      PROVE  DOMAIN conversations' = DOMAIN conversations
  BY <1>4
<1> HIDE DEF Taken, c
<1>5. /\ "user" \in DOMAIN conversations' /\ DOMAIN conversations' \subseteq DOMAIN conversations
  <2>1. CASE conversations' = Without(conversations, {"side"})
    BY <1>1, <2>1 DEF Without
  <2> QED
    BY <1>1, <1>3, <1>4, <2>1
<1>6. ASSUME NEW d \in DOMAIN conversations' PROVE IsConversation(conversations'[d], Sent)
  <2>1. IsConversation(conversations[d], Sent)
    BY <1>1, <1>5, <1>6
  <2>2. CASE conversations' = conversations
    BY <2>1, <2>2
  <2>3. CASE conversations' = Without(conversations, {"side"})
    BY <1>6, <2>1, <2>3 DEF Without
  <2>4. ASSUME NEW x, NEW y, NEW z, conversations' = Taken(x, y, z)
        PROVE  IsConversation(conversations'[d], Sent)
    <3>1. d \in DOMAIN conversations
      BY <1>5, <1>6
    <3>2. \/ conversations'[d] = conversations[d]
          \/ conversations'[d] = [conversations[d] EXCEPT !.anchor = x, !.branch = y, !.inflight = 0, !.calls = z]
      BY <2>4, <3>1 DEF Taken
    <3> QED
      BY <1>2, <2>1, <3>2 DEF IsConversation
  <2> QED
    BY <1>3, <2>2, <2>3, <2>4
<1>7. Conversations'
  BY <1>1, <1>2, <1>5, <1>6 DEF Conversations
<1>8. DOMAIN route' \subseteq 1..Sent /\ cancelled' \subseteq 1..Sent
  BY <1>1 DEF TakeAnswer, Without
<1>9. SameAgent /\ UNCHANGED <<inbox, snapshots, published>> /\ config' \in Configs
  BY DEF TakeAnswer, SameAgent, loop, IInv, Harness
<1> QED
  BY <1>7, <1>8, <1>9, QuietKeeps

(* Settings and tokens change nothing that was sent.                       *)
LEMMA SettingsKeep ==
    ASSUME IInv, NewToken \/ \E cfg \in Configs : Configure(cfg)
    PROVE  IInv'
<1>1. /\ SameAgent /\ UNCHANGED <<inbox, snapshots, published, conversations, route, cancelled>>
      /\ config' \in Configs
  BY DEF NewToken, Configure, SameAgent, loop, done, IInv, Harness
<1>2. Conversations'
  BY <1>1 DEF IInv, Harness, Conversations, Sent
<1> QED
  BY <1>1, <1>2, QuietKeeps DEF IInv, Harness

(* The last frame carries no log id and is no prompt.                      *)
LEMMA ExitKeeps ==
    ASSUME IInv, Exit
    PROVE  IInv'
<1> DEFINE last == [log |-> 0, logged |-> FALSE, frame |-> [t |-> "disconnect"]]
           n == Len(Waiting)
<1>1. /\ conversations' = <<>> /\ inbox' = Append(inbox, last) /\ SameAgent
      /\ UNCHANGED <<config, route, cancelled, snapshots, published>>
  BY DEF Exit, SameAgent, loop, done
<1>2. Sent' = Sent
  BY <1>1 DEF Sent
<1>3. inbox' = inbox \o <<last>> /\ IsList(<<last>>) /\ Len(<<last>>) = 1 /\ <<last>>[1] = last
  <2>1. PICK S : inbox \in Seq(S)
    BY DEF IInv, Lists, IsList
  <2> HIDE DEF last
  <2>2. <<last>> \in Seq({last}) /\ Len(<<last>>) = 1 /\ <<last>>[1] = last
    OBVIOUS
  <2>3. Append(inbox, last) = inbox \o <<last>>
    BY <2>1
  <2> QED
    BY <1>1, <2>2, <2>3 DEF IsList
<1>4. last.logged = FALSE /\ last.frame.t = "disconnect"
  OBVIOUS
<1> HIDE DEF last
<1>5. n \in Nat /\ DOMAIN Waiting = 1..n
  BY WaitingIsList DEF IInv
<1>6. /\ Lists' /\ DOMAIN Waiting' = 1..(n + 1)
      /\ \A i \in 1..n : Waiting'[i] = Waiting[i]
      /\ Waiting'[n + 1] = last
  <2> DEFINE new == <<last>>
  <2>1. IsList(new) /\ inbox' = inbox \o new /\ Len(new) = 1 /\ new[1] = last
    BY <1>3
  <2>2. deferred' = deferred
    BY <1>1 DEF SameAgent
  <2> HIDE DEF new
  <2>3. /\ Lists' /\ DOMAIN Waiting' = 1..(n + Len(new))
        /\ \A i \in 1..n : Waiting'[i] = Waiting[i]
        /\ \A i \in 1..Len(new) : Waiting'[n + i] = new[i]
    BY <2>1, <2>2, WaitingGrows DEF IInv
  <2>4. 1 \in 1..Len(new)
    BY <2>1
  <2> QED
    BY <2>1, <2>3, <2>4
<1> HIDE DEF n
<1>7. \A i \in DOMAIN Waiting' : (i \in DOMAIN Waiting /\ Waiting'[i] = Waiting[i]) \/ Waiting'[i] = last
  <2>1. \A i \in 1..(n + 1) : i \in 1..n \/ i = n + 1
    BY <1>5
  <2> QED
    BY <1>5, <1>6, <2>1
<1>8. \A i \in DOMAIN Waiting : i \in DOMAIN Waiting' /\ Waiting'[i] = Waiting[i]
  BY <1>5, <1>6
<1>9. Logged' = Logged
  BY <1>4, <1>7, <1>8 DEF Logged
<1>10. Queued' = Queued
  BY <1>4, <1>7, <1>8 DEF Queued
<1>11. (\A i \in Logged : Waiting'[i] = Waiting[i]) /\ (\A i \in Queued : Waiting'[i] = Waiting[i])
  BY <1>8 DEF Logged, Queued
<1>12. LogInv'
  <2>1. \A i \in DOMAIN Waiting' : IsEntry(Waiting'[i], Sent', published')
    BY <1>1, <1>2, <1>4, <1>7 DEF IInv, QueueInv, LogInv, IsEntry
  <2> QED
    BY <1>1, <1>9, <1>11, <2>1 DEF IInv, QueueInv, LogInv, SameAgent
<1>13. Begun' = Begun
  BY <1>1 DEF SameAgent, Begun
<1>14. OrderInv'
  BY <1>1, <1>2, <1>10, <1>11, <1>13 DEF IInv, QueueInv, OrderInv, SameAgent, IsList
<1>15. AgentInv'
  BY <1>1, <1>2 DEF IInv, AgentInv, SameAgent, IsJob, InHand
<1>16. Harness'
  <2>1. DOMAIN <<>> = {}
    OBVIOUS
  <2> QED
    BY <1>1, <1>2, <2>1 DEF IInv, Harness, Conversations
<1> QED
  BY <1>2, <1>6, <1>12, <1>13, <1>14, <1>15, <1>16 DEF IInv, QueueInv

-----------------------------------------------------------------------------
(* All the harness's steps.                                                *)
LEMMA HarnessStepKeeps ==
    ASSUME IInv, HarnessStep
    PROVE  IInv'
<1>1. conversations # <<>>
  BY DEF HarnessStep
<1>2. CASE UserSays
  BY <1>1, <1>2, UserSaysKeeps
<1>3. CASE AskAside
  BY <1>1, <1>3, AskAsideKeeps
<1>4. CASE ToolsAnswer
  BY <1>1, <1>4, ToolsAnswerKeeps
<1>5. CASE CancelUser
  BY <1>1, <1>5, CancelUserKeeps
<1>6. CASE \E session \in Sessions : SwitchSession(session)
  BY <1>1, <1>6, SwitchSessionKeeps
<1>7. CASE NewToken \/ \E cfg \in Configs : Configure(cfg)
  BY <1>7, SettingsKeep
<1>8. CASE TakeAnswer
  BY <1>1, <1>8, TakeAnswerKeeps
<1>9. CASE Exit
  BY <1>9, ExitKeeps
<1> QED
  BY <1>2, <1>3, <1>4, <1>5, <1>6, <1>7, <1>8, <1>9 DEF HarnessStep

(* All the agent's steps.                                                  *)
LEMMA AgentStepKeeps ==
    ASSUME IInv, AgentStep
    PROVE  IInv'
<1>1. CASE Handle
  BY <1>1, HandleKeeps
<1>2. CASE Disconnected
  BY <1>2, DisconnectedKeeps
<1>3. CASE Dispatch \/ CachedTurn \/ FreshTurn \/ HttpTurn \/ Elapse
  BY <1>3, TurnsAreAttempts, AttemptsKeep
<1>4. CASE Listen
  BY <1>4, ListenKeeps
<1> QED
  BY <1>1, <1>2, <1>3, <1>4 DEF AgentStep

(* And a step of neither.                                                  *)
LEMMA NothingHappens ==
    ASSUME IInv, UNCHANGED vars
    PROVE  IInv'
<1>1. SameAgent /\ UNCHANGED <<inbox, snapshots, published, conversations, route, cancelled, config>>
  BY DEF vars, harness, loop, done, SameAgent
<1>2. Conversations'
  BY <1>1 DEF IInv, Harness, Conversations, Sent
<1> QED
  BY <1>1, <1>2, QuietKeeps DEF IInv, Harness

(* Nothing is sent at first.                                               *)
LEMMA InitIsSound ==
    ASSUME Init
    PROVE  IInv
<1>1. DOMAIN snapshots = {} /\ Sent = 0
  BY FS_EmptySet DEF Init, Sent
<1>2. DOMAIN snapshots = 1..Sent /\ Sent \in 0..MaxPrompts
  <2>1. MaxPrompts \in Nat
    BY AgentAssumption
  <2> QED
    BY <1>1, <2>1
<1>3. Conversations
  <2>1. DOMAIN conversations = {"user"} /\ conversations["user"] = Conversation(FirstSession, <<>>, NoAnchor)
    BY DEF Init
  <2>2. FirstSession \in Sessions
    BY AgentAssumption
  <2> QED
    BY <1>1, <2>1, <2>2 DEF Conversations, IsConversation, Conversation
<1>4. Harness
  <2>1. FirstConfig \in Configs
    BY AgentAssumption
  <2> QED
    BY <1>2, <1>3, <2>1 DEF Harness, Init
<1>5. AgentInv
  BY DEF AgentInv, Init
<1>6. <<>> \in Seq({}) /\ Len(<<>>) = 0 /\ <<>> \o <<>> = <<>> /\ DOMAIN <<>> = {}
  OBVIOUS
<1>7. Lists /\ IsList(answered)
  BY <1>6 DEF Init, Lists, IsList
<1>8. DOMAIN Waiting = {} /\ Logged = {} /\ Queued = {} /\ Begun = 0 /\ job = NoJob
  BY <1>6 DEF Init, Waiting, Logged, Queued, Begun
<1>9. LogInv
  BY <1>8 DEF LogInv
<1>10. OrderInv
  <2>1. (Begun + 1)..Sent = {}
    BY <1>1, <1>8
  <2>2. DOMAIN answered = {}
    BY <1>6 DEF Init
  <2> QED
    BY <1>7, <1>8, <2>1, <2>2 DEF OrderInv
<1> QED
  BY <1>1, <1>4, <1>5, <1>7, <1>8, <1>9, <1>10 DEF IInv, QueueInv

(* Every prompt the harness has sent is answered, in hand, or still        *)
(* waiting, once and in the order it was sent, whatever was set aside      *)
(* during retries; and no prompt is acknowledged before it is answered.    *)
THEOREM PromptsAreAnsweredInOrder == Spec => []AnsweredInOrder
<1>1. IInv /\ [Next]_vars => IInv'
  BY HarnessStepKeeps, AgentStepKeeps, NothingHappens DEF Next
<1>2. IInv => AnsweredInOrder
  <2> SUFFICES ASSUME IInv PROVE AnsweredInOrder
    OBVIOUS
  <2>1. LogInv /\ OrderInv
    BY DEF IInv, QueueInv
  <2>2. {Waiting[i].frame.id : i \in Queued} = (Begun + 1)..Cardinality(DOMAIN snapshots)
    BY <2>1 DEF OrderInv, Sent
  <2>3. \A i \in Queued : acked < Waiting[i].log
    <3> SUFFICES ASSUME NEW i \in Queued PROVE acked < Waiting[i].log
      OBVIOUS
    <3>1. Waiting[i].frame.t = "prompt" /\ IsEntry(Waiting[i], Sent, published) /\ i \in DOMAIN Waiting
      BY <2>1 DEF LogInv, Queued
    <3>2. i \in Logged
      BY <3>1 DEF IsEntry, Logged
    <3> QED
      BY <2>1, <3>2 DEF LogInv
  <2> QED
    BY <2>1, <2>2, <2>3 DEF AnsweredInOrder, LogInv, OrderInv
<1> QED
  BY InitIsSound, <1>1, <1>2, PTL DEF Spec

-----------------------------------------------------------------------------
(* The pool.  A sequence that names nothing twice.                         *)
Distinct(s) == \A i, j \in 1..Len(s) : s[i] = s[j] => i = j

(* The queue names the pooled connections, a connection in use is not one  *)
(* of them.                                                                *)
PoolInv ==
  /\ wsDisabled \subseteq Sessions
  /\ lru \in Seq(Sessions) /\ Distinct(lru) /\ Len(lru) <= PoolMax
  /\ ToSet(lru) = DOMAIN pool
  /\ pc = "cached" => job.session \notin DOMAIN pool

(* Such a sequence is as long as it has members.                           *)
LEMMA DistinctLength ==
    ASSUME NEW S, NEW s \in Seq(S), Distinct(s)
    PROVE  Cardinality(ToSet(s)) = Len(s)
<1>1. DOMAIN s = 1..Len(s) /\ Len(s) \in Nat
  OBVIOUS
<1>2. s \in [1..Len(s) -> ToSet(s)]
  BY <1>1 DEF ToSet
<1>3. s \in Injection(1..Len(s), ToSet(s))
  BY <1>2 DEF Distinct, Injection, IsInjective
<1>4. s \in Surjection(1..Len(s), ToSet(s))
  BY <1>1, <1>2 DEF ToSet, Surjection
<1>5. ExistsBijection(1..Len(s), ToSet(s))
  BY <1>3, <1>4 DEF Bijection, ExistsBijection
<1> QED
  BY <1>1, <1>5, FS_CountingElements

(* The place a name has in it is the first and only one.                   *)
LEMMA OnlyPlace ==
    ASSUME NEW S, NEW s \in Seq(S), Distinct(s), NEW k \in 1..Len(s)
    PROVE  RemoveFirst(s, s[k]) = SubSeq(s, 1, k - 1) \o SubSeq(s, k + 1, Len(s))
<1> DEFINE I == {i \in 1..Len(s) : s[i] = s[k]}
<1>1. I = {k}
  BY DEF Distinct
<1>2. Min(I) = k
  BY <1>1 DEF Min
<1>3. SelectInSeq(s, LAMBDA v : v = s[k]) = k
  BY <1>1, <1>2 DEF SelectInSeq
<1> QED
  BY <1>3 DEF RemoveFirst, RemoveAt

(* Without the name at k.                                                  *)
LEMMA Cut ==
    ASSUME NEW S, NEW s \in Seq(S), Distinct(s), NEW k \in 1..Len(s),
           NEW r, r = SubSeq(s, 1, k - 1) \o SubSeq(s, k + 1, Len(s))
    PROVE  /\ r \in Seq(S) /\ Len(r) = Len(s) - 1 /\ Distinct(r)
           /\ ToSet(r) = ToSet(s) \ {s[k]}
<1>1. Len(s) \in Nat /\ DOMAIN s = 1..Len(s) /\ k \in Nat
  OBVIOUS
<1>2. /\ SubSeq(s, 1, k - 1) \in Seq(S) /\ Len(SubSeq(s, 1, k - 1)) = k - 1
      /\ \A i \in 1..(k - 1) : SubSeq(s, 1, k - 1)[i] = s[i]
  BY <1>1
<1>3. /\ SubSeq(s, k + 1, Len(s)) \in Seq(S) /\ Len(SubSeq(s, k + 1, Len(s))) = Len(s) - k
      /\ \A i \in 1..(Len(s) - k) : SubSeq(s, k + 1, Len(s))[i] = s[k + i]
  <2> DEFINE m == k + 1
             n == Len(s)
  <2>1. /\ m \in Int /\ n \in Int /\ \A i \in m..n : s[i] \in S
        /\ (IF m <= n THEN n - m + 1 ELSE 0) = n - k /\ n - m + 1 = n - k
        /\ \A i \in 1..(n - k) : m + i - 1 = k + i
    <3>1. n \in Nat /\ m \in Nat /\ m = k + 1 /\ k <= n /\ \A i \in 1..n : s[i] \in S
      BY <1>1
    <3> HIDE DEF m, n
    <3> QED
      BY <1>1, <3>1
  <2> HIDE DEF m, n
  <2>2. /\ SubSeq(s, m, n) \in Seq(S) /\ Len(SubSeq(s, m, n)) = IF m <= n THEN n - m + 1 ELSE 0
        /\ \A i \in 1..(n - m + 1) : SubSeq(s, m, n)[i] = s[m + i - 1]
    BY <2>1, SubSeqProperties
  <2>3. /\ SubSeq(s, m, n) \in Seq(S) /\ Len(SubSeq(s, m, n)) = n - k
        /\ \A i \in 1..(n - k) : SubSeq(s, m, n)[i] = s[k + i]
    BY <2>1, <2>2
  <2> QED
    BY <2>3 DEF m, n
<1> DEFINE a == SubSeq(s, 1, k - 1)
           b == SubSeq(s, k + 1, Len(s))
<1> HIDE DEF a, b
<1>4. /\ a \in Seq(S) /\ b \in Seq(S) /\ Len(a) = k - 1 /\ Len(b) = Len(s) - k /\ r = a \o b
      /\ \A i \in 1..(k - 1) : a[i] = s[i]
      /\ \A i \in 1..(Len(s) - k) : b[i] = s[k + i]
  BY <1>2, <1>3 DEF a, b
<1>5. /\ r \in Seq(S) /\ Len(r) = Len(a) + Len(b) /\ DOMAIN r = 1..(Len(a) + Len(b))
      /\ \A i \in 1..Len(a) : r[i] = a[i]
      /\ \A i \in 1..Len(b) : r[Len(a) + i] = b[i]
  <2>1. /\ a \o b \in Seq(S) /\ Len(a \o b) = Len(a) + Len(b) /\ DOMAIN (a \o b) = 1..(Len(a) + Len(b))
        /\ \A i \in 1..Len(a) : (a \o b)[i] = a[i]
        /\ \A i \in 1..Len(b) : (a \o b)[Len(a) + i] = b[i]
    <3>1. a \in Seq(S) /\ b \in Seq(S)
      BY <1>4
    <3> QED
      BY <3>1, Concatenation
  <2>2. r = a \o b
    BY <1>4
  <2> QED
    BY <2>1, <2>2
<1>6. Len(r) = Len(s) - 1 /\ DOMAIN r = 1..(Len(s) - 1)
  <2>1. Len(a) + Len(b) = Len(s) - 1
    BY <1>1, <1>4
  <2> QED
    BY <1>5, <2>1
<1>7. \A i \in 1..(k - 1) : r[i] = s[i]
  BY <1>4, <1>5
<1>8. \A i \in k..(Len(s) - 1) : r[i] = s[i + 1]
  <2> SUFFICES ASSUME NEW i \in k..(Len(s) - 1) PROVE r[i] = s[i + 1]
    OBVIOUS
  <2>1. i - k + 1 \in 1..Len(b) /\ Len(a) + (i - k + 1) = i /\ k + (i - k + 1) = i + 1
    BY <1>1, <1>4
  <2>2. r[Len(a) + (i - k + 1)] = b[i - k + 1] /\ b[i - k + 1] = s[k + (i - k + 1)]
    BY <1>4, <1>5, <2>1
  <2> QED
    BY <2>1, <2>2
<1>9. \A i \in 1..(Len(s) - 1) : i \in 1..(k - 1) \/ i \in k..(Len(s) - 1)
  BY <1>1
<1>10. Distinct(r)
  <2> SUFFICES ASSUME NEW i \in 1..Len(r), NEW j \in 1..Len(r), r[i] = r[j] PROVE i = j
    BY DEF Distinct
  <2>1. i \in 1..(Len(s) - 1) /\ j \in 1..(Len(s) - 1)
    BY <1>6
  <2>2. \/ i \in 1..(k - 1) /\ r[i] = s[i]
        \/ i \in k..(Len(s) - 1) /\ r[i] = s[i + 1]
    BY <1>7, <1>8, <1>9, <2>1
  <2>3. \/ j \in 1..(k - 1) /\ r[j] = s[j]
        \/ j \in k..(Len(s) - 1) /\ r[j] = s[j + 1]
    BY <1>7, <1>8, <1>9, <2>1
  <2>4. \A x, y \in 1..Len(s) : s[x] = s[y] => x = y
    BY DEF Distinct
  <2>5. i \in 1..Len(s) /\ j \in 1..Len(s) /\ i + 1 \in 1..Len(s) /\ j + 1 \in 1..Len(s)
    BY <1>1, <2>1
  <2>6. CASE i \in 1..(k - 1) /\ r[i] = s[i] /\ j \in 1..(k - 1) /\ r[j] = s[j]
    BY <2>4, <2>5, <2>6
  <2>7. CASE i \in k..(Len(s) - 1) /\ r[i] = s[i + 1] /\ j \in k..(Len(s) - 1) /\ r[j] = s[j + 1]
    <3>1. i + 1 = j + 1
      BY <2>4, <2>5, <2>7
    <3> QED
      BY <2>7, <3>1
  <2>8. CASE i \in 1..(k - 1) /\ r[i] = s[i] /\ j \in k..(Len(s) - 1) /\ r[j] = s[j + 1]
    <3>1. i = j + 1
      BY <2>4, <2>5, <2>8
    <3> QED
      BY <1>1, <2>8, <3>1
  <2>9. CASE i \in k..(Len(s) - 1) /\ r[i] = s[i + 1] /\ j \in 1..(k - 1) /\ r[j] = s[j]
    <3>1. i + 1 = j
      BY <2>4, <2>5, <2>9
    <3> QED
      BY <1>1, <2>9, <3>1
  <2> QED
    BY <2>2, <2>3, <2>6, <2>7, <2>8, <2>9
<1>11. ToSet(r) = ToSet(s) \ {s[k]}
  <2>1. ASSUME NEW x \in ToSet(r) PROVE x \in ToSet(s) \ {s[k]}
    <3>1. PICK i \in 1..(Len(s) - 1) : r[i] = x
      BY <1>6, <2>1 DEF ToSet
    <3>2. PICK j \in 1..Len(s) : s[j] = x /\ j # k
      <4>1. CASE i \in 1..(k - 1)
        <5>1. i \in 1..Len(s) /\ i # k
          BY <1>1, <3>1, <4>1
        <5> QED
          BY <1>7, <3>1, <4>1, <5>1
      <4>2. CASE i \in k..(Len(s) - 1)
        <5>1. i + 1 \in 1..Len(s) /\ i + 1 # k
          BY <1>1, <3>1, <4>2
        <5> QED
          BY <1>8, <3>1, <4>2, <5>1
      <4> QED
        BY <1>9, <4>1, <4>2
    <3>3. s[j] # s[k]
      BY <3>2 DEF Distinct
    <3> QED
      BY <1>1, <3>2, <3>3 DEF ToSet
  <2>2. ASSUME NEW x \in ToSet(s) \ {s[k]} PROVE x \in ToSet(r)
    <3>1. PICK j \in 1..Len(s) : s[j] = x /\ j # k
      BY <1>1, <2>2 DEF ToSet
    <3>2. CASE j < k
      <4>1. j \in 1..(k - 1) /\ j \in 1..(Len(s) - 1)
        BY <1>1, <3>1, <3>2
      <4> QED
        BY <1>6, <1>7, <3>1, <4>1 DEF ToSet
    <3>3. CASE k < j
      <4>1. j - 1 \in k..(Len(s) - 1) /\ j - 1 \in 1..(Len(s) - 1) /\ (j - 1) + 1 = j
        BY <1>1, <3>1, <3>3
      <4>2. r[j - 1] = x
        BY <1>8, <3>1, <4>1
      <4> QED
        BY <1>6, <4>1, <4>2 DEF ToSet
    <3> QED
      BY <1>1, <3>1, <3>2, <3>3
  <2> QED
    BY <2>1, <2>2
<1> QED
  BY <1>5, <1>6, <1>10, <1>11

(* Taking a name out of the queue takes that name out and no other.        *)
LEMMA TakingOut ==
    ASSUME NEW S, NEW s \in Seq(S), Distinct(s), NEW e
    PROVE  /\ RemoveFirst(s, e) \in Seq(S) /\ Distinct(RemoveFirst(s, e))
           /\ ToSet(RemoveFirst(s, e)) = ToSet(s) \ {e}
           /\ Len(RemoveFirst(s, e)) = IF e \in ToSet(s) THEN Len(s) - 1 ELSE Len(s)
<1>1. DOMAIN s = 1..Len(s)
  OBVIOUS
<1>2. CASE e \in ToSet(s)
  <2>1. PICK k \in 1..Len(s) : s[k] = e
    BY <1>1, <1>2 DEF ToSet
  <2>2. RemoveFirst(s, e) = SubSeq(s, 1, k - 1) \o SubSeq(s, k + 1, Len(s))
    BY <2>1, OnlyPlace
  <2>3. /\ RemoveFirst(s, e) \in Seq(S) /\ Len(RemoveFirst(s, e)) = Len(s) - 1 /\ Distinct(RemoveFirst(s, e))
        /\ ToSet(RemoveFirst(s, e)) = ToSet(s) \ {s[k]}
    BY <2>2, Cut
  <2> QED
    BY <1>2, <2>1, <2>3
<1>3. CASE e \notin ToSet(s)
  <2>1. RemoveFirst(s, e) = s
    BY <1>1, <1>3 DEF RemoveFirst, ToSet
  <2> QED
    BY <1>3, <2>1
<1> QED
  BY <1>2, <1>3

(* Putting a name in front.                                                *)
LEMMA PuttingInFront ==
    ASSUME NEW S, NEW s \in Seq(S), Distinct(s), NEW e \in S, e \notin ToSet(s)
    PROVE  /\ <<e>> \o s \in Seq(S) /\ Distinct(<<e>> \o s) /\ Len(<<e>> \o s) = Len(s) + 1
           /\ ToSet(<<e>> \o s) = ToSet(s) \cup {e}
<1> DEFINE r == <<e>> \o s
<1>1. /\ DOMAIN s = 1..Len(s) /\ Len(s) \in Nat /\ r \in Seq(S) /\ Len(r) = Len(s) + 1
      /\ r[1] = e /\ \A i \in 1..Len(s) : r[i + 1] = s[i]
  <2>1. /\ <<e>> \in Seq(S) /\ Len(<<e>>) = 1 /\ <<e>>[1] = e /\ DOMAIN s = 1..Len(s) /\ Len(s) \in Nat
    OBVIOUS
  <2> DEFINE h == <<e>>
  <2> HIDE DEF h
  <2>2. h \in Seq(S) /\ Len(h) = 1 /\ h[1] = e /\ r = h \o s
    BY <2>1 DEF h
  <2>3. /\ h \o s \in Seq(S) /\ Len(h \o s) = Len(h) + Len(s)
        /\ \A i \in 1..Len(h) : (h \o s)[i] = h[i]
        /\ \A i \in 1..Len(s) : (h \o s)[Len(h) + i] = s[i]
    BY <2>2, Concatenation
  <2> HIDE DEF r
  <2>4. \A i \in 1..Len(s) : i + 1 = 1 + i
    BY <2>1
  <2> QED
    BY <2>1, <2>2, <2>3, <2>4
<1> HIDE DEF r
<1>2. \A i \in 1..Len(r) : i = 1 \/ (i - 1 \in 1..Len(s) /\ r[i] = s[i - 1])
  <2> SUFFICES ASSUME NEW i \in 1..Len(r), i # 1 PROVE i - 1 \in 1..Len(s) /\ r[i] = s[i - 1]
    OBVIOUS
  <2>1. i - 1 \in 1..Len(s) /\ (i - 1) + 1 = i
    BY <1>1
  <2> QED
    BY <1>1, <2>1
<1>3. Distinct(r)
  <2> SUFFICES ASSUME NEW i \in 1..Len(r), NEW j \in 1..Len(r), r[i] = r[j] PROVE i = j
    BY DEF Distinct
  <2>1. CASE i = 1 /\ j # 1
    BY <1>1, <1>2, <2>1 DEF ToSet
  <2>2. CASE i # 1 /\ j = 1
    BY <1>1, <1>2, <2>2 DEF ToSet
  <2>3. CASE i # 1 /\ j # 1
    <3>1. i - 1 = j - 1
      BY <1>2, <2>3 DEF Distinct
    <3> QED
      BY <3>1
  <2> QED
    BY <2>1, <2>2, <2>3
<1>4. ToSet(r) = ToSet(s) \cup {e}
  <2>1. DOMAIN r = 1..(Len(s) + 1)
    BY <1>1
  <2>2. ASSUME NEW x \in ToSet(r) PROVE x \in ToSet(s) \cup {e}
    <3>1. PICK i \in 1..Len(r) : r[i] = x
      BY <1>1, <2>1, <2>2 DEF ToSet
    <3> QED
      BY <1>1, <1>2, <3>1 DEF ToSet
  <2>3. ASSUME NEW x \in ToSet(s) PROVE x \in ToSet(r)
    <3>1. PICK i \in 1..Len(s) : s[i] = x
      BY <1>1, <2>3 DEF ToSet
    <3>2. i + 1 \in 1..(Len(s) + 1) /\ r[i + 1] = x
      BY <1>1, <3>1
    <3> QED
      BY <2>1, <3>2 DEF ToSet
  <2>4. e \in ToSet(r)
    <3>1. 1 \in 1..(Len(s) + 1)
      BY <1>1
    <3> QED
      BY <1>1, <2>1, <3>1 DEF ToSet
  <2> QED
    BY <2>2, <2>3, <2>4
<1> QED
  BY <1>1, <1>3, <1>4 DEF r

(* Dropping the last name.                                                 *)
LEMMA DroppingTheLast ==
    ASSUME NEW S, NEW s \in Seq(S), Distinct(s), s # <<>>
    PROVE  /\ Front(s) \in Seq(S) /\ Distinct(Front(s)) /\ Len(Front(s)) = Len(s) - 1
           /\ ToSet(Front(s)) = ToSet(s) \ {Last(s)}
<1>1. Len(s) \in 1..Len(s) /\ Len(s) \in Nat
  OBVIOUS
<1> DEFINE k == Len(s)
<1>2. Front(s) = SubSeq(s, 1, k - 1) \o SubSeq(s, k + 1, Len(s))
  BY <1>1 DEF Front
<1>3. k \in 1..Len(s) /\ s[k] = Last(s)
  BY <1>1 DEF Last
<1> DEFINE r == Front(s)
<1>4. r = SubSeq(s, 1, k - 1) \o SubSeq(s, k + 1, Len(s))
  BY <1>2
<1> HIDE DEF k, r
<1>5. /\ r \in Seq(S) /\ Len(r) = Len(s) - 1 /\ Distinct(r)
      /\ ToSet(r) = ToSet(s) \ {s[k]}
  BY <1>3, <1>4, Cut
<1> QED
  BY <1>3, <1>5 DEF r

(* Taking a connection out.                                                *)
LEMMA DroppedKeepsPool ==
    ASSUME PoolInv, NEW session, Dropped(session)
    PROVE  /\ lru' \in Seq(Sessions) /\ Distinct(lru') /\ Len(lru') <= PoolMax
           /\ ToSet(lru') = DOMAIN pool' /\ session \notin DOMAIN pool'
<1>1. /\ lru' = RemoveFirst(lru, session) /\ DOMAIN pool' = DOMAIN pool \ {session}
  BY DEF Dropped, Without
<1>2. /\ lru \in Seq(Sessions) /\ Distinct(lru) /\ Len(lru) <= PoolMax /\ ToSet(lru) = DOMAIN pool
  BY DEF PoolInv
<1>3. /\ lru' \in Seq(Sessions) /\ Distinct(lru') /\ ToSet(lru') = ToSet(lru) \ {session}
      /\ Len(lru') = IF session \in ToSet(lru) THEN Len(lru) - 1 ELSE Len(lru)
  BY <1>1, <1>2, TakingOut
<1>4. Len(lru) \in Nat /\ PoolMax \in Nat
  BY <1>2, AgentAssumption
<1> QED
  BY <1>1, <1>2, <1>3, <1>4

(* Putting one back.                                                       *)
LEMMA ReleaseKeepsPool ==
    ASSUME PoolInv, NEW session \in Sessions, NEW conn, Release(session, conn)
    PROVE  /\ lru' \in Seq(Sessions) /\ Distinct(lru') /\ Len(lru') <= PoolMax
           /\ ToSet(lru') = DOMAIN pool'
<1> DEFINE full == Cardinality(DOMAIN pool) >= PoolMax /\ session \notin DOMAIN pool
           kept == IF full THEN Without(pool, {Last(lru)}) ELSE pool
           rest == IF full THEN Front(lru) ELSE lru
           cut  == RemoveFirst(rest, session)
<1>1. pool' = With(kept, session, conn) /\ lru' = <<session>> \o cut
  BY DEF Release
<1>2. /\ lru \in Seq(Sessions) /\ Distinct(lru) /\ Len(lru) <= PoolMax /\ ToSet(lru) = DOMAIN pool
      /\ Len(lru) \in Nat /\ PoolMax \in Nat \ {0} /\ Cardinality(DOMAIN pool) = Len(lru)
  <2>1. /\ lru \in Seq(Sessions) /\ Distinct(lru) /\ Len(lru) <= PoolMax /\ ToSet(lru) = DOMAIN pool
    BY DEF PoolInv
  <2>2. Cardinality(ToSet(lru)) = Len(lru)
    BY <2>1, DistinctLength
  <2> QED
    BY <2>1, <2>2, AgentAssumption
<1>3. /\ rest \in Seq(Sessions) /\ Distinct(rest) /\ ToSet(rest) = DOMAIN kept
      /\ Len(rest) \in Nat /\ (Len(rest) < PoolMax \/ session \in ToSet(rest)) /\ Len(rest) <= PoolMax
  <2>1. CASE full
    <3>1. lru # <<>>
      <4>1. Len(lru) # 0
        BY <1>2, <2>1
      <4> QED
        BY <4>1
    <3>2. /\ Front(lru) \in Seq(Sessions) /\ Distinct(Front(lru)) /\ Len(Front(lru)) = Len(lru) - 1
          /\ ToSet(Front(lru)) = ToSet(lru) \ {Last(lru)}
      BY <1>2, <3>1, DroppingTheLast
    <3>3. rest = Front(lru) /\ DOMAIN kept = DOMAIN pool \ {Last(lru)}
      BY <2>1 DEF Without
    <3>4. Len(lru) - 1 < PoolMax /\ Len(lru) - 1 <= PoolMax /\ Len(Front(lru)) \in Nat
      BY <1>2, <3>2
    <3> HIDE DEF rest, kept
    <3> QED
      BY <1>2, <3>2, <3>3, <3>4
  <2>2. CASE ~full
    <3>1. rest = lru /\ kept = pool
      BY <2>2
    <3>2. Len(lru) < PoolMax \/ session \in ToSet(lru)
      BY <1>2, <2>2
    <3> HIDE DEF rest, kept
    <3> QED
      BY <1>2, <3>1, <3>2
  <2> QED
    BY <2>1, <2>2
<1> HIDE DEF rest, kept
<1>4. /\ cut \in Seq(Sessions) /\ Distinct(cut) /\ ToSet(cut) = ToSet(rest) \ {session}
      /\ Len(cut) = IF session \in ToSet(rest) THEN Len(rest) - 1 ELSE Len(rest)
  BY <1>3, TakingOut
<1> HIDE DEF cut
<1>5. /\ lru' \in Seq(Sessions) /\ Distinct(lru') /\ Len(lru') = Len(cut) + 1
      /\ ToSet(lru') = ToSet(cut) \cup {session}
  BY <1>1, <1>4, PuttingInFront
<1>6. DOMAIN pool' = DOMAIN kept \cup {session}
  BY <1>1 DEF With
<1>7. Len(lru') <= PoolMax
  BY <1>2, <1>3, <1>4, <1>5
<1> QED
  BY <1>3, <1>4, <1>5, <1>6, <1>7

(* The steps that leave the pool alone.                                    *)
LEMMA PoolUntouched ==
    ASSUME PoolInv, UNCHANGED <<pool, lru>>, wsDisabled' \subseteq Sessions,
           pc' # "cached" \/ (pc' = pc /\ job' = job)
    PROVE  PoolInv'
BY DEF PoolInv

(* The steps that put one back.                                            *)
LEMMA ReleasedPool ==
    ASSUME PoolInv, NEW session \in Sessions, NEW conn, Release(session, conn),
           wsDisabled' \subseteq Sessions, pc' # "cached"
    PROVE  PoolInv'
BY ReleaseKeepsPool DEF PoolInv

(* The steps that take one out, to use it or because it is broken.         *)
LEMMA DroppedPool ==
    ASSUME PoolInv, NEW session, Dropped(session), wsDisabled' \subseteq Sessions,
           pc' # "cached" \/ job'.session = session
    PROVE  PoolInv'
BY DroppedKeepsPool DEF PoolInv

(* An attempt ends, fails or goes on to another transport off the pool.    *)
LEMMA NotCachedAfter ==
    /\ \A reply, response : Finish(reply, response) => pc' # "cached"
    /\ Fail => pc' # "cached"
    /\ ToHttp => pc' # "cached" /\ wsDisabled' = wsDisabled \cup {job.session}
    /\ \A conn, req : TurnOver(conn, req) =>
         /\ pc' # "cached" /\ wsDisabled' = wsDisabled
         /\ \E new : Release(job.session, new)
BY DEF Finish, Fail, ToHttp, TurnOver

(* All the steps.                                                          *)
LEMMA HandleKeepsPool ==
    ASSUME IInv, PoolInv, Handle
    PROVE  PoolInv'
<1> DEFINE entry == Head(Waiting)
<1>1. /\ pc = "idle" /\ Waiting # <<>> /\ TakeFrame /\ UNCHANGED <<snapshots, published>>
      /\ \/ entry.frame.t = "prompt"  /\ HandlePrompt(entry)
         \/ entry.frame.t = "cancel"  /\ HandleCancel(entry)
         \/ entry.frame.t = "prewarm" /\ HandlePrewarm(entry)
  BY DEF Handle, harness
<1>2. IsEntry(entry, Sent, published)
  <2>1. job = NoJob
    BY <1>1 DEF IInv, AgentInv, InHand
  <2> QED
    BY <1>1, <2>1, TakingKeepsOrder
<1>3. wsDisabled \subseteq Sessions
  BY DEF PoolInv
<1> HIDE DEF entry
<1>4. CASE HandlePrompt(entry) \/ HandleCancel(entry)
  <2>1. UNCHANGED sockets /\ pc' # "cached"
    BY <1>1, <1>4 DEF HandlePrompt, HandleCancel
  <2> QED
    BY <1>3, <2>1, PoolUntouched DEF sockets
<1>5. CASE entry.frame.t = "prewarm" /\ HandlePrewarm(entry)
  <2>1. entry.frame.session \in Sessions
    BY <1>2, <1>5 DEF IsEntry, IsPrompt, IsStop, IsWarm
  <2>2. pc' # "cached"
    BY <1>1, <1>5 DEF HandlePrewarm
  <2>3. CASE UNCHANGED sockets
    BY <1>3, <2>2, <2>3, PoolUntouched DEF sockets
  <2>4. ASSUME NEW conn, Release(entry.frame.session, conn), wsDisabled' = wsDisabled PROVE PoolInv'
    BY <1>3, <2>1, <2>2, <2>4, ReleasedPool
  <2>5. CASE Dropped(entry.frame.session) /\ wsDisabled' \in {wsDisabled, wsDisabled \cup {entry.frame.session}}
    BY <1>3, <2>1, <2>2, <2>5, DroppedPool
  <2> QED
    BY <1>5, <2>3, <2>4, <2>5 DEF HandlePrewarm
<1> QED
  BY <1>1, <1>4, <1>5

(* The turns.                                                              *)
LEMMA TurnsKeepPool ==
    ASSUME IInv, PoolInv, Dispatch \/ CachedTurn \/ FreshTurn \/ HttpTurn
    PROVE  PoolInv'
<1>1. wsDisabled \subseteq Sessions
  BY DEF PoolInv
<1>2. IsJob
  <2>1. InHand
    BY DEF Dispatch, CachedTurn, FreshTurn, HttpTurn, InHand
  <2> QED
    BY <2>1 DEF IInv, AgentInv, InHand
<1>3. job.session \in Sessions
  BY <1>2 DEF IsJob
<1>4. ASSUME NEW conn, NEW req, TurnOver(conn, req) PROVE PoolInv'
  BY <1>1, <1>3, <1>4, NotCachedAfter, ReleasedPool
<1>5. ASSUME UNCHANGED <<pool, lru>>, ToHttp PROVE PoolInv'
  BY <1>1, <1>3, <1>5, NotCachedAfter, PoolUntouched
<1>6. ASSUME UNCHANGED sockets, pc' # "cached" PROVE PoolInv'
  BY <1>1, <1>6, PoolUntouched DEF sockets
<1>7. CASE Dispatch
  <2>1. CASE Dropped(job.session) /\ pc' = "cached" /\ job' = With(job, "conn", pool[job.session])
    <3>1. job'.session = job.session
      BY <1>2, <2>1, SameJob
    <3> QED
      BY <1>1, <1>7, <2>1, <3>1, DroppedPool DEF Dispatch
  <2>2. CASE Dropped(job.session) /\ pc' = "fresh"
    BY <1>1, <1>7, <2>2, DroppedPool DEF Dispatch
  <2>3. CASE pc' = "http" /\ UNCHANGED <<job, pool, lru>>
    BY <1>6, <1>7, <2>3 DEF Dispatch, sockets
  <2> QED
    BY <1>7, <2>1, <2>2, <2>3 DEF Dispatch
<1>8. CASE CachedTurn
  <2> DEFINE conn == job.conn
             req == BuildRequest(job.body, job.settings, LinkOver(conn))
  <2>1. \/ TurnOver(conn, req)
        \/ /\ UNCHANGED <<pool, lru>>
           /\ ToHttp \/ (pc' = "fresh" /\ wsDisabled' = wsDisabled) \/ (Fail /\ wsDisabled' = wsDisabled)
    BY <1>8 DEF CachedTurn
  <2> HIDE DEF conn, req
  <2> QED
    BY <1>4, <1>5, <1>6, <2>1, NotCachedAfter DEF sockets
<1>9. CASE FreshTurn
  <2> DEFINE conn == Socket(0, job.bearer, NoWarm)
             req == BuildRequest(job.body, job.settings, NoLink)
  <2>1. \/ TurnOver(conn, req)
        \/ /\ UNCHANGED <<pool, lru>>
           /\ ToHttp \/ (Fail /\ wsDisabled' = wsDisabled)
    BY <1>9 DEF FreshTurn
  <2> HIDE DEF conn, req
  <2> QED
    BY <1>4, <1>5, <1>6, <2>1, NotCachedAfter DEF sockets
<1>10. CASE HttpTurn
  <2>1. UNCHANGED sockets /\ pc' # "cached"
    BY <1>10, NotCachedAfter DEF HttpTurn
  <2> QED
    BY <1>6, <2>1
<1> QED
  BY <1>7, <1>8, <1>9, <1>10

(* The steps that touch no connection.                                     *)
LEMMA OthersKeepPool ==
    ASSUME PoolInv, HarnessStep \/ Disconnected \/ Elapse \/ Listen \/ UNCHANGED vars
    PROVE  PoolInv'
<1>1. wsDisabled \subseteq Sessions
  BY DEF PoolInv
<1>2. CASE HarnessStep \/ UNCHANGED vars
  <2>1. UNCHANGED <<sockets, pc, job>>
    BY <1>2 DEF HarnessStep, UserSays, AskAside, ToolsAnswer, CancelUser, SwitchSession,
                Configure, NewToken, TakeAnswer, Exit, vars
  <2> QED
    BY <1>1, <2>1, PoolUntouched DEF sockets
<1>3. CASE Disconnected \/ Elapse \/ Listen
  <2>1. UNCHANGED sockets /\ pc' # "cached"
    BY <1>3, NotCachedAfter DEF Disconnected, Elapse, Listen
  <2> QED
    BY <1>1, <2>1, PoolUntouched DEF sockets
<1> QED
  BY <1>2, <1>3

(* The pool never holds more connections than it may, its queue names each *)
(* of them once, and a connection in use is not in it.                     *)
THEOREM PoolStaysSound == Spec => []PoolIsSound
<1>1. Init => PoolInv
  <2> SUFFICES ASSUME Init PROVE PoolInv
    OBVIOUS
  <2>1. <<>> \in Seq(Sessions) /\ Len(<<>>) = 0 /\ ToSet(<<>>) = {} /\ DOMAIN <<>> = {} /\ 1..0 = {}
    BY DEF ToSet
  <2>2. PoolMax \in Nat
    BY AgentAssumption
  <2> QED
    BY <2>1, <2>2 DEF Init, PoolInv, Distinct
<1>2. IInv /\ [Next]_vars => IInv'
  BY HarnessStepKeeps, AgentStepKeeps, NothingHappens DEF Next
<1>3. IInv /\ PoolInv /\ [Next]_vars => PoolInv'
  BY HandleKeepsPool, TurnsKeepPool, OthersKeepPool DEF Next, AgentStep
<1>4. IInv /\ PoolInv => PoolIsSound
  <2> SUFFICES ASSUME IInv, PoolInv PROVE PoolIsSound
    OBVIOUS
  <2>1. Cardinality(ToSet(lru)) = Len(lru)
    BY DistinctLength DEF PoolInv
  <2>2. Sent \in Nat /\ MaxPrompts \in Nat /\ Sent <= MaxPrompts
    BY AgentAssumption DEF IInv, Harness
  <2>3. DOMAIN snapshots = 1..Sent /\ 1..Sent \subseteq 1..MaxPrompts
    BY <2>2 DEF IInv, Harness
  <2>4. ToSet(lru) \subseteq Sessions
    BY DEF PoolInv, ToSet
  <2>5. job = NoJob <=> pc \in {"idle", "gone"}
    <3>1. IsJob => job # NoJob
      BY JobIsSome DEF IsJob
    <3> QED
      BY <3>1 DEF IInv, AgentInv, InHand
  <2>6. pc \in {"idle", "dispatch", "cached", "fresh", "http", "replay", "sleep", "gone"}
    BY DEF IInv, AgentInv, InHand
  <2>7. TypeOK
    BY <2>3, <2>4, <2>5, <2>6 DEF TypeOK, IInv, Harness, Conversations, AgentInv, PoolInv
  <2> QED
    BY <2>1, <2>7 DEF PoolIsSound, PoolInv
<1> QED
  BY InitIsSound, <1>1, <1>2, <1>3, <1>4, PTL DEF Spec
=============================================================================
