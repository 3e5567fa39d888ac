------------------------ MODULE ShellExtensionProof ------------------------
(* Every call the shell extension has taken is answered once, and nothing  *)
(* is said of it afterwards, by a worker that holds a permit: for any      *)
(* plans, permits and pipes, and whatever programs and timers do.          *)
EXTENDS ShellExtension, FiniteSetTheorems, TLAPS

-----------------------------------------------------------------------------
(* Types.  The channel and the wire are sequences of some events.          *)
IsList(s) == \E S : s \in Seq(S)

Process ==
  [live : SUBSET {"sh", "child"}, killed : BOOLEAN, shut : BOOLEAN,
   pipe : [Streams -> Seq(Nat)], wrote : [Streams -> Nat]]

(* Where a worker is.                                                      *)
Through == {"leave", "done"}
UserPlaces == {"none", "start", "waiting", "join", "join killed"} \cup Through
Places ==
  UserPlaces \cup {"store", "hunk", "collect", "wait", "stdout", "kill", "output", "output limited"}

Types ==
  /\ plan \in Plans
  /\ next \in 0..MaxFrames /\ reader \in {"read", "ack", "join", "done"}
  /\ worker \in [Frames -> Places]
  /\ process \in [Frames -> Process]
  /\ \A c \in Frames, s \in Streams : Len(process[c].pipe[s]) <= PipeSize

(* A worker that has not run has no process, and a frame that was not read *)
(* has no worker; a command of the user that is answered has nothing left  *)
(* in its pipes, nor anyone who could write to them.                       *)
Waiting == \A c \in Frames : worker[c] \in {"none", "start"} => process[c] = NoProcess

Unread == \A c \in Frames : c > next => worker[c] = "none"

Left(c) == worker[c] \in Through

IsUser(c) == plan.frames[c].kind = "user"

Closed(p) == \A s \in Streams : p.pipe[s] = <<>> /\ p.live \ (IF p.shut THEN {"sh"} ELSE {}) = {}

Drained ==
  \A c \in Calls : IsUser(c) => worker[c] \in UserPlaces /\ (Left(c) => Closed(process[c]))

PipeInv == Types /\ Waiting /\ Unread /\ Drained

Busy == {c \in Calls : worker[c] \notin {"none", "done"}}

PermitInv == permits \in 0..Permits /\ permits + Cardinality(Busy) = Permits

(* What is said, in any order of the two sequences it is in.               *)
Lists == IsList(wire) /\ IsList(out)

AnsweredIsLeft ==
  /\ \A c \in Calls : Left(c) => IsAnswered(c)
  /\ \A i \in DOMAIN Sent : Sent[i].kind = "answer" => Sent[i].id \in Calls /\ Left(Sent[i].id)

NothingAfter ==
  \A i, j \in DOMAIN Sent :
    i < j /\ Sent[i].kind = "answer" /\ Sent[j].kind # "ack" => Sent[i].id # Sent[j].id

SentInv == AnsweredIsLeft /\ NothingAfter

IInv == PipeInv /\ PermitInv /\ Lists /\ SentInv

-----------------------------------------------------------------------------
(* Sequences: what is where in one that was put behind another.            *)
LEMMA Concatenation ==
    ASSUME NEW S, NEW s \in Seq(S), NEW t \in Seq(S)
    PROVE  /\ s \o t \in Seq(S)
           /\ Len(s \o t) = Len(s) + Len(t)
           /\ DOMAIN (s \o t) = 1..(Len(s) + Len(t))
           /\ \A i \in 1..Len(s) : (s \o t)[i] = s[i]
           /\ \A i \in 1..Len(t) : (s \o t)[Len(s) + i] = t[i]
  OBVIOUS

(* Three sequences behind each other, however they are put together.      *)
LEMMA Association ==
    ASSUME NEW S, NEW s \in Seq(S), NEW t \in Seq(S), NEW u \in Seq(S)
    PROVE  s \o (t \o u) = (s \o t) \o u
  OBVIOUS

(* Lists have a common set of members.                                     *)
LEMMA CommonList ==
    ASSUME NEW s, NEW t, IsList(s), IsList(t)
    PROVE  \E S : s \in Seq(S) /\ t \in Seq(S)
<1> PICK A : s \in Seq(A)
  BY DEF IsList
<1> PICK B : t \in Seq(B)
  BY DEF IsList
<1>1. s \in Seq(A \cup B) /\ t \in Seq(A \cup B)
  OBVIOUS
<1> QED
  BY <1>1

(* What a thread sends goes behind everything that was said.               *)
LEMMA SentGrows ==
    ASSUME Lists, NEW events, IsList(events), Send(events), wire' = wire
    PROVE  /\ Lists'
           /\ Len(Sent) \in Nat /\ Len(events) \in Nat
           /\ DOMAIN Sent = 1..Len(Sent)
           /\ DOMAIN Sent' = 1..(Len(Sent) + Len(events))
           /\ \A i \in 1..Len(Sent) : Sent'[i] = Sent[i]
           /\ \A i \in 1..Len(events) : Sent'[Len(Sent) + i] = events[i]
<1>1. PICK A : wire \in Seq(A) /\ out \in Seq(A)
  BY CommonList DEF Lists
<1>2. PICK B : out \in Seq(B) /\ events \in Seq(B)
  BY CommonList DEF Lists
<1> DEFINE S == A \cup B
<1>3. wire \in Seq(S) /\ out \in Seq(S) /\ events \in Seq(S)
  BY <1>1, <1>2
<1> HIDE DEF S
<1>4. out \o events \in Seq(S) /\ wire \o out \in Seq(S)
  BY <1>3, Concatenation
<1>5. Sent' = (wire \o out) \o events
  BY <1>3, Association DEF Sent, Send
<1>6. /\ DOMAIN ((wire \o out) \o events) = 1..(Len(wire \o out) + Len(events))
      /\ \A i \in 1..Len(wire \o out) : ((wire \o out) \o events)[i] = (wire \o out)[i]
      /\ \A i \in 1..Len(events) : ((wire \o out) \o events)[Len(wire \o out) + i] = events[i]
  BY <1>3, <1>4, Concatenation
<1>7. Len(events) \in Nat /\ Len(wire \o out) \in Nat /\ DOMAIN (wire \o out) = 1..Len(wire \o out)
  BY <1>3, <1>4
<1> QED
  BY <1>3, <1>4, <1>5, <1>6, <1>7 DEF Sent, Send, IsList, Lists

(* The writer takes what it writes from the front.                         *)
LEMMA SentIsKept ==
    ASSUME Lists, out # <<>>,
           wire' = Append(wire, Head(out)), out' = Tail(out)
    PROVE  Lists' /\ Sent' = Sent
<1>1. PICK S : wire \in Seq(S) /\ out \in Seq(S)
  BY CommonList DEF Lists
<1>2. Head(out) \in S /\ Tail(out) \in Seq(S) /\ <<Head(out)>> \in Seq(S)
  BY <1>1
<1>3. Append(wire, Head(out)) = wire \o <<Head(out)>> /\ out = <<Head(out)>> \o Tail(out)
  BY <1>1, <1>2
<1>4. Append(wire, Head(out)) \in Seq(S)
  BY <1>1, <1>2
<1>5. wire \o (<<Head(out)>> \o Tail(out)) = (wire \o <<Head(out)>>) \o Tail(out)
  BY <1>1, <1>2, Association
<1> QED
  BY <1>2, <1>3, <1>4, <1>5 DEF Sent, IsList, Lists

-----------------------------------------------------------------------------
(* What is said.                                                           *)

(* A step that says nothing, when no worker is through by it.              *)
LEMMA SilentKeepsSent ==
    ASSUME SentInv, Sent' = Sent, plan' = plan, \A c \in Calls : Left(c)' <=> Left(c)
    PROVE  SentInv'
<1>1. Calls' = Calls
  BY DEF Calls, Frames
<1>2. \A c : IsAnswered(c)' <=> IsAnswered(c)
  BY DEF IsAnswered
<1>3. AnsweredIsLeft'
  BY <1>1, <1>2 DEF SentInv, AnsweredIsLeft
<1>4. NothingAfter'
  BY DEF SentInv, NothingAfter
<1> QED
  BY <1>3, <1>4 DEF SentInv

(* Events of calls that are not answered yet, or of no call.               *)
LEMMA EventsKeepSent ==
    ASSUME Lists, SentInv, plan' = plan, \A c \in Calls : Left(c)' <=> Left(c),
           NEW events, IsList(events), Send(events), wire' = wire,
           \A i \in 1..Len(events) :
             /\ events[i].kind # "answer"
             /\ events[i].kind # "ack" /\ events[i].id \in Calls => ~Left(events[i].id)
    PROVE  Lists' /\ SentInv'
<1> DEFINE n == Len(Sent)
<1>1. /\ Lists' /\ n \in Nat /\ Len(events) \in Nat
      /\ DOMAIN Sent = 1..n /\ DOMAIN Sent' = 1..(n + Len(events))
      /\ \A i \in 1..n : Sent'[i] = Sent[i]
      /\ \A i \in 1..Len(events) : Sent'[n + i] = events[i]
  BY SentGrows DEF Lists
<1> HIDE DEF n
<1>2. Calls' = Calls
  BY DEF Calls, Frames
<1>3. ASSUME NEW i \in DOMAIN Sent', i \notin 1..n
      PROVE  /\ i > n
             /\ Sent'[i].kind # "answer"
             /\ Sent'[i].kind # "ack" /\ Sent'[i].id \in Calls => ~Left(Sent'[i].id)
  <2>1. i - n \in 1..Len(events) /\ i > n
    BY <1>1, <1>3
  <2>2. Sent'[n + (i - n)] = events[i - n]
    BY <1>1, <2>1
  <2>3. n + (i - n) = i
    BY <1>1, <2>1
  <2> QED
    BY <2>1, <2>2, <2>3
<1>4. AnsweredIsLeft'
  <2>1. ASSUME NEW c \in Calls, Left(c)' PROVE IsAnswered(c)'
    <3>1. PICK i \in DOMAIN Sent : Sent[i].kind = "answer" /\ Sent[i].id = c
      BY <2>1 DEF SentInv, AnsweredIsLeft, IsAnswered
    <3>2. i \in DOMAIN Sent' /\ Sent'[i] = Sent[i]
      BY <1>1, <3>1
    <3> QED
      BY <3>1, <3>2 DEF IsAnswered
  <2>2. ASSUME NEW i \in DOMAIN Sent', Sent'[i].kind = "answer"
        PROVE  Sent'[i].id \in Calls /\ Left(Sent'[i].id)
    <3>1. i \in DOMAIN Sent /\ Sent'[i] = Sent[i]
      BY <1>1, <1>3, <2>2
    <3> QED
      BY <2>2, <3>1 DEF SentInv, AnsweredIsLeft
  <2> QED
    BY <1>2, <2>1, <2>2 DEF AnsweredIsLeft
<1>5. NothingAfter'
  <2> SUFFICES ASSUME NEW i \in DOMAIN Sent', NEW j \in DOMAIN Sent', i < j,
                      Sent'[i].kind = "answer", Sent'[j].kind # "ack"
               PROVE  Sent'[i].id # Sent'[j].id
    BY DEF NothingAfter
  <2>1. i \in DOMAIN Sent /\ Sent'[i] = Sent[i]
    BY <1>1, <1>3
  <2>2. Sent[i].id \in Calls /\ Left(Sent[i].id)
    BY <2>1 DEF SentInv, AnsweredIsLeft
  <2>3. CASE j \in 1..n
    BY <1>1, <2>1, <2>3 DEF SentInv, NothingAfter
  <2>4. CASE j \notin 1..n
    BY <1>3, <2>1, <2>2, <2>4
  <2> QED
    BY <2>3, <2>4
<1> QED
  BY <1>1, <1>4, <1>5 DEF SentInv

(* An answer, after a progress event or alone: its worker was not through  *)
(* before and is then.                                                     *)
LEMMA AnswerKeepsSent ==
    ASSUME Types, Lists, SentInv, plan' = plan, wire' = wire, NEW c \in Calls, ~Left(c), GoesTo(c, "leave"),
           NEW ok, NEW body, NEW events,
           events \in {<<Answer(c, ok, body)>>, <<Event("running", c), Answer(c, ok, body)>>}, Send(events)
    PROVE  Lists' /\ SentInv'
<1> DEFINE n == Len(Sent)
<1>1. /\ IsList(events) /\ Len(events) \in 1..2
      /\ events[Len(events)].kind = "answer" /\ events[Len(events)].id = c
      /\ \A i \in 1..Len(events) : i # Len(events) => events[i].kind = "running"
  <2>1. CASE events = <<Answer(c, ok, body)>>
    <3>1. events \in Seq({Answer(c, ok, body)}) /\ Len(events) = 1 /\ events[1] = Answer(c, ok, body)
      BY <2>1
    <3>2. IsList(events)
      BY <3>1 DEF IsList
    <3> QED
      BY <3>1, <3>2 DEF Answer
  <2>2. CASE events = <<Event("running", c), Answer(c, ok, body)>>
    <3>1. /\ events \in Seq({Event("running", c), Answer(c, ok, body)}) /\ Len(events) = 2
          /\ events[1] = Event("running", c) /\ events[2] = Answer(c, ok, body)
      BY <2>2
    <3>2. IsList(events)
      BY <3>1 DEF IsList
    <3> QED
      BY <3>1, <3>2 DEF Answer, Event
  <2> QED
    BY <2>1, <2>2
<1>2. /\ Lists' /\ n \in Nat
      /\ DOMAIN Sent = 1..n /\ DOMAIN Sent' = 1..(n + Len(events))
      /\ \A i \in 1..n : Sent'[i] = Sent[i]
      /\ \A i \in 1..Len(events) : Sent'[n + i] = events[i]
  BY <1>1, SentGrows DEF Lists
<1> HIDE DEF n
<1> DEFINE last == n + Len(events)
<1>3. last \in DOMAIN Sent' /\ Sent'[last] = events[Len(events)] /\ last > n
  BY <1>1, <1>2
<1>4. ASSUME NEW i \in DOMAIN Sent', i \notin 1..n, i # last
      PROVE  i > n /\ i < last /\ Sent'[i].kind = "running"
  <2>1. i - n \in 1..Len(events) /\ i - n # Len(events) /\ n + (i - n) = i /\ i > n /\ i < last
    BY <1>1, <1>2, <1>4
  <2>2. Sent'[n + (i - n)] = events[i - n]
    BY <1>2, <2>1
  <2>3. events[i - n].kind = "running"
    BY <1>1, <2>1
  <2> QED
    BY <2>1, <2>2, <2>3
<1> HIDE DEF last
<1>5. Calls' = Calls /\ Calls \subseteq Frames
  BY DEF Calls, Frames
<1>6. Left(c)' /\ \A d \in Calls : d # c => (Left(d)' <=> Left(d))
  BY <1>5 DEF Left, Through, GoesTo, Types
<1>7. ASSUME NEW i \in 1..n, Sent'[i].kind = "answer"
      PROVE  Sent'[i].id \in Calls /\ Sent'[i].id # c /\ Left(Sent'[i].id)
  BY <1>2, <1>7 DEF SentInv, AnsweredIsLeft
<1>8. AnsweredIsLeft'
  <2>1. ASSUME NEW d \in Calls, Left(d)' PROVE IsAnswered(d)'
    <3>1. CASE d = c
      BY <1>1, <1>3, <3>1 DEF IsAnswered
    <3>2. CASE d # c
      <4>1. PICK i \in DOMAIN Sent : Sent[i].kind = "answer" /\ Sent[i].id = d
        BY <1>6, <2>1, <3>2 DEF SentInv, AnsweredIsLeft, IsAnswered
      <4>2. i \in DOMAIN Sent' /\ Sent'[i] = Sent[i]
        BY <1>1, <1>2, <4>1
      <4> QED
        BY <4>1, <4>2 DEF IsAnswered
    <3> QED
      BY <3>1, <3>2
  <2>2. ASSUME NEW i \in DOMAIN Sent', Sent'[i].kind = "answer"
        PROVE  Sent'[i].id \in Calls /\ worker'[Sent'[i].id] \in Through
    <3>1. CASE i \in 1..n
      BY <1>2, <1>6, <1>7, <2>2, <3>1 DEF Left
    <3>2. CASE i \notin 1..n
      <4>1. i = last
        BY <1>4, <2>2, <3>2
      <4> QED
        BY <1>1, <1>3, <1>6, <4>1 DEF Left
    <3> QED
      BY <3>1, <3>2
  <2> QED
    BY <1>5, <2>1, <2>2 DEF AnsweredIsLeft, Left
<1>9. NothingAfter'
  <2> SUFFICES ASSUME NEW i \in DOMAIN Sent', NEW j \in DOMAIN Sent', i < j,
                      Sent'[i].kind = "answer", Sent'[j].kind # "ack"
               PROVE  Sent'[i].id # Sent'[j].id
    BY DEF NothingAfter
  <2>1. i \in 1..n
    <3>1. SUFFICES ASSUME i \notin 1..n PROVE FALSE
      OBVIOUS
    <3>2. i = last
      BY <1>4, <3>1
    <3> QED
      BY <1>1, <1>2, <3>2 DEF last
  <2>2. CASE j \in 1..n
    <3>1. i \in DOMAIN Sent /\ j \in DOMAIN Sent /\ Sent'[i] = Sent[i] /\ Sent'[j] = Sent[j]
      BY <1>2, <2>1, <2>2
    <3> QED
      BY <3>1 DEF SentInv, NothingAfter
  <2>3. CASE j = last
    BY <1>1, <1>3, <1>7, <2>1, <2>3
  <2>4. CASE j \notin 1..n /\ j # last
    <3>1. j - n \in 1..Len(events) /\ n + (j - n) = j
      BY <1>1, <1>2, <2>4
    <3>2. Sent'[j] = events[j - n] /\ events[j - n].id = c
      <4>1. Len(events) = 2 /\ j - n = 1
        BY <1>1, <1>2, <2>4, <3>1 DEF last
      <4>2. events = <<Event("running", c), Answer(c, ok, body)>>
        BY <4>1
      <4> QED
        BY <1>2, <3>1, <4>1, <4>2 DEF Event
    <3> QED
      BY <1>7, <2>1, <3>2
  <2> QED
    BY <2>2, <2>3, <2>4
<1> QED
  BY <1>2, <1>8, <1>9 DEF SentInv

-----------------------------------------------------------------------------
(* Permits and pipes.                                                      *)
LEMMA BusyIsFinite ==
    ASSUME plan \in Plans
    PROVE  IsFiniteSet(Busy) /\ Frames = 1..Len(plan.frames) /\ Len(plan.frames) \in 0..MaxFrames
<1> DEFINE F == {plan.frames[i] : i \in DOMAIN plan.frames}
<1>0. plan.frames \in Seq(F) /\ Len(plan.frames) <= MaxFrames /\ MaxFrames \in Nat
  BY ShellAssumption
<1> HIDE DEF F
<1>1. Frames = 1..Len(plan.frames) /\ Len(plan.frames) \in 0..MaxFrames
  BY <1>0 DEF Frames
<1>2. IsFiniteSet(1..Len(plan.frames)) /\ Busy \subseteq 1..Len(plan.frames)
  BY <1>1, FS_Interval DEF Busy, Calls
<1> QED
  BY <1>1, <1>2, FS_Subset

(* A worker that goes on keeps its permit.                                 *)
LEMMA GoingOnKeepsPermits ==
    ASSUME Types, PermitInv, permits' = permits, plan' = plan, NEW c \in Calls, NEW pc \in Places,
           worker[c] \notin {"none", "done"}, pc \notin {"none", "done"}, GoesTo(c, pc)
    PROVE  PermitInv'
<1>1. Calls' = Calls /\ c \in Frames
  BY DEF Calls, Frames
<1>2. Busy' = Busy
  BY <1>1 DEF Busy, GoesTo, Types, Calls
<1> QED
  BY <1>2 DEF PermitInv

(* Permits are taken and given back by the reader and the workers alone.   *)
LEMMA PermitsAreKept ==
    ASSUME PermitInv, UNCHANGED <<permits, plan, worker>>
    PROVE  PermitInv'
  BY DEF PermitInv, Busy, Calls, Frames

(* One worker goes on, or its process does.                                *)
LEMMA WorkerKeepsPipes ==
    ASSUME PipeInv, UNCHANGED <<plan, next, reader>>, NEW c \in Calls, worker[c] # "none",
           NEW pc \in Places, NEW p \in Process, pc \notin {"none", "start"}, GoesTo(c, pc),
           process' = [process EXCEPT ![c] = p],
           \A s \in Streams : Len(p.pipe[s]) <= PipeSize,
           IsUser(c) => pc \in UserPlaces /\ (pc \in Through => Closed(p))
    PROVE  PipeInv'
<1>1. Frames' = Frames /\ Calls' = Calls /\ c \in Frames /\ Calls \subseteq Frames
  BY DEF Calls, Frames
<1>2. worker'[c] = pc /\ \A d \in Frames : d # c => worker'[d] = worker[d]
  BY <1>1 DEF GoesTo, PipeInv, Types
<1>3. process'[c] = p /\ \A d \in Frames : d # c => process'[d] = process[d]
  BY <1>1 DEF PipeInv, Types
<1>4. Types'
  <2>1. worker' \in [Frames -> Places] /\ process' \in [Frames -> Process]
    BY <1>1 DEF GoesTo, PipeInv, Types
  <2>2. \A d \in Frames, s \in Streams : Len(process'[d].pipe[s]) <= PipeSize
    BY <1>3 DEF PipeInv, Types
  <2> QED
    BY <1>1, <2>1, <2>2 DEF PipeInv, Types
<1>5. Waiting' /\ Unread'
  BY <1>1, <1>2, <1>3 DEF PipeInv, Waiting, Unread
<1>6. Drained'
  BY <1>1, <1>2, <1>3 DEF PipeInv, Drained, Left, IsUser
<1> QED
  BY <1>4, <1>5, <1>6 DEF PipeInv

(* A worker goes on and says nothing.                                      *)
LEMMA WorkerGoesOn ==
    ASSUME IInv, UNCHANGED <<plan, next, reader, permits, out, wire>>, NEW c \in Calls,
           worker[c] \notin {"none"} \cup Through, NEW pc \in Places, NEW p \in Process,
           pc \notin {"none", "start"} \cup Through, GoesTo(c, pc), process' = [process EXCEPT ![c] = p],
           \A s \in Streams : Len(p.pipe[s]) <= PipeSize,
           IsUser(c) => pc \in UserPlaces
    PROVE  IInv'
<1>1. PipeInv'
  BY WorkerKeepsPipes DEF IInv, Through
<1>2. PermitInv'
  BY GoingOnKeepsPermits DEF IInv, PipeInv, Through
<1>3. Sent' = Sent /\ Lists'
  BY DEF Sent, Lists, IInv
<1>4. \A d \in Calls : Left(d)' <=> Left(d)
  BY DEF Left, GoesTo, IInv, PipeInv, Types, Calls
<1>5. SentInv'
  BY <1>3, <1>4, SilentKeepsSent DEF IInv
<1> QED
  BY <1>1, <1>2, <1>3, <1>5 DEF IInv

(* A worker answers.                                                       *)
Answered(c) ==
  \E ok, body :
    /\ GoesTo(c, "leave")
    /\ \E events \in {<<Answer(c, ok, body)>>, <<Event("running", c), Answer(c, ok, body)>>} : Send(events)

(* An answer ends the work on a call, and its worker keeps the permit.     *)
LEMMA WorkerAnswers ==
    ASSUME IInv, UNCHANGED <<plan, next, reader, permits, wire>>, NEW c \in Calls,
           worker[c] \notin {"none"} \cup Through, NEW p \in Process,
           Answered(c), process' = [process EXCEPT ![c] = p],
           \A s \in Streams : Len(p.pipe[s]) <= PipeSize,
           IsUser(c) => Closed(p)
    PROVE  IInv'
<1>1. GoesTo(c, "leave")
  BY DEF Answered
<1> DEFINE pc == "leave"
<1>2. /\ pc \in Places /\ pc \notin {"none", "start", "done"} /\ pc \in UserPlaces
      /\ worker[c] \notin {"none", "done"} /\ GoesTo(c, pc)
  BY <1>1 DEF Through, UserPlaces, Places
<1>3. PipeInv /\ Types /\ PermitInv
  BY DEF IInv, PipeInv
<1> HIDE DEF pc
<1>4. PipeInv'
  BY <1>2, <1>3, WorkerKeepsPipes
<1>5. PermitInv'
  BY <1>2, <1>3, GoingOnKeepsPermits
<1>6. PICK ok, body :
        \E events \in {<<Answer(c, ok, body)>>, <<Event("running", c), Answer(c, ok, body)>>} : Send(events)
  BY DEF Answered
<1>7. PICK events \in {<<Answer(c, ok, body)>>, <<Event("running", c), Answer(c, ok, body)>>} : Send(events)
  BY <1>6
<1>8. Lists' /\ SentInv'
  BY <1>1, <1>7, AnswerKeepsSent DEF IInv, PipeInv, Left
<1> QED
  BY <1>4, <1>5, <1>8 DEF IInv

(* A process goes on, with or without its worker.                          *)
LEMMA ProcessGoesOn ==
    ASSUME IInv, UNCHANGED <<plan, next, reader, permits, worker>>, Lists', SentInv', NEW c \in Calls,
           worker[c] \notin {"none", "start"}, NEW p \in Process, process' = [process EXCEPT ![c] = p],
           \A s \in Streams : Len(p.pipe[s]) <= PipeSize,
           Closed(process[c]) => Closed(p)
    PROVE  IInv'
<1>1. worker[c] \in Places /\ GoesTo(c, worker[c])
  BY DEF GoesTo, IInv, PipeInv, Types, Calls
<1>2. IsUser(c) => worker[c] \in UserPlaces /\ (worker[c] \in Through => Closed(p))
  BY DEF IInv, PipeInv, Drained, Left
<1>3. PipeInv /\ PermitInv
  BY DEF IInv
<1> DEFINE pc == worker[c]
<1>4. pc \in Places /\ GoesTo(c, pc) /\ pc \notin {"none", "start"} /\ worker[c] # "none"
  BY <1>1
<1>5. IsUser(c) => pc \in UserPlaces /\ (pc \in Through => Closed(p))
  BY <1>2
<1> HIDE DEF pc
<1>6. PipeInv'
  BY <1>3, <1>4, <1>5, WorkerKeepsPipes
<1>7. PermitInv'
  BY <1>3, PermitsAreKept
<1> QED
  BY <1>6, <1>7 DEF IInv

-----------------------------------------------------------------------------
(* The steps.                                                              *)
LEMMA InitIInv == Init => IInv
<1> SUFFICES ASSUME Init PROVE IInv
  OBVIOUS
<1>1. NoProcess \in Process /\ \A s \in Streams : Len(NoProcess.pipe[s]) = 0
  BY DEF NoProcess, Process, Streams
<1>2. Types
  <2>1. plan \in Plans /\ next = 0 /\ reader = "read" /\ next \in 0..MaxFrames
    BY ShellAssumption DEF Init
  <2>2. worker \in [Frames -> Places] /\ process \in [Frames -> Process]
    BY <1>1 DEF Init, Places, UserPlaces
  <2>3. \A c \in Frames, s \in Streams : Len(process[c].pipe[s]) <= PipeSize
    BY <1>1, ShellAssumption DEF Init
  <2> QED
    BY <2>1, <2>2, <2>3 DEF Types
<1>3. Waiting /\ Unread
  BY DEF Init, Waiting, Unread
<1>4. Calls \subseteq Frames /\ \A c \in Calls : worker[c] = "none"
  BY DEF Init, Calls
<1>5. Drained
  BY <1>4 DEF Drained, UserPlaces, Through, Left
<1>6. PermitInv
  <2>1. Busy = {} /\ permits = Permits
    BY <1>4 DEF Busy, Init
  <2> QED
    BY <2>1, FS_EmptySet, ShellAssumption DEF PermitInv
<1>7. out = <<>> /\ wire = <<>> /\ Sent = <<>> /\ DOMAIN Sent = {}
  BY DEF Init, Sent
<1>8. out \in Seq({}) /\ wire \in Seq({})
  BY <1>7
<1>9. Lists
  BY <1>8 DEF Lists, IsList
<1>10. SentInv
  BY <1>4, <1>7 DEF SentInv, AnsweredIsLeft, NothingAfter, Left, Through
<1> QED
  BY <1>2, <1>3, <1>5, <1>6, <1>9, <1>10 DEF IInv, PipeInv

(* A step that leaves the processes alone, as one of one process.          *)
LEMMA SameProcess ==
    ASSUME IInv, NEW c \in Calls, process' = process
    PROVE  /\ process[c] \in Process /\ process' = [process EXCEPT ![c] = process[c]]
           /\ \A s \in Streams : Len(process[c].pipe[s]) <= PipeSize
<1>1. c \in Frames /\ process \in [Frames -> Process]
  BY DEF Calls, IInv, PipeInv, Types
<1> QED
  BY <1>1 DEF IInv, PipeInv, Types

(* The steps of the file tools, which start no process.                    *)
LEMMA FileWorkerKeepsInv ==
    ASSUME IInv, NEW c \in Calls, FileWorker(c)
    PROVE  IInv'
<1>1. /\ UNCHANGED <<plan, next, reader, permits, process, wire>>
      /\ worker[c] \in {"start", "store", "hunk"}
      /\ worker[c] = "start" => plan.frames[c].kind \in {"read", "write", "edit", "patch"}
      /\ \/ Answered(c)
         \/ UNCHANGED <<worker, out>>
         \/ out' = out /\ GoesTo(c, "store")
         \/ out' = out /\ GoesTo(c, "hunk")
  <2>1. CASE ReadFile(c)
    BY <2>1 DEF ReadFile, Starts, Answers, Answered
  <2>2. CASE WriteFile(c)
    BY <2>2 DEF WriteFile, Starts, Answers, Answered
  <2>3. CASE EditLoads(c)
    BY <2>3 DEF EditLoads, Starts, Answers, Answered
  <2>4. CASE EditStores(c)
    BY <2>4 DEF EditStores, Answers, Answered
  <2>5. CASE PatchStarts(c)
    BY <2>5 DEF PatchStarts, Starts, Answers, Answered
  <2>6. CASE PatchApplies(c)
    BY <2>6 DEF PatchApplies, Answers, Answered
  <2>7. CASE PatchEnds(c)
    BY <2>7 DEF PatchEnds, Answers, Answered
  <2> QED
    BY <2>1, <2>2, <2>3, <2>4, <2>5, <2>6, <2>7 DEF FileWorker
<1>2. ~IsUser(c)
  BY <1>1 DEF IsUser, IInv, PipeInv, Drained, UserPlaces, Through
<1>3. /\ process[c] \in Process /\ process' = [process EXCEPT ![c] = process[c]]
      /\ \A s \in Streams : Len(process[c].pipe[s]) <= PipeSize
  BY <1>1, SameProcess
<1>4. worker[c] \notin {"none"} \cup Through
  BY <1>1 DEF Through
<1>5. CASE Answered(c)
  BY <1>1, <1>2, <1>3, <1>4, <1>5, WorkerAnswers
<1>6. CASE UNCHANGED <<worker, out>>
  BY <1>1, <1>6 DEF IInv, PipeInv, Types, TypeOK, Waiting, Unread, Drained, PermitInv, Busy, Lists, SentInv,
       AnsweredIsLeft, NothingAfter, IsAnswered, Sent, Left, IsUser, Calls, Frames
<1>7. ASSUME NEW pc \in {"store", "hunk"}, out' = out, GoesTo(c, pc) PROVE IInv'
  <2>1. pc \in Places /\ pc \notin {"none", "start"} \cup Through
    BY DEF Places, Through
  <2> QED
    BY <1>1, <1>2, <1>3, <1>4, <1>7, <2>1, WorkerGoesOn
<1> QED
  BY <1>1, <1>5, <1>6, <1>7

(* What may become of a process.                                           *)
ProcessStep(c) ==
  \E p \in Process :
    /\ process' = [process EXCEPT ![c] = p]
    /\ \A s \in Streams : Len(p.pipe[s]) <= PipeSize
    /\ Closed(process[c]) => Closed(p)

(* Fewer live processes hold a pipe no longer.                             *)
LEMMA DeathIsAStep ==
    ASSUME IInv, NEW c \in Calls, NEW victims,
           \/ Kill(c, victims)
           \/ process' = [process EXCEPT ![c].live = @ \ victims]
    PROVE  ProcessStep(c)
<1> DEFINE old == process[c]
<1>1. old \in Process /\ process \in [Frames -> Process] /\ c \in Frames
      /\ \A s \in Streams : Len(old.pipe[s]) <= PipeSize
  BY DEF IInv, PipeInv, Types, Calls
<1>2. ASSUME NEW killed \in BOOLEAN
      PROVE  LET p == [old EXCEPT !.live = @ \ victims, !.killed = killed]
             IN p \in Process /\ p.pipe = old.pipe /\ (Closed(old) => Closed(p))
  <2> DEFINE p == [old EXCEPT !.live = @ \ victims, !.killed = killed]
  <2>1. p \in Process /\ p.pipe = old.pipe /\ p.shut = old.shut /\ p.live \subseteq old.live
    BY <1>1 DEF Process
  <2> HIDE DEF p
  <2>2. Closed(old) => Closed(p)
    BY <2>1 DEF Closed
  <2> QED
    BY <2>1, <2>2 DEF p
<1>3. CASE Kill(c, victims)
  <2> DEFINE killed == old.killed \/ "sh" \in old.live \cap victims
  <2> DEFINE p == [old EXCEPT !.live = @ \ victims, !.killed = killed]
  <2>1. killed \in BOOLEAN
    BY <1>1 DEF Process
  <2>2. process' = [process EXCEPT ![c] = p]
    BY <1>1, <1>3 DEF Kill, Process
  <2> HIDE DEF killed
  <2>3. p \in Process /\ p.pipe = old.pipe /\ (Closed(old) => Closed(p))
    BY <1>2, <2>1
  <2> HIDE DEF p
  <2> QED
    BY <1>1, <2>2, <2>3 DEF ProcessStep
<1>4. CASE process' = [process EXCEPT ![c].live = @ \ victims]
  <2> DEFINE p == [old EXCEPT !.live = @ \ victims, !.killed = old.killed]
  <2>1. old.killed \in BOOLEAN
    BY <1>1 DEF Process
  <2>2. process' = [process EXCEPT ![c] = p]
    BY <1>1, <1>4 DEF Process
  <2>3. p \in Process /\ p.pipe = old.pipe /\ (Closed(old) => Closed(p))
    BY <1>2, <2>1
  <2> HIDE DEF p
  <2> QED
    BY <1>1, <2>2, <2>3 DEF ProcessStep
<1> QED
  BY <1>3, <1>4

(* A pipe is read: it was not closed.                                      *)
LEMMA ReadingIsAStep ==
    ASSUME IInv, NEW c \in Calls, NEW s \in Streams, process[c].pipe[s] # <<>>,
           process' = [process EXCEPT ![c].pipe[s] = Tail(@)]
    PROVE  ProcessStep(c)
<1> DEFINE old == process[c]
<1> DEFINE rest == [old.pipe EXCEPT ![s] = Tail(@)]
<1> DEFINE p == [old EXCEPT !.pipe = rest]
<1>1. old \in Process /\ process \in [Frames -> Process] /\ c \in Frames
      /\ \A t \in Streams : Len(old.pipe[t]) <= PipeSize
  BY DEF IInv, PipeInv, Types, Calls
<1>2. process' = [process EXCEPT ![c] = p]
  OBVIOUS
<1>3. old.pipe \in [Streams -> Seq(Nat)]
  BY <1>1 DEF Process
<1>4. Tail(old.pipe[s]) \in Seq(Nat) /\ Len(Tail(old.pipe[s])) <= PipeSize
  <2>1. old.pipe[s] \in Seq(Nat) /\ old.pipe[s] # <<>> /\ Len(old.pipe[s]) <= PipeSize
    BY <1>1, <1>3
  <2>2. PipeSize \in Nat
    BY ShellAssumption
  <2> QED
    BY <2>1, <2>2
<1>5. rest \in [Streams -> Seq(Nat)] /\ \A t \in Streams : Len(rest[t]) <= PipeSize
  <2>1. \A t \in Streams : rest[t] = IF t = s THEN Tail(old.pipe[s]) ELSE old.pipe[t]
    BY <1>3
  <2> QED
    BY <1>1, <1>3, <1>4, <2>1
<1> HIDE DEF rest
<1>6. p \in Process /\ p.pipe = rest
  BY <1>1, <1>5 DEF Process
<1>7. ~Closed(old)
  BY DEF Closed
<1> HIDE DEF p
<1> QED
  BY <1>2, <1>5, <1>6, <1>7 DEF ProcessStep

(* A program starts: its worker had no process, and so nothing in a pipe.  *)
LEMMA StartingIsAStep ==
    ASSUME IInv, NEW c \in Calls, worker[c] = "start",
           process' = [process EXCEPT ![c].live = Family(Program(c))]
    PROVE  \E p \in Process :
             process' = [process EXCEPT ![c] = p] /\ \A s \in Streams : Len(p.pipe[s]) <= PipeSize
<1> DEFINE old == process[c]
<1> DEFINE family == Family(Program(c))
<1> DEFINE p == [old EXCEPT !.live = family]
<1>1. old \in Process /\ \A s \in Streams : Len(old.pipe[s]) <= PipeSize
  BY DEF IInv, PipeInv, Types, Calls
<1>2. process' = [process EXCEPT ![c] = p]
  OBVIOUS
<1>3. family \in SUBSET {"sh", "child"}
  BY DEF Family
<1> HIDE DEF family
<1>4. p \in Process /\ p.pipe = old.pipe
  BY <1>1, <1>3 DEF Process
<1> HIDE DEF p
<1> QED
  BY <1>1, <1>2, <1>4

(* A worker of a program answers.                                          *)
LEMMA ProgramAnswers ==
    ASSUME IInv, NEW c \in Calls, worker[c] \notin {"none"} \cup Through,
           UNCHANGED <<plan, next, reader, permits, wire>>, Answered(c), ProcessStep(c),
           IsUser(c) => Closed(process[c])
    PROVE  IInv'
<1>1. PICK p \in Process :
        /\ process' = [process EXCEPT ![c] = p]
        /\ \A s \in Streams : Len(p.pipe[s]) <= PipeSize
        /\ Closed(process[c]) => Closed(p)
  BY DEF ProcessStep
<1> QED
  BY <1>1, WorkerAnswers

(* A worker of a program goes on, or does something to the process.        *)
LEMMA ProgramGoesOn ==
    ASSUME IInv, NEW c \in Calls, worker[c] \notin {"none"} \cup Through,
           UNCHANGED <<plan, next, reader, permits, out, wire>>, ProcessStep(c),
           NEW pc \in Places, pc \notin {"none", "start"} \cup Through, GoesTo(c, pc),
           IsUser(c) => pc \in UserPlaces
    PROVE  IInv'
<1>1. PICK p \in Process :
        /\ process' = [process EXCEPT ![c] = p]
        /\ \A s \in Streams : Len(p.pipe[s]) <= PipeSize
  BY DEF ProcessStep
<1> QED
  BY <1>1, WorkerGoesOn

(* Nothing becomes of a process in a step that leaves them alone.          *)
LEMMA NoProcessStep ==
    ASSUME IInv, NEW c \in Calls, process' = process
    PROVE  ProcessStep(c)
  BY SameProcess DEF ProcessStep

(* A program is started, or its call is answered because it is not.        *)
LEMMA SpawnKeepsInv ==
    ASSUME IInv, NEW c \in Calls, Spawn(c)
    PROVE  IInv'
<1>1. worker[c] = "start" /\ UNCHANGED <<plan, next, reader, permits, wire>>
  BY DEF Spawn, Starts, StartsProgram, NotStarted
<1>2. worker[c] \notin {"none"} \cup Through
  BY <1>1 DEF Through
<1>3. CASE NotStarted(c)
  <2>1. Answered(c) /\ process' = process
    BY <1>3 DEF NotStarted, Answered, Answers, AnswersShell
  <2>2. Closed(process[c])
    BY <1>1 DEF IInv, PipeInv, Waiting, Calls, NoProcess, Closed
  <2> QED
    BY <1>1, <1>2, <2>1, <2>2, NoProcessStep, ProgramAnswers
<1>4. ASSUME NEW pc \in {"collect", "waiting", "stdout"}, StartsProgram(c, pc),
             IsUser(c) => pc = "waiting"
      PROVE  IInv'
  <2>1. GoesTo(c, pc) /\ UNCHANGED <<out, wire>> /\ process' = [process EXCEPT ![c].live = Family(Program(c))]
    BY <1>4 DEF StartsProgram
  <2>2. PICK p \in Process :
          process' = [process EXCEPT ![c] = p] /\ \A s \in Streams : Len(p.pipe[s]) <= PipeSize
    BY <1>1, <2>1, StartingIsAStep
  <2>3. pc \in Places /\ pc \notin {"none", "start"} \cup Through /\ (IsUser(c) => pc \in UserPlaces)
    BY <1>4 DEF Places, UserPlaces, Through
  <2> QED
    BY <1>1, <1>2, <2>1, <2>2, <2>3, WorkerGoesOn
<1> QED
  BY <1>3, <1>4 DEF Spawn, Starts, IsUser

(* The last thing a worker does: it gives its permit back.                 *)
LEMMA LeaveKeepsInv ==
    ASSUME IInv, NEW c \in Calls, Leave(c)
    PROVE  IInv'
<1>1. /\ worker[c] = "leave" /\ GoesTo(c, "done") /\ permits' = permits + 1
      /\ UNCHANGED <<plan, next, reader, process, out, wire>>
  BY DEF Leave
<1>2. Calls' = Calls /\ c \in Frames /\ Frames' = Frames /\ Calls \subseteq Frames
  BY <1>1 DEF Calls, Frames
<1>3. worker'[c] = "done" /\ \A d \in Frames : d # c => worker'[d] = worker[d]
  BY <1>1, <1>2 DEF GoesTo, IInv, PipeInv, Types
<1>4. PipeInv'
  <2>1. Types'
    BY <1>1, <1>2 DEF IInv, PipeInv, Types, GoesTo, Places, UserPlaces, Through
  <2>2. Waiting' /\ Unread'
    BY <1>1, <1>2, <1>3 DEF IInv, PipeInv, Waiting, Unread
  <2>3. Drained'
    BY <1>1, <1>2, <1>3 DEF IInv, PipeInv, Drained, Left, Through, UserPlaces, IsUser
  <2> QED
    BY <2>1, <2>2, <2>3 DEF PipeInv
<1>5. PermitInv'
  <2>1. IsFiniteSet(Busy) /\ c \in Busy /\ Busy' = Busy \ {c}
    BY <1>1, <1>2, <1>3, BusyIsFinite DEF Busy, IInv, PipeInv, Types
  <2>2. IsFiniteSet(Busy') /\ Cardinality(Busy') = Cardinality(Busy) - 1
    BY <2>1, FS_RemoveElement
  <2>3. Cardinality(Busy') \in Nat /\ Cardinality(Busy) \in Nat
    BY <2>1, <2>2, FS_CardinalityType
  <2>4. permits \in 0..Permits /\ permits + Cardinality(Busy) = Permits /\ Permits \in Nat
    BY ShellAssumption DEF IInv, PermitInv
  <2>5. permits' \in 0..Permits /\ permits' + Cardinality(Busy') = Permits
    BY <1>1, <2>2, <2>3, <2>4
  <2> QED
    BY <2>5 DEF PermitInv
<1>6. Lists' /\ Sent' = Sent
  BY <1>1 DEF IInv, Lists, Sent
<1>7. \A d \in Calls : Left(d)' <=> Left(d)
  BY <1>1, <1>2, <1>3 DEF Left, Through
<1> QED
  BY <1>1, <1>4, <1>5, <1>6, <1>7, SilentKeepsSent DEF IInv

(* The steps of the workers of programs, and the end of every worker.      *)
LEMMA WorkerKeepsInv ==
    ASSUME IInv, NEW c \in Calls, Worker(c)
    PROVE  IInv'
<1>1. Drained
  BY DEF IInv, PipeInv
<1>2. CASE Spawn(c)
  BY <1>2, SpawnKeepsInv
<1>3. CASE Leave(c)
  BY <1>3, LeaveKeepsInv
<1>4. CASE ShellCollected(c) \/ GrepStdoutEnds(c)
  <2>1. /\ worker[c] \in {"collect", "stdout"} /\ UNCHANGED <<plan, next, reader, permits, process, out, wire>>
        /\ \E pc \in {"wait", "output"} : GoesTo(c, pc)
    BY <1>4 DEF ShellCollected, GrepStdoutEnds
  <2>2. PICK pc \in {"wait", "output"} : GoesTo(c, pc)
    BY <2>1
  <2>3. ~IsUser(c) /\ worker[c] \notin {"none"} \cup Through
    BY <1>1, <2>1 DEF Drained, UserPlaces, Through
  <2>4. pc \in Places /\ pc \notin {"none", "start"} \cup Through
    BY DEF Places, Through
  <2> QED
    BY <2>1, <2>2, <2>3, <2>4, NoProcessStep, ProgramGoesOn
<1>5. CASE ShellEnds(c) \/ GrepAnswers(c)
  <2>1. /\ worker[c] \in {"wait", "output", "output limited"}
        /\ UNCHANGED <<plan, next, reader, permits, process, wire>> /\ Answered(c)
    BY <1>5 DEF ShellEnds, GrepAnswers, Answers, AnswersShell, Answered
  <2>2. ~IsUser(c) /\ worker[c] \notin {"none"} \cup Through
    BY <1>1, <2>1 DEF Drained, UserPlaces, Through
  <2> QED
    BY <2>1, <2>2, NoProcessStep, ProgramAnswers
<1>6. CASE ShellTimesOut(c)
  <2>1. /\ worker[c] = "collect" /\ UNCHANGED <<plan, next, reader, permits, wire>>
        /\ Answered(c) /\ Kill(c, {"sh"})
    BY <1>6 DEF ShellTimesOut, AnswersShell, Answered
  <2>2. ~IsUser(c) /\ worker[c] \notin {"none"} \cup Through
    BY <1>1, <2>1 DEF Drained, UserPlaces, Through
  <2> QED
    BY <2>1, <2>2, DeathIsAStep, ProgramAnswers
<1>7. CASE UserCommandEnds(c)
  <2>1. /\ worker[c] = "waiting" /\ GoesTo(c, "join")
        /\ UNCHANGED <<plan, next, reader, permits, process, out, wire>>
    BY <1>7 DEF UserCommandEnds
  <2>2. worker[c] \notin {"none"} \cup Through /\ "join" \in Places /\ "join" \in UserPlaces
        /\ "join" \notin {"none", "start"} \cup Through
    BY <2>1 DEF Places, UserPlaces, Through
  <2> QED
    BY <2>1, <2>2, NoProcessStep, ProgramGoesOn
<1>8. CASE UserTimesOut(c)
  <2>1. /\ worker[c] = "waiting" /\ GoesTo(c, "join killed") /\ Kill(c, GroupOf(Program(c)))
        /\ UNCHANGED <<plan, next, reader, permits, out, wire>>
    BY <1>8 DEF UserTimesOut
  <2>2. worker[c] \notin {"none"} \cup Through /\ "join killed" \in Places /\ "join killed" \in UserPlaces
        /\ "join killed" \notin {"none", "start"} \cup Through
    BY <2>1 DEF Places, UserPlaces, Through
  <2> QED
    BY <2>1, <2>2, DeathIsAStep, ProgramGoesOn
<1>9. CASE UserAnswers(c)
  <2>1. /\ worker[c] \in {"join", "join killed"} /\ \A s \in Streams : Eof(c, s)
        /\ UNCHANGED <<plan, next, reader, permits, process, wire>> /\ Answered(c)
    BY <1>9 DEF UserAnswers, Answers, Answered
  <2>2. worker[c] \notin {"none"} \cup Through /\ Closed(process[c])
    BY <2>1 DEF Through, Closed, Eof, Holders
  <2> QED
    BY <2>1, <2>2, NoProcessStep, ProgramAnswers
<1>10. CASE GrepReads(c)
  <2>1. /\ worker[c] = "stdout" /\ UNCHANGED <<plan, next, reader, permits, out, wire>>
        /\ process[c].pipe["out"] # <<>>
        /\ process' = [process EXCEPT ![c].pipe["out"] = Tail(@)]
        /\ worker' = worker \/ GoesTo(c, "kill")
    BY <1>10 DEF GrepReads
  <2>2. ProcessStep(c)
    BY <2>1, ReadingIsAStep DEF Streams
  <2>3. ~IsUser(c) /\ worker[c] \notin {"none"} \cup Through
    BY <1>1, <2>1 DEF Drained, UserPlaces, Through
  <2>4. PICK pc \in {"stdout", "kill"} : GoesTo(c, pc)
    BY <2>1 DEF GoesTo, IInv, PipeInv, Types, Calls
  <2>5. pc \in Places /\ pc \notin {"none", "start"} \cup Through
    BY DEF Places, Through
  <2> QED
    BY <2>1, <2>2, <2>3, <2>4, <2>5, ProgramGoesOn
<1>11. CASE GrepKills(c)
  <2>1. /\ worker[c] = "kill" /\ GoesTo(c, "output limited") /\ Kill(c, {"sh"})
        /\ UNCHANGED <<plan, next, reader, permits, out, wire>>
    BY <1>11 DEF GrepKills
  <2>2. ~IsUser(c) /\ worker[c] \notin {"none"} \cup Through
    BY <1>1, <2>1 DEF Drained, UserPlaces, Through
  <2>3. "output limited" \in Places /\ "output limited" \notin {"none", "start"} \cup Through
    BY DEF Places, Through
  <2> QED
    BY <2>1, <2>2, <2>3, DeathIsAStep, ProgramGoesOn
<1> QED
  BY <1>2, <1>3, <1>4, <1>5, <1>6, <1>7, <1>8, <1>9, <1>10, <1>11 DEF Worker

(* A thread that reads a pipe, and what it sends on: its call is not       *)
(* answered, or its pipe would have been closed.                           *)
LEMMA DrainKeepsInv ==
    ASSUME IInv, NEW c \in Calls, NEW s \in Streams, Drain(c, s)
    PROVE  IInv'
<1>1. /\ process[c].pipe[s] # <<>> /\ process' = [process EXCEPT ![c].pipe[s] = Tail(@)]
      /\ UNCHANGED <<plan, next, reader, permits, worker, wire>>
      /\ Send(IF IsUser(c) THEN <<Progress(c, s, Head(process[c].pipe[s]))>> ELSE <<>>)
  BY DEF Drain, IsUser
<1>2. ProcessStep(c)
  BY <1>1, ReadingIsAStep
<1>3. ~Closed(process[c])
  BY <1>1 DEF Closed
<1>4. worker[c] \notin {"none", "start"}
  <2>1. process[c] # NoProcess
    BY <1>1 DEF NoProcess
  <2> QED
    BY <2>1 DEF IInv, PipeInv, Waiting, Calls
<1>5. \A d \in Calls : Left(d)' <=> Left(d)
  BY <1>1 DEF Left
<1>6. Lists' /\ SentInv'
  <2>1. CASE IsUser(c)
    <3> DEFINE event == Progress(c, s, Head(process[c].pipe[s]))
    <3>1. Send(<<event>>) /\ event.kind = "progress" /\ event.id = c
      BY <1>1, <2>1 DEF Progress
    <3>2. ~Left(c)
      BY <1>3, <2>1 DEF IInv, PipeInv, Drained
    <3> HIDE DEF event
    <3> DEFINE events == <<event>>
    <3>3. events \in Seq({event}) /\ Len(events) = 1 /\ events[1] = event
      OBVIOUS
    <3>4. IsList(events)
      BY <3>3 DEF IsList
    <3>5. \A i \in 1..Len(events) :
            events[i].kind # "answer" /\ (events[i].kind # "ack" /\ events[i].id \in Calls => ~Left(events[i].id))
      BY <3>1, <3>2, <3>3
    <3>6. Send(events)
      BY <3>1
    <3> HIDE DEF events
    <3> QED
      BY <1>1, <1>5, <3>4, <3>5, <3>6, EventsKeepSent DEF IInv
  <2>2. CASE ~IsUser(c)
    <3>1. out' = out \o <<>>
      BY <1>1, <2>2 DEF Send
    <3>2. PICK S : out \in Seq(S)
      BY DEF IInv, Lists, IsList
    <3>3. out' = out
      BY <3>1, <3>2
    <3>4. Sent' = Sent /\ Lists'
      BY <1>1, <3>3 DEF Sent, Lists, IInv
    <3> QED
      BY <1>1, <1>5, <3>4, SilentKeepsSent DEF IInv
  <2> QED
    BY <2>1, <2>2
<1>7. PICK p \in Process :
        /\ process' = [process EXCEPT ![c] = p]
        /\ \A t \in Streams : Len(p.pipe[t]) <= PipeSize
        /\ Closed(process[c]) => Closed(p)
  BY <1>2 DEF ProcessStep
<1> QED
  BY <1>1, <1>4, <1>6, <1>7, ProcessGoesOn

-----------------------------------------------------------------------------
(* A program writes a line: a pipe that is held is not closed.             *)
LEMMA WritingIsAStep ==
    ASSUME IInv, NEW c \in Calls, plan.frames[c].kind \in ProgramKinds, NEW s \in Streams, ProgramWrites(c, s)
    PROVE  ProcessStep(c)
<1> DEFINE old == process[c]
<1> DEFINE n == old.wrote[s]
<1> DEFINE line == Lines(c, s)[n + 1]
<1> DEFINE pipe == [old.pipe EXCEPT ![s] = Append(@, line)]
<1> DEFINE wrote == [old.wrote EXCEPT ![s] = @ + 1]
<1> DEFINE p == [old EXCEPT !.wrote = wrote, !.pipe = pipe]
<1>1. old \in Process /\ process \in [Frames -> Process] /\ c \in Frames
      /\ \A t \in Streams : Len(old.pipe[t]) <= PipeSize
  BY DEF IInv, PipeInv, Types, Calls
<1>2. /\ process' = [process EXCEPT ![c].wrote[s] = @ + 1, ![c].pipe[s] = Append(@, line)]
      /\ "sh" \in old.live /\ ~old.shut /\ n < Len(Lines(c, s)) /\ Len(old.pipe[s]) < PipeSize
  BY DEF ProgramWrites
<1>3. old.pipe \in [Streams -> Seq(Nat)] /\ old.wrote \in [Streams -> Nat] /\ n \in Nat
  BY <1>1 DEF Process
<1>4. line \in Nat
  <2>1. plan \in Plans /\ c \in DOMAIN plan.frames
    BY <1>1 DEF IInv, PipeInv, Types, Frames
  <2>2. plan.frames[c].program.out \in Seq(Nat) /\ plan.frames[c].program.err \in Seq(Nat)
    BY <2>1, ShellAssumption
  <2>3. Lines(c, s) \in Seq(Nat)
    BY <2>2 DEF Lines, Program
  <2>4. n + 1 \in 1..Len(Lines(c, s))
    BY <1>2, <1>3, <2>3
  <2> QED
    BY <2>3, <2>4
<1> HIDE DEF line
<1>5. process' = [process EXCEPT ![c] = p]
  BY <1>1, <1>2, <1>3
<1>6. wrote \in [Streams -> Nat]
  BY <1>3
<1>7. pipe \in [Streams -> Seq(Nat)] /\ \A t \in Streams : Len(pipe[t]) <= PipeSize
  <2>1. \A t \in Streams : pipe[t] = IF t = s THEN Append(old.pipe[s], line) ELSE old.pipe[t]
    BY <1>3
  <2>2. old.pipe[s] \in Seq(Nat) /\ PipeSize \in Nat
    BY <1>3, ShellAssumption
  <2>3. Append(old.pipe[s], line) \in Seq(Nat) /\ Len(Append(old.pipe[s], line)) <= PipeSize
    BY <1>2, <1>4, <2>2
  <2> QED
    BY <1>1, <1>3, <2>1, <2>3
<1> HIDE DEF pipe, wrote
<1>8. p \in Process /\ p.pipe = pipe
  BY <1>1, <1>6, <1>7 DEF Process
<1>9. ~Closed(old)
  BY <1>2 DEF Closed, Streams
<1> HIDE DEF p
<1> QED
  BY <1>5, <1>7, <1>8, <1>9 DEF ProcessStep

(* sh closes its output: it holds its pipes no longer.                     *)
LEMMA ClosingIsAStep ==
    ASSUME IInv, NEW c \in Calls, ProgramCloses(c)
    PROVE  ProcessStep(c)
<1> DEFINE old == process[c]
<1> DEFINE p == [old EXCEPT !.shut = TRUE]
<1>1. old \in Process /\ process \in [Frames -> Process] /\ c \in Frames
      /\ \A s \in Streams : Len(old.pipe[s]) <= PipeSize
  BY DEF IInv, PipeInv, Types, Calls
<1>2. process' = [process EXCEPT ![c] = p]
  BY DEF ProgramCloses
<1>3. p \in Process /\ p.pipe = old.pipe /\ p.live = old.live /\ p.shut
  BY <1>1 DEF Process
<1> HIDE DEF p
<1>4. Closed(old) => Closed(p)
  BY <1>3 DEF Closed
<1> QED
  BY <1>1, <1>2, <1>3, <1>4 DEF ProcessStep

(* Programs write, close their output and end.                             *)
LEMMA SystemKeepsInv ==
    ASSUME IInv, NEW c \in Calls, plan.frames[c].kind \in ProgramKinds, System(c)
    PROVE  IInv'
<1>1. /\ UNCHANGED <<plan, next, reader, permits, worker, out, wire>>
      /\ process[c].live # {}
  BY DEF System, ProgramWrites, ProgramCloses, ProgramEnds
<1>2. ProcessStep(c)
  <2>1. ASSUME NEW w, ProgramEnds(c, w) PROVE ProcessStep(c)
    <3>1. process' = [process EXCEPT ![c].live = @ \ {w}]
      BY <2>1 DEF ProgramEnds
    <3> QED
      BY <3>1, DeathIsAStep
  <2> QED
    BY <2>1, WritingIsAStep, ClosingIsAStep DEF System
<1>3. worker[c] \notin {"none", "start"}
  <2>1. process[c] # NoProcess
    BY <1>1 DEF NoProcess
  <2> QED
    BY <2>1 DEF IInv, PipeInv, Waiting, Calls
<1>4. Lists' /\ Sent' = Sent /\ \A d \in Calls : Left(d)' <=> Left(d)
  BY <1>1 DEF IInv, Lists, Sent, Left
<1>5. SentInv'
  BY <1>1, <1>4, SilentKeepsSent DEF IInv
<1>6. PICK p \in Process :
        /\ process' = [process EXCEPT ![c] = p]
        /\ \A t \in Streams : Len(p.pipe[t]) <= PipeSize
        /\ Closed(process[c]) => Closed(p)
  BY <1>2 DEF ProcessStep
<1> QED
  BY <1>1, <1>3, <1>4, <1>5, <1>6, ProcessGoesOn

-----------------------------------------------------------------------------
(* A frame is read: what it says of the workers and pipes stays so.        *)
LEMMA ReadingOnKeepsPipes ==
    ASSUME PipeInv, UNCHANGED <<plan, worker, process>>, NextFrame \/ next' = next,
           reader' \in {"read", "ack", "join", "done"}
    PROVE  PipeInv'
<1>1. Frames' = Frames /\ Calls' = Calls /\ Calls \subseteq Frames
  BY DEF Calls, Frames
<1>2. Frames = 1..Len(plan.frames) /\ Len(plan.frames) \in 0..MaxFrames /\ MaxFrames \in Nat
  BY BusyIsFinite, ShellAssumption DEF PipeInv, Types
<1>3. next' \in 0..MaxFrames /\ next \in Nat /\ next' \in Nat /\ next <= next'
  BY <1>2 DEF NextFrame, PipeInv, Types
<1>4. Types'
  BY <1>1, <1>3 DEF PipeInv, Types
<1>5. Waiting' /\ Drained'
  BY <1>1 DEF PipeInv, Waiting, Drained, Left, IsUser
<1>6. Unread'
  <2>1. \A c \in Frames : c \in Nat
    BY <1>2
  <2>2. \A c \in Frames : c > next' => c > next
    BY <1>3, <2>1
  <2> QED
    BY <1>1, <2>2 DEF PipeInv, Unread
<1> QED
  BY <1>4, <1>5, <1>6 DEF PipeInv

(* A call is read: a worker starts with a permit.                          *)
LEMMA ReadCallKeepsInv ==
    ASSUME IInv, NEW c \in Frames, ReadCall(c)
    PROVE  IInv'
<1>1. /\ NextFrame /\ c = next + 1 /\ c \in Calls /\ permits > 0 /\ permits' = permits - 1
      /\ GoesTo(c, "start") /\ reader' \in {"read", "ack"}
      /\ UNCHANGED <<plan, process, out, wire>>
  BY DEF ReadCall
<1>2. Frames' = Frames /\ Calls' = Calls /\ Calls \subseteq Frames
  BY <1>1 DEF Calls, Frames
<1>3. Frames = 1..Len(plan.frames) /\ Len(plan.frames) \in 0..MaxFrames /\ MaxFrames \in Nat
  BY BusyIsFinite, ShellAssumption DEF IInv, PipeInv, Types
<1>4. next \in Nat /\ next' = next + 1 /\ next' \in 0..MaxFrames
  BY <1>1, <1>3 DEF NextFrame, IInv, PipeInv, Types
<1>5. worker[c] = "none"
  <2>1. c > next
    BY <1>1, <1>4
  <2> QED
    BY <2>1 DEF IInv, PipeInv, Unread
<1>6. worker'[c] = "start" /\ \A d \in Frames : d # c => worker'[d] = worker[d]
  BY <1>1 DEF GoesTo, IInv, PipeInv, Types
<1>7. PipeInv'
  <2>1. Types'
    BY <1>1, <1>2, <1>4 DEF IInv, PipeInv, Types, GoesTo, Places, UserPlaces
  <2>2. Waiting'
    BY <1>1, <1>2, <1>5, <1>6 DEF IInv, PipeInv, Waiting
  <2>3. Unread'
    <3>1. \A d \in Frames : d > next' => d > next /\ d # c
      BY <1>1, <1>3, <1>4
    <3> QED
      BY <1>2, <1>6, <3>1 DEF IInv, PipeInv, Unread
  <2>4. Drained'
    BY <1>1, <1>2, <1>6 DEF IInv, PipeInv, Drained, Left, IsUser, UserPlaces, Through
  <2> QED
    BY <2>1, <2>2, <2>3, <2>4 DEF PipeInv
<1>8. PermitInv'
  <2>1. IsFiniteSet(Busy) /\ c \notin Busy /\ Busy' = Busy \cup {c}
    BY <1>1, <1>2, <1>5, <1>6, BusyIsFinite DEF Busy, IInv, PipeInv, Types
  <2>2. Cardinality(Busy') = Cardinality(Busy) + 1
    BY <2>1, FS_AddElement
  <2>3. Cardinality(Busy) \in Nat
    BY <2>1, FS_CardinalityType
  <2>4. permits \in 0..Permits /\ permits + Cardinality(Busy) = Permits /\ Permits \in Nat
    BY ShellAssumption DEF IInv, PermitInv
  <2>5. permits' \in 0..Permits /\ permits' + Cardinality(Busy') = Permits
    BY <1>1, <2>2, <2>3, <2>4
  <2> QED
    BY <2>5 DEF PermitInv
<1>9. Lists' /\ Sent' = Sent
  BY <1>1 DEF IInv, Lists, Sent
<1>10. \A d \in Calls : Left(d)' <=> Left(d)
  BY <1>2, <1>5, <1>6 DEF Left, Through
<1> QED
  BY <1>1, <1>7, <1>8, <1>9, <1>10, SilentKeepsSent DEF IInv

(* The reader says something of no call, or acknowledges one.              *)
LEMMA ReaderSpeaks ==
    ASSUME IInv, UNCHANGED <<plan, permits, worker, process, wire>>, NextFrame \/ next' = next,
           reader' \in {"read", "ack", "join", "done"}, NEW events, IsList(events), Send(events),
           \A i \in 1..Len(events) : events[i].kind # "answer" /\ (events[i].kind # "ack" => events[i].id \notin Calls)
    PROVE  IInv'
<1>1. PipeInv'
  BY ReadingOnKeepsPipes DEF IInv
<1>2. PermitInv'
  BY PermitsAreKept DEF IInv
<1>3. \A d \in Calls : Left(d)' <=> Left(d)
  BY DEF Left
<1>4. Lists' /\ SentInv'
  BY <1>3, EventsKeepSent DEF IInv
<1> QED
  BY <1>1, <1>2, <1>4 DEF IInv

(* A message is read: the reader answers it itself.                        *)
LEMMA ReadMessageKeepsInv ==
    ASSUME IInv, NEW c \in Frames, ReadMessage(c)
    PROVE  IInv'
<1>1. NextFrame /\ UNCHANGED <<plan, reader, permits, worker, process, wire>>
  BY DEF ReadMessage
<1>2. reader' \in {"read", "ack", "join", "done"}
  BY <1>1 DEF IInv, PipeInv, Types
<1> DEFINE kinds == {"skill", "agents_md", "context_ready", "ack", "config_error"}
<1> DEFINE said == {Event("skill", c), Event("agents_md", c), Event("context_ready", c), Event("ack", c), Event("config_error", c)}
<1>3. \A e \in said : e.kind \in kinds /\ e.id = c
  BY DEF Event
<1>4. c \notin Calls
  <2>1. plan.frames[c].kind = "session" \/ plan.frames[c].kind = "configure"
    BY DEF ReadMessage
  <2> QED
    BY <2>1 DEF Calls, CallKinds, FileKinds, ProgramKinds
<1>5. \E events \in Seq(said) : Send(events)
  <2>1. <<Event("skill", c), Event("agents_md", c), Event("context_ready", c), Event("ack", c)>> \in Seq(said)
    OBVIOUS
  <2>2. <<>> \in Seq(said) /\ <<Event("config_error", c)>> \in Seq(said)
    OBVIOUS
  <2> HIDE DEF said
  <2> QED
    BY <2>1, <2>2 DEF ReadMessage
<1> HIDE DEF said
<1>6. PICK events \in Seq(said) : Send(events)
  BY <1>5
<1>7. \A i \in 1..Len(events) : events[i] \in said
  BY <1>6
<1>8. \A i \in 1..Len(events) : events[i].kind # "answer" /\ (events[i].kind # "ack" => events[i].id \notin Calls)
  BY <1>3, <1>4, <1>7
<1>9. IsList(events)
  BY <1>6 DEF IsList
<1> QED
  BY <1>1, <1>2, <1>6, <1>8, <1>9, ReaderSpeaks

(* The reader's steps.                                                     *)
LEMMA ReaderKeepsInv ==
    ASSUME IInv, Reader
    PROVE  IInv'
<1>1. CASE AckEvent
  <2> DEFINE events == <<Event("ack", next)>>
  <2>1. events \in Seq({Event("ack", next)}) /\ Len(events) = 1 /\ events[1] = Event("ack", next)
    OBVIOUS
  <2>2. IsList(events)
    BY <2>1 DEF IsList
  <2>3. \A i \in 1..Len(events) : events[i].kind # "answer" /\ (events[i].kind # "ack" => events[i].id \notin Calls)
    BY <2>1 DEF Event
  <2>4. Send(events) /\ reader' = "read" /\ UNCHANGED <<plan, next, permits, worker, process, wire>>
    BY <1>1 DEF AckEvent
  <2> HIDE DEF events
  <2> QED
    BY <2>2, <2>3, <2>4, ReaderSpeaks
<1>2. CASE ReadEnd \/ Join
  <2>1. reader' \in {"join", "done"} /\ UNCHANGED <<plan, next, permits, worker, process, out, wire>>
    BY <1>2 DEF ReadEnd, Join
  <2>2. PipeInv' /\ PermitInv'
    BY <2>1, ReadingOnKeepsPipes, PermitsAreKept DEF IInv
  <2>3. Lists' /\ Sent' = Sent /\ \A d \in Calls : Left(d)' <=> Left(d)
    BY <2>1 DEF IInv, Lists, Sent, Left
  <2> QED
    BY <2>1, <2>2, <2>3, SilentKeepsSent DEF IInv
<1> QED
  BY <1>1, <1>2, ReadCallKeepsInv, ReadMessageKeepsInv DEF Reader

(* The writer's step, and none at all.                                     *)
LEMMA WriteKeepsInv ==
    ASSUME IInv, Write \/ UNCHANGED vars
    PROVE  IInv'
<1>1. UNCHANGED <<plan, next, reader, permits, worker, process>>
  BY DEF Write, vars
<1>2. Lists' /\ Sent' = Sent
  <2>1. CASE Write
    BY <2>1, SentIsKept DEF Write, IInv
  <2>2. CASE UNCHANGED vars
    BY <2>2 DEF vars, IInv, Lists, Sent
  <2> QED
    BY <2>1, <2>2
<1>3. reader' \in {"read", "ack", "join", "done"} /\ \A d \in Calls : Left(d)' <=> Left(d)
  BY <1>1 DEF Left, IInv, PipeInv, Types
<1>4. PipeInv' /\ PermitInv'
  BY <1>1, <1>3, ReadingOnKeepsPipes, PermitsAreKept DEF IInv
<1> QED
  BY <1>1, <1>2, <1>3, <1>4, SilentKeepsSent DEF IInv

(* Every step keeps the invariant.                                         *)
LEMMA NextKeepsInv == IInv /\ [Next]_vars => IInv'
<1> SUFFICES ASSUME IInv, [Next]_vars PROVE IInv'
  OBVIOUS
<1>1. ASSUME NEW c \in Calls, FileWorker(c) \/ Worker(c) \/ \E s \in Streams : Drain(c, s) PROVE IInv'
  BY <1>1, FileWorkerKeepsInv, WorkerKeepsInv, DrainKeepsInv
<1>2. ASSUME NEW c \in {d \in Calls : plan.frames[d].kind \in ProgramKinds}, System(c) PROVE IInv'
  BY <1>2, SystemKeepsInv
<1> QED
  BY <1>1, <1>2, ReaderKeepsInv, WriteKeepsInv DEF Next

(* The invariant says what is promised.                                    *)
LEMMA InvIsEnough == IInv => AnsweredOnce
<1> SUFFICES ASSUME IInv PROVE AnsweredOnce
  OBVIOUS
<1>1. TypeOK
  <2>1. \A c \in Frames : process[c].live \in SUBSET {"sh", "child"}
    BY DEF IInv, PipeInv, Types, Process
  <2> QED
    BY <2>1 DEF TypeOK, IInv, PipeInv, Types, PermitInv
<1>2. permits + Cardinality({c \in Calls : worker[c] \notin {"none", "done"}}) = Permits
  BY DEF IInv, PermitInv, Busy
<1>3. \A c \in Calls : worker[c] \in {"leave", "done"} <=> IsAnswered(c)
  BY DEF IInv, SentInv, AnsweredIsLeft, Left, Through, IsAnswered
<1> QED
  BY <1>1, <1>2, <1>3 DEF AnsweredOnce, IInv, SentInv, NothingAfter

(* Every call whose worker is through is answered, once and after          *)
(* everything else that is said of it; a worker has a permit until it has  *)
(* left, so that no more of them run than there are permits.               *)
THEOREM EveryCallIsAnsweredOnce == Spec => []AnsweredOnce
<1>1. Init => IInv
  BY InitIInv
<1>2. IInv /\ [Next]_vars => IInv'
  BY NextKeepsInv
<1>3. IInv => AnsweredOnce
  BY InvIsEnough
<1> QED
  BY <1>1, <1>2, <1>3, PTL DEF Spec
=============================================================================
