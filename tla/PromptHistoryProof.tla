------------------------- MODULE PromptHistoryProof -------------------------
(***************************************************************************)
(* Histories are exact, for any queries, extensions, interceptors and       *)
(* bounds: a message of the user is in one place, prompts enter a history   *)
(* in the order they were submitted, and what was given up stays silent.    *)
(***************************************************************************)
EXTENDS PromptDispatchProof

-----------------------------------------------------------------------------
(* What is counted. *)

(* Where a sequence has an element of A, and how often. *)
Hits(s, A) == {i \in DOMAIN s : s[i] \in A}
Count(s, A) == Cardinality(Hits(s, A))

(* A sequence counts a number of times, and none if it holds nothing of A. *)
LEMMA CountIsNat ==
    ASSUME NEW S, NEW A, NEW s \in Seq(S)
    PROVE  IsFiniteSet(Hits(s, A)) /\ Count(s, A) \in Nat /\ (Count(s, A) = 0 <=> \A x \in Range(s) : x \notin A)
<1>1. DOMAIN s = 1..Len(s) /\ Len(s) \in Nat
  OBVIOUS
<1>2. IsFiniteSet(1..Len(s)) /\ Hits(s, A) \in SUBSET (1..Len(s))
  BY <1>1, FS_Interval DEF Hits
<1>3. IsFiniteSet(Hits(s, A))
  BY <1>2, FS_Subset
<1>4. Count(s, A) \in Nat /\ (Count(s, A) = 0 <=> Hits(s, A) = {})
  BY <1>3, FS_CardinalityType, FS_EmptySet DEF Count
<1>5. Hits(s, A) = {} <=> \A x \in Range(s) : x \notin A
  BY DEF Hits, Range
<1> QED
  BY <1>3, <1>4, <1>5

(* Two sequences one after the other count what both count. *)
LEMMA CountJoins ==
    ASSUME NEW S, NEW A, NEW s \in Seq(S), NEW t \in Seq(S)
    PROVE  Count(s \o t, A) = Count(s, A) + Count(t, A)
<1> DEFINE L == Len(s)
           I == Hits(s, A)
           J == Hits(t, A)
           K == {L + i : i \in J}
<1>1. /\ L \in Nat /\ Len(t) \in Nat /\ DOMAIN s = 1..L /\ DOMAIN t = 1..Len(t) /\ DOMAIN (s \o t) = 1..(L + Len(t))
      /\ \A i \in 1..(L + Len(t)) : (s \o t)[i] = IF i <= L THEN s[i] ELSE t[i - L]
  OBVIOUS
<1>2. IsFiniteSet(I) /\ IsFiniteSet(J) /\ J \subseteq 1..Len(t) /\ I \subseteq 1..L
  <2>1. IsFiniteSet(I)
    BY CountIsNat
  <2>2. IsFiniteSet(J)
    BY CountIsNat
  <2> QED
    BY <1>1, <2>1, <2>2 DEF Hits
<1>3. Hits(s \o t, A) = I \cup K
  <2>1. ASSUME NEW i \in Hits(s \o t, A) PROVE i \in I \cup K
    <3>1. i \in 1..(L + Len(t)) /\ (s \o t)[i] \in A
      BY <1>1 DEF Hits
    <3>2. CASE i <= L
      BY <1>1, <3>1, <3>2 DEF Hits
    <3>3. CASE ~(i <= L)
      <4>1. i - L \in 1..Len(t) /\ t[i - L] \in A /\ i = L + (i - L)
        BY <1>1, <3>1, <3>3
      <4>2. i - L \in J
        BY <1>1, <4>1 DEF Hits
      <4> QED
        BY <4>1, <4>2
    <3> QED
      BY <3>2, <3>3
  <2>2. ASSUME NEW i \in I PROVE i \in Hits(s \o t, A)
    BY <1>1 DEF Hits
  <2>3. ASSUME NEW j \in J PROVE L + j \in Hits(s \o t, A)
    <3>1. j \in 1..Len(t) /\ t[j] \in A
      BY <1>1 DEF Hits
    <3>2. L + j \in 1..(L + Len(t)) /\ ~(L + j <= L) /\ (L + j) - L = j
      BY <1>1, <3>1
    <3>3. (s \o t)[L + j] = t[j]
      BY <1>1, <3>2
    <3> QED
      BY <1>1, <3>1, <3>2, <3>3 DEF Hits
  <2> QED
    BY <2>1, <2>2, <2>3
<1> HIDE DEF L, I, J
<1>4. I \cap K = {}
  BY <1>1, <1>2
<1>5. IsFiniteSet(K) /\ Cardinality(K) = Cardinality(J)
  <2> DEFINE f == [j \in J |-> L + j]
  <2>1. f \in Bijection(J, K)
    <3>1. f \in [J -> K]
      OBVIOUS
    <3>2. \A i, j \in J : f[i] = f[j] => i = j
      BY <1>1, <1>2
    <3>3. \A k \in K : \E j \in J : f[j] = k
      OBVIOUS
    <3> HIDE DEF f, K
    <3> QED
      BY <3>1, <3>2, <3>3 DEF Bijection, Injection, Surjection, IsInjective
  <2>2. ExistsBijection(J, K)
    BY <2>1 DEF ExistsBijection
  <2> QED
    BY <1>2, <2>2, FS_Bijection
<1> HIDE DEF K
<1>6. Cardinality(I \cup K) = Cardinality(I) + Cardinality(K) - Cardinality(I \cap K)
  BY <1>2, <1>5, FS_Union
<1>7. Cardinality(I) \in Nat /\ Cardinality(K) \in Nat /\ Cardinality({}) = 0
  BY <1>2, <1>5, FS_CardinalityType, FS_EmptySet
<1>8. Cardinality(I \cup K) = Cardinality(I) + Cardinality(J)
  <2>1. Cardinality(I \cap K) = 0
    BY <1>4, <1>7, Zenon
  <2>2. PICK a, b, c, d : /\ a = Cardinality(I) /\ b = Cardinality(K) /\ c = Cardinality(I \cap K)
                          /\ d = Cardinality(I \cup K)
    OBVIOUS
  <2>3. a \in Nat /\ b \in Nat /\ c = 0 /\ d = a + b - c /\ b = Cardinality(J)
    BY <1>5, <1>6, <1>7, <2>1, <2>2, Zenon
  <2>4. d = a + b
    BY <2>3
  <2> QED
    BY <2>2, <2>3, <2>4, Zenon
<1> QED
  BY <1>3, <1>8 DEF Count, I, J

(* What short sequences count. *)
LEMMA CountOfOne ==
    ASSUME NEW A
    PROVE  /\ Count(<<>>, A) = 0
           /\ \A x : Count(<<x>>, A) = IF x \in A THEN 1 ELSE 0
<1>1. Hits(<<>>, A) = {}
  BY DEF Hits
<1>2. \A x : Hits(<<x>>, A) = IF x \in A THEN {1} ELSE {}
  BY DEF Hits
<1>3. Cardinality({1}) = 1 /\ Cardinality({}) = 0
  BY FS_Singleton, FS_EmptySet
<1> QED
  BY <1>1, <1>2, <1>3 DEF Count

(* What an appended element counts. *)
LEMMA CountAppends ==
    ASSUME NEW S, NEW A, NEW s \in Seq(S), NEW x \in S
    PROVE  Count(Append(s, x), A) = Count(s, A) + IF x \in A THEN 1 ELSE 0
<1>1. Append(s, x) = s \o <<x>> /\ <<x>> \in Seq(S)
  OBVIOUS
<1>2. Count(s \o <<x>>, A) = Count(s, A) + Count(<<x>>, A)
  BY <1>1, CountJoins
<1> QED
  BY <1>1, <1>2, CountOfOne

(* What is counted when the head is taken. *)
LEMMA CountTakes ==
    ASSUME NEW S, NEW A, NEW s \in Seq(S), s # <<>>
    PROVE  Count(s, A) = (IF Head(s) \in A THEN 1 ELSE 0) + Count(Tail(s), A)
<1>1. s = <<Head(s)>> \o Tail(s) /\ <<Head(s)>> \in Seq(S) /\ Tail(s) \in Seq(S)
  OBVIOUS
<1>2. Count(<<Head(s)>> \o Tail(s), A) = Count(<<Head(s)>>, A) + Count(Tail(s), A)
  BY <1>1, CountJoins
<1> QED
  BY <1>1, <1>2, CountOfOne

(* The nodes of the trees that hold message m. *)
MessageEntry(m) == [what |-> "message", of |-> m]
Places(t, m) ==
    UNION {{s} \X {i \in DOMAIN t[s] : t[s][i].entry = MessageEntry(m)} : s \in 1..MaxSessions}

(* A place is a node of a session that holds the message. *)
LEMMA PlacesAre ==
    ASSUME NEW u, NEW m, NEW p
    PROVE  p \in Places(u, m) <=> \E z \in 1..MaxSessions : \E i \in DOMAIN u[z] :
                                        p = <<z, i>> /\ u[z][i].entry = MessageEntry(m)
<1>1. ASSUME p \in Places(u, m)
      PROVE  \E z \in 1..MaxSessions : \E i \in DOMAIN u[z] : p = <<z, i>> /\ u[z][i].entry = MessageEntry(m)
  <2>1. PICK z \in 1..MaxSessions : p \in {z} \X {i \in DOMAIN u[z] : u[z][i].entry = MessageEntry(m)}
    BY <1>1 DEF Places
  <2>2. PICK i \in DOMAIN u[z] : p = <<z, i>> /\ u[z][i].entry = MessageEntry(m)
    BY <2>1
  <2> QED
    BY <2>2
<1>2. ASSUME NEW z \in 1..MaxSessions, NEW i \in DOMAIN u[z], p = <<z, i>>, u[z][i].entry = MessageEntry(m)
      PROVE  p \in Places(u, m)
  <2>1. p \in {z} \X {k \in DOMAIN u[z] : u[z][k].entry = MessageEntry(m)}
    BY <1>2
  <2> QED
    BY <2>1 DEF Places
<1> QED
  BY <1>1, <1>2

(* A node that holds the message is a place of it. *)
LEMMA APlaceIs ==
    ASSUME NEW u, NEW m, NEW z \in 1..MaxSessions, NEW i \in DOMAIN u[z], u[z][i].entry = MessageEntry(m)
    PROVE  <<z, i>> \in Places(u, m)
<1>1. i \in {j \in DOMAIN u[z] : u[z][j].entry = MessageEntry(m)}
  OBVIOUS
<1>2. <<z, i>> \in {z} \X {j \in DOMAIN u[z] : u[z][j].entry = MessageEntry(m)}
  BY <1>1
<1> QED
  BY <1>2 DEF Places

(* Node x is appended to session s. *)
Planted(t, s, x, more) ==
    /\ more[s] = Append(t[s], x)
    /\ \A z \in 1..MaxSessions : z # s => more[z] = t[z]

(* Where message m is when a node is appended. *)
LEMMA PlacesGrow ==
    ASSUME NEW T, NEW t \in [1..MaxSessions -> Seq(T)], NEW s \in 1..MaxSessions, NEW x \in T, NEW m,
           NEW more \in [1..MaxSessions -> Seq(T)], Planted(t, s, x, more)
    PROVE  /\ Places(more, m) = Places(t, m) \cup (IF x.entry = MessageEntry(m) THEN {<<s, Len(t[s]) + 1>>} ELSE {})
           /\ <<s, Len(t[s]) + 1>> \notin Places(t, m)
<1> DEFINE new == IF x.entry = MessageEntry(m) THEN {<<s, Len(t[s]) + 1>>} ELSE {}
<1>1. t[s] \in Seq(T)
  OBVIOUS
<1>2. PICK L : L = Len(t[s])
  OBVIOUS
<1>3. /\ L \in Nat /\ DOMAIN t[s] = 1..L /\ DOMAIN more[s] = 1..(L + 1) /\ more[s][L + 1] = x
      /\ \A i \in 1..L : more[s][i] = t[s][i]
      /\ \A z \in 1..MaxSessions : z # s => more[z] = t[z]
  <2>1. more[s] = Append(t[s], x) /\ \A z \in 1..MaxSessions : z # s => more[z] = t[z]
    BY DEF Planted
  <2> QED
    BY <1>1, <1>2, <2>1
<1>5. ASSUME NEW p \in Places(more, m) PROVE p \in Places(t, m) \cup new
  <2>1. PICK z \in 1..MaxSessions : \E i \in DOMAIN more[z] : p = <<z, i>> /\ more[z][i].entry = MessageEntry(m)
    BY PlacesAre
  <2>2. PICK i \in DOMAIN more[z] : p = <<z, i>> /\ more[z][i].entry = MessageEntry(m)
    BY <2>1
  <2>3. CASE z # s
    <3>1. more[z] = t[z]
      BY <1>3, <2>3
    <3>2. i \in DOMAIN t[z] /\ t[z][i].entry = MessageEntry(m)
      BY <2>2, <3>1
    <3>3. <<z, i>> \in Places(t, m)
      BY APlaceIs, <3>2
    <3> QED
      BY <2>2, <3>3
  <2>4. CASE z = s /\ i # L + 1
    <3>1. i \in DOMAIN t[z] /\ t[z][i].entry = MessageEntry(m)
      BY <1>3, <2>2, <2>4
    <3>2. <<z, i>> \in Places(t, m)
      BY APlaceIs, <3>1
    <3> QED
      BY <2>2, <3>2
  <2>5. CASE z = s /\ i = L + 1
    BY <1>2, <1>3, <2>2, <2>5
  <2> QED
    BY <2>3, <2>4, <2>5
<1>6. ASSUME NEW p \in Places(t, m) PROVE p \in Places(more, m) /\ p # <<s, L + 1>>
  <2>1. PICK z \in 1..MaxSessions : \E i \in DOMAIN t[z] : p = <<z, i>> /\ t[z][i].entry = MessageEntry(m)
    BY PlacesAre
  <2>2. PICK i \in DOMAIN t[z] : p = <<z, i>> /\ t[z][i].entry = MessageEntry(m)
    BY <2>1
  <2>3. i \in DOMAIN more[z] /\ more[z][i].entry = MessageEntry(m) /\ (z = s => i # L + 1)
    <3>1. CASE z = s
      BY <1>3, <2>2, <3>1
    <3>2. CASE z # s
      <4>1. more[z] = t[z]
        BY <1>3, <3>2
      <4> QED
        BY <2>2, <3>2, <4>1
    <3> QED
      BY <3>1, <3>2
  <2>4. p # <<s, L + 1>>
    BY <2>2, <2>3
  <2>5. p \in Places(more, m)
    <3>1. <<z, i>> \in Places(more, m)
      BY APlaceIs, <2>3
    <3> QED
      BY <2>2, <3>1
  <2> QED
    BY <2>4, <2>5
<1>7. ASSUME x.entry = MessageEntry(m) PROVE <<s, L + 1>> \in Places(more, m)
  <2>1. L + 1 \in DOMAIN more[s] /\ more[s][L + 1].entry = MessageEntry(m)
    BY <1>3, <1>7
  <2> QED
    BY APlaceIs, <2>1
<1> QED
  BY <1>2, <1>5, <1>6, <1>7

(* How many they are. *)
LEMMA PlacesCount ==
    ASSUME NEW T, NEW t \in [1..MaxSessions -> Seq(T)], NEW s \in 1..MaxSessions, NEW x \in T, NEW m,
           NEW more \in [1..MaxSessions -> Seq(T)], Planted(t, s, x, more),
           IsFiniteSet(Places(t, m))
    PROVE  /\ IsFiniteSet(Places(more, m))
           /\ Cardinality(Places(more, m)) = Cardinality(Places(t, m)) + IF x.entry = MessageEntry(m) THEN 1 ELSE 0
<1> PICK spot : spot = <<s, Len(t[s]) + 1>>
  OBVIOUS
<1>1. /\ Places(more, m) = Places(t, m) \cup (IF x.entry = MessageEntry(m) THEN {<<s, Len(t[s]) + 1>>} ELSE {})
      /\ <<s, Len(t[s]) + 1>> \notin Places(t, m)
  BY PlacesGrow
<1>2. Cardinality(Places(t, m)) \in Nat
  BY FS_CardinalityType
<1>3. CASE x.entry = MessageEntry(m)
  <2>1. Places(more, m) = Places(t, m) \cup {spot} /\ spot \notin Places(t, m)
    BY <1>1, <1>3
  <2> PICK S, U : S = Places(t, m) /\ U = Places(more, m)
    OBVIOUS
  <2>2. IsFiniteSet(S) /\ U = S \cup {spot} /\ spot \notin S
    BY <2>1
  <2>3. IsFiniteSet(U) /\ Cardinality(U) = Cardinality(S) + 1
    <3>1. IsFiniteSet(S \cup {spot}) /\ Cardinality(S \cup {spot}) = IF spot \in S THEN Cardinality(S) ELSE Cardinality(S) + 1
      BY ONLY <2>2, FS_AddElement
    <3> QED
      BY <2>2, <3>1, Zenon
  <2> QED
    BY <1>3, <2>3
<1>4. CASE x.entry # MessageEntry(m)
  <2>1. Places(more, m) = Places(t, m)
    BY <1>1, <1>4
  <2> QED
    BY <1>2, <1>4, <2>1
<1> QED
  BY <1>3, <1>4

(* The publishes of message m. *)
About(m) == {t \in Task : t.kind \in UserKinds /\ t.of = m}

(* Which tasks are about a message of the user. *)
LEMMA AboutTasks ==
    ASSUME NEW m
    PROVE  /\ \A t \in Task : t \in About(m) <=> t.kind \in UserKinds /\ t.of = m
           /\ \A t \in Task : t.op # "publish" => t.kind \notin UserKinds
           /\ \A op, c, n : Do(op, c, n) \notin About(m)
           /\ \A kind, c, n, s : LET e == Publish(kind, c, n, s)
                                 IN  e \in Task => (e \in About(m) <=> kind \in UserKinds /\ n = m)
<1>1. \A t \in Task : t \in About(m) <=> t.kind \in UserKinds /\ t.of = m
  <2> HIDE DEF Task
  <2> QED
    BY DEF About
<1>2. \A t \in Task : t.op # "publish" => t.kind \notin UserKinds
  BY DEF Task, Event, UserKinds
<1>3. \A op, c, n : Do(op, c, n).kind = "none"
  BY DEF Do
<1>4. \A op, c, n : Do(op, c, n) \notin About(m)
  <2> HIDE DEF Do, Task
  <2> QED
    BY <1>3 DEF About, UserKinds
<1>5. \A kind, c, n, s : Publish(kind, c, n, s).kind = kind /\ Publish(kind, c, n, s).of = n
  BY DEF Publish
<1> HIDE DEF Publish, Task
<1> QED
  BY <1>1, <1>2, <1>4, <1>5

(* What short lists count when the first is the only one that may. *)
LEMMA CountOfLists ==
    ASSUME NEW A
    PROVE  /\ \A a, b : b \notin A => Count(<<a, b>>, A) = IF a \in A THEN 1 ELSE 0
           /\ \A a, b, c, d : b \notin A /\ c \notin A /\ d \notin A
                                => Count(<<a, b, c, d>>, A) = IF a \in A THEN 1 ELSE 0
<1>1. Cardinality({1}) = 1 /\ Cardinality({}) = 0
  BY FS_Singleton, FS_EmptySet
<1>2. \A s : Hits(s, A) = {1} => Count(s, A) = 1
  BY <1>1 DEF Count
<1>3. \A s : Hits(s, A) = {} => Count(s, A) = 0
  BY <1>1 DEF Count
<1>4. ASSUME NEW a, NEW b, b \notin A PROVE Count(<<a, b>>, A) = IF a \in A THEN 1 ELSE 0
  <2> DEFINE s == <<a, b>>
  <2>1. DOMAIN s = {1, 2} /\ s[1] = a /\ s[2] = b
    OBVIOUS
  <2> HIDE DEF s
  <2>2. Hits(s, A) = IF a \in A THEN {1} ELSE {}
    BY <1>4, <2>1 DEF Hits
  <2>3. Count(s, A) = IF a \in A THEN 1 ELSE 0
    BY <1>2, <1>3, <2>2
  <2> QED
    BY <2>3 DEF s
<1>5. ASSUME NEW a, NEW b, NEW c, NEW d, b \notin A, c \notin A, d \notin A
      PROVE  Count(<<a, b, c, d>>, A) = IF a \in A THEN 1 ELSE 0
  <2> DEFINE s == <<a, b, c, d>>
  <2>1. DOMAIN s = {1, 2, 3, 4} /\ s[1] = a /\ s[2] = b /\ s[3] = c /\ s[4] = d
    OBVIOUS
  <2> HIDE DEF s
  <2>2. Hits(s, A) = IF a \in A THEN {1} ELSE {}
    BY <1>5, <2>1 DEF Hits
  <2>3. Count(s, A) = IF a \in A THEN 1 ELSE 0
    BY <1>2, <1>3, <2>2
  <2> QED
    BY <2>3 DEF s
<1> QED
  BY <1>4, <1>5

(* Good tasks are tasks, and so are good events. *)
LEMMA GoodIsTask ==
    ASSUME TypeInv
    PROVE  /\ GoodTask(Len(prompts)) \subseteq Task /\ GoodEvent(Len(prompts)) \subseteq Task
           /\ Seq(GoodTask(Len(prompts))) \subseteq Seq(Task)
           /\ pending_intercept \in Seq(Task) /\ deferred_publishes \in Seq(Task) /\ work \in Seq(Task)
           /\ conv[Default].pending_prompts \in Seq(Nat)
<1> DEFINE P == Len(prompts)
<1>1. GoodTask(P) \subseteq Task
  <2> HIDE DEF Task
  <2> QED
    BY DEF GoodTask
<1>2. GoodEvent(P) \subseteq Task
  BY <1>1, LengthTypes, EventIsTask
<1>3. /\ pending_intercept \in Seq(GoodEvent(P)) /\ deferred_publishes \in Seq(GoodEvent(P))
      /\ work \in Seq(GoodTask(P))
      /\ conv \in [Convs -> GoodConversation(Len(prompts), Len(messages))]
  BY DEF TypeInv
<1>4. conv[Default].pending_prompts \in Seq(1..Len(messages)) /\ 1..Len(messages) \subseteq Nat
  <2>1. Default \in Convs
    BY DEF Convs
  <2> QED
    BY <1>3, <2>1 DEF GoodConversation
<1>5. conv[Default].pending_prompts \in Seq(Nat)
  BY <1>4, SeqGrows
<1> HIDE DEF P
<1>6. /\ pending_intercept \in Seq(Task) /\ deferred_publishes \in Seq(Task) /\ work \in Seq(Task)
      /\ \A s \in Seq(GoodTask(P)) : s \in Seq(Task)
  BY <1>1, <1>2, <1>3, SeqGrows
<1> QED
  BY <1>1, <1>2, <1>5, <1>6 DEF P

(* What a commit does for message m. *)
LEMMA CommitCounts ==
    ASSUME TypeInv, NEW e \in GoodEvent(Len(prompts)), NEW rest \in Seq(Task), Commit(e, rest),
           NEW m \in Nat, IsFiniteSet(Places(tree, m))
    PROVE  /\ IsFiniteSet(Places(tree', m))
           /\ Cardinality(Places(tree', m)) = Cardinality(Places(tree, m)) + IF e \in About(m) THEN 1 ELSE 0
           /\ Count(work', About(m)) = Count(rest, About(m))
<1> DEFINE s == SessionFor(e)
           node == [parent |-> ParentOf(e, s), entry |-> EntryOf(e)]
<1>1. Fold(e)
  BY DEF Commit
<1>2. e \in Task /\ e.kind \in Kinds /\ s \in 0..MaxSessions
  BY GoodIsTask, SessionForTypes DEF GoodEvent, Event
<1>3. e.kind \in UserKinds => s \in 1..MaxSessions /\ s # 0
  <2>1. e.kind \in UserKinds => s = e.session
    BY DEF SessionFor, UserKinds
  <2>2. e.kind \in UserKinds => e.session \in 1..MaxSessions
    BY DEF GoodEvent
  <2>3. 0 \notin 1..MaxSessions
    BY PromptDispatchAssumption
  <2> HIDE DEF s
  <2> QED
    BY <2>1, <2>2, <2>3
<1>4. e \in About(m) <=> e.kind \in UserKinds /\ e.of = m
  BY <1>2, AboutTasks
<1>5. Cardinality(Places(tree, m)) \in Nat
  BY FS_CardinalityType
<1>6. IsFiniteSet(Places(tree', m)) /\ Cardinality(Places(tree', m)) = Cardinality(Places(tree, m)) + IF e \in About(m) THEN 1 ELSE 0
  <2>1. CASE s = 0
    <3>1. tree' = tree /\ e \notin About(m)
      BY <1>1, <1>3, <1>4, <2>1 DEF Fold
    <3> QED
      BY <1>5, <3>1
  <2>2. CASE s # 0
    <3>1. s \in 1..MaxSessions
      BY <1>2, <2>2, PromptDispatchAssumption
    <3>2. tree \in [1..MaxSessions -> Seq(Node)] /\ tree' \in [1..MaxSessions -> Seq(Node)]
      BY <1>1, FoldTypes DEF TypeInv
    <3>3. tree' = [tree EXCEPT ![s] = Append(tree[s], node)]
      BY <1>1, <2>2 DEF Fold
    <3>4. node \in Node
      <4>1. tree'[s] = Append(tree[s], node)
        <5> HIDE DEF s, node, Node
        <5> QED
          BY <3>1, <3>2, <3>3
      <4>2. tree[s] \in Seq(Node) /\ tree'[s] \in Seq(Node)
        BY <3>1, <3>2
      <4> HIDE DEF s, node, Node
      <4>3. Len(tree[s]) \in Nat
        BY <4>2
      <4>4. Len(tree[s]) + 1 \in 1..Len(tree'[s]) /\ tree'[s][Len(tree[s]) + 1] = node
        BY <4>1, <4>2, <4>3
      <4> QED
        BY <4>2, <4>4
    <3>5. node.entry = MessageEntry(m) <=> e \in About(m)
      <4>1. node.entry = EntryOf(e)
        OBVIOUS
      <4>2. e.kind \in UserKinds \cup {"response_finished", "tool_result"}
        BY <1>2, <2>2 DEF SessionFor, Kinds
      <4>3. EntryOf(e) = MessageEntry(m) <=> e.kind \in UserKinds /\ e.of = m
        BY <4>2 DEF EntryOf, MessageEntry, UserKinds
      <4> QED
        BY <1>4, <4>1, <4>3
    <3> HIDE DEF s, node, Node
    <3>6. Planted(tree, s, node, tree')
      BY <3>1, <3>2, <3>3 DEF Planted
    <3>7. /\ IsFiniteSet(Places(tree', m))
          /\ Cardinality(Places(tree', m)) = Cardinality(Places(tree, m)) + IF node.entry = MessageEntry(m) THEN 1 ELSE 0
      BY <3>1, <3>2, <3>4, <3>6, PlacesCount
    <3> QED
      BY <3>5, <3>7
  <2> QED
    BY <2>1, <2>2
<1>7. Count(work', About(m)) = Count(rest, About(m))
  <2>1. work' = rest \/ \E c \in conversations : work' = <<Do("send", c, 0)>> \o rest
    <3>1. rest = <<>> \o rest
      OBVIOUS
    <3> QED
      BY <3>1 DEF Commit
  <2>2. ASSUME NEW c \in conversations, work' = <<Do("send", c, 0)>> \o rest
        PROVE  Count(work', About(m)) = Count(rest, About(m))
    <3> DEFINE a == Do("send", c, 0)
    <3>1. a \in Task /\ a \notin About(m)
      <4>1. c \in Convs
        BY DEF TypeInv
      <4> QED
        BY <4>1, AboutTasks, DoTypes, GoodIsTask, LengthTypes
    <3>2. work' = <<a>> \o rest
      BY <2>2
    <3> HIDE DEF a, Task
    <3>3. <<a>> \in Seq(Task)
      BY <3>1
    <3>4. Count(<<a>>, About(m)) = 0
      BY <3>1, CountOfOne
    <3>5. Count(<<a>> \o rest, About(m)) = Count(<<a>>, About(m)) + Count(rest, About(m))
      BY <3>3, CountJoins
    <3>6. Count(rest, About(m)) \in Nat
      BY CountIsNat
    <3> QED
      BY <3>2, <3>4, <3>5, <3>6
  <2> QED
    BY <2>1, <2>2
<1> QED
  BY <1>6, <1>7

(* And what dispatch_publish_step does, for which nothing waits. *)
LEMMA DispatchStepCounts ==
    ASSUME TypeInv, NEW e \in GoodEvent(Len(prompts)), NEW rest \in Seq(Task), DispatchStep(e, rest),
           pending_intercept = <<>>,
           NEW m \in Nat, IsFiniteSet(Places(tree, m))
    PROVE  /\ IsFiniteSet(Places(tree', m))
           /\ Cardinality(Places(tree', m)) + Count(pending_intercept', About(m)) =
                Cardinality(Places(tree, m)) + Count(pending_intercept, About(m)) + IF e \in About(m) THEN 1 ELSE 0
           /\ Count(work', About(m)) = Count(rest, About(m))
<1>1. e \in Task
  BY GoodIsTask
<1>2. Count(<<>>, About(m)) = 0 /\ Count(<<e>>, About(m)) = IF e \in About(m) THEN 1 ELSE 0
  BY CountOfOne
<1>3. PICK a : a = Cardinality(Places(tree, m))
  OBVIOUS
<1>4. a \in Nat
  BY <1>3, FS_CardinalityType
<1>5. CASE Intercepts(e)
  <2>1. pending_intercept' = <<e>> /\ work' = rest /\ tree' = tree
    BY <1>5 DEF DispatchStep
  <2> QED
    BY <1>2, <1>3, <1>4, <2>1
<1>6. CASE ~Intercepts(e)
  <2>1. pending_intercept' = <<>> /\ Commit(e, rest)
    BY <1>6 DEF DispatchStep
  <2>2. /\ IsFiniteSet(Places(tree', m))
        /\ Cardinality(Places(tree', m)) = Cardinality(Places(tree, m)) + IF e \in About(m) THEN 1 ELSE 0
        /\ Count(work', About(m)) = Count(rest, About(m))
    BY <2>1, CommitCounts
  <2>3. Count(pending_intercept', About(m)) = 0 /\ Count(pending_intercept, About(m)) = 0
    BY <1>2, <2>1
  <2> QED
    BY <1>3, <1>4, <2>2, <2>3
<1> QED
  BY <1>5, <1>6

(* Whether message m was given up, and whether there is such a message. *)
Given(m) == IF m \in discarded THEN 1 ELSE 0
Born(m) == IF m \in 1..Len(messages) THEN 1 ELSE 0

(* A message is in one place; only the user's conversation has a queue. *)
CountInv ==
    \A m \in Nat :
        /\ IsFiniteSet(Places(tree, m))
        /\ Cardinality(Places(tree, m)) + Count(pending_intercept, About(m))
             + Count(deferred_publishes, About(m)) + Count(work, About(m))
             + Count(conv[Default].pending_prompts, {m}) + Given(m) = Born(m)

(* Queries have no queue. *)
QueueInv == \A c \in Convs \ {Default} : conv[c].pending_prompts = <<>>

(* What is counted is a number. *)
LEMMA CountTypes ==
    ASSUME TypeInv, NEW m, IsFiniteSet(Places(tree, m))
    PROVE  /\ Cardinality(Places(tree, m)) \in Nat
           /\ Count(pending_intercept, About(m)) \in Nat
           /\ Count(deferred_publishes, About(m)) \in Nat
           /\ Count(work, About(m)) \in Nat
           /\ Count(conv[Default].pending_prompts, {m}) \in Nat
           /\ Given(m) \in Nat /\ Born(m) \in Nat
<1>1. Cardinality(Places(tree, m)) \in Nat
  BY FS_CardinalityType
<1>2. /\ pending_intercept \in Seq(Task) /\ deferred_publishes \in Seq(Task) /\ work \in Seq(Task)
      /\ conv[Default].pending_prompts \in Seq(Nat)
  BY GoodIsTask
<1>3. Count(pending_intercept, About(m)) \in Nat
  BY <1>2, CountIsNat
<1>4. Count(deferred_publishes, About(m)) \in Nat
  BY <1>2, CountIsNat
<1>5. Count(work, About(m)) \in Nat
  BY <1>2, CountIsNat
<1>6. Count(conv[Default].pending_prompts, {m}) \in Nat
  BY <1>2, CountIsNat
<1> QED
  BY <1>1, <1>3, <1>4, <1>5, <1>6 DEF Given, Born

(* The event that is published for the task at the head of work. *)
LEMMA PublishedEvent ==
    ASSUME TypeInv, EnqueuePublish
    PROVE  /\ work # <<>> /\ Head(work) \in GoodEvent(Len(prompts)) /\ Head(work).op = "publish"
           /\ \E e \in GoodEvent(Len(prompts)) :
                /\ e.kind = Head(work).kind /\ e.of = Head(work).of
                /\ \/ /\ pending_intercept # <<>>
                      /\ deferred_publishes' = Append(deferred_publishes, e)
                      /\ work' = Tail(work)
                      /\ UNCHANGED <<pending_intercept, tree>>
                   \/ /\ pending_intercept = <<>>
                      /\ DispatchStep(e, Tail(work))
                      /\ UNCHANGED deferred_publishes
           /\ UNCHANGED <<conversations, gates, tracking, messages, prompts, gone>>
<1> DEFINE P == Len(prompts)
           head == Head(work)
           e == IF head.conv \in conversations THEN head ELSE [head EXCEPT !.conv = None]
           E == GoodEvent(P)
<1>1. head \in E /\ Tail(work) \in Seq(GoodTask(P)) /\ work # <<>> /\ head.op = "publish"
  BY HeadTypes DEF EnqueuePublish, Doing
<1>2. e \in E /\ e.kind = head.kind /\ e.of = head.of
  <2>1. [head EXCEPT !.conv = None] \in Event
    BY <1>1 DEF GoodEvent, Event
  <2>2. /\ [head EXCEPT !.conv = None].kind = head.kind
        /\ [head EXCEPT !.conv = None].of = head.of
        /\ [head EXCEPT !.conv = None].session = head.session
    <3>1. head \in Event
      BY <1>1 DEF GoodEvent
    <3> QED
      BY <3>1 DEF Event
  <2>3. [head EXCEPT !.conv = None] \in E
    <3> HIDE DEF Event, head
    <3> QED
      BY <1>1, <2>1, <2>2 DEF GoodEvent
  <2> QED
    BY <1>1, <2>2, <2>3
<1>3. /\ UNCHANGED <<conversations, gates, interceptor, tracking, messages, prompts, gone>>
      /\ IF pending_intercept # <<>>
         THEN /\ deferred_publishes' = Append(deferred_publishes, e)
              /\ Then(<<>>)
              /\ UNCHANGED <<pending_intercept, tree, conv, pending_user_prompt_dispatches, outside>>
         ELSE /\ DispatchStep(e, Tail(work))
              /\ UNCHANGED deferred_publishes
  BY DEF EnqueuePublish
<1> HIDE DEF e, head
<1>4. <<>> \o Tail(work) = Tail(work)
  BY <1>1
<1> QED
  BY <1>1, <1>2, <1>3, <1>4 DEF Then, head

(* What a move leaves alone of the messages. *)
LEMMA MovesKeepQueues ==
    ASSUME TypeInv, Moves
    PROVE  /\ conv'[Default].pending_prompts = conv[Default].pending_prompts
           /\ QueueInv => QueueInv'
<1>1. Default \in Convs
  BY DEF Convs
<1> QED
  BY <1>1 DEF Moves, SameTurns, QueueInv

(* Messages are conserved by publish_event_for_conversation. *)
LEMMA PublishCounts == ASSUME TypeInv, CountInv, EnqueuePublish PROVE CountInv'
<1>1. PICK e \in GoodEvent(Len(prompts)) :
            /\ e.kind = Head(work).kind /\ e.of = Head(work).of
            /\ \/ /\ pending_intercept # <<>>
                  /\ deferred_publishes' = Append(deferred_publishes, e)
                  /\ work' = Tail(work)
                  /\ UNCHANGED <<pending_intercept, tree>>
               \/ /\ pending_intercept = <<>>
                  /\ DispatchStep(e, Tail(work))
                  /\ UNCHANGED deferred_publishes
  BY PublishedEvent
<1>2. work # <<>> /\ Head(work) \in Task /\ e \in Task /\ work \in Seq(Task) /\ Tail(work) \in Seq(Task)
      /\ deferred_publishes \in Seq(Task)
  BY PublishedEvent, GoodIsTask, HeadTypes
<1>3. UNCHANGED <<messages, discarded>> /\ conv'[Default].pending_prompts = conv[Default].pending_prompts
  BY PublishedEvent, PublishMoves, MovesKeepQueues DEF gone
<1> SUFFICES ASSUME NEW m \in Nat
             PROVE  /\ IsFiniteSet(Places(tree', m))
                    /\ Cardinality(Places(tree', m)) + Count(pending_intercept', About(m))
                         + Count(deferred_publishes', About(m)) + Count(work', About(m))
                         + Count(conv'[Default].pending_prompts, {m}) + Given(m)' = Born(m)'
  BY DEF CountInv
<1> DEFINE one == IF e \in About(m) THEN 1 ELSE 0
<1>4. /\ IsFiniteSet(Places(tree, m))
      /\ Cardinality(Places(tree, m)) + Count(pending_intercept, About(m))
             + Count(deferred_publishes, About(m)) + Count(work, About(m))
             + Count(conv[Default].pending_prompts, {m}) + Given(m) = Born(m)
  BY DEF CountInv
<1>5. Given(m)' = Given(m) /\ Born(m)' = Born(m)
  BY <1>3 DEF Given, Born
<1>6. Head(work) \in About(m) <=> e \in About(m)
  BY <1>1, <1>2, AboutTasks
<1>7. Count(work, About(m)) = one + Count(Tail(work), About(m)) /\ Count(Tail(work), About(m)) \in Nat
  BY <1>2, <1>6, CountTakes, CountIsNat
<1>8. PICK T, P, D, W, Q, G, B, R : /\ T = Cardinality(Places(tree, m)) /\ P = Count(pending_intercept, About(m))
                  /\ D = Count(deferred_publishes, About(m)) /\ W = Count(work, About(m))
                  /\ Q = Count(conv[Default].pending_prompts, {m}) /\ G = Given(m) /\ B = Born(m)
                  /\ R = Count(Tail(work), About(m))
  OBVIOUS
<1>9. T \in Nat /\ P \in Nat /\ D \in Nat /\ W \in Nat /\ Q \in Nat /\ G \in Nat /\ B \in Nat /\ R \in Nat
      /\ W = one + R /\ one \in Nat /\ T + P + D + W + Q + G = B
  BY <1>4, <1>7, <1>8, CountTypes
<1>10. CASE /\ pending_intercept # <<>>
            /\ deferred_publishes' = Append(deferred_publishes, e)
            /\ work' = Tail(work)
            /\ UNCHANGED <<pending_intercept, tree>>
  <2>1. Count(deferred_publishes', About(m)) = D + one
    BY <1>2, <1>8, <1>10, CountAppends
  <2> HIDE DEF one
  <2>2. T + P + (D + one) + R + Q + G = B
    BY <1>9
  <2> QED
    BY <1>3, <1>4, <1>5, <1>8, <1>10, <2>1, <2>2
<1>11. CASE /\ pending_intercept = <<>>
            /\ DispatchStep(e, Tail(work))
            /\ UNCHANGED deferred_publishes
  <2>1. /\ IsFiniteSet(Places(tree', m))
        /\ Cardinality(Places(tree', m)) + Count(pending_intercept', About(m)) = T + P + one
        /\ Count(work', About(m)) = R
    BY <1>2, <1>4, <1>8, <1>11, DispatchStepCounts
  <2> HIDE DEF one
  <2>2. (T + P + one) + D + R + Q + G = B
    BY <1>9
  <2> QED
    BY <1>3, <1>4, <1>5, <1>8, <1>11, <2>1, <2>2
<1> QED
  BY <1>1, <1>10, <1>11

(* And by drain_deferred_publishes. *)
LEMMA DrainCounts == ASSUME TypeInv, CountInv, DrainDeferred PROVE CountInv'
<1>1. work # <<>> /\ Head(work).op = "drain" /\ Head(work) \in Task /\ work \in Seq(Task) /\ Tail(work) \in Seq(Task)
      /\ deferred_publishes \in Seq(Task) /\ deferred_publishes \in Seq(GoodEvent(Len(prompts)))
  BY GoodIsTask, HeadTypes DEF DrainDeferred, Doing, TypeInv
<1>2. UNCHANGED <<messages, discarded>> /\ conv'[Default].pending_prompts = conv[Default].pending_prompts
  BY DrainMoves, MovesKeepQueues DEF DrainDeferred, gone
<1> SUFFICES ASSUME NEW m \in Nat
             PROVE  /\ IsFiniteSet(Places(tree', m))
                    /\ Cardinality(Places(tree', m)) + Count(pending_intercept', About(m))
                         + Count(deferred_publishes', About(m)) + Count(work', About(m))
                         + Count(conv'[Default].pending_prompts, {m}) + Given(m)' = Born(m)'
  BY DEF CountInv
<1>3. /\ IsFiniteSet(Places(tree, m))
      /\ Cardinality(Places(tree, m)) + Count(pending_intercept, About(m))
             + Count(deferred_publishes, About(m)) + Count(work, About(m))
             + Count(conv[Default].pending_prompts, {m}) + Given(m) = Born(m)
  BY DEF CountInv
<1>4. Given(m)' = Given(m) /\ Born(m)' = Born(m)
  BY <1>2 DEF Given, Born
<1>5. PICK T, P, D, W, Q, G, B : /\ T = Cardinality(Places(tree, m)) /\ P = Count(pending_intercept, About(m))
                  /\ D = Count(deferred_publishes, About(m)) /\ W = Count(work, About(m))
                  /\ Q = Count(conv[Default].pending_prompts, {m}) /\ G = Given(m) /\ B = Born(m)
  OBVIOUS
<1>6. T \in Nat /\ P \in Nat /\ D \in Nat /\ W \in Nat /\ Q \in Nat /\ G \in Nat /\ B \in Nat
      /\ T + P + D + W + Q + G = B
  BY <1>3, <1>5, CountTypes
<1>7. CASE pending_intercept = <<>> /\ deferred_publishes # <<>>
  <2> DEFINE e == Head(deferred_publishes)
             one == IF e \in About(m) THEN 1 ELSE 0
  <2>1. deferred_publishes' = Tail(deferred_publishes) /\ DispatchStep(e, work)
    BY <1>7 DEF DrainDeferred
  <2>2. e \in GoodEvent(Len(prompts)) /\ Tail(deferred_publishes) \in Seq(Task)
    BY <1>1, <1>7, HeadAndTail
  <2>3. D = one + Count(deferred_publishes', About(m)) /\ Count(deferred_publishes', About(m)) \in Nat
    BY <1>1, <1>5, <1>7, <2>1, <2>2, CountTakes, CountIsNat
  <2> HIDE DEF e
  <2>4. /\ IsFiniteSet(Places(tree', m))
        /\ Cardinality(Places(tree', m)) + Count(pending_intercept', About(m)) = T + P + one
        /\ Count(work', About(m)) = W
    BY <1>1, <1>3, <1>5, <1>7, <2>1, <2>2, DispatchStepCounts
  <2> PICK E : E = Count(deferred_publishes', About(m))
    OBVIOUS
  <2>5. E \in Nat /\ one \in Nat /\ D = one + E
    BY <2>3
  <2> HIDE DEF one
  <2>6. (T + P + one) + E + W + Q + G = B
    BY <1>6, <2>5
  <2> QED
    BY <1>2, <1>4, <1>5, <2>4, <2>6
<1>8. CASE ~(pending_intercept = <<>> /\ deferred_publishes # <<>>)
  <2>1. work' = <<>> \o Tail(work) /\ UNCHANGED <<tree, pending_intercept, deferred_publishes>>
    BY <1>8 DEF DrainDeferred, Then
  <2>2. work' = Tail(work)
    BY <1>1, <2>1
  <2>3. Head(work) \notin About(m)
    BY <1>1, AboutTasks
  <2>4. W = 0 + Count(Tail(work), About(m)) /\ Count(Tail(work), About(m)) \in Nat
    BY <1>1, <1>5, <2>3, CountTakes, CountIsNat
  <2> QED
    BY <1>2, <1>3, <1>4, <1>5, <2>1, <2>2, <2>4
<1> QED
  BY <1>7, <1>8

(* And when the publish that was held commits. *)
LEMMA ReleaseCounts ==
    ASSUME TypeInv, CountInv, Moves, Idle, pending_intercept # <<>>, pending_intercept' = <<>>,
           Commit(Head(pending_intercept), <<Do("drain", None, 0)>>),
           UNCHANGED <<deferred_publishes, messages, gone>>
    PROVE  CountInv'
<1> DEFINE e == Head(pending_intercept)
           d == Do("drain", None, 0)
<1>1. pending_intercept \in Seq(GoodEvent(Len(prompts))) /\ Len(pending_intercept) <= 1
  BY DEF TypeInv
<1>2. pending_intercept = <<e>> /\ e \in GoodEvent(Len(prompts))
  <2> HIDE DEF GoodEvent
  <2> QED
    BY <1>1
<1>3. d \in Task /\ <<d>> \in Seq(Task)
  <2>1. d \in Task
    BY LengthTypes, DoTypes, GoodIsTask
  <2> HIDE DEF d, Task
  <2> QED
    BY <2>1
<1>4. conv'[Default].pending_prompts = conv[Default].pending_prompts
  BY MovesKeepQueues
<1> SUFFICES ASSUME NEW m \in Nat
             PROVE  /\ IsFiniteSet(Places(tree', m))
                    /\ Cardinality(Places(tree', m)) + Count(pending_intercept', About(m))
                         + Count(deferred_publishes', About(m)) + Count(work', About(m))
                         + Count(conv'[Default].pending_prompts, {m}) + Given(m)' = Born(m)'
  BY DEF CountInv
<1>5. /\ IsFiniteSet(Places(tree, m))
      /\ Cardinality(Places(tree, m)) + Count(pending_intercept, About(m))
             + Count(deferred_publishes, About(m)) + Count(work, About(m))
             + Count(conv[Default].pending_prompts, {m}) + Given(m) = Born(m)
  BY DEF CountInv
<1>6. Given(m)' = Given(m) /\ Born(m)' = Born(m)
  BY DEF Given, Born, gone
<1> DEFINE one == IF e \in About(m) THEN 1 ELSE 0
<1>7. d \notin About(m)
  BY AboutTasks
<1> HIDE DEF e, d
<1>8. Count(pending_intercept, About(m)) = one /\ Count(pending_intercept', About(m)) = 0
      /\ Count(work, About(m)) = 0 /\ Count(<<d>>, About(m)) = 0
  BY <1>2, <1>7, CountOfOne DEF Idle
<1>9. /\ IsFiniteSet(Places(tree', m))
      /\ Cardinality(Places(tree', m)) = Cardinality(Places(tree, m)) + one
      /\ Count(work', About(m)) = Count(<<d>>, About(m))
  <2>1. Commit(e, <<d>>)
    BY DEF e, d
  <2> QED
    BY <1>2, <1>3, <1>5, <2>1, CommitCounts
<1>10. PICK T, P, D, W, Q, G, B : /\ T = Cardinality(Places(tree, m)) /\ P = Count(pending_intercept, About(m))
                  /\ D = Count(deferred_publishes, About(m)) /\ W = Count(work, About(m))
                  /\ Q = Count(conv[Default].pending_prompts, {m}) /\ G = Given(m) /\ B = Born(m)
  OBVIOUS
<1>11. T \in Nat /\ P \in Nat /\ D \in Nat /\ W \in Nat /\ Q \in Nat /\ G \in Nat /\ B \in Nat
      /\ T + P + D + W + Q + G = B
  BY <1>5, <1>10, CountTypes
<1>12. (T + one) + 0 + D + 0 + Q + G = B
  <2>1. P = one /\ W = 0
    BY <1>8, <1>10
  <2> HIDE DEF one
  <2> QED
    BY <1>11, <2>1
<1> QED
  BY <1>4, <1>6, <1>8, <1>9, <1>10, <1>12

(* The interceptor replies, or goes away. *)
LEMMA InterceptCounts == ASSUME TypeInv, CountInv, InterceptReply \/ InterceptorGone PROVE CountInv'
<1>1. CASE pending_intercept # <<>>
  <2>1. /\ Idle /\ pending_intercept' = <<>> /\ Commit(Head(pending_intercept), <<Do("drain", None, 0)>>)
        /\ UNCHANGED <<deferred_publishes, messages, gone>>
    BY <1>1 DEF InterceptReply, InterceptorGone
  <2>2. Moves
    BY ReplyMoves, InterceptorGoneMoves
  <2> QED
    BY <1>1, <2>1, <2>2, ReleaseCounts
<1>2. CASE pending_intercept = <<>>
  <2>1. UNCHANGED <<tree, pending_intercept, deferred_publishes, work, conv, messages, discarded>>
    BY <1>2 DEF InterceptReply, InterceptorGone, gone
  <2> QED
    BY <2>1 DEF CountInv, Given, Born
<1> QED
  BY <1>1, <1>2

(* Nothing in the sequence is a message of the user. *)
Mute(s) == \A x \in Range(s) : x.kind \notin UserKinds

(* The tasks that look at the queue. *)
Looks == {"advance", "turn"}

(* No message of the user is published after a look at the queue. *)
Tidy(s) == \A i, j \in DOMAIN s : i < j /\ s[i].op \in Looks => s[j].kind \notin UserKinds

(* While publishes are deferred and nothing holds them, nothing else is said. *)
Drains(t) == t.op \in {"send", "drain"} \/ t.kind = "prompt_created"

DrainInv ==
    pending_intercept = <<>> /\ deferred_publishes # <<>> =>
        /\ \E t \in Range(work) : t.op = "drain"
        /\ \A t \in Range(work) : Drains(t)

(* Tidy lists that are put together. *)
LEMMA TidyJoins ==
    ASSUME NEW S, NEW s \in Seq(S), NEW t \in Seq(S), Tidy(s), Tidy(t),
           Mute(t) \/ \A x \in Range(s) : x.op \notin Looks
    PROVE  Tidy(s \o t)
<1> SUFFICES ASSUME NEW i \in DOMAIN (s \o t), NEW j \in DOMAIN (s \o t), i < j, (s \o t)[i].op \in Looks
             PROVE  (s \o t)[j].kind \notin UserKinds
  BY DEF Tidy
<1> PICK L : L = Len(s)
  OBVIOUS
<1>1. /\ L \in Nat /\ Len(t) \in Nat /\ DOMAIN s = 1..L /\ DOMAIN t = 1..Len(t) /\ DOMAIN (s \o t) = 1..(L + Len(t))
      /\ \A k \in 1..(L + Len(t)) : (s \o t)[k] = IF k <= L THEN s[k] ELSE t[k - L]
  OBVIOUS
<1>2. CASE j <= L
  <2>1. i \in DOMAIN s /\ j \in DOMAIN s /\ (s \o t)[i] = s[i] /\ (s \o t)[j] = s[j]
    BY <1>1, <1>2
  <2> QED
    BY <2>1 DEF Tidy
<1>3. CASE ~(j <= L) /\ i <= L
  <2>1. i \in DOMAIN s /\ (s \o t)[i] = s[i] /\ j - L \in DOMAIN t /\ (s \o t)[j] = t[j - L]
    BY <1>1, <1>3
  <2>2. s[i] \in Range(s) /\ t[j - L] \in Range(t)
    BY <2>1 DEF Range
  <2> QED
    BY <2>1, <2>2 DEF Mute
<1>4. CASE ~(j <= L) /\ ~(i <= L)
  <2>1. i - L \in DOMAIN t /\ (s \o t)[i] = t[i - L] /\ j - L \in DOMAIN t /\ (s \o t)[j] = t[j - L]
        /\ i - L < j - L
    BY <1>1, <1>4
  <2> QED
    BY <2>1 DEF Tidy
<1> QED
  BY <1>2, <1>3, <1>4

(* What is left of a tidy list. *)
LEMMA TidyTakes ==
    ASSUME NEW S, NEW s \in Seq(S), s # <<>>, Tidy(s)
    PROVE  Tidy(Tail(s)) /\ (Head(s).op \in Looks => Mute(Tail(s)))
<1> PICK L : L = Len(s)
  OBVIOUS
<1>1. /\ L \in Nat \ {0} /\ DOMAIN s = 1..L /\ Head(s) = s[1] /\ DOMAIN Tail(s) = 1..(L - 1)
      /\ \A i \in 1..(L - 1) : Tail(s)[i] = s[i + 1]
  OBVIOUS
<1>2. Tidy(Tail(s))
  <2> SUFFICES ASSUME NEW i \in 1..(L - 1), NEW j \in 1..(L - 1), i < j, Tail(s)[i].op \in Looks
               PROVE  Tail(s)[j].kind \notin UserKinds
    BY <1>1 DEF Tidy
  <2>1. i + 1 \in DOMAIN s /\ j + 1 \in DOMAIN s /\ i + 1 < j + 1 /\ s[i + 1].op \in Looks
    BY <1>1
  <2>2. s[j + 1].kind \notin UserKinds
    BY <2>1 DEF Tidy
  <2> QED
    BY <1>1, <2>2
<1>3. ASSUME Head(s).op \in Looks, NEW x \in Range(Tail(s)) PROVE x.kind \notin UserKinds
  <2>1. PICK j \in 1..(L - 1) : x = s[j + 1]
    BY <1>1 DEF Range
  <2>2. 1 \in DOMAIN s /\ j + 1 \in DOMAIN s /\ 1 < j + 1 /\ s[1].op \in Looks
    BY <1>1, <1>3
  <2>3. s[j + 1].kind \notin UserKinds
    BY <2>2 DEF Tidy
  <2> QED
    BY <2>1, <2>3
<1> QED
  BY <1>2, <1>3 DEF Mute

(* What says nothing of the user is tidy. *)
LEMMA MuteIsTidy == ASSUME NEW s, Mute(s) PROVE Tidy(s)
BY DEF Mute, Tidy, Range

(* Short lists that are tidy. *)
LEMMA TidyLists ==
    /\ Tidy(<<>>) /\ Mute(<<>>)
    /\ \A a : Tidy(<<a>>) /\ (a.kind \notin UserKinds => Mute(<<a>>))
    /\ \A a, b : a.op \notin Looks \/ b.kind \notin UserKinds => Tidy(<<a, b>>)
    /\ \A a, b : a.kind \notin UserKinds /\ b.kind \notin UserKinds => Mute(<<a, b>>)
    /\ \A a, b, c, d : a.kind \notin UserKinds /\ b.kind \notin UserKinds /\ c.kind \notin UserKinds
                        /\ d.kind \notin UserKinds => Mute(<<a, b, c, d>>)
<1>1. Tidy(<<>>) /\ Mute(<<>>)
  BY DEF Tidy, Mute, Range
<1>2. \A a : Tidy(<<a>>) /\ (a.kind \notin UserKinds => Mute(<<a>>))
  BY DEF Tidy, Mute, Range
<1>3. \A a, b : a.op \notin Looks \/ b.kind \notin UserKinds => Tidy(<<a, b>>)
  <2> TAKE a, b
  <2> DEFINE s == <<a, b>>
  <2>1. DOMAIN s = {1, 2} /\ s[1] = a /\ s[2] = b
    OBVIOUS
  <2> HIDE DEF s
  <2>2. a.op \notin Looks \/ b.kind \notin UserKinds => Tidy(s)
    BY <2>1 DEF Tidy
  <2> QED
    BY <2>2 DEF s
<1>4. \A a, b : a.kind \notin UserKinds /\ b.kind \notin UserKinds => Mute(<<a, b>>)
  <2> TAKE a, b
  <2>1. Range(<<a, b>>) = {a, b}
    BY RangeOfLists
  <2> QED
    BY <2>1 DEF Mute
<1>5. \A a, b, c, d : a.kind \notin UserKinds /\ b.kind \notin UserKinds /\ c.kind \notin UserKinds
                        /\ d.kind \notin UserKinds => Mute(<<a, b, c, d>>)
  <2> TAKE a, b, c, d
  <2>1. Range(<<a, b, c, d>>) = {a, b, c, d}
    BY RangeOfLists
  <2> QED
    BY <2>1 DEF Mute
<1> QED
  BY <1>1, <1>2, <1>3, <1>4, <1>5

(* The prompts of the user. *)
asked == {m \in DOMAIN messages : messages[m].kind = "prompt"}

(* A step that brings no prompt of the user, moves none, and takes none but   *)
(* whole queues; tasks come before the rest of what there is to do.           *)
Steadily(tasks, rest) ==
    /\ work' = tasks \o rest
    /\ \/ rest = work
       \/ work # <<>> /\ rest = Tail(work) /\ Head(work).op \notin {"publish", "drain"}
    /\ \A t \in Range(tasks) : t.kind \in UserKinds => t.of \notin asked
    /\ pending_intercept = <<>> /\ deferred_publishes # <<>> => \A t \in Range(tasks) : Drains(t)
    /\ \A m \in Nat : Count(tasks, About(m)) + Count(conv'[Default].pending_prompts, {m}) + Given(m)' + Born(m)
                        = Count(conv[Default].pending_prompts, {m}) + Given(m) + Born(m)'

Steady ==
    /\ UNCHANGED <<tree, pending_intercept, deferred_publishes>>
    /\ \E tasks, rest \in Seq(Task) : Steadily(tasks, rest)
    /\ messages' = messages \/ \E r \in Message : r.kind # "prompt" /\ messages' = Append(messages, r)
    /\ conv'[Default].pending_prompts \in {conv[Default].pending_prompts, <<>>}
    /\ QueueInv'
    /\ Tidy(work')

(* What the parts of work count. *)
LEMMA WorkCounts ==
    ASSUME TypeInv, NEW tasks \in Seq(Task), NEW rest \in Seq(Task), work' = tasks \o rest,
           \/ rest = work
           \/ work # <<>> /\ rest = Tail(work) /\ Head(work).op # "publish",
           NEW m
    PROVE  /\ Count(work', About(m)) = Count(tasks, About(m)) + Count(work, About(m))
           /\ Count(tasks, About(m)) \in Nat
<1>1. work \in Seq(Task)
  BY GoodIsTask
<1>2. Count(rest, About(m)) \in Nat /\ Count(tasks, About(m)) \in Nat
  BY CountIsNat
<1>3. Count(rest, About(m)) = Count(work, About(m))
  <2>1. CASE rest = work
    BY <2>1
  <2>2. CASE work # <<>> /\ rest = Tail(work) /\ Head(work).op # "publish"
    <3>1. Head(work) \in Task
      BY <1>1, <2>2, HeadAndTail
    <3>2. Head(work) \notin About(m)
      BY <2>2, <3>1, AboutTasks
    <3>3. Count(work, About(m)) = 0 + Count(Tail(work), About(m))
      BY <1>1, <2>2, <3>2, CountTakes
    <3> QED
      BY <1>2, <2>2, <3>3
  <2> QED
    BY <2>1, <2>2
<1>4. Count(work', About(m)) = Count(tasks, About(m)) + Count(rest, About(m))
  BY CountJoins
<1> QED
  BY <1>2, <1>3, <1>4

(* A queue is a sequence of numbers. *)
LEMMA QueueTypes ==
    ASSUME NEW P \in Nat, NEW M \in Nat, NEW f \in [Convs -> GoodConversation(P, M)], NEW c \in Convs
    PROVE  f[c].pending_prompts \in Seq(Nat)
<1>1. f[c].pending_prompts \in Seq(1..M) /\ 1..M \subseteq Nat
  BY DEF GoodConversation
<1> QED
  BY <1>1, SeqGrows

(* Such a step conserves the messages if it does so among what it touches. *)
LEMMA BalanceCounts ==
    ASSUME TypeInv, TypeInv', CountInv, NEW tasks \in Seq(Task), NEW rest \in Seq(Task), work' = tasks \o rest,
           \/ rest = work
           \/ work # <<>> /\ rest = Tail(work) /\ Head(work).op # "publish",
           UNCHANGED <<tree, pending_intercept, deferred_publishes>>,
           \A m \in Nat : Count(tasks, About(m)) + Count(conv'[Default].pending_prompts, {m}) + Given(m)' + Born(m)
                        = Count(conv[Default].pending_prompts, {m}) + Given(m) + Born(m)'
    PROVE  CountInv'
<1> SUFFICES ASSUME NEW m \in Nat
             PROVE  /\ IsFiniteSet(Places(tree', m))
                    /\ Cardinality(Places(tree', m)) + Count(pending_intercept', About(m))
                         + Count(deferred_publishes', About(m)) + Count(work', About(m))
                         + Count(conv'[Default].pending_prompts, {m}) + Given(m)' = Born(m)'
  BY DEF CountInv
<1>1. /\ IsFiniteSet(Places(tree, m))
      /\ Cardinality(Places(tree, m)) + Count(pending_intercept, About(m))
             + Count(deferred_publishes, About(m)) + Count(work, About(m))
             + Count(conv[Default].pending_prompts, {m}) + Given(m) = Born(m)
  BY DEF CountInv
<1>2. Count(work', About(m)) = Count(tasks, About(m)) + Count(work, About(m)) /\ Count(tasks, About(m)) \in Nat
  BY WorkCounts
<1>3. Count(conv'[Default].pending_prompts, {m}) \in Nat
  <2>1. Len(prompts') \in Nat /\ Len(messages') \in Nat /\ conv' \in [Convs -> GoodConversation(Len(prompts'), Len(messages'))]
    BY DEF TypeInv
  <2>2. Default \in Convs
    BY DEF Convs
  <2>3. conv'[Default].pending_prompts \in Seq(Nat)
    BY <2>1, <2>2, QueueTypes
  <2> QED
    BY <2>3, CountIsNat
<1>4. Given(m)' \in Nat /\ Born(m)' \in Nat
  BY DEF Given, Born
<1> PICK T, P, D, W, Q, G, B, N, R, H, C :
                  /\ T = Cardinality(Places(tree, m)) /\ P = Count(pending_intercept, About(m))
                  /\ D = Count(deferred_publishes, About(m)) /\ W = Count(work, About(m))
                  /\ Q = Count(conv[Default].pending_prompts, {m}) /\ G = Given(m) /\ B = Born(m)
                  /\ N = Count(tasks, About(m)) /\ R = Count(conv'[Default].pending_prompts, {m})
                  /\ H = Given(m)' /\ C = Born(m)'
  OBVIOUS
<1>5. T \in Nat /\ P \in Nat /\ D \in Nat /\ W \in Nat /\ Q \in Nat /\ G \in Nat /\ B \in Nat
      /\ T + P + D + W + Q + G = B
  BY <1>1, CountTypes
<1>6. N \in Nat /\ R \in Nat /\ H \in Nat /\ C \in Nat /\ N + R + H + B = Q + G + C
  BY <1>2, <1>3, <1>4
<1>7. T + P + D + (N + W) + R + H = C
  BY ONLY <1>5, <1>6
<1> QED
  BY <1>1, <1>2, <1>7

(* Messages are conserved by a steady step. *)
LEMMA SteadyCounts == ASSUME TypeInv, TypeInv', CountInv, Steady PROVE CountInv'
<1>1. PICK tasks, rest \in Seq(Task) : Steadily(tasks, rest)
  BY DEF Steady
<1>2. /\ work' = tasks \o rest
      /\ \/ rest = work
         \/ work # <<>> /\ rest = Tail(work) /\ Head(work).op # "publish"
      /\ \A m \in Nat : Count(tasks, About(m)) + Count(conv'[Default].pending_prompts, {m}) + Given(m)' + Born(m)
                        = Count(conv[Default].pending_prompts, {m}) + Given(m) + Born(m)'
  BY <1>1 DEF Steadily
<1>3. UNCHANGED <<tree, pending_intercept, deferred_publishes>>
  BY DEF Steady
<1> QED
  BY <1>2, <1>3, BalanceCounts

(* What is deferred is drained after a steady step. *)
LEMMA SteadyDrains == ASSUME TypeInv, DrainInv, Steady PROVE DrainInv'
<1>1. PICK tasks, rest \in Seq(Task) : Steadily(tasks, rest)
  BY DEF Steady
<1>2. UNCHANGED <<pending_intercept, deferred_publishes>>
  BY DEF Steady
<1> SUFFICES ASSUME pending_intercept = <<>> /\ deferred_publishes # <<>>
             PROVE  (\E t \in Range(work') : t.op = "drain") /\ \A t \in Range(work') : Drains(t)
  BY <1>2 DEF DrainInv
<1>3. /\ \E t \in Range(work) : t.op = "drain"
      /\ \A t \in Range(work) : Drains(t)
      /\ \A t \in Range(tasks) : Drains(t)
  BY <1>1 DEF DrainInv, Steadily
<1>4. Range(work') = Range(tasks) \cup Range(rest)
  <2>1. work' = tasks \o rest
    BY <1>1 DEF Steadily
  <2> HIDE DEF Task
  <2>2. \A s, t \in Seq(Task) : Range(s \o t) = Range(s) \cup Range(t)
    BY RangeOfParts
  <2> QED
    BY <1>1, <2>1, <2>2
<1>5. CASE rest = work
  BY <1>3, <1>4, <1>5
<1>6. CASE work # <<>> /\ rest = Tail(work) /\ Head(work).op \notin {"publish", "drain"}
  <2>1. Range(work) = {Head(work)} \cup Range(rest)
    BY <1>6, RangeOfWork
  <2> QED
    BY <1>3, <1>4, <1>6, <2>1
<1> QED
  BY <1>1, <1>5, <1>6 DEF Steadily

(* Tasks that are mute count nothing. *)
LEMMA MuteCounts ==
    ASSUME NEW s \in Seq(Task), Mute(s), NEW m
    PROVE  Count(s, About(m)) = 0
<1>1. \A x \in Range(s) : x \notin About(m)
  <2> HIDE DEF Task
  <2> QED
    BY DEF Mute, About
<1> QED
  BY <1>1, CountIsNat

(* Nothing is deferred but for an interceptor, except while it drains. *)
LEMMA NotDraining ==
    ASSUME TypeInv, DrainInv, Idle \/ (work # <<>> /\ Head(work).op \notin {"publish", "send", "drain"})
    PROVE  ~(pending_intercept = <<>> /\ deferred_publishes # <<>>)
<1> SUFFICES ASSUME pending_intercept = <<>> /\ deferred_publishes # <<>> PROVE FALSE
  OBVIOUS
<1>1. (\E t \in Range(work) : t.op = "drain") /\ \A t \in Range(work) : Drains(t)
  BY DEF DrainInv
<1>2. CASE Idle
  BY <1>1, <1>2, IdleWork
<1>3. CASE work # <<>> /\ Head(work).op \notin {"publish", "send", "drain"}
  <2>1. Head(work) \in Range(work) /\ Head(work) \in Task
    BY <1>3, RangeOfWork, GoodIsTask, HeadTypes
  <2>2. Head(work).kind # "prompt_created"
    <3>1. \A t \in Task : t.op # "publish" => t.kind = "none"
      BY DEF Task, Event
    <3> HIDE DEF Task
    <3> QED
      BY <1>3, <2>1, <3>1
  <2> QED
    BY <1>1, <1>3, <2>1, <2>2 DEF Drains
<1> QED
  BY <1>2, <1>3

(* A handler that says nothing of the user's goes on. *)
LEMMA HandlerSteady ==
    ASSUME TypeInv, QueueInv, Tidy(work), DrainInv, work # <<>>, Head(work).op \notin {"publish", "drain"},
           NEW tasks \in Seq(Task), Mute(tasks), Then(tasks),
           Head(work).op = "send" => \A t \in Range(tasks) : Drains(t),
           (\A t \in Range(tasks) : t.op \notin Looks) \/ Tail(work) = <<>>,
           UNCHANGED <<tree, pending_intercept, deferred_publishes, messages, discarded>>,
           \A c \in Convs : conv'[c].pending_prompts = conv[c].pending_prompts \/ (c \in Queries /\ conv'[c].pending_prompts = <<>>)
    PROVE  Steady
<1>1. work \in Seq(Task) /\ Tail(work) \in Seq(Task) /\ work' = tasks \o Tail(work)
  BY GoodIsTask, HeadTypes DEF Then
<1>2. \A t \in Range(tasks) : t.kind \notin UserKinds
  BY DEF Mute
<1>3. conv'[Default].pending_prompts = conv[Default].pending_prompts /\ QueueInv'
  BY PromptDispatchAssumption DEF Convs, QueueInv
<1>4. pending_intercept = <<>> /\ deferred_publishes # <<>> => \A t \in Range(tasks) : Drains(t)
  BY NotDraining
<1>5. ASSUME NEW m \in Nat
      PROVE  Count(tasks, About(m)) + Count(conv'[Default].pending_prompts, {m}) + Given(m)' + Born(m)
                        = Count(conv[Default].pending_prompts, {m}) + Given(m) + Born(m)'
  <2>1. Count(tasks, About(m)) = 0
    BY MuteCounts
  <2>2. Given(m)' = Given(m) /\ Born(m)' = Born(m) /\ Given(m) \in Nat /\ Born(m) \in Nat
    BY DEF Given, Born
  <2>3. Count(conv[Default].pending_prompts, {m}) \in Nat
    <3>1. conv[Default].pending_prompts \in Seq(Nat)
      BY GoodIsTask
    <3> QED
      BY <3>1, CountIsNat
  <2> QED
    BY <1>3, <2>1, <2>2, <2>3
<1>6. Tidy(work')
  <2>1. Tidy(tasks)
    BY MuteIsTidy
  <2>2. Tidy(Tail(work))
    BY <1>1, TidyTakes
  <2>3. Tail(work) = <<>> => Mute(Tail(work))
    BY TidyLists
  <2>4. Tidy(tasks \o Tail(work))
    BY <1>1, <2>1, <2>2, <2>3, TidyJoins
  <2> QED
    BY <1>1, <2>4
<1>7. Steadily(tasks, Tail(work))
  BY <1>1, <1>2, <1>4, <1>5 DEF Steadily
<1> QED
  BY <1>1, <1>3, <1>6, <1>7 DEF Steady

(* Whatever is in work, some of it before the rest, is of one message, the new one. *)
Bears ==
    \E r \in Message : /\ r.kind # "prompt"
                       /\ messages' = Append(messages, r)
                       /\ \A m \in Nat : Count(work', About(m)) = IF m = Len(messages) + 1 THEN 1 ELSE 0

(* What is queued may be given up. *)
Balanced ==
    \A m \in Nat : Count(conv'[Default].pending_prompts, {m}) + Given(m)'
                        = Count(conv[Default].pending_prompts, {m}) + Given(m)

(* A new message is one more. *)
LEMMA BornGrows ==
    ASSUME TypeInv, NEW r \in Message, messages' = Append(messages, r), NEW m \in Nat
    PROVE  /\ Born(m)' = Born(m) + IF m = Len(messages) + 1 THEN 1 ELSE 0
           /\ Born(m) \in Nat
<1>1. Len(messages) \in Nat /\ Len(messages') = Len(messages) + 1
  <2>1. messages \in Seq(Message)
    BY DEF TypeInv
  <2> HIDE DEF Message
  <2> QED
    BY <2>1
<1> PICK L : L = Len(messages)
  OBVIOUS
<1>2. L \in Nat /\ (m \in 1..(L + 1) <=> m \in 1..L \/ m = L + 1) /\ L + 1 \notin 1..L
  BY <1>1
<1> QED
  BY <1>1, <1>2 DEF Born

(* A frame that says nothing of the user's, or something new of his, is handled. *)
LEMMA FrameSteady ==
    ASSUME TypeInv, QueueInv, DrainInv, Idle, work' \in Seq(Task), Tidy(work'),
           \/ Mute(work') /\ messages' = messages
           \/ Bears,
           UNCHANGED <<tree, pending_intercept, deferred_publishes>>,
           Balanced,
           \A c \in Convs : conv'[c].pending_prompts \in {conv[c].pending_prompts, <<>>}
    PROVE  Steady
<1> DEFINE tasks == work'
<1>1. work = <<>> /\ tasks \in Seq(Task) /\ <<>> \in Seq(Task) /\ tasks \o <<>> = tasks
  BY DEF Idle
<1>2. conv'[Default].pending_prompts \in {conv[Default].pending_prompts, <<>>} /\ QueueInv'
  BY DEF Convs, QueueInv
<1>3. ~(pending_intercept = <<>> /\ deferred_publishes # <<>>)
  BY NotDraining
<1>4. ASSUME NEW m \in Nat
      PROVE  Count(conv'[Default].pending_prompts, {m}) + Given(m)'
                        = Count(conv[Default].pending_prompts, {m}) + Given(m)
             /\ Count(conv[Default].pending_prompts, {m}) \in Nat
             /\ Count(conv'[Default].pending_prompts, {m}) \in Nat
             /\ Given(m) \in Nat /\ Given(m)' \in Nat /\ Born(m) \in Nat
  <2>1. conv[Default].pending_prompts \in Seq(Nat) /\ <<>> \in Seq(Nat)
    BY GoodIsTask
  <2>2. conv'[Default].pending_prompts \in Seq(Nat)
    BY <1>2, <2>1
  <2>3. Count(conv[Default].pending_prompts, {m}) \in Nat
    BY <2>1, CountIsNat
  <2>4. Count(conv'[Default].pending_prompts, {m}) \in Nat
    BY <2>2, CountIsNat
  <2>5. Given(m) \in Nat /\ Given(m)' \in Nat /\ Born(m) \in Nat
    BY DEF Given, Born
  <2> QED
    BY <2>3, <2>4, <2>5 DEF Balanced
<1> HIDE DEF tasks
<1>5. /\ \A t \in Range(tasks) : t.kind \in UserKinds => t.of \notin asked
      /\ messages' = messages \/ \E r \in Message : r.kind # "prompt" /\ messages' = Append(messages, r)
      /\ \A m \in Nat : Count(tasks, About(m)) + Count(conv'[Default].pending_prompts, {m}) + Given(m)' + Born(m)
                        = Count(conv[Default].pending_prompts, {m}) + Given(m) + Born(m)'
  <2>1. CASE Mute(work') /\ messages' = messages
    <3>1. \A t \in Range(tasks) : t.kind \notin UserKinds
      BY <2>1 DEF Mute, tasks
    <3>2. \A m \in Nat : Count(tasks, About(m)) = 0
      BY <1>1, <2>1, MuteCounts DEF tasks
    <3>3. \A m \in Nat : Born(m)' = Born(m)
      BY <2>1 DEF Born
    <3> QED
      BY <1>4, <2>1, <3>1, <3>2, <3>3
  <2>2. CASE Bears
    <3>1. PICK r \in Message : /\ r.kind # "prompt"
                       /\ messages' = Append(messages, r)
                       /\ \A m \in Nat : Count(work', About(m)) = IF m = Len(messages) + 1 THEN 1 ELSE 0
      BY <2>2 DEF Bears
    <3>2. ASSUME NEW m \in Nat
          PROVE  Count(tasks, About(m)) + Count(conv'[Default].pending_prompts, {m}) + Given(m)' + Born(m)
                        = Count(conv[Default].pending_prompts, {m}) + Given(m) + Born(m)'
      <4> PICK N, Q, R, G, H, B, C : /\ N = Count(tasks, About(m)) /\ Q = Count(conv[Default].pending_prompts, {m})
                                     /\ R = Count(conv'[Default].pending_prompts, {m})
                                     /\ G = Given(m) /\ H = Given(m)' /\ B = Born(m) /\ C = Born(m)'
        OBVIOUS
      <4> PICK one : one = IF m = Len(messages) + 1 THEN 1 ELSE 0
        OBVIOUS
      <4>1. N = one /\ one \in Nat
        BY <3>1 DEF tasks
      <4>2. C = B + one /\ B \in Nat
        BY <3>1, BornGrows
      <4>3. Q \in Nat /\ R \in Nat /\ G \in Nat /\ H \in Nat /\ R + H = Q + G
        BY <1>4
      <4>4. N + R + H + B = Q + G + C
        BY ONLY <4>1, <4>2, <4>3
      <4> QED
        BY <4>4
    <3>3. ASSUME NEW t \in Range(tasks), t.kind \in UserKinds PROVE t.of \notin asked
      <4>1. t \in Task
        <5> HIDE DEF Task
        <5> QED
          BY <1>1 DEF Range
      <4>2. t \in About(t.of) /\ t.of \in Nat
        <5>1. \A x \in Task : x.of \in Nat
          BY DEF Task, Event
        <5> QED
          BY <3>3, <4>1, <5>1, AboutTasks
      <4>3. Count(tasks, About(t.of)) # 0
        BY <1>1, <4>2, CountIsNat
      <4>4. t.of = Len(messages) + 1
        BY <3>1, <4>2, <4>3 DEF tasks
      <4>5. DOMAIN messages = 1..Len(messages) /\ Len(messages) \in Nat
        <5>1. messages \in Seq(Message)
          BY DEF TypeInv
        <5> HIDE DEF Message
        <5> QED
          BY <5>1
      <4>6. Len(messages) + 1 \notin DOMAIN messages
        BY <4>5
      <4> QED
        BY <4>4, <4>6 DEF asked
    <3> QED
      BY <3>1, <3>2, <3>3
  <2> QED
    BY <2>1, <2>2
<1>6. Steadily(tasks, <<>>)
  BY <1>1, <1>3, <1>5 DEF Steadily, tasks
<1> QED
  BY <1>1, <1>2, <1>5, <1>6 DEF Steady

(* Lists of tasks that say nothing of the user's. *)
LEMMA MuteTasks ==
    ASSUME TypeInv
    PROVE  /\ <<>> \in Seq(Task) /\ Mute(<<>>) /\ Range(<<>>) = {}
           /\ \A c \in Convs : /\ <<Do("send", c, 0)>> \in Seq(Task) /\ Mute(<<Do("send", c, 0)>>)
                               /\ \A t \in Range(<<Do("send", c, 0)>>) : t.op = "send"
           /\ <<Advance>> \in Seq(Task) /\ Mute(<<Advance>>)
           /\ \A v \in Providers : <<Do("respawn", v, 0)>> \in Seq(Task) /\ Mute(<<Do("respawn", v, 0)>>)
<1>1. \A op, c, n : Do(op, c, n).kind \notin UserKinds /\ Do(op, c, n).op = op
  BY DEF Do, UserKinds
<1>2. /\ \A c \in Convs : Do("send", c, 0) \in Task
      /\ Advance \in Task
      /\ \A v \in Providers : Do("respawn", v, 0) \in Task
  BY DoTypes, LengthTypes, GoodIsTask
<1> HIDE DEF Task, Do
<1>3. <<>> \in Seq(Task) /\ Mute(<<>>) /\ Range(<<>>) = {}
  BY TidyLists DEF Range
<1>4. ASSUME NEW c \in Convs
      PROVE  /\ <<Do("send", c, 0)>> \in Seq(Task) /\ Mute(<<Do("send", c, 0)>>)
             /\ \A t \in Range(<<Do("send", c, 0)>>) : t.op = "send"
  <2> PICK a : a = Do("send", c, 0)
    OBVIOUS
  <2>1. a \in Task /\ a.kind \notin UserKinds /\ a.op = "send"
    BY <1>1, <1>2
  <2>2. <<a>> \in Seq(Task) /\ Mute(<<a>>) /\ Range(<<a>>) = {a}
    BY <2>1, TidyLists, RangeOfLists
  <2> QED
    BY <2>1, <2>2
<1>5. <<Advance>> \in Seq(Task) /\ Mute(<<Advance>>)
  <2>1. Advance.kind \notin UserKinds
    BY <1>1 DEF Advance
  <2> HIDE DEF Advance
  <2> QED
    BY <1>2, <2>1, TidyLists
<1>6. ASSUME NEW v \in Providers
      PROVE  <<Do("respawn", v, 0)>> \in Seq(Task) /\ Mute(<<Do("respawn", v, 0)>>)
  <2> PICK a : a = Do("respawn", v, 0)
    OBVIOUS
  <2>1. a \in Task /\ a.kind \notin UserKinds
    BY <1>1, <1>2
  <2>2. <<a>> \in Seq(Task) /\ Mute(<<a>>)
    BY <2>1, TidyLists
  <2> QED
    BY <2>2
<1> QED
  BY <1>3, <1>4, <1>5, <1>6

(* A turn that changes leaves the queue. *)
LEMMA TurnsKeepQueues ==
    ASSUME TypeInv, NEW c \in Convs, NEW x, NEW y, NEW z,
           conv' = [conv EXCEPT ![c].in_flight_prompt = x, ![c].turn_state = y, ![c].remaining_calls = z]
    PROVE  \A d \in Convs : conv'[d].pending_prompts = conv[d].pending_prompts
<1> SUFFICES ASSUME NEW d \in Convs PROVE conv'[d].pending_prompts = conv[d].pending_prompts
  OBVIOUS
<1>1. conv[d] \in GoodConversation(Len(prompts), Len(messages))
      /\ conv \in [Convs -> GoodConversation(Len(prompts), Len(messages))]
  BY DEF TypeInv
<1>2. conv'[d] = conv[d] \/ conv'[d] = [conv[d] EXCEPT !.in_flight_prompt = x, !.turn_state = y, !.remaining_calls = z]
  BY <1>1
<1> QED
  BY <1>1, <1>2 DEF GoodConversation

(* What a handler may rely on. *)
QuietInv == QueueInv /\ DrainInv /\ Tidy(work)

(* The handlers that go on. *)
LEMMA IdleQueueSteady ==
    ASSUME TypeInv, QuietInv, TryAdvanceQueue, ~(GateOpen /\ Runnable # {})
    PROVE  Steady
<1>1. work # <<>> /\ Head(work).op = "advance" /\ Then(<<>>)
      /\ UNCHANGED <<tree, pending_intercept, deferred_publishes, messages, discarded, conv>>
  BY DEF TryAdvanceQueue, Doing, pipe, gone
<1> QED
  BY <1>1, MuteTasks, HandlerSteady DEF QuietInv

(* The end of dispatch_prompt_for_conversation is steady. *)
LEMMA DispatchSteady == ASSUME TypeInv, QuietInv, DispatchOrAwait PROVE Steady
<1> PICK c \in Convs : c = Head(work).conv
  BY HeadTypes DEF DispatchOrAwait, Doing
<1>1. work # <<>> /\ Head(work).op = "dispatch" /\ (Then(<<>>) \/ Then(<<Do("send", c, 0)>>))
      /\ UNCHANGED <<tree, pending_intercept, deferred_publishes, messages, discarded, conv>>
  BY DEF DispatchOrAwait, Doing, pipe, gone
<1>2. CASE Then(<<>>)
  BY <1>1, <1>2, MuteTasks, HandlerSteady DEF QuietInv
<1>3. CASE Then(<<Do("send", c, 0)>>)
  <2> PICK s : s = <<Do("send", c, 0)>>
    OBVIOUS
  <2>1. s \in Seq(Task) /\ Mute(s) /\ Then(s) /\ \A t \in Range(s) : t.op \notin Looks
    BY <1>3, MuteTasks DEF Looks
  <2> QED
    BY <1>1, <2>1, HandlerSteady DEF QuietInv
<1> QED
  BY <1>1, <1>2, <1>3

(* send_prompt_to_agent_for is steady. *)
LEMMA SendSteady == ASSUME TypeInv, QuietInv, SendPrompt PROVE Steady
<1> PICK c \in Convs : c = Head(work).conv
  BY HeadTypes DEF SendPrompt, Doing
<1> DEFINE a == Publish("prompt_created", None, NextPrompt, 0)
<1>1. work # <<>> /\ Head(work).op = "send" /\ Then(<<a>>)
      /\ conv' = [conv EXCEPT ![c].in_flight_prompt = NextPrompt, ![c].turn_state = "thinking",
                              ![c].remaining_calls = {}]
      /\ UNCHANGED <<tree, pending_intercept, deferred_publishes, messages, discarded>>
  BY DEF SendPrompt, Doing, pipe, gone
<1>2. a \in Task /\ a.kind = "prompt_created" /\ a.op = "publish"
  <2>1. NextPrompt \in Nat
    BY LengthTypes DEF NextPrompt
  <2> QED
    BY <2>1 DEF Task, Event, Publish, Kinds
<1> HIDE DEF a
<1>3. <<a>> \in Seq(Task) /\ Mute(<<a>>) /\ Range(<<a>>) = {a}
  <2> HIDE DEF Task
  <2> QED
    BY <1>2, TidyLists, RangeOfLists DEF UserKinds
<1>4. \A d \in Convs : conv'[d].pending_prompts = conv[d].pending_prompts
  BY <1>1, TurnsKeepQueues
<1>5. \A t \in Range(<<a>>) : Drains(t) /\ t.op \notin Looks
  BY <1>2, <1>3 DEF Drains, Looks
<1> QED
  BY <1>1, <1>3, <1>4, <1>5, HandlerSteady DEF QuietInv

(* The end of a turn is steady. *)
LEMMA EndsSteady == ASSUME TypeInv, AwaitInv, QuietInv, TurnEnds PROVE Steady
<1> PICK c \in Convs : c = Head(work).conv
  BY HeadTypes DEF TurnEnds, Doing
<1>1. work # <<>> /\ Head(work).op \in {"answered", "called"} /\ Then(<<Advance>>)
      /\ UNCHANGED <<tree, pending_intercept, deferred_publishes, messages, discarded>>
  BY DEF TurnEnds, Doing, pipe, gone
<1>2. Tail(work) = <<>>
  BY <1>1, ClosingTask DEF Closing
<1>3. \A d \in Convs : conv'[d].pending_prompts = conv[d].pending_prompts \/ (d \in Queries /\ conv'[d].pending_prompts = <<>>)
  <2>1. CASE c \in Queries
    <3>1. conv' = [conv EXCEPT ![c] = Fresh(0)] /\ Fresh(0).pending_prompts = <<>>
      BY <2>1 DEF TurnEnds, Fresh
    <3>2. conv \in [Convs -> GoodConversation(Len(prompts), Len(messages))]
      BY DEF TypeInv
    <3> HIDE DEF GoodConversation
    <3> QED
      BY <2>1, <3>1, <3>2
  <2>2. CASE c \notin Queries
    <3>1. conv' = [conv EXCEPT ![c].in_flight_prompt = 0, ![c].turn_state = "idle", ![c].remaining_calls = {}]
      BY <2>2 DEF TurnEnds
    <3> QED
      BY <3>1, TurnsKeepQueues
  <2> QED
    BY <2>1, <2>2
<1> QED
  BY <1>1, <1>2, <1>3, MuteTasks, HandlerSteady DEF QuietInv

(* The start of tools is steady. *)
LEMMA ToolsSteady == ASSUME TypeInv, QuietInv, ToolsStart PROVE Steady
<1> PICK c \in Convs : c = Head(work).conv
  BY HeadTypes DEF ToolsStart, Doing
<1> PICK p : p = Head(work).of
  OBVIOUS
<1>1. work # <<>> /\ Head(work).op = "called" /\ Then(<<>>)
      /\ UNCHANGED <<tree, pending_intercept, deferred_publishes, messages, discarded>>
      /\ \/ conv' = [conv EXCEPT ![c].in_flight_prompt = 0, ![c].turn_state = "tools", ![c].remaining_calls = {p}]
         \/ conv' = conv
  BY DEF ToolsStart, Doing, pipe, gone
<1>2. \A d \in Convs : conv'[d].pending_prompts = conv[d].pending_prompts
  <2>1. CASE conv' = [conv EXCEPT ![c].in_flight_prompt = 0, ![c].turn_state = "tools", ![c].remaining_calls = {p}]
    BY <2>1, TurnsKeepQueues
  <2>2. CASE conv' = conv
    BY <2>2
  <2> QED
    BY <1>1, <2>1, <2>2
<1> QED
  BY <1>1, <1>2, MuteTasks, HandlerSteady DEF QuietInv

(* maybe_complete_agent_turn, when it folds nothing. *)
Completes ==
    /\ Head(work).of \in tool_conversations
    /\ Head(work).conv \in conversations /\ conv[Head(work).conv].turn_state = "tools"
    /\ conv[Head(work).conv].remaining_calls \ {Head(work).of} = {}

(* A turn that goes on is steady. *)
LEMMA TurnSteady == ASSUME TypeInv, QuietInv, MaybeCompleteTurn, ~Completes PROVE Steady
<1> PICK c \in Convs : c = Head(work).conv
  BY HeadTypes DEF MaybeCompleteTurn, Doing
<1> PICK left : left = conv[c].remaining_calls \ {Head(work).of}
  OBVIOUS
<1>1. work # <<>> /\ Head(work).op = "turn" /\ Then(<<>>)
      /\ UNCHANGED <<tree, pending_intercept, deferred_publishes, messages, discarded>>
      /\ (conv' = [conv EXCEPT ![c].remaining_calls = left] \/ conv' = conv)
  BY DEF MaybeCompleteTurn, Completes, Doing, pipe, gone
<1>2. \A d \in Convs : conv'[d].pending_prompts = conv[d].pending_prompts
  <2>1. CASE conv' = [conv EXCEPT ![c].remaining_calls = left]
    <3> SUFFICES ASSUME NEW d \in Convs PROVE conv'[d].pending_prompts = conv[d].pending_prompts
      OBVIOUS
    <3>1. conv[d] \in GoodConversation(Len(prompts), Len(messages))
          /\ conv \in [Convs -> GoodConversation(Len(prompts), Len(messages))]
      BY DEF TypeInv
    <3>2. conv'[d] = conv[d] \/ conv'[d] = [conv[d] EXCEPT !.remaining_calls = left]
      BY <2>1, <3>1
    <3> QED
      BY <3>1, <3>2 DEF GoodConversation
  <2>2. CASE conv' = conv
    BY <2>2
  <2> QED
    BY <1>1, <2>1, <2>2
<1> PICK s : s = <<>>
  OBVIOUS
<1>3. s \in Seq(Task) /\ Mute(s) /\ Then(s) /\ \A t \in Range(s) : t.op \notin Looks /\ Drains(t)
  BY <1>1, MuteTasks
<1>4. work # <<>> /\ Head(work).op \notin {"publish", "drain", "send"}
  BY <1>1
<1>5. UNCHANGED <<tree, pending_intercept, deferred_publishes, messages, discarded>>
  BY <1>1
<1> HIDE DEF Then, Mute
<1> QED
  BY <1>2, <1>3, <1>4, <1>5, HandlerSteady DEF QuietInv

(* clear_tool_call_tracking and try_respawn_supervised_extension are steady. *)
LEMMA ClearSteady == ASSUME TypeInv, QuietInv, ClearTracking \/ Respawn PROVE Steady
<1>1. work # <<>> /\ Head(work).op \in {"clear", "respawn"} /\ Then(<<>>)
      /\ UNCHANGED <<tree, pending_intercept, deferred_publishes, messages, discarded, conv>>
  BY DEF ClearTracking, Respawn, Doing, pipe, gone
<1> QED
  BY <1>1, MuteTasks, HandlerSteady DEF QuietInv

(* What is mute stays so together. *)
LEMMA MuteJoins ==
    ASSUME NEW s \in Seq(Task), NEW t \in Seq(Task), Mute(s), Mute(t)
    PROVE  s \o t \in Seq(Task) /\ Mute(s \o t)
<1> HIDE DEF Task
<1>1. \A x, y \in Seq(Task) : Range(x \o y) = Range(x) \cup Range(y)
  BY RangeOfParts
<1>2. Range(s \o t) = Range(s) \cup Range(t) /\ s \o t \in Seq(Task)
  BY <1>1
<1> QED
  BY <1>2 DEF Mute

(* A new message of the user comes first. *)
LEMMA NewBears ==
    ASSUME TypeInv, NEW a \in Task, a.op = "publish", a.kind \in UserKinds, a.of = Len(messages) + 1,
           NEW rest \in Seq(Task), Mute(rest), work' = <<a>> \o rest,
           NEW r \in Message, r.kind # "prompt", messages' = Append(messages, r)
    PROVE  work' \in Seq(Task) /\ Tidy(work') /\ Bears
<1> HIDE DEF Task, Message
<1>1. <<a>> \in Seq(Task) /\ Range(<<a>>) = {a}
  BY RangeOfLists
<1>2. work' \in Seq(Task)
  BY <1>1
<1>3. Tidy(<<a>>) /\ Tidy(rest)
  BY TidyLists, MuteIsTidy
<1>4. Tidy(work')
  BY <1>1, <1>3, TidyJoins
<1>5. ASSUME NEW m \in Nat
      PROVE  Count(work', About(m)) = IF m = Len(messages) + 1 THEN 1 ELSE 0
  <2>1. Count(work', About(m)) = Count(<<a>>, About(m)) + Count(rest, About(m))
    BY <1>1, CountJoins
  <2>2. Count(rest, About(m)) = 0
    BY MuteCounts
  <2>3. Count(<<a>>, About(m)) = IF a \in About(m) THEN 1 ELSE 0
    BY CountOfOne
  <2>4. a \in About(m) <=> m = Len(messages) + 1
    BY AboutTasks
  <2> QED
    BY <2>1, <2>2, <2>3, <2>4
<1> QED
  BY <1>2, <1>4, <1>5 DEF Bears

(* What is given up with its queue is balanced. *)
LEMMA GivingUpBalances ==
    ASSUME TypeInv, CountInv, conv'[Default].pending_prompts = <<>>,
           discarded' = discarded \cup Range(conv[Default].pending_prompts)
    PROVE  Balanced
<1> SUFFICES ASSUME NEW m \in Nat
             PROVE  Count(conv'[Default].pending_prompts, {m}) + Given(m)'
                        = Count(conv[Default].pending_prompts, {m}) + Given(m)
  BY DEF Balanced
<1> PICK q : q = conv[Default].pending_prompts
  OBVIOUS
<1>1. q \in Seq(Nat)
  BY GoodIsTask
<1>2. Count(conv'[Default].pending_prompts, {m}) = 0
  BY CountOfOne
<1>3. Count(q, {m}) \in Nat /\ (Count(q, {m}) = 0 <=> m \notin Range(q))
  BY <1>1, CountIsNat
<1>4. /\ IsFiniteSet(Places(tree, m))
      /\ Cardinality(Places(tree, m)) + Count(pending_intercept, About(m))
             + Count(deferred_publishes, About(m)) + Count(work, About(m))
             + Count(q, {m}) + Given(m) = Born(m)
  BY DEF CountInv
<1> PICK T, P, D, W, Q, G, B :
                  /\ T = Cardinality(Places(tree, m)) /\ P = Count(pending_intercept, About(m))
                  /\ D = Count(deferred_publishes, About(m)) /\ W = Count(work, About(m))
                  /\ Q = Count(q, {m}) /\ G = Given(m) /\ B = Born(m)
  OBVIOUS
<1>5. T \in Nat /\ P \in Nat /\ D \in Nat /\ W \in Nat /\ Q \in Nat /\ G \in Nat /\ B \in Nat
      /\ T + P + D + W + Q + G = B
  BY <1>4, CountTypes
<1>6. B <= 1
  BY DEF Born
<1>7. Q + G <= 1
  BY ONLY <1>5, <1>6
<1>8. CASE Q = 0
  <2>1. m \notin Range(q)
    BY <1>3, <1>8
  <2>2. Given(m)' = Given(m)
    BY <2>1 DEF Given
  <2> QED
    BY <1>2, <1>8, <2>2
<1>9. CASE Q # 0
  <2>1. Q = 1 /\ G = 0
    BY ONLY <1>5, <1>7, <1>9
  <2>2. m \in Range(q)
    BY <1>3, <1>9
  <2>3. Given(m)' = 1
    BY <2>2 DEF Given
  <2> QED
    BY <1>2, <2>1, <2>3
<1> QED
  BY <1>8, <1>9

(* A step that gives nothing up keeps the balance. *)
LEMMA KeepingBalances ==
    ASSUME TypeInv, conv'[Default].pending_prompts = conv[Default].pending_prompts, UNCHANGED discarded
    PROVE  Balanced
BY DEF Balanced, Given

(* What complete_session_init says. *)
LEMMA InitBears ==
    ASSUME TypeInv, NEW found, NEW s \in 1..MaxSessions, NEW rest \in Seq(Task), Mute(rest),
           CompleteInit(found, s, rest)
    PROVE  work' \in Seq(Task) /\ Tidy(work') /\ ((Mute(work') /\ messages' = messages) \/ Bears)
<1> PICK a : a = Publish("injected", Default, Len(messages) + 1, s)
  OBVIOUS
<1> PICK b : b = Advance
  OBVIOUS
<1> PICK r : r = [conv |-> Default, kind |-> "context"]
  OBVIOUS
<1>1. a \in Task /\ a.op = "publish" /\ a.kind \in UserKinds /\ a.of = Len(messages) + 1
  <2>1. Len(messages) + 1 \in Nat /\ s \in Nat
    BY LengthTypes
  <2> QED
    BY <2>1 DEF Task, Event, Publish, Kinds, UserKinds, Convs
<1>2. <<b>> \in Seq(Task) /\ Mute(<<b>>) /\ b \in Task
  BY MuteTasks, LengthTypes, DoTypes, GoodIsTask
<1>3. r \in Message /\ r.kind # "prompt"
  BY DEF Message, Convs
<1>4. \/ messages' = Append(messages, r) /\ work' = <<a, b>> \o rest
      \/ messages' = messages /\ work' = <<b>> \o rest
  BY DEF CompleteInit, NewMessage
<1>5. CASE messages' = Append(messages, r) /\ work' = <<a, b>> \o rest
  <2> PICK more : more = <<b>> \o rest
    OBVIOUS
  <2>1. more \in Seq(Task) /\ Mute(more)
    BY <1>2, MuteJoins
  <2>2. work' = <<a>> \o more
    <3> HIDE DEF Task
    <3>1. <<a, b>> = <<a>> \o <<b>>
      OBVIOUS
    <3>2. (<<a>> \o <<b>>) \o rest = <<a>> \o (<<b>> \o rest)
      <4>1. <<a>> \in Seq(Task) /\ <<b>> \in Seq(Task) /\ rest \in Seq(Task)
        BY <1>1, <1>2
      <4> QED
        BY <4>1
    <3> QED
      BY <1>5, <3>1, <3>2
  <2> QED
    BY <1>1, <1>3, <1>5, <2>1, <2>2, NewBears
<1>6. CASE messages' = messages /\ work' = <<b>> \o rest
  <2>1. work' \in Seq(Task) /\ Mute(work')
    BY <1>2, <1>6, MuteJoins
  <2> QED
    BY <1>6, <2>1, MuteIsTidy
<1> QED
  BY <1>4, <1>5, <1>6

(* The frames. *)
LEMMA QueuesOnly ==
    ASSUME TypeInv, NEW c \in Convs, NEW x,
           conv' = [conv EXCEPT ![c] = x] \/ conv' = conv,
           x.pending_prompts = <<>>
    PROVE  \A d \in Convs : conv'[d].pending_prompts \in {conv[d].pending_prompts, <<>>}
<1>1. conv \in [Convs -> GoodConversation(Len(prompts), Len(messages))]
  BY DEF TypeInv
<1> HIDE DEF GoodConversation
<1> QED
  BY <1>1

(* handle_cancel_prompt is steady: the queue is given up. *)
LEMMA CancelSteady == ASSUME TypeInv, QuietInv, CountInv, CancelPrompt PROVE Steady
<1>1. /\ Idle /\ work' = <<Advance>>
      /\ conv' = [conv EXCEPT ![Default] = GiveUp(Default)]
      /\ discarded' = discarded \cup Range(conv[Default].pending_prompts)
      /\ UNCHANGED <<tree, pending_intercept, deferred_publishes, messages>>
  BY DEF CancelPrompt, pipe
<1>2. work' \in Seq(Task) /\ Mute(work') /\ Tidy(work')
  BY <1>1, MuteTasks, MuteIsTidy
<1>3. Default \in Convs /\ GiveUp(Default).pending_prompts = <<>>
  <2>1. Default \in Convs
    BY DEF Convs
  <2>2. conv[Default] \in GoodConversation(Len(prompts), Len(messages))
    BY <2>1 DEF TypeInv
  <2> QED
    BY <2>1, <2>2 DEF GiveUp, GoodConversation
<1>4. \A d \in Convs : conv'[d].pending_prompts \in {conv[d].pending_prompts, <<>>}
  BY <1>1, <1>3, QueuesOnly
<1>5. conv'[Default].pending_prompts = <<>>
  <2>1. conv \in [Convs -> GoodConversation(Len(prompts), Len(messages))]
    BY DEF TypeInv
  <2> HIDE DEF GoodConversation
  <2> QED
    BY <1>1, <1>3, <2>1
<1>6. Balanced
  BY <1>1, <1>5, GivingUpBalances
<1> QED
  BY <1>1, <1>2, <1>4, <1>6, FrameSteady DEF QuietInv

(* switch_session is steady: the queue is given up. *)
LEMMA SwitchSteady == ASSUME TypeInv, TypeInv', AwaitInv, QuietInv, CountInv, SwitchSession PROVE Steady
<1>1. /\ Idle
      /\ conv' = Rebound
      /\ discarded' = discarded \cup UNION {Range(conv[c].pending_prompts) : c \in conversations}
      /\ session' = session + 1
      /\ IF Subscribers = {}
         THEN CompleteInit(discovered, session + 1, <<>>)
         ELSE /\ work' = <<Publish("session_started", None, 0, session + 1)>>
              /\ UNCHANGED messages
      /\ UNCHANGED <<tree, pending_intercept, deferred_publishes>>
  BY DEF SwitchSession, pipe
<1>2. session + 1 \in 1..MaxSessions
  BY <1>1 DEF TypeInv
<1>3. work' \in Seq(Task) /\ Tidy(work') /\ ((Mute(work') /\ messages' = messages) \/ Bears)
  <2>1. CASE Subscribers = {}
    BY <1>1, <1>2, <2>1, MuteTasks, InitBears
  <2>2. CASE Subscribers # {}
    <3> PICK a : a = Publish("session_started", None, 0, session + 1)
      OBVIOUS
    <3>1. a \in Task /\ a.kind \notin UserKinds
      BY <1>2 DEF Task, Event, Publish, Kinds, UserKinds
    <3>2. <<a>> \in Seq(Task) /\ Tidy(<<a>>) /\ Mute(<<a>>)
      <4> HIDE DEF Task
      <4> QED
        BY <3>1, TidyLists
    <3>3. work' = <<a>> /\ messages' = messages
      BY <1>1, <2>2
    <3> QED
      BY <3>2, <3>3
  <2> QED
    BY <2>1, <2>2
<1>4. \A c \in Convs : conv'[c].pending_prompts = <<>>
  BY <1>1 DEF Rebound, Fresh
<1>5. Default \in Convs /\ Default \in conversations /\ conversations \subseteq Convs
  BY DEF AwaitInv, TypeInv, Convs
<1>6. UNION {Range(conv[c].pending_prompts) : c \in conversations} = Range(conv[Default].pending_prompts)
  <2>1. \A c \in conversations : c # Default => Range(conv[c].pending_prompts) = {}
    BY <1>5, MuteTasks DEF QuietInv, QueueInv
  <2> HIDE DEF Range
  <2> QED
    BY <1>5, <2>1
<1>7. Balanced
  BY <1>1, <1>4, <1>5, <1>6, GivingUpBalances
<1> QED
  BY <1>1, <1>3, <1>4, <1>7, FrameSteady DEF QuietInv

(* A frame that leaves the conversations alone. *)
LEMMA PlainSteady ==
    ASSUME TypeInv, QuietInv, Idle, work' \in Seq(Task), Tidy(work'),
           \/ Mute(work') /\ messages' = messages
           \/ Bears,
           UNCHANGED <<tree, pending_intercept, deferred_publishes, discarded, conv>>
    PROVE  Steady
<1>1. Balanced
  BY KeepingBalances
<1> QED
  BY <1>1, FrameSteady DEF QuietInv

(* inject_user_shell_output is steady. *)
LEMMA ShellSteady == ASSUME TypeInv, QuietInv, NEW s \in 1..session, ShellFinished(s) PROVE Steady
<1> PICK a : a = Publish("injected", IF s = session THEN Default ELSE None, Len(messages) + 1, s)
  OBVIOUS
<1> PICK r : r = [conv |-> Default, kind |-> "shell"]
  OBVIOUS
<1>1. /\ Idle /\ work' = <<a>> /\ messages' = Append(messages, r)
      /\ UNCHANGED <<tree, pending_intercept, deferred_publishes, discarded, conv>>
  BY DEF ShellFinished, NewMessage, pipe, gone
<1>2. a \in Task /\ a.op = "publish" /\ a.kind \in UserKinds /\ a.of = Len(messages) + 1
  <2>1. Len(messages) + 1 \in Nat /\ s \in Nat
    <3>1. session \in Nat
      BY DEF TypeInv
    <3> QED
      BY <3>1, LengthTypes
  <2> QED
    BY <2>1 DEF Task, Event, Publish, Kinds, UserKinds, Convs
<1>3. r \in Message /\ r.kind # "prompt"
  BY DEF Message, Convs
<1>4. <<a>> = <<a>> \o <<>> /\ <<>> \in Seq(Task) /\ Mute(<<>>)
  <2> HIDE DEF Task
  <2> QED
    BY MuteTasks
<1>5. work' \in Seq(Task) /\ Tidy(work') /\ Bears
  BY <1>1, <1>2, <1>3, <1>4, NewBears
<1> QED
  BY <1>1, <1>5, PlainSteady

(* handle_extension_context_ready is steady. *)
LEMMA ContextSteady ==
    ASSUME TypeInv, QuietInv, NEW v \in Providers, NEW s \in 1..MaxSessions, ContextReady(v, s) PROVE Steady
<1>1. /\ Idle
      /\ CompleteInit(discovered', session, <<>>) \/ UNCHANGED <<work, messages>>
      /\ UNCHANGED <<tree, pending_intercept, deferred_publishes, discarded, conv>>
  BY DEF ContextReady, pipe, gone
<1>2. work' \in Seq(Task) /\ Tidy(work') /\ ((Mute(work') /\ messages' = messages) \/ Bears)
  <2>1. CASE CompleteInit(discovered', session, <<>>)
    <3>1. session \in 1..MaxSessions
      BY DEF TypeInv
    <3> QED
      BY <2>1, <3>1, MuteTasks, InitBears
  <2>2. CASE UNCHANGED <<work, messages>>
    <3>1. work' = <<>> /\ messages' = messages
      BY <1>1, <2>2 DEF Idle
    <3> QED
      BY <3>1, MuteTasks, TidyLists
  <2> QED
    BY <1>1, <2>1, <2>2
<1> QED
  BY <1>1, <1>2, PlainSteady

(* handle_disconnect is steady. *)
LEMMA GoneSteady == ASSUME TypeInv, QuietInv, NEW v \in Providers, ExtensionGone(v) PROVE Steady
<1> PICK rest : rest = <<Do("respawn", v, 0)>>
  OBVIOUS
<1>1. /\ Idle
      /\ CompleteInit(discovered', session, rest) \/ (work' = rest /\ UNCHANGED messages)
      /\ UNCHANGED <<tree, pending_intercept, deferred_publishes, discarded, conv>>
  BY DEF ExtensionGone, pipe, gone
<1>2. rest \in Seq(Task) /\ Mute(rest)
  BY MuteTasks
<1>3. work' \in Seq(Task) /\ Tidy(work') /\ ((Mute(work') /\ messages' = messages) \/ Bears)
  <2>1. CASE CompleteInit(discovered', session, rest)
    <3>1. session \in 1..MaxSessions
      BY DEF TypeInv
    <3> QED
      BY <1>2, <2>1, <3>1, InitBears
  <2>2. CASE work' = rest /\ UNCHANGED messages
    BY <1>2, <2>2, MuteIsTidy
  <2> QED
    BY <1>1, <2>1, <2>2
<1> QED
  BY <1>1, <1>3, PlainSteady

(* Message::Subscribe and Message::Ready are steady. *)
LEMMA LifecycleSteady ==
    ASSUME TypeInv, QuietInv, NEW v \in Providers, ExtensionSubscribes(v) \/ ExtensionReady(v) PROVE Steady
<1>1. /\ Idle /\ (work' = work \/ work' = <<Advance>>)
      /\ UNCHANGED <<tree, pending_intercept, deferred_publishes, discarded, conv, messages>>
  BY DEF ExtensionSubscribes, ExtensionReady, pipe, gone
<1>2. work' \in Seq(Task) /\ Mute(work')
  BY <1>1, MuteTasks DEF Idle
<1> QED
  BY <1>1, <1>2, MuteIsTidy, PlainSteady

(* handle_agent_response_finished is steady. *)
LEMMA RespondsSteady ==
    ASSUME TypeInv, QuietInv, NEW p \in at_agent, NEW how \in {"answered", "called"}, AgentResponds(p, how)
    PROVE  Steady
<1> PICK a : a = Publish("response_finished", prompts[p].conv, p, 0)
  OBVIOUS
<1> PICK b : b = Do(how, prompts[p].conv, p)
  OBVIOUS
<1>1. /\ Idle /\ (work' = work \/ work' = <<a, b>>)
      /\ UNCHANGED <<tree, pending_intercept, deferred_publishes, discarded, conv, messages>>
  BY DEF AgentResponds, pipe, gone
<1>2. p \in Nat /\ prompts[p].conv \in Convs
  <2>1. p \in 1..Len(prompts)
    BY DEF TypeInv
  <2> QED
    BY <2>1, PromptTypes, LengthTypes
<1>3. a \in Task /\ a.kind \notin UserKinds /\ b \in Task /\ b.kind \notin UserKinds
  BY <1>2 DEF Task, Event, Publish, Do, Kinds, UserKinds
<1>4. <<a, b>> \in Seq(Task) /\ Mute(<<a, b>>)
  <2> HIDE DEF Task
  <2> QED
    BY <1>3, TidyLists
<1>5. work' \in Seq(Task) /\ Mute(work')
  BY <1>1, <1>4, MuteTasks DEF Idle
<1> QED
  BY <1>1, <1>5, MuteIsTidy, PlainSteady

(* A tool result is steady. *)
LEMMA FinishesSteady ==
    ASSUME TypeInv, QuietInv, NEW p \in running, ToolFinishes(p) PROVE Steady
<1> PICK a, b, c, d : /\ a = Publish("tool_result", prompts[p].conv, p, 0) /\ b = Do("turn", prompts[p].conv, p)
                      /\ c = Advance /\ d = Do("clear", None, p)
  OBVIOUS
<1>1. /\ Idle /\ (work' = <<>> \/ work' = <<a, b, c, d>>)
      /\ UNCHANGED <<tree, pending_intercept, deferred_publishes, discarded, conv, messages>>
  BY DEF ToolFinishes, pipe, gone
<1>2. p \in Nat /\ prompts[p].conv \in Convs
  <2>1. p \in 1..Len(prompts)
    BY DEF TypeInv
  <2> QED
    BY <2>1, PromptTypes, LengthTypes
<1>3. /\ a \in Task /\ a.kind \notin UserKinds /\ b \in Task /\ b.kind \notin UserKinds
      /\ c \in Task /\ c.kind \notin UserKinds /\ d \in Task /\ d.kind \notin UserKinds
  BY <1>2 DEF Task, Event, Publish, Do, Advance, Kinds, UserKinds
<1>4. <<a, b, c, d>> \in Seq(Task) /\ Mute(<<a, b, c, d>>)
  <2> HIDE DEF Task
  <2> QED
    BY <1>3, TidyLists
<1>5. work' \in Seq(Task) /\ Mute(work')
  BY <1>1, <1>4, MuteTasks
<1> QED
  BY <1>1, <1>5, MuteIsTidy, PlainSteady

(* handle_ext_agent_query is steady. *)
LEMMA QuerySteady ==
    ASSUME TypeInv, QuietInv, NEW q \in Queries, AgentQuery(q) PROVE Steady
<1> PICK a, b : a = Publish("prompt_submitted", q, Len(messages) + 1, session) /\ b = Do("dispatch", q, 0)
  OBVIOUS
<1> PICK r : r = [conv |-> q, kind |-> "query"]
  OBVIOUS
<1> PICK x : x = Fresh(InitialHead(q))
  OBVIOUS
<1>1. /\ Idle /\ work' = <<a, b>> /\ messages' = Append(messages, r)
      /\ conv' = [conv EXCEPT ![q] = x]
      /\ UNCHANGED <<tree, pending_intercept, deferred_publishes, discarded>>
  BY DEF AgentQuery, Dispatch, NewMessage, pipe, gone
<1>2. q \in Convs /\ q # Default
  BY PromptDispatchAssumption DEF Convs
<1>3. a \in Task /\ a.op = "publish" /\ a.kind \in UserKinds /\ a.of = Len(messages) + 1
      /\ b \in Task /\ b.kind \notin UserKinds
  <2>1. Len(messages) + 1 \in Nat /\ session \in Nat
    <3>1. session \in Nat
      BY DEF TypeInv
    <3> QED
      BY <3>1, LengthTypes
  <2> QED
    BY <1>2, <2>1 DEF Task, Event, Publish, Do, Kinds, UserKinds
<1>4. r \in Message /\ r.kind # "prompt"
  BY <1>2 DEF Message
<1>5. <<a, b>> = <<a>> \o <<b>> /\ <<b>> \in Seq(Task) /\ Mute(<<b>>)
  <2> HIDE DEF Task
  <2> QED
    BY <1>3, TidyLists
<1>6. work' \in Seq(Task) /\ Tidy(work') /\ Bears
  BY <1>1, <1>3, <1>4, <1>5, NewBears
<1>7. x.pending_prompts = <<>>
  BY DEF Fresh
<1>8. \A d \in Convs : conv'[d].pending_prompts \in {conv[d].pending_prompts, <<>>}
  BY <1>1, <1>2, <1>7, QueuesOnly
<1>9. conv'[Default].pending_prompts = conv[Default].pending_prompts
  <2>1. conv \in [Convs -> GoodConversation(Len(prompts), Len(messages))] /\ Default \in Convs
    BY DEF TypeInv, Convs
  <2> HIDE DEF GoodConversation
  <2> QED
    BY <1>1, <1>2, <2>1
<1>10. Balanced
  BY <1>1, <1>9, KeepingBalances
<1> QED
  BY <1>1, <1>6, <1>8, <1>10, FrameSteady DEF QuietInv

-----------------------------------------------------------------------------
(* The order of what is said. *)

(* The messages among A that the tasks publish, and whether they do in order. *)
Says(s, A) == {m \in A : \E x \in Range(s) : x.kind \in UserKinds /\ x.of = m}
Rising(s, A) ==
    \A i, j \in DOMAIN s : i < j /\ s[i].kind \in UserKinds /\ s[j].kind \in UserKinds
                            /\ s[i].of \in A /\ s[j].of \in A => s[i].of < s[j].of
Below(X, Y) == \A x \in X, y \in Y : x < y

(* What short lists say. *)
LEMMA SaysOfLists ==
    ASSUME NEW A
    PROVE  /\ Says(<<>>, A) = {} /\ Rising(<<>>, A)
           /\ \A x : Rising(<<x>>, A) /\ Says(<<x>>, A) = IF x.kind \in UserKinds /\ x.of \in A THEN {x.of} ELSE {}
<1>1. Says(<<>>, A) = {} /\ Rising(<<>>, A)
  BY DEF Says, Rising, Range
<1>2. ASSUME NEW x PROVE Rising(<<x>>, A) /\ Says(<<x>>, A) = IF x.kind \in UserKinds /\ x.of \in A THEN {x.of} ELSE {}
  <2>1. Range(<<x>>) = {x} /\ DOMAIN <<x>> = {1}
    BY RangeOfLists
  <2>2. Rising(<<x>>, A)
    BY <2>1 DEF Rising
  <2> QED
    BY <2>1, <2>2 DEF Says
<1> QED
  BY <1>1, <1>2

(* What lists say one after the other. *)
LEMMA SaysJoins ==
    ASSUME NEW S, NEW A, NEW s \in Seq(S), NEW t \in Seq(S)
    PROVE  Says(s \o t, A) = Says(s, A) \cup Says(t, A)
<1>1. \A x, y \in Seq(S) : Range(x \o y) = Range(x) \cup Range(y)
  BY RangeOfParts
<1>2. Range(s \o t) = Range(s) \cup Range(t)
  BY <1>1
<1> QED
  BY <1>2 DEF Says

(* Lists in order, one after the other. *)
LEMMA RisingJoins ==
    ASSUME NEW S, NEW A, NEW s \in Seq(S), NEW t \in Seq(S),
           Rising(s, A), Rising(t, A), Below(Says(s, A), Says(t, A))
    PROVE  Rising(s \o t, A)
<1> SUFFICES ASSUME NEW i \in DOMAIN (s \o t), NEW j \in DOMAIN (s \o t), i < j,
                    (s \o t)[i].kind \in UserKinds, (s \o t)[j].kind \in UserKinds,
                    (s \o t)[i].of \in A, (s \o t)[j].of \in A
             PROVE  (s \o t)[i].of < (s \o t)[j].of
  BY DEF Rising
<1> PICK L : L = Len(s)
  OBVIOUS
<1>1. /\ L \in Nat /\ Len(t) \in Nat /\ DOMAIN s = 1..L /\ DOMAIN t = 1..Len(t) /\ DOMAIN (s \o t) = 1..(L + Len(t))
      /\ \A k \in 1..(L + Len(t)) : (s \o t)[k] = IF k <= L THEN s[k] ELSE t[k - L]
  OBVIOUS
<1>2. CASE j <= L
  <2>1. i \in DOMAIN s /\ j \in DOMAIN s /\ (s \o t)[i] = s[i] /\ (s \o t)[j] = s[j]
    BY <1>1, <1>2
  <2> QED
    BY <2>1 DEF Rising
<1>3. CASE ~(j <= L) /\ i <= L
  <2>1. i \in DOMAIN s /\ (s \o t)[i] = s[i] /\ j - L \in DOMAIN t /\ (s \o t)[j] = t[j - L]
    BY <1>1, <1>3
  <2>2. s[i].of \in Says(s, A) /\ t[j - L].of \in Says(t, A)
    BY <2>1 DEF Says, Range
  <2> QED
    BY <2>1, <2>2 DEF Below
<1>4. CASE ~(j <= L) /\ ~(i <= L)
  <2>1. i - L \in DOMAIN t /\ (s \o t)[i] = t[i - L] /\ j - L \in DOMAIN t /\ (s \o t)[j] = t[j - L]
        /\ i - L < j - L
    BY <1>1, <1>4
  <2> QED
    BY <2>1 DEF Rising
<1> QED
  BY <1>2, <1>3, <1>4

(* What is left of a list in order. *)
LEMMA SaysTakes ==
    ASSUME NEW S, NEW A, NEW s \in Seq(S), s # <<>>
    PROVE  /\ Says(s, A) = Says(<<Head(s)>>, A) \cup Says(Tail(s), A)
           /\ Rising(s, A) => Rising(Tail(s), A) /\ Below(Says(<<Head(s)>>, A), Says(Tail(s), A))
<1>1. s = <<Head(s)>> \o Tail(s) /\ <<Head(s)>> \in Seq(S) /\ Tail(s) \in Seq(S)
  OBVIOUS
<1>2. Says(<<Head(s)>> \o Tail(s), A) = Says(<<Head(s)>>, A) \cup Says(Tail(s), A)
  <2> PICK u, v : u = <<Head(s)>> /\ v = Tail(s)
    OBVIOUS
  <2>1. u \in Seq(S) /\ v \in Seq(S)
    BY <1>1
  <2>2. Says(u \o v, A) = Says(u, A) \cup Says(v, A)
    BY ONLY <2>1, SaysJoins
  <2> QED
    BY <2>2
<1> PICK L : L = Len(s)
  OBVIOUS
<1>3. /\ L \in Nat \ {0} /\ DOMAIN s = 1..L /\ Head(s) = s[1] /\ DOMAIN Tail(s) = 1..(L - 1)
      /\ \A i \in 1..(L - 1) : Tail(s)[i] = s[i + 1]
  OBVIOUS
<1>4. ASSUME Rising(s, A) PROVE Rising(Tail(s), A)
  <2> SUFFICES ASSUME NEW i \in 1..(L - 1), NEW j \in 1..(L - 1), i < j,
                      Tail(s)[i].kind \in UserKinds, Tail(s)[j].kind \in UserKinds,
                      Tail(s)[i].of \in A, Tail(s)[j].of \in A
               PROVE  Tail(s)[i].of < Tail(s)[j].of
    BY <1>3 DEF Rising
  <2>1. i + 1 \in DOMAIN s /\ j + 1 \in DOMAIN s /\ i + 1 < j + 1 /\ Tail(s)[i] = s[i + 1] /\ Tail(s)[j] = s[j + 1]
    BY <1>3
  <2> QED
    BY <1>4, <2>1 DEF Rising
<1>5. ASSUME Rising(s, A), NEW x \in Says(<<Head(s)>>, A), NEW y \in Says(Tail(s), A) PROVE x < y
  <2>1. x = s[1].of /\ s[1].kind \in UserKinds /\ x \in A
    <3> PICK h : h = Head(s)
      OBVIOUS
    <3>1. x \in Says(<<h>>, A)
      BY <1>5
    <3>2. x = h.of /\ h.kind \in UserKinds /\ h.of \in A
      <4>1. Says(<<h>>, A) = IF h.kind \in UserKinds /\ h.of \in A THEN {h.of} ELSE {}
        BY SaysOfLists
      <4> QED
        BY <3>1, <4>1
    <3> QED
      BY <1>3, <3>2
  <2>2. PICK j \in 1..(L - 1) : s[j + 1].kind \in UserKinds /\ s[j + 1].of = y /\ y \in A
    BY <1>3, <1>5 DEF Says, Range
  <2>3. 1 \in DOMAIN s /\ j + 1 \in DOMAIN s /\ 1 < j + 1
    BY <1>3
  <2> QED
    BY <1>5, <2>1, <2>2, <2>3 DEF Rising
<1> QED
  BY <1>1, <1>2, <1>4, <1>5 DEF Below

(* What is appended to a list in order. *)
LEMMA SaysAppends ==
    ASSUME NEW S, NEW A, NEW s \in Seq(S), NEW x \in S
    PROVE  /\ Says(Append(s, x), A) = Says(s, A) \cup Says(<<x>>, A)
           /\ Rising(s, A) /\ Below(Says(s, A), Says(<<x>>, A)) => Rising(Append(s, x), A)
<1>1. Append(s, x) = s \o <<x>> /\ <<x>> \in Seq(S)
  OBVIOUS
<1>2. Rising(<<x>>, A)
  BY SaysOfLists
<1>3. Says(s \o <<x>>, A) = Says(s, A) \cup Says(<<x>>, A)
  <2> PICK v : v = <<x>>
    OBVIOUS
  <2>1. v \in Seq(S)
    BY <1>1
  <2>2. Says(s \o v, A) = Says(s, A) \cup Says(v, A)
    BY ONLY <2>1, SaysJoins
  <2> QED
    BY <2>2
<1>4. Rising(s, A) /\ Below(Says(s, A), Says(<<x>>, A)) => Rising(s \o <<x>>, A)
  BY <1>1, <1>2, RisingJoins
<1> QED
  BY <1>1, <1>3, <1>4

(* What is mute says nothing. *)
LEMMA MuteSays ==
    ASSUME NEW s, Mute(s), NEW A
    PROVE  Says(s, A) = {} /\ Rising(s, A)
BY DEF Mute, Says, Rising, Range

(* What a commit does to the work. *)
LEMMA CommitWork ==
    ASSUME TypeInv, NEW e, NEW rest \in Seq(Task), Commit(e, rest)
    PROVE  \E s \in Seq(Task) : Mute(s) /\ work' = s \o rest /\ \A t \in Range(s) : t.op = "send"
<1>1. CASE e.kind \in UserKinds /\ pending_user_prompt_dispatches # <<>>
  <2> PICK c : c = Head(pending_user_prompt_dispatches)
    OBVIOUS
  <2>1. work' = (IF c \in conversations THEN <<Do("send", c, 0)>> ELSE <<>>) \o rest /\ conversations \subseteq Convs
    BY <1>1 DEF Commit, TypeInv
  <2> PICK s : s = IF c \in conversations THEN <<Do("send", c, 0)>> ELSE <<>>
    OBVIOUS
  <2>2. s \in Seq(Task) /\ Mute(s) /\ \A t \in Range(s) : t.op = "send"
    BY <2>1, MuteTasks
  <2> QED
    BY <2>1, <2>2
<1>2. CASE ~(e.kind \in UserKinds /\ pending_user_prompt_dispatches # <<>>)
  <2>1. work' = rest
    BY <1>2 DEF Commit
  <2>2. <<>> \o rest = rest
    <3> HIDE DEF Task
    <3> QED
      OBVIOUS
  <2> QED
    BY <2>1, <2>2, MuteTasks
<1> QED
  BY <1>1, <1>2

(* Prompts to send come first, and say nothing. *)
LEMMA SendsFirst ==
    ASSUME NEW s \in Seq(Task), Mute(s), \A t \in Range(s) : t.op = "send", NEW rest \in Seq(Task), NEW A
    PROVE  /\ Range(s \o rest) = Range(s) \cup Range(rest)
           /\ Says(s \o rest, A) = Says(rest, A)
           /\ Rising(rest, A) => Rising(s \o rest, A)
           /\ Tidy(rest) => Tidy(s \o rest)
<1> HIDE DEF Task
<1>1. \A x, y \in Seq(Task) : Range(x \o y) = Range(x) \cup Range(y)
  BY RangeOfParts
<1>2. Says(s, A) = {} /\ Rising(s, A) /\ Tidy(s)
  BY MuteSays, MuteIsTidy
<1>3. Says(s \o rest, A) = Says(s, A) \cup Says(rest, A)
  BY SaysJoins
<1>4. Rising(rest, A) => Rising(s \o rest, A)
  BY <1>2, RisingJoins DEF Below
<1>5. Tidy(rest) => Tidy(s \o rest)
  BY <1>2, TidyJoins DEF Looks
<1> QED
  BY <1>1, <1>2, <1>3, <1>4, <1>5

(* Where a committed event is put. *)
LEMMA CommitPlants ==
    ASSUME TypeInv, NEW e \in GoodEvent(Len(prompts)), Fold(e)
    PROVE  \/ tree' = tree /\ e.kind \notin UserKinds
           \/ /\ e.kind = "response_finished" => e.of \in prompt_conversations
              /\ \E s \in 1..MaxSessions : \E x \in Node :
                    Planted(tree, s, x, tree') /\ x.entry = EntryOf(e) /\ e.kind \in UserKinds \cup {"response_finished", "tool_result"}
<1> DEFINE s == SessionFor(e)
           node == [parent |-> ParentOf(e, s), entry |-> EntryOf(e)]
<1>1. e \in Task /\ e.kind \in Kinds /\ s \in 0..MaxSessions
  BY GoodIsTask, SessionForTypes DEF GoodEvent, Event
<1>2. e.kind \in UserKinds => s \in 1..MaxSessions /\ s # 0
  <2>1. e.kind \in UserKinds => s = e.session
    BY DEF SessionFor, UserKinds
  <2>2. e.kind \in UserKinds => e.session \in 1..MaxSessions
    BY DEF GoodEvent
  <2>3. 0 \notin 1..MaxSessions
    BY PromptDispatchAssumption
  <2> HIDE DEF s
  <2> QED
    BY <2>1, <2>2, <2>3
<1>3. CASE s = 0
  BY <1>2, <1>3 DEF Fold
<1>4. CASE s # 0
  <2>1. s \in 1..MaxSessions
    BY <1>1, <1>4, PromptDispatchAssumption
  <2>2. tree \in [1..MaxSessions -> Seq(Node)] /\ tree' \in [1..MaxSessions -> Seq(Node)]
    BY FoldTypes DEF TypeInv
  <2>3. tree' = [tree EXCEPT ![s] = Append(tree[s], node)]
    BY <1>4 DEF Fold
  <2>4. node \in Node
    <3>1. tree'[s] = Append(tree[s], node)
      <4> HIDE DEF s, node, Node
      <4> QED
        BY <2>1, <2>2, <2>3
    <3>2. tree[s] \in Seq(Node) /\ tree'[s] \in Seq(Node)
      BY <2>1, <2>2
    <3> HIDE DEF s, node, Node
    <3>3. Len(tree[s]) \in Nat
      BY <3>2
    <3>4. Len(tree[s]) + 1 \in 1..Len(tree'[s]) /\ tree'[s][Len(tree[s]) + 1] = node
      BY <3>1, <3>2, <3>3
    <3> QED
      BY <3>2, <3>4
  <2>5. node.entry = EntryOf(e) /\ e.kind \in UserKinds \cup {"response_finished", "tool_result"}
    BY <1>1, <1>4 DEF SessionFor, Kinds
  <2>6. e.kind = "response_finished" => e.of \in prompt_conversations
    BY <1>4 DEF SessionFor, Attributed, UserKinds
  <2>7. Planted(tree, s, node, tree')
    <3> HIDE DEF s, node, Node
    <3> QED
      BY <2>1, <2>2, <2>3 DEF Planted
  <2> HIDE DEF s, node
  <2> QED
    BY <2>1, <2>4, <2>5, <2>6, <2>7
<1> QED
  BY <1>3, <1>4

(* The nodes of a tree that has got one. *)
LEMMA PlantedNodes ==
    ASSUME TypeInv, NEW s \in 1..MaxSessions, NEW x \in Node, Planted(tree, s, x, tree'), NEW z \in 1..MaxSessions
    PROVE  /\ \A i \in DOMAIN tree'[z] : \/ i \in DOMAIN tree[z] /\ tree'[z][i] = tree[z][i]
                                         \/ z = s /\ i = Len(tree[s]) + 1 /\ tree'[z][i] = x
           /\ DOMAIN tree[z] = 1..Len(tree[z]) /\ Len(tree[z]) \in Nat
           /\ DOMAIN tree[z] \subseteq DOMAIN tree'[z]
<1>1. tree[z] \in Seq(Node)
  BY DEF TypeInv
<1> HIDE DEF Node
<1>2. DOMAIN tree[z] = 1..Len(tree[z]) /\ Len(tree[z]) \in Nat
  BY <1>1
<1>3. CASE z = s
  <2>1. tree'[z] = Append(tree[z], x)
    BY <1>3 DEF Planted
  <2> PICK L : L = Len(tree[z])
    OBVIOUS
  <2>2. DOMAIN tree'[z] = 1..(L + 1) /\ \A i \in 1..(L + 1) : tree'[z][i] = IF i = L + 1 THEN x ELSE tree[z][i]
    BY <1>1, <2>1
  <2>3. \A i \in 1..(L + 1) : i = L + 1 \/ i \in 1..L
    BY <1>2
  <2>4. 1..L \subseteq 1..(L + 1) /\ L + 1 \notin 1..L
    BY <1>2
  <2> QED
    BY <1>2, <1>3, <2>2, <2>3, <2>4
<1>4. CASE z # s
  <2>1. tree'[z] = tree[z]
    BY <1>4 DEF Planted
  <2> QED
    BY <1>2, <2>1
<1> QED
  BY <1>3, <1>4

(* The user's prompts in a tree, and whether they are in order. *)
TreeSays(z) == {m \in asked : \E i \in DOMAIN tree[z] : tree[z][i].entry = MessageEntry(m)}
TreeRises(z) ==
    \A i, j \in DOMAIN tree[z] : \A m, n \in asked :
        i < j /\ tree[z][i].entry = MessageEntry(m) /\ tree[z][j].entry = MessageEntry(n) => m < n

(* The trees come before X. *)
Before(X) == \A z \in 1..MaxSessions : TreeRises(z) /\ Below(TreeSays(z), X)

(* What is on its way comes in this order. *)
LineInv ==
    /\ Rising(deferred_publishes, asked) /\ Rising(work, asked)
    /\ Below(Says(pending_intercept, asked), Says(deferred_publishes, asked))
    /\ Below(Says(pending_intercept, asked), Says(work, asked))
    /\ Below(Says(deferred_publishes, asked), Says(work, asked))

(* What is on its way, and what waits for its turn. *)
later == Says(pending_intercept, asked) \cup Says(deferred_publishes, asked) \cup Says(work, asked)

queue == conv[Default].pending_prompts

(* The history comes before what is on its way, and that before the queue. *)
OrderInv ==
    /\ LineInv
    /\ \A i, j \in DOMAIN queue : i < j => queue[i] < queue[j]
    /\ Below(later, Range(queue))
    /\ Before(later \cup Range(queue))

(* The prompts of the user that there are. *)
LEMMA AskedKeeps ==
    ASSUME TypeInv, messages' = messages \/ \E r \in Message : r.kind # "prompt" /\ messages' = Append(messages, r)
    PROVE  asked' = asked
<1>1. CASE messages' = messages
  BY <1>1 DEF asked
<1>2. ASSUME NEW r \in Message, r.kind # "prompt", messages' = Append(messages, r) PROVE asked' = asked
  <2>1. messages \in Seq(Message)
    BY DEF TypeInv
  <2> HIDE DEF Message
  <2> PICK L : L = Len(messages)
    OBVIOUS
  <2>2. /\ L \in Nat /\ DOMAIN messages = 1..L /\ DOMAIN messages' = 1..(L + 1)
        /\ \A i \in 1..L : messages'[i] = messages[i]
        /\ messages'[L + 1] = r
    BY <1>2, <2>1
  <2>3. \A i : i \in 1..(L + 1) <=> i \in 1..L \/ i = L + 1
    BY <2>2
  <2> QED
    BY <1>2, <2>2, <2>3 DEF asked
<1> QED
  BY <1>1, <1>2

(* What a commit puts in a tree comes after what is there. *)
LEMMA CommitOrders ==
    ASSUME TypeInv, NEW e \in GoodEvent(Len(prompts)), Fold(e), UNCHANGED messages, NEW X,
           Before(Says(<<e>>, asked) \cup X), Below(Says(<<e>>, asked), X)
    PROVE  Before(X)'
<1> SUFFICES ASSUME NEW z \in 1..MaxSessions PROVE TreeRises(z)' /\ Below(TreeSays(z)', X)
  BY DEF Before
<1>1. asked' = asked
  BY AskedKeeps
<1>2. TreeRises(z) /\ Below(TreeSays(z), Says(<<e>>, asked) \cup X)
  BY DEF Before
<1>3. CASE tree' = tree
  BY <1>1, <1>2, <1>3 DEF TreeRises, TreeSays, Below
<1>4. CASE tree' # tree
  <2>1. PICK s \in 1..MaxSessions, x \in Node :
            Planted(tree, s, x, tree') /\ x.entry = EntryOf(e) /\ e.kind \in UserKinds \cup {"response_finished", "tool_result"}
    BY <1>4, CommitPlants
  <2>2. ASSUME NEW m \in asked, x.entry = MessageEntry(m) PROVE m \in Says(<<e>>, asked)
    <3>1. e.kind \in UserKinds /\ e.of = m
      BY <2>1, <2>2 DEF EntryOf, MessageEntry, UserKinds
    <3> QED
      BY <3>1, SaysOfLists
  <2>3. /\ \A i \in DOMAIN tree'[z] : \/ i \in DOMAIN tree[z] /\ tree'[z][i] = tree[z][i]
                                      \/ z = s /\ i = Len(tree[s]) + 1 /\ tree'[z][i] = x
        /\ DOMAIN tree[z] = 1..Len(tree[z]) /\ Len(tree[z]) \in Nat
    BY <2>1, PlantedNodes
  <2> HIDE DEF Node
  <2>4. ASSUME NEW m \in TreeSays(z)' PROVE m \in TreeSays(z) \/ m \in Says(<<e>>, asked)
    <3>1. PICK i \in DOMAIN tree'[z] : m \in asked /\ tree'[z][i].entry = MessageEntry(m)
      BY <1>1 DEF TreeSays
    <3> QED
      BY <2>2, <2>3, <3>1 DEF TreeSays
  <2>5. Below(TreeSays(z)', X)
    BY <1>2, <2>4 DEF Below
  <2>6. ASSUME NEW i \in DOMAIN tree'[z], NEW j \in DOMAIN tree'[z], NEW m \in asked, NEW n \in asked, i < j,
               tree'[z][i].entry = MessageEntry(m), tree'[z][j].entry = MessageEntry(n)
        PROVE  m < n
    <3>1. CASE i \in DOMAIN tree[z] /\ tree'[z][i] = tree[z][i] /\ j \in DOMAIN tree[z] /\ tree'[z][j] = tree[z][j]
      BY <1>2, <2>6, <3>1 DEF TreeRises
    <3>2. CASE i \in DOMAIN tree[z] /\ tree'[z][i] = tree[z][i] /\ tree'[z][j] = x
      <4>1. m \in TreeSays(z) /\ n \in Says(<<e>>, asked)
        BY <2>2, <2>6, <3>2 DEF TreeSays
      <4> QED
        BY <1>2, <4>1 DEF Below
    <3>3. CASE z = s /\ i = Len(tree[s]) + 1
      <4>1. j \in 1..Len(tree[z]) \/ j = Len(tree[z]) + 1
        BY <2>3, <3>3
      <4> QED
        BY <2>3, <2>6, <3>3, <4>1
    <3> QED
      BY <2>3, <3>1, <3>2, <3>3
  <2> QED
    BY <1>1, <2>5, <2>6 DEF TreeRises
<1> QED
  BY <1>3, <1>4

(* What leaves the way, or a queue, takes nothing out of its order. *)
LEMMA ThinnerOrders ==
    ASSUME OrderInv, UNCHANGED tree, asked' = asked, queue' \in {queue, <<>>}, LineInv', later' \subseteq later
    PROVE  OrderInv'
<1>1. Range(queue') \subseteq Range(queue) /\ \A i, j \in DOMAIN queue' : i < j => queue'[i] < queue'[j]
  BY DEF OrderInv, Range
<1>2. Below(later', Range(queue'))
  BY <1>1 DEF OrderInv, Below
<1>3. \A z \in 1..MaxSessions : TreeRises(z)' /\ TreeSays(z)' = TreeSays(z)
  <2> TAKE z \in 1..MaxSessions
  <2>1. TreeRises(z)
    BY DEF OrderInv, Before
  <2>2. TreeRises(z)' = TreeRises(z)
    BY DEF TreeRises
  <2>3. TreeSays(z)' = TreeSays(z)
    BY DEF TreeSays
  <2> QED
    BY <2>1, <2>2, <2>3
<1>4. \A z \in 1..MaxSessions : Below(TreeSays(z), later' \cup Range(queue'))
  BY <1>1 DEF OrderInv, Before, Below
<1>5. Before(later \cup Range(queue))'
  BY <1>3, <1>4 DEF Before
<1> HIDE DEF LineInv, Before, Below, later, queue, Range
<1> QED
  BY <1>1, <1>2, <1>5 DEF OrderInv

(* What comes first on the way is the next in a history. *)
LEMMA CommittingOrders ==
    ASSUME TypeInv, OrderInv, NEW e \in GoodEvent(Len(prompts)), Fold(e), UNCHANGED messages, queue' = queue,
           LineInv', later' \cup Says(<<e>>, asked) \subseteq later, Below(Says(<<e>>, asked), later')
    PROVE  OrderInv'
<1>1. PICK X : X = later' \cup Range(queue)
  OBVIOUS
<1>2. Below(Says(<<e>>, asked), X)
  BY <1>1 DEF OrderInv, Below
<1>3. Before(Says(<<e>>, asked) \cup X)
  BY <1>1 DEF OrderInv, Before, Below
<1>4. Before(X)'
  BY <1>2, <1>3, CommitOrders
<1>5. Below(later', Range(queue'))
  BY DEF OrderInv, Below
<1>6. \A i, j \in DOMAIN queue' : i < j => queue'[i] < queue'[j]
  BY DEF OrderInv
<1>7. Before(later \cup Range(queue))'
  BY <1>1, <1>4
<1> HIDE DEF LineInv, Before, Below, later, queue, Range
<1> QED
  BY <1>5, <1>6, <1>7 DEF OrderInv

(* The order, for publish_event_for_conversation. *)
LEMMA PublishFlows ==
    ASSUME TypeInv, QuietInv, OrderInv, EnqueuePublish
    PROVE  OrderInv' /\ QuietInv'
<1>1. PICK e \in GoodEvent(Len(prompts)) :
            /\ e.kind = Head(work).kind /\ e.of = Head(work).of
            /\ \/ /\ pending_intercept # <<>>
                  /\ deferred_publishes' = Append(deferred_publishes, e)
                  /\ work' = Tail(work)
                  /\ UNCHANGED <<pending_intercept, tree>>
               \/ /\ pending_intercept = <<>>
                  /\ DispatchStep(e, Tail(work))
                  /\ UNCHANGED deferred_publishes
  BY PublishedEvent
<1>2. /\ work # <<>> /\ Head(work).op = "publish" /\ work \in Seq(Task) /\ Tail(work) \in Seq(Task)
      /\ deferred_publishes \in Seq(Task) /\ e \in Task
  BY PublishedEvent, GoodIsTask, HeadTypes
<1>3. UNCHANGED messages /\ queue' = queue /\ QueueInv' /\ asked' = asked
  BY PublishedEvent, PublishMoves, MovesKeepQueues, AskedKeeps DEF QuietInv, queue
<1> PICK A : A = asked
  OBVIOUS
<1> PICK P, D, W, R, E : /\ P = Says(pending_intercept, A) /\ D = Says(deferred_publishes, A)
                         /\ W = Says(work, A) /\ R = Says(Tail(work), A) /\ E = Says(<<e>>, A)
  OBVIOUS
<1>4. /\ W = E \cup R /\ Rising(Tail(work), A) /\ Below(E, R)
      /\ Rising(deferred_publishes, A) /\ Below(P, D) /\ Below(P, W) /\ Below(D, W)
  <2>1. Says(<<Head(work)>>, A) = E
    BY <1>1, SaysOfLists
  <2>2. /\ Says(work, A) = Says(<<Head(work)>>, A) \cup Says(Tail(work), A)
        /\ Rising(work, A) => Rising(Tail(work), A) /\ Below(Says(<<Head(work)>>, A), Says(Tail(work), A))
    BY <1>2, SaysTakes
  <2>3. Rising(work, A) /\ Rising(deferred_publishes, A) /\ Below(P, D) /\ Below(P, W) /\ Below(D, W)
    BY DEF OrderInv, LineInv
  <2> QED
    BY <2>1, <2>2, <2>3
<1>5. Tidy(Tail(work)) /\ Range(work) = {Head(work)} \cup Range(Tail(work))
  BY <1>2, TidyTakes, RangeOfWork DEF QuietInv
<1>6. pending_intercept = <<>> /\ deferred_publishes # <<>> =>
        /\ E = {}
        /\ \E t \in Range(Tail(work)) : t.op = "drain"
        /\ \A t \in Range(Tail(work)) : Drains(t)
  <2> SUFFICES ASSUME pending_intercept = <<>> /\ deferred_publishes # <<>>
               PROVE  /\ E = {}
                      /\ \E t \in Range(Tail(work)) : t.op = "drain"
                      /\ \A t \in Range(Tail(work)) : Drains(t)
    OBVIOUS
  <2>1. (\E t \in Range(work) : t.op = "drain") /\ \A t \in Range(work) : Drains(t)
    BY DEF QuietInv, DrainInv
  <2>2. Head(work).kind = "prompt_created"
    BY <1>2, <1>5, <2>1 DEF Drains
  <2>3. E = {}
    BY <1>1, <2>2, SaysOfLists DEF UserKinds
  <2> QED
    BY <1>2, <1>5, <2>1, <2>3
<1>7. Says(<<>>, A) = {} /\ (deferred_publishes = <<>> => D = {})
  BY SaysOfLists
<1>8. later = P \cup D \cup W /\ later' = Says(pending_intercept', A) \cup Says(deferred_publishes', A) \cup Says(work', A)
  BY <1>3 DEF later
<1>9. CASE pending_intercept # <<>>
  <2>1. deferred_publishes' = Append(deferred_publishes, e) /\ work' = Tail(work) /\ UNCHANGED <<pending_intercept, tree>>
    BY <1>1, <1>9
  <2>2. Below(D, E)
    BY <1>4 DEF Below
  <2>3. Says(deferred_publishes', A) = D \cup E /\ Rising(deferred_publishes', A)
    <3> HIDE DEF Task
    <3> QED
      BY <1>2, <1>4, <2>1, <2>2, SaysAppends
  <2>4. LineInv' /\ later' \subseteq later
    BY <1>3, <1>4, <1>8, <2>1, <2>3 DEF LineInv, Below
  <2>5. OrderInv'
    BY <1>3, <2>1, <2>4, ThinnerOrders
  <2>6. DrainInv'
    BY <1>9, <2>1 DEF DrainInv
  <2> QED
    BY <1>3, <1>5, <2>1, <2>5, <2>6 DEF QuietInv
<1>10. CASE pending_intercept = <<>> /\ Intercepts(e)
  <2>1. pending_intercept' = <<e>> /\ work' = Tail(work) /\ UNCHANGED <<deferred_publishes, tree>>
    BY <1>1, <1>10 DEF DispatchStep
  <2>2. Below(E, D)
    BY <1>6, <1>7, <1>10 DEF Below
  <2>3. LineInv' /\ later' \subseteq later
    BY <1>3, <1>4, <1>8, <2>1, <2>2 DEF LineInv, Below
  <2>4. OrderInv'
    BY <1>3, <2>1, <2>3, ThinnerOrders
  <2>5. DrainInv'
    BY <2>1 DEF DrainInv
  <2> QED
    BY <1>3, <1>5, <2>1, <2>4, <2>5 DEF QuietInv
<1>11. CASE pending_intercept = <<>> /\ ~Intercepts(e)
  <2>1. pending_intercept' = <<>> /\ Commit(e, Tail(work)) /\ UNCHANGED deferred_publishes
    BY <1>1, <1>11 DEF DispatchStep
  <2>2. PICK s \in Seq(Task) : Mute(s) /\ work' = s \o Tail(work) /\ \A t \in Range(s) : t.op = "send"
    BY <1>2, <2>1, CommitWork
  <2>3. /\ Range(work') = Range(s) \cup Range(Tail(work))
        /\ Says(work', A) = R /\ Rising(work', A) /\ Tidy(work')
    BY <1>2, <1>4, <1>5, <2>2, SendsFirst
  <2>4. Below(E, D)
    BY <1>6, <1>7, <1>11 DEF Below
  <2>5. LineInv' /\ later' \cup E \subseteq later /\ Below(E, later')
    BY <1>3, <1>4, <1>7, <1>8, <2>1, <2>3, <2>4 DEF LineInv, Below
  <2>6. OrderInv'
    BY <1>3, <2>1, <2>5, CommittingOrders DEF Commit
  <2>7. DrainInv'
    BY <1>6, <1>11, <2>1, <2>2, <2>3 DEF DrainInv, Drains
  <2> QED
    BY <1>3, <2>3, <2>6, <2>7 DEF QuietInv
<1> QED
  BY <1>9, <1>10, <1>11

(* The order, for drain_deferred_publishes. *)
LEMMA DrainFlows ==
    ASSUME TypeInv, QuietInv, OrderInv, DrainDeferred
    PROVE  OrderInv' /\ QuietInv'
<1>1. UNCHANGED messages /\ queue' = queue /\ QueueInv' /\ asked' = asked
  BY DrainMoves, MovesKeepQueues, AskedKeeps DEF QuietInv, queue, DrainDeferred
<1>2. work # <<>> /\ Head(work).op = "drain" /\ work \in Seq(Task) /\ Tail(work) \in Seq(Task)
      /\ deferred_publishes \in Seq(Task)
  BY GoodIsTask, HeadTypes DEF DrainDeferred, Doing
<1> PICK A : A = asked
  OBVIOUS
<1> PICK P, D, W : /\ P = Says(pending_intercept, A) /\ D = Says(deferred_publishes, A) /\ W = Says(work, A)
  OBVIOUS
<1>3. /\ Rising(work, A) /\ Rising(deferred_publishes, A) /\ Below(P, D) /\ Below(P, W) /\ Below(D, W)
  BY DEF OrderInv, LineInv
<1>4. later = P \cup D \cup W /\ later' = Says(pending_intercept', A) \cup Says(deferred_publishes', A) \cup Says(work', A)
  BY <1>1 DEF later
<1>5. CASE pending_intercept = <<>> /\ deferred_publishes # <<>>
  <2> PICK e : e = Head(deferred_publishes)
    OBVIOUS
  <2> PICK E, F : E = Says(<<e>>, A) /\ F = Says(Tail(deferred_publishes), A)
    OBVIOUS
  <2>1. deferred_publishes' = Tail(deferred_publishes) /\ DispatchStep(e, work)
    BY <1>5 DEF DrainDeferred
  <2>2. e \in GoodEvent(Len(prompts))
    <3>1. deferred_publishes \in Seq(GoodEvent(Len(prompts)))
      BY DEF TypeInv
    <3> HIDE DEF GoodEvent
    <3> QED
      BY <1>5, <3>1
  <2>3. D = E \cup F /\ Rising(Tail(deferred_publishes), A) /\ Below(E, F)
    BY <1>2, <1>3, <1>5, SaysTakes
  <2>4. (\E t \in Range(work) : t.op = "drain") /\ \A t \in Range(work) : Drains(t)
    BY <1>5 DEF QuietInv, DrainInv
  <2>5. CASE Intercepts(e)
    <3>1. pending_intercept' = <<e>> /\ work' = work /\ UNCHANGED tree
      BY <2>1, <2>5 DEF DispatchStep
    <3>2. LineInv' /\ later' \subseteq later
      BY <1>1, <1>3, <1>4, <2>1, <2>3, <3>1 DEF LineInv, Below
    <3>3. OrderInv'
      BY <1>1, <3>1, <3>2, ThinnerOrders
    <3>4. DrainInv'
      BY <3>1 DEF DrainInv
    <3> QED
      BY <1>1, <3>1, <3>3, <3>4 DEF QuietInv
  <2>6. CASE ~Intercepts(e)
    <3>1. pending_intercept' = <<>> /\ Commit(e, work)
      BY <2>1, <2>6 DEF DispatchStep
    <3>2. PICK s \in Seq(Task) : Mute(s) /\ work' = s \o work /\ \A t \in Range(s) : t.op = "send"
      BY <1>2, <3>1, CommitWork
    <3>3. /\ Range(work') = Range(s) \cup Range(work)
          /\ Says(work', A) = W /\ Rising(work', A) /\ Tidy(work')
      BY <1>2, <1>3, <3>2, SendsFirst DEF QuietInv
    <3>4. Says(<<>>, A) = {}
      BY SaysOfLists
    <3>5. LineInv' /\ later' \cup E \subseteq later /\ Below(E, later')
      BY <1>1, <1>3, <1>4, <2>1, <2>3, <3>1, <3>3, <3>4 DEF LineInv, Below
    <3>6. OrderInv'
      BY <1>1, <2>2, <3>1, <3>5, CommittingOrders DEF Commit
    <3>7. DrainInv'
      BY <2>4, <3>2, <3>3 DEF DrainInv, Drains
    <3> QED
      BY <1>1, <3>3, <3>6, <3>7 DEF QuietInv
  <2> QED
    BY <2>5, <2>6
<1>6. CASE ~(pending_intercept = <<>> /\ deferred_publishes # <<>>)
  <2>1. Then(<<>>) /\ UNCHANGED <<pending_intercept, deferred_publishes, tree>>
    BY <1>6 DEF DrainDeferred
  <2>2. work' = Tail(work)
    <3>1. work' = <<>> \o Tail(work)
      BY <2>1 DEF Then
    <3> HIDE DEF Task
    <3> QED
      BY <1>2, <3>1
  <2>3. Says(work', A) \subseteq W /\ Rising(work', A) /\ Tidy(work')
    BY <1>2, <1>3, <2>2, SaysTakes, TidyTakes DEF QuietInv
  <2>4. LineInv' /\ later' \subseteq later
    BY <1>1, <1>3, <1>4, <2>1, <2>3 DEF LineInv, Below
  <2>5. OrderInv'
    BY <1>1, <2>1, <2>4, ThinnerOrders
  <2>6. DrainInv'
    BY <1>6, <2>1 DEF DrainInv
  <2> QED
    BY <1>1, <2>3, <2>5, <2>6 DEF QuietInv
<1> QED
  BY <1>5, <1>6

(* The order, for handle_intercept_reply and an interceptor that disconnects. *)
LEMMA InterceptFlows ==
    ASSUME TypeInv, QuietInv, OrderInv, InterceptReply \/ InterceptorGone
    PROVE  OrderInv' /\ QuietInv'
<1>1. UNCHANGED messages /\ queue' = queue /\ QueueInv' /\ asked' = asked /\ Idle
      /\ UNCHANGED deferred_publishes
  BY ReplyMoves, InterceptorGoneMoves, MovesKeepQueues, AskedKeeps DEF QuietInv, queue, InterceptReply, InterceptorGone
<1>2. CASE pending_intercept = <<>>
  <2>1. UNCHANGED <<tree, pending_intercept, work>>
    BY <1>2 DEF InterceptReply, InterceptorGone
  <2>2. LineInv' /\ later' = later
    BY <1>1, <2>1 DEF OrderInv, LineInv, later
  <2>3. OrderInv'
    BY <1>1, <2>1, <2>2, ThinnerOrders
  <2> QED
    BY <1>1, <2>1, <2>3 DEF QuietInv, DrainInv
<1>3. CASE pending_intercept # <<>>
  <2> PICK e, d : e = Head(pending_intercept) /\ d = Do("drain", None, 0)
    OBVIOUS
  <2>1. pending_intercept' = <<>> /\ Commit(e, <<d>>)
    BY <1>3 DEF InterceptReply, InterceptorGone
  <2>2. pending_intercept = <<e>> /\ e \in GoodEvent(Len(prompts))
    <3>1. pending_intercept \in Seq(GoodEvent(Len(prompts))) /\ Len(pending_intercept) <= 1
      BY DEF TypeInv
    <3> PICK q, G : q = pending_intercept /\ G = GoodEvent(Len(prompts))
      OBVIOUS
    <3>2. q \in Seq(G) /\ Len(q) <= 1 /\ q # <<>>
      BY <1>3, <3>1
    <3>3. Len(q) = 1
      <4>1. Len(q) \in Nat /\ DOMAIN q = 1..Len(q)
        BY <3>2
      <4>2. Len(q) = 0 => q = <<>>
        BY <3>2
      <4> QED
        BY <3>2, <4>1, <4>2
    <3>4. q = <<Head(q)>> /\ Head(q) \in G
      BY <3>2, <3>3
    <3> QED
      BY <3>4
  <2>3. d \in Task /\ d.op = "drain" /\ d.kind \notin UserKinds
    <3>1. d \in Task
      BY LengthTypes, DoTypes, GoodIsTask
    <3>2. d.op = "drain" /\ d.kind \notin UserKinds
      BY DEF Do, UserKinds
    <3> QED
      BY <3>1, <3>2
  <2>4. <<d>> \in Seq(Task) /\ Range(<<d>>) = {d} /\ Mute(<<d>>)
    <3> HIDE DEF Task
    <3> QED
      BY <2>3, TidyLists, RangeOfLists
  <2>5. PICK s \in Seq(Task) : Mute(s) /\ work' = s \o <<d>> /\ \A t \in Range(s) : t.op = "send"
    BY <2>1, <2>4, CommitWork
  <2> PICK A : A = asked
    OBVIOUS
  <2>6. Says(<<d>>, A) = {} /\ Rising(<<d>>, A) /\ Tidy(<<d>>) /\ Says(<<>>, A) = {}
    BY <2>4, MuteSays, MuteIsTidy, SaysOfLists
  <2>7. /\ Range(work') = Range(s) \cup {d}
        /\ Says(work', A) = {} /\ Rising(work', A) /\ Tidy(work')
    BY <2>4, <2>5, <2>6, SendsFirst
  <2>8. LineInv' /\ later' \cup Says(<<e>>, A) \subseteq later /\ Below(Says(<<e>>, A), later')
    BY <1>1, <2>1, <2>2, <2>6, <2>7 DEF OrderInv, LineInv, later, Below
  <2>9. OrderInv'
    BY <1>1, <2>1, <2>2, <2>8, CommittingOrders DEF Commit
  <2>10. DrainInv'
    BY <2>3, <2>5, <2>7 DEF DrainInv, Drains
  <2> QED
    BY <1>1, <2>7, <2>9, <2>10 DEF QuietInv
<1> QED
  BY <1>2, <1>3

(* The order, for a steady step. *)
LEMMA SteadyFlows ==
    ASSUME TypeInv, QuietInv, OrderInv, Steady
    PROVE  OrderInv' /\ QuietInv'
<1>1. PICK tasks, rest \in Seq(Task) : Steadily(tasks, rest)
  BY DEF Steady
<1>2. asked' = asked
  BY AskedKeeps DEF Steady
<1>3. UNCHANGED <<tree, pending_intercept, deferred_publishes>> /\ queue' \in {queue, <<>>}
  BY DEF Steady, queue
<1> PICK A : A = asked
  OBVIOUS
<1>4. Says(tasks, A) = {} /\ Rising(tasks, A)
  <2>1. \A t \in Range(tasks) : t.kind \in UserKinds => t.of \notin A
    BY <1>1 DEF Steadily
  <2> QED
    BY <2>1 DEF Says, Rising, Range
<1>5. Says(rest, A) \subseteq Says(work, A) /\ Rising(rest, A)
  <2>1. Rising(work, A)
    BY DEF OrderInv, LineInv
  <2>2. CASE rest = work
    BY <2>1, <2>2
  <2>3. CASE work # <<>> /\ rest = Tail(work)
    <3>1. work \in Seq(Task)
      BY GoodIsTask
    <3> QED
      BY <2>1, <2>3, <3>1, SaysTakes
  <2> QED
    BY <1>1, <2>2, <2>3 DEF Steadily
<1>6. Says(work', A) \subseteq Says(work, A) /\ Rising(work', A)
  <2>1. work' = tasks \o rest
    BY <1>1 DEF Steadily
  <2>2. Says(tasks \o rest, A) = Says(tasks, A) \cup Says(rest, A)
    BY SaysJoins
  <2>3. Rising(tasks \o rest, A)
    BY <1>4, <1>5, RisingJoins DEF Below
  <2> QED
    BY <1>4, <1>5, <2>1, <2>2, <2>3
<1>7. LineInv' /\ later' \subseteq later
  BY <1>2, <1>3, <1>6 DEF OrderInv, LineInv, later, Below
<1>8. OrderInv'
  BY <1>2, <1>3, <1>7, ThinnerOrders
<1> QED
  BY <1>8, SteadyDrains DEF QuietInv, Steady

(* Messages are conserved, and come in the order they were submitted. *)
FlowInv == CountInv /\ QuietInv /\ OrderInv

(* What is on its way may come from a queue. *)
LEMMA RegroupedOrders ==
    ASSUME OrderInv, UNCHANGED <<tree, pending_intercept, deferred_publishes>>, asked' = asked,
           Rising(work', asked), Says(work', asked) \subseteq Says(work, asked) \cup Range(queue),
           Range(queue') \subseteq Range(queue), Below(Says(work', asked), Range(queue')),
           \A i, j \in DOMAIN queue' : i < j => queue'[i] < queue'[j]
    PROVE  OrderInv'
<1>1. LineInv'
  <2>1. Below(Says(pending_intercept, asked), Says(work', asked))
    BY DEF OrderInv, LineInv, later, Below
  <2>2. Below(Says(deferred_publishes, asked), Says(work', asked))
    BY DEF OrderInv, LineInv, later, Below
  <2> QED
    BY <2>1, <2>2 DEF OrderInv, LineInv
<1>2. Below(later', Range(queue'))
  BY DEF OrderInv, later, Below
<1>3. ASSUME NEW z \in 1..MaxSessions PROVE TreeRises(z)' /\ Below(TreeSays(z)', later' \cup Range(queue'))
  <2>1. TreeRises(z) /\ Below(TreeSays(z), later \cup Range(queue))
    BY DEF OrderInv, Before
  <2>2. TreeRises(z)' = TreeRises(z)
    BY DEF TreeRises
  <2>3. TreeSays(z)' = TreeSays(z)
    BY DEF TreeSays
  <2>4. later' \cup Range(queue') \subseteq later \cup Range(queue)
    BY DEF later
  <2> QED
    BY <2>1, <2>2, <2>3, <2>4 DEF Below
<1>4. Before(later \cup Range(queue))'
  BY <1>3 DEF Before
<1> HIDE DEF LineInv, Before, Below, later, queue, Range
<1> QED
  BY <1>1, <1>2, <1>4 DEF OrderInv

(* The next in the queue. *)
LEMMA HeadOfQueue ==
    ASSUME NEW q \in Seq(Nat), q # <<>>, \A i, j \in DOMAIN q : i < j => q[i] < q[j]
    PROVE  /\ Head(q) \in Nat /\ Tail(q) \in Seq(Nat)
           /\ Head(q) \in Range(q) /\ Range(Tail(q)) \subseteq Range(q)
           /\ Below({Head(q)}, Range(Tail(q)))
           /\ \A i, j \in DOMAIN Tail(q) : i < j => Tail(q)[i] < Tail(q)[j]
<1> PICK L : L = Len(q)
  OBVIOUS
<1>1. /\ L \in Nat \ {0} /\ DOMAIN q = 1..L /\ Head(q) = q[1] /\ DOMAIN Tail(q) = 1..(L - 1)
      /\ \A i \in 1..(L - 1) : Tail(q)[i] = q[i + 1]
      /\ Head(q) \in Nat /\ Tail(q) \in Seq(Nat)
  OBVIOUS
<1>2. \A i \in 1..(L - 1) : i + 1 \in 1..L /\ 1 < i + 1
  BY <1>1
<1>3. 1 \in 1..L
  BY <1>1
<1>4. Head(q) \in Range(q) /\ Range(Tail(q)) \subseteq Range(q)
  BY <1>1, <1>2, <1>3 DEF Range
<1>5. ASSUME NEW y \in Range(Tail(q)) PROVE Head(q) < y
  <2>1. PICK i \in 1..(L - 1) : y = q[i + 1]
    BY <1>1 DEF Range
  <2> QED
    BY <1>1, <1>2, <1>3, <2>1
<1>6. ASSUME NEW i \in 1..(L - 1), NEW j \in 1..(L - 1), i < j PROVE Tail(q)[i] < Tail(q)[j]
  <2>1. i + 1 \in 1..L /\ j + 1 \in 1..L /\ i + 1 < j + 1
    BY <1>1, <1>6
  <2> QED
    BY <1>1, <2>1
<1> QED
  BY <1>1, <1>4, <1>5, <1>6 DEF Below

(* A publish of message m and a dispatch. *)
Dispatched(c, m, s) == <<Publish("prompt_submitted", c, m, s), Do("dispatch", c, 0)>>

(* What a dispatch says. *)
LEMMA DispatchSays ==
    ASSUME NEW c \in Convs, NEW m \in Nat, NEW s \in Nat
    PROVE  /\ Dispatched(c, m, s) \in Seq(Task) /\ Tidy(Dispatched(c, m, s))
           /\ \A x \in Range(Dispatched(c, m, s)) : x.op \notin Looks
           /\ \A A : Rising(Dispatched(c, m, s), A) /\ Says(Dispatched(c, m, s), A) \subseteq {m}
           /\ \A k \in Nat : Count(Dispatched(c, m, s), About(k)) = IF k = m THEN 1 ELSE 0
<1> PICK tasks : tasks = Dispatched(c, m, s)
  OBVIOUS
<1>0. tasks = <<Publish("prompt_submitted", c, m, s), Do("dispatch", c, 0)>>
  BY DEF Dispatched
<1> PICK a, b : a = Publish("prompt_submitted", c, m, s) /\ b = Do("dispatch", c, 0)
  OBVIOUS
<1>1. a \in Task /\ a.op = "publish" /\ a.kind \in UserKinds /\ a.of = m
  BY DEF Task, Event, Publish, Kinds, UserKinds
<1>2. b \in Task /\ b.op = "dispatch" /\ b.kind \notin UserKinds
  BY DEF Task, Do, UserKinds
<1>3. tasks \in Seq(Task) /\ Range(tasks) = {a, b} /\ Tidy(tasks)
  <2> HIDE DEF Task
  <2> QED
    BY <1>0, <1>1, <1>2, TidyLists, RangeOfLists
<1>4. ASSUME NEW A PROVE Rising(tasks, A) /\ Says(tasks, A) \subseteq {m}
  <2>1. Says(tasks, A) \subseteq {m}
    BY <1>1, <1>2, <1>3 DEF Says
  <2>2. DOMAIN tasks = {1, 2} /\ tasks[1] = a /\ tasks[2] = b
    BY <1>0
  <2>3. Rising(tasks, A)
    BY <1>2, <2>2 DEF Rising
  <2> QED
    BY <2>1, <2>3
<1>5. ASSUME NEW k \in Nat PROVE Count(tasks, About(k)) = IF k = m THEN 1 ELSE 0
  <2>1. b \notin About(k) /\ (a \in About(k) <=> k = m)
    BY <1>1, <1>2, AboutTasks
  <2>2. Count(<<a, b>>, About(k)) = IF a \in About(k) THEN 1 ELSE 0
    BY <2>1, CountOfLists
  <2> QED
    BY <1>0, <2>1, <2>2
<1> QED
  BY <1>1, <1>2, <1>3, <1>4, <1>5 DEF Looks

(* A dispatch says one message once. *)
LEMMA DispatchOnce ==
    ASSUME NEW c \in Convs, NEW m \in Nat, NEW s \in Nat, NEW k \in Nat
    PROVE  Count(Dispatched(c, m, s), About(k)) = IF k = m THEN 1 ELSE 0
BY DispatchSays

(* try_advance_queue sends the next in the queue on its way. *)
LEMMA AdvanceFlows ==
    ASSUME TypeInv, TypeInv', FlowInv, TryAdvanceQueue PROVE FlowInv'
<1>1. CASE ~(GateOpen /\ Runnable # {})
  BY <1>1, IdleQueueSteady, SteadyCounts, SteadyFlows DEF FlowInv
<1>2. CASE GateOpen /\ Runnable # {}
  <2>1. PICK c \in Runnable : /\ conv' = [conv EXCEPT ![c].pending_prompts = Tail(@)]
                              /\ work' = Dispatch(c, Head(conv[c].pending_prompts)) \o work
    BY <1>2 DEF TryAdvanceQueue
  <2>2. /\ work # <<>> /\ Head(work).op = "advance" /\ session \in Nat
        /\ UNCHANGED <<tree, pending_intercept, deferred_publishes, messages, discarded>>
    BY DEF TryAdvanceQueue, Doing, pipe, gone, TypeInv
  <2>3. c = Default /\ Default \in Convs /\ queue # <<>>
    BY <2>1 DEF Runnable, FlowInv, QuietInv, QueueInv, TypeInv, queue, Convs
  <2> PICK m : m = Head(queue)
    OBVIOUS
  <2>4. queue \in Seq(Nat)
    BY GoodIsTask DEF queue
  <2>5. /\ m \in Nat /\ Tail(queue) \in Seq(Nat)
        /\ m \in Range(queue) /\ Range(Tail(queue)) \subseteq Range(queue)
        /\ Below({m}, Range(Tail(queue)))
        /\ \A i, j \in DOMAIN Tail(queue) : i < j => Tail(queue)[i] < Tail(queue)[j]
    <3> PICK q : q = queue
      OBVIOUS
    <3>1. q \in Seq(Nat) /\ q # <<>> /\ \A i, j \in DOMAIN q : i < j => q[i] < q[j]
      BY <2>3, <2>4 DEF FlowInv, OrderInv
    <3>2. /\ Head(q) \in Nat /\ Tail(q) \in Seq(Nat)
          /\ Head(q) \in Range(q) /\ Range(Tail(q)) \subseteq Range(q)
          /\ Below({Head(q)}, Range(Tail(q)))
          /\ \A i, j \in DOMAIN Tail(q) : i < j => Tail(q)[i] < Tail(q)[j]
      BY <3>1, HeadOfQueue
    <3> QED
      BY <3>2
  <2>6. queue' = Tail(queue) /\ \A d \in Convs \ {Default} : conv'[d].pending_prompts = conv[d].pending_prompts
    <3>1. conv \in [Convs -> GoodConversation(Len(prompts), Len(messages))]
      BY DEF TypeInv
    <3>2. conv' = [conv EXCEPT ![Default].pending_prompts = Tail(conv[Default].pending_prompts)]
      BY <2>1, <2>3
    <3>3. conv[Default] \in GoodConversation(Len(prompts), Len(messages))
      BY <2>3, <3>1
    <3>4. conv'[Default].pending_prompts = Tail(conv[Default].pending_prompts)
      BY <2>3, <3>1, <3>2, <3>3 DEF GoodConversation
    <3> HIDE DEF GoodConversation
    <3> QED
      BY <3>1, <3>2, <3>4 DEF queue
  <2> PICK tasks : tasks = Dispatched(Default, m, session)
    OBVIOUS
  <2>7. work' = tasks \o work /\ work \in Seq(Task)
    BY <2>1, <2>3, GoodIsTask DEF Dispatch, Dispatched, queue
  <2>8. /\ tasks \in Seq(Task) /\ Tidy(tasks) /\ \A x \in Range(tasks) : x.op \notin Looks
        /\ \A A : Rising(tasks, A) /\ Says(tasks, A) \subseteq {m}
        /\ \A k \in Nat : Count(tasks, About(k)) = IF k = m THEN 1 ELSE 0
    <3> PICK n : n = session
      OBVIOUS
    <3>1. n \in Nat /\ m \in Nat /\ Default \in Convs
      BY <2>2, <2>3, <2>5
    <3>2. tasks = Dispatched(Default, m, n)
      OBVIOUS
    <3>3. /\ Dispatched(Default, m, n) \in Seq(Task) /\ Tidy(Dispatched(Default, m, n))
          /\ \A x \in Range(Dispatched(Default, m, n)) : x.op \notin Looks
          /\ \A A : Rising(Dispatched(Default, m, n), A) /\ Says(Dispatched(Default, m, n), A) \subseteq {m}
          /\ \A k \in Nat : Count(Dispatched(Default, m, n), About(k)) = IF k = m THEN 1 ELSE 0
      <4>1. Dispatched(Default, m, n) \in Seq(Task) /\ Tidy(Dispatched(Default, m, n))
        BY <3>1, DispatchSays
      <4>2. \A x \in Range(Dispatched(Default, m, n)) : x.op \notin Looks
        BY <3>1, DispatchSays
      <4>3. ASSUME NEW A PROVE Rising(Dispatched(Default, m, n), A) /\ Says(Dispatched(Default, m, n), A) \subseteq {m}
        BY <3>1, DispatchSays
      <4>4. ASSUME NEW k \in Nat PROVE Count(Dispatched(Default, m, n), About(k)) = IF k = m THEN 1 ELSE 0
        BY <3>1, DispatchOnce
      <4> QED
        BY <4>1, <4>2, <4>3, <4>4
    <3> QED
      BY <3>2, <3>3
  <2>9. CountInv'
    <3>1. ASSUME NEW k \in Nat
          PROVE  Count(tasks, About(k)) + Count(conv'[Default].pending_prompts, {k}) + Given(k)' + Born(k)
                    = Count(conv[Default].pending_prompts, {k}) + Given(k) + Born(k)'
      <4>1. Given(k)' = Given(k) /\ Born(k)' = Born(k) /\ Given(k) \in Nat /\ Born(k) \in Nat
        BY <2>2 DEF Given, Born
      <4>2. Count(queue, {k}) = (IF m \in {k} THEN 1 ELSE 0) + Count(Tail(queue), {k})
        BY <2>3, <2>4, CountTakes
      <4>3. Count(Tail(queue), {k}) \in Nat
        BY <2>5, CountIsNat
      <4> PICK N, Q, R : N = Count(tasks, About(k)) /\ Q = Count(queue, {k}) /\ R = Count(Tail(queue), {k})
        OBVIOUS
      <4>4. N + R = Q /\ R \in Nat
        BY <2>8, <4>2, <4>3
      <4>5. Count(conv'[Default].pending_prompts, {k}) = R /\ Count(conv[Default].pending_prompts, {k}) = Q
        BY <2>6 DEF queue
      <4> QED
        BY <4>1, <4>4, <4>5
    <3> QED
      BY <2>2, <2>7, <2>8, <3>1, BalanceCounts DEF FlowInv
  <2>10. ~(pending_intercept = <<>> /\ deferred_publishes # <<>>)
    BY <2>2, NotDraining DEF FlowInv, QuietInv
  <2>11. Tidy(work) /\ Mute(work)
    <3>1. Tidy(work)
      BY DEF FlowInv, QuietInv
    <3>2. Mute(Tail(work)) /\ Head(work) \in Task
      BY <2>2, <2>7, <3>1, TidyTakes, HeadTypes, GoodIsTask DEF Looks
    <3>3. Head(work).kind \notin UserKinds
      BY <2>2, <3>2, AboutTasks
    <3>4. Range(work) = {Head(work)} \cup Range(Tail(work))
      BY <2>2, RangeOfWork
    <3> QED
      BY <3>1, <3>2, <3>3, <3>4 DEF Mute
  <2>12. Tidy(work')
    BY <2>7, <2>8, <2>11, TidyJoins
  <2>13. QuietInv'
    BY <2>2, <2>6, <2>10, <2>12 DEF FlowInv, QuietInv, QueueInv, DrainInv
  <2>14. asked' = asked
    BY <2>2, AskedKeeps
  <2>15. Says(work', asked) \subseteq {m} /\ Rising(work', asked)
    <3> PICK A : A = asked
      OBVIOUS
    <3>1. Says(work, A) = {} /\ Rising(work, A)
      BY <2>11, MuteSays
    <3>2. Says(tasks \o work, A) = Says(tasks, A) \cup Says(work, A)
      <4>1. tasks \in Seq(Task) /\ work \in Seq(Task)
        BY <2>7, <2>8
      <4> QED
        BY ONLY <4>1, SaysJoins
    <3>3. Rising(tasks, A) /\ Below(Says(tasks, A), Says(work, A))
      BY <2>8, <3>1 DEF Below
    <3>4. Rising(tasks \o work, A)
      BY <2>7, <2>8, <3>1, <3>3, RisingJoins
    <3> QED
      BY <2>7, <2>8, <3>1, <3>2, <3>4
  <2>16. OrderInv'
    <3>1. /\ Says(work', asked) \subseteq Says(work, asked) \cup Range(queue)
          /\ Range(queue') \subseteq Range(queue) /\ Below(Says(work', asked), Range(queue'))
          /\ \A i, j \in DOMAIN queue' : i < j => queue'[i] < queue'[j]
      BY <2>5, <2>6, <2>15 DEF Below
    <3> QED
      BY <2>2, <2>14, <2>15, <3>1, RegroupedOrders DEF FlowInv
  <2> QED
    BY <2>9, <2>13, <2>16 DEF FlowInv
<1> QED
  BY <1>1, <1>2

(* The queue, folded as steered. *)
LEMMA SteeredQueue ==
    ASSUME TypeInv
    PROVE  /\ Steered(Default) \in Seq(Task) /\ DOMAIN Steered(Default) = DOMAIN queue
           /\ \A i \in DOMAIN queue : /\ Steered(Default)[i].kind = "steered" /\ Steered(Default)[i].of = queue[i]
                                      /\ Steered(Default)[i].op = "publish"
<1>1. queue \in Seq(Nat) /\ session \in Nat /\ Default \in Convs
  BY GoodIsTask DEF queue, TypeInv, Convs
<1>2. Steered(Default) = [i \in DOMAIN queue |-> Publish("steered", Default, queue[i], session)]
  BY DEF Steered, queue
<1>3. \A n \in Nat : /\ Publish("steered", Default, n, session) \in Task
                     /\ Publish("steered", Default, n, session).kind = "steered"
                     /\ Publish("steered", Default, n, session).of = n
                     /\ Publish("steered", Default, n, session).op = "publish"
  BY <1>1 DEF Task, Event, Publish, Kinds, UserKinds
<1> PICK q, s : q = queue /\ s = Steered(Default)
  OBVIOUS
<1>4. q \in Seq(Nat) /\ DOMAIN q = 1..Len(q) /\ Len(q) \in Nat /\ \A i \in DOMAIN q : q[i] \in Nat
  BY <1>1
<1> HIDE DEF Task, Publish
<1>5. DOMAIN s = 1..Len(q) /\ \A i \in 1..Len(q) : s[i] \in Task
  BY <1>2, <1>3, <1>4
<1>6. s \in Seq(Task)
  BY <1>2, <1>4, <1>5
<1>7. \A i \in DOMAIN q : s[i].kind = "steered" /\ s[i].of = q[i] /\ s[i].op = "publish"
  BY <1>2, <1>3, <1>4
<1> QED
  BY <1>4, <1>5, <1>6, <1>7

(* What the folded queue says. *)
LEMMA SteeredSays ==
    ASSUME TypeInv, \A i, j \in DOMAIN queue : i < j => queue[i] < queue[j]
    PROVE  /\ \A A : Rising(Steered(Default), A) /\ Says(Steered(Default), A) \subseteq Range(queue)
           /\ \A x \in Range(Steered(Default)) : x.op = "publish"
           /\ \A k : Count(Steered(Default), About(k)) = Count(queue, {k})
<1> PICK q, s : q = queue /\ s = Steered(Default)
  OBVIOUS
<1>1. /\ s \in Seq(Task) /\ DOMAIN s = DOMAIN q
      /\ \A i \in DOMAIN q : s[i].kind = "steered" /\ s[i].of = q[i] /\ s[i].op = "publish"
      /\ \A i, j \in DOMAIN q : i < j => q[i] < q[j]
  BY SteeredQueue
<1>2. \A i \in DOMAIN q : s[i] \in Task
  <2> HIDE DEF Task
  <2> QED
    BY <1>1
<1>3. ASSUME NEW A PROVE Rising(s, A) /\ Says(s, A) \subseteq Range(q)
  BY <1>1 DEF Rising, Says, Range
<1>4. \A x \in Range(s) : x.op = "publish"
  BY <1>1 DEF Range
<1>5. ASSUME NEW k PROVE Count(s, About(k)) = Count(q, {k})
  <2>1. \A i \in DOMAIN q : s[i] \in About(k) <=> q[i] \in {k}
    BY <1>1, <1>2, AboutTasks DEF UserKinds
  <2>2. Hits(s, About(k)) = Hits(q, {k})
    BY <1>1, <2>1 DEF Hits
  <2> QED
    BY <2>2 DEF Count
<1> QED
  BY <1>3, <1>4, <1>5

(* maybe_complete_agent_turn folds the queue into the turn. *)
LEMMA CompleteFlows ==
    ASSUME TypeInv, TypeInv', FlowInv, MaybeCompleteTurn, Completes PROVE FlowInv'
<1> PICK c : c = Head(work).conv
  OBVIOUS
<1> PICK b, tasks : b = Do("dispatch", c, 0) /\ tasks = Append(Steered(c), b)
  OBVIOUS
<1>1. /\ work # <<>> /\ Head(work).op = "turn" /\ Then(tasks)
      /\ conv' = [conv EXCEPT ![c].turn_state = "idle", ![c].remaining_calls = {}, ![c].pending_prompts = <<>>]
      /\ UNCHANGED <<tree, pending_intercept, deferred_publishes, messages, discarded>>
  BY DEF MaybeCompleteTurn, Completes, Doing, pipe, gone
<1>2. c \in Convs /\ Default \in Convs
  BY <1>1, HeadTypes DEF Convs
<1>3. b \in Task /\ b.op = "dispatch" /\ b.kind \notin UserKinds
  BY <1>2 DEF Task, Do, UserKinds
<1>4. conv'[c].pending_prompts = <<>> /\ \A d \in Convs \ {c} : conv'[d].pending_prompts = conv[d].pending_prompts
  <2>1. conv \in [Convs -> GoodConversation(Len(prompts), Len(messages))]
    BY DEF TypeInv
  <2>2. conv[c] \in GoodConversation(Len(prompts), Len(messages))
    BY <1>2, <2>1
  <2>3. conv'[c].pending_prompts = <<>>
    BY <1>1, <1>2, <2>1, <2>2 DEF GoodConversation
  <2> HIDE DEF GoodConversation
  <2> QED
    BY <1>1, <2>1, <2>3
<1>5. CASE c # Default
  <2>1. conv[c].pending_prompts = <<>>
    BY <1>2, <1>5 DEF FlowInv, QuietInv, QueueInv
  <2>2. tasks = <<b>>
    <3>1. Steered(c) = <<>>
      BY <2>1 DEF Steered
    <3>2. tasks = Append(<<>>, b)
      BY <3>1
    <3>3. Append(<<>>, b) = <<b>>
      BY ONLY TRUE
    <3> QED
      BY <3>2, <3>3
  <2>3. tasks \in Seq(Task) /\ Mute(tasks) /\ Range(tasks) = {b}
    <3>1. <<b>> \in Seq(Task)
      BY ONLY <1>3
    <3>2. Mute(<<b>>)
      BY ONLY <1>3, TidyLists
    <3>3. Range(<<b>>) = {b}
      BY ONLY RangeOfLists
    <3> QED
      BY <2>2, <3>1, <3>2, <3>3
  <2>4. \A t \in Range(tasks) : t.op \notin Looks
    BY <1>3, <2>3 DEF Looks
  <2>5. \A d \in Convs : conv'[d].pending_prompts = conv[d].pending_prompts
    BY <1>4, <2>1
  <2>6. Head(work).op \notin {"publish", "drain", "send"}
    BY <1>1
  <2>7. Steady
    BY <1>1, <2>3, <2>4, <2>5, <2>6, HandlerSteady DEF FlowInv, QuietInv
  <2> QED
    BY <2>7, SteadyCounts, SteadyFlows DEF FlowInv
<1>6. CASE c = Default
  <2> PICK s : s = Steered(Default)
    OBVIOUS
  <2>1. s \in Seq(Task)
    BY SteeredQueue
  <2>2. /\ \A A : Rising(s, A) /\ Says(s, A) \subseteq Range(queue)
        /\ \A x \in Range(s) : x.op = "publish"
        /\ \A k : Count(s, About(k)) = Count(queue, {k})
    <3>1. \A i, j \in DOMAIN queue : i < j => queue[i] < queue[j]
      BY DEF FlowInv, OrderInv
    <3> QED
      BY <3>1, SteeredSays
  <2>3. work \in Seq(Task) /\ Tail(work) \in Seq(Task) /\ work' = tasks \o Tail(work)
    BY <1>1, GoodIsTask, HeadTypes DEF Then
  <2>4. tasks = s \o <<b>> /\ tasks \in Seq(Task) /\ <<b>> \in Seq(Task) /\ Range(tasks) = Range(s) \cup {b} /\ Mute(<<b>>)
    <3> HIDE DEF Task
    <3>1. tasks = s \o <<b>> /\ <<b>> \in Seq(Task) /\ tasks \in Seq(Task) /\ Range(<<b>>) = {b} /\ Mute(<<b>>)
      BY <1>3, <1>6, <2>1, TidyLists, RangeOfLists
    <3>2. \A x, y \in Seq(Task) : Range(x \o y) = Range(x) \cup Range(y)
      BY RangeOfParts
    <3> QED
      BY <2>1, <3>1, <3>2
  <2>5. queue' = <<>> /\ \A d \in Convs \ {Default} : conv'[d].pending_prompts = conv[d].pending_prompts
    BY <1>4, <1>6 DEF queue
  <2>6. CountInv'
    <3>1. ASSUME NEW k \in Nat
          PROVE  Count(tasks, About(k)) + Count(conv'[Default].pending_prompts, {k}) + Given(k)' + Born(k)
                    = Count(conv[Default].pending_prompts, {k}) + Given(k) + Born(k)'
      <4>1. Given(k)' = Given(k) /\ Born(k)' = Born(k) /\ Given(k) \in Nat /\ Born(k) \in Nat
        BY <1>1 DEF Given, Born
      <4>2. Count(tasks, About(k)) = Count(s, About(k)) + Count(<<b>>, About(k))
        BY <2>1, <2>4, CountJoins
      <4>3. Count(<<b>>, About(k)) = 0
        BY <2>4, MuteCounts
      <4>4. Count(s, About(k)) \in Nat
        BY <2>1, CountIsNat
      <4>5. Count(conv'[Default].pending_prompts, {k}) = 0
        BY <2>5, CountOfOne DEF queue
      <4>6. Count(conv[Default].pending_prompts, {k}) = Count(s, About(k))
        BY <2>2 DEF queue
      <4> QED
        BY <4>1, <4>2, <4>3, <4>4, <4>5, <4>6
    <3> QED
      BY <1>1, <2>3, <2>4, <3>1, BalanceCounts DEF FlowInv
  <2>7. ~(pending_intercept = <<>> /\ deferred_publishes # <<>>)
    BY <1>1, NotDraining DEF FlowInv, QuietInv
  <2>8. Tidy(Tail(work)) /\ Mute(Tail(work))
    BY <1>1, <2>3, TidyTakes DEF FlowInv, QuietInv, Looks
  <2>9. Tidy(tasks)
    <3>1. Tidy(s)
      BY <2>2 DEF Tidy, Range, Looks
    <3> QED
      BY <2>1, <2>4, <3>1, MuteIsTidy, TidyJoins
  <2>10. Tidy(work')
    BY <2>3, <2>4, <2>8, <2>9, TidyJoins
  <2>11. QuietInv'
    BY <1>1, <2>5, <2>7, <2>10 DEF FlowInv, QuietInv, QueueInv, DrainInv
  <2>12. asked' = asked
    BY <1>1, AskedKeeps
  <2>13. Says(work', asked) \subseteq Range(queue) /\ Rising(work', asked)
    <3> PICK A : A = asked
      OBVIOUS
    <3>1. Says(Tail(work), A) = {} /\ Rising(Tail(work), A) /\ Says(<<b>>, A) = {} /\ Rising(<<b>>, A)
      BY <2>4, <2>8, MuteSays
    <3>2. Says(tasks, A) \subseteq Range(queue)
      <4>1. Says(s \o <<b>>, A) = Says(s, A) \cup Says(<<b>>, A)
        <5> PICK u, v : u = s /\ v = <<b>>
          OBVIOUS
        <5>1. u \in Seq(Task) /\ v \in Seq(Task)
          BY <2>1, <2>4
        <5>2. Says(u \o v, A) = Says(u, A) \cup Says(v, A)
          BY ONLY <5>1, SaysJoins
        <5> QED
          BY <5>2
      <4> QED
        BY <2>2, <2>4, <3>1, <4>1
    <3>3. Rising(tasks, A)
      <4>1. Rising(s, A) /\ Below(Says(s, A), Says(<<b>>, A))
        BY <2>2, <3>1 DEF Below
      <4>2. Rising(s \o <<b>>, A)
        BY <2>1, <2>4, <3>1, <4>1, RisingJoins
      <4> QED
        BY <2>4, <4>2
    <3>4. Says(tasks \o Tail(work), A) = Says(tasks, A) \cup Says(Tail(work), A)
      <4> PICK u, v : u = tasks /\ v = Tail(work)
        OBVIOUS
      <4>1. u \in Seq(Task) /\ v \in Seq(Task)
        BY <2>3, <2>4
      <4>2. Says(u \o v, A) = Says(u, A) \cup Says(v, A)
        BY ONLY <4>1, SaysJoins
      <4> QED
        BY <4>2
    <3>5. Below(Says(tasks, A), Says(Tail(work), A))
      BY <3>1 DEF Below
    <3>6. Rising(tasks \o Tail(work), A)
      BY <2>3, <2>4, <3>1, <3>3, <3>5, RisingJoins
    <3> QED
      BY <2>3, <3>1, <3>2, <3>4, <3>6
  <2>14. OrderInv'
    <3>1. Range(queue') = {}
      BY <2>5 DEF Range
    <3>2. /\ Says(work', asked) \subseteq Says(work, asked) \cup Range(queue)
          /\ Range(queue') \subseteq Range(queue) /\ Below(Says(work', asked), Range(queue'))
          /\ \A i, j \in DOMAIN queue' : i < j => queue'[i] < queue'[j]
      BY <2>5, <2>13, <3>1 DEF Below
    <3> QED
      BY <1>1, <2>12, <2>13, <3>2, RegroupedOrders DEF FlowInv
  <2> QED
    BY <2>6, <2>11, <2>14 DEF FlowInv
<1> QED
  BY <1>5, <1>6

(* Of a message that is not there yet, nothing is said. *)
LEMMA NobodySaysTheNext ==
    ASSUME TypeInv, CountInv
    PROVE  LET m == Len(messages) + 1 IN
           /\ m \in Nat
           /\ \A x \in Range(pending_intercept) : ~(x.kind \in UserKinds /\ x.of = m)
           /\ \A x \in Range(deferred_publishes) : ~(x.kind \in UserKinds /\ x.of = m)
           /\ Places(tree, m) = {}
           /\ \A n \in Range(queue) : n < m
           /\ \A n \in asked : n < m
<1> PICK m : m = Len(messages) + 1
  OBVIOUS
<1>1. Len(messages) \in Nat /\ m \in Nat /\ DOMAIN messages = 1..Len(messages)
  <2>1. messages \in Seq(Message)
    BY DEF TypeInv
  <2> HIDE DEF Message
  <2> QED
    BY <2>1
<1>2. /\ IsFiniteSet(Places(tree, m))
      /\ Cardinality(Places(tree, m)) + Count(pending_intercept, About(m))
             + Count(deferred_publishes, About(m)) + Count(work, About(m))
             + Count(queue, {m}) + Given(m) = Born(m)
  BY <1>1 DEF CountInv, queue
<1> PICK T, P, D, W, Q, G, B :
                  /\ T = Cardinality(Places(tree, m)) /\ P = Count(pending_intercept, About(m))
                  /\ D = Count(deferred_publishes, About(m)) /\ W = Count(work, About(m))
                  /\ Q = Count(queue, {m}) /\ G = Given(m) /\ B = Born(m)
  OBVIOUS
<1>3. T \in Nat /\ P \in Nat /\ D \in Nat /\ W \in Nat /\ Q \in Nat /\ G \in Nat /\ B \in Nat
      /\ T + P + D + W + Q + G = B
  BY <1>2, CountTypes DEF queue
<1>4. B = 0
  BY <1>1 DEF Born
<1>5. T = 0 /\ P = 0 /\ D = 0
  BY ONLY <1>3, <1>4
<1>6. pending_intercept \in Seq(Task) /\ deferred_publishes \in Seq(Task)
  BY GoodIsTask
<1>7. ASSUME NEW s \in Seq(Task), Count(s, About(m)) = 0, NEW x \in Range(s) PROVE ~(x.kind \in UserKinds /\ x.of = m)
  <2>1. x \in Task
    <3> HIDE DEF Task
    <3> QED
      BY DEF Range
  <2>2. x \notin About(m)
    BY <1>7, CountIsNat
  <2> QED
    BY <2>1, <2>2, AboutTasks
<1>8. \A x \in Range(pending_intercept) : ~(x.kind \in UserKinds /\ x.of = m)
  BY <1>5, <1>6, <1>7
<1>9. \A x \in Range(deferred_publishes) : ~(x.kind \in UserKinds /\ x.of = m)
  BY <1>5, <1>6, <1>7
<1>10. Places(tree, m) = {}
  BY <1>2, <1>5, FS_EmptySet
<1>11. \A n \in Range(queue) : n < m
  <2>1. conv[Default] \in GoodConversation(Len(prompts), Len(messages))
    BY DEF TypeInv, Convs
  <2>2. queue \in Seq(1..Len(messages))
    BY <2>1 DEF queue, GoodConversation
  <2> PICK q, S : q = queue /\ S = 1..Len(messages)
    OBVIOUS
  <2>3. q \in Seq(S) /\ \A n \in S : n < m
    BY <1>1, <2>2
  <2>4. \A n \in Range(q) : n \in S
    BY ONLY <2>3 DEF Range
  <2> QED
    BY <2>3, <2>4
<1>12. \A n \in asked : n < m
  BY <1>1 DEF asked
<1> QED
  BY <1>1, <1>8, <1>9, <1>10, <1>11, <1>12

(* The user's new prompt is asked, and the order of what was said stays. *)
LEMMA NewAsked ==
    ASSUME TypeInv, CountInv, OrderInv, NEW r, r.kind = "prompt", messages' = Append(messages, r),
           UNCHANGED <<tree, pending_intercept, deferred_publishes>>
    PROVE  LET m == Len(messages) + 1 IN
           /\ asked' = asked \cup {m}
           /\ Says(pending_intercept, asked') = Says(pending_intercept, asked)
           /\ Says(deferred_publishes, asked') = Says(deferred_publishes, asked)
           /\ Rising(deferred_publishes, asked')
           /\ \A z \in 1..MaxSessions : TreeRises(z)' /\ TreeSays(z)' = TreeSays(z)
<1> PICK m : m = Len(messages) + 1
  OBVIOUS
<1>1. /\ m \in Nat
      /\ \A x \in Range(pending_intercept) : ~(x.kind \in UserKinds /\ x.of = m)
      /\ \A x \in Range(deferred_publishes) : ~(x.kind \in UserKinds /\ x.of = m)
      /\ Places(tree, m) = {}
  BY NobodySaysTheNext
<1>2. asked' = asked \cup {m}
  <2>1. messages \in Seq(Message)
    BY DEF TypeInv
  <2> HIDE DEF Message
  <2> PICK L : L = Len(messages)
    OBVIOUS
  <2>2. L \in Nat /\ DOMAIN messages = 1..L
    BY <2>1
  <2>3. /\ DOMAIN messages' = 1..(L + 1)
        /\ \A i \in 1..L : messages'[i] = messages[i]
        /\ messages'[L + 1] = r
    BY <2>1
  <2>4. \A i : i \in 1..(L + 1) <=> i \in 1..L \/ i = L + 1
    BY <2>2
  <2>5. L + 1 \notin 1..L
    BY <2>2
  <2> QED
    BY <2>2, <2>3, <2>4, <2>5 DEF asked
<1> PICK B : B = asked'
  OBVIOUS
<1>3. B = asked \cup {m}
  BY <1>2
<1>4. /\ Says(pending_intercept, B) = Says(pending_intercept, asked)
      /\ Says(deferred_publishes, B) = Says(deferred_publishes, asked)
  BY <1>1, <1>3 DEF Says
<1>5. Rising(deferred_publishes, B)
  <2>1. Rising(deferred_publishes, asked)
    BY DEF OrderInv, LineInv
  <2>2. \A i \in DOMAIN deferred_publishes : deferred_publishes[i] \in Range(deferred_publishes)
    BY DEF Range
  <2> QED
    BY <1>1, <1>3, <2>1, <2>2 DEF Rising
<1>6. ASSUME NEW z \in 1..MaxSessions PROVE TreeRises(z)' /\ TreeSays(z)' = TreeSays(z)
  <2>1. \A i \in DOMAIN tree[z] : tree[z][i].entry # MessageEntry(m)
    <3> SUFFICES ASSUME NEW i \in DOMAIN tree[z], tree[z][i].entry = MessageEntry(m) PROVE FALSE
      OBVIOUS
    <3>1. <<z, i>> \in Places(tree, m)
      BY PlacesAre
    <3> QED
      BY <1>1, <3>1
  <2>2. TreeRises(z)
    BY DEF OrderInv, Before
  <2>3. TreeRises(z)'
    BY <1>2, <2>1, <2>2 DEF TreeRises
  <2>4. TreeSays(z)' = TreeSays(z)
    BY <1>2, <2>1 DEF TreeSays
  <2> QED
    BY <2>3, <2>4
<1> QED
  BY <1>2, <1>3, <1>4, <1>5, <1>6

(* What submit_user_prompt does to the queues. *)
LEMMA SubmitQueues ==
    ASSUME TypeInv, QueueInv, SubmitUserPrompt
    PROVE  /\ \A d \in Convs \ {Default} : conv'[d].pending_prompts = <<>>
           /\ \/ work' = <<Advance>> /\ queue' = Append(queue, Len(messages) + 1)
              \/ work' = Dispatched(Default, Len(messages) + 1, session) /\ queue' = queue /\ ~DispatchBlocked(Default)
<1> DEFINE made_way == [c \in Convs |-> IF c \in Preempted THEN GiveUp(c) ELSE conv[c]]
<1> PICK m : m = Len(messages) + 1
  OBVIOUS
<1>1. \/ /\ conv' = [made_way EXCEPT ![Default].pending_prompts = Append(@, m)]
         /\ work' = <<Advance>>
      \/ /\ conv' = made_way
         /\ work' = Dispatched(Default, m, session)
         /\ ~DispatchBlocked(Default)
  BY DEF SubmitUserPrompt, Dispatch, Dispatched
<1>2. Default \in Convs /\ Default \notin Preempted
  BY DEF Convs, Preempted
<1>3. conv[Default] \in GoodConversation(Len(prompts), Len(messages))
  BY <1>2 DEF TypeInv
<1>4. made_way[Default] = conv[Default]
  BY <1>2
<1>5. \A d \in Convs \ {Default} : made_way[d].pending_prompts = <<>>
  <2> SUFFICES ASSUME NEW d \in Convs \ {Default} PROVE made_way[d].pending_prompts = <<>>
    OBVIOUS
  <2>1. conv[d].pending_prompts = <<>> /\ conv[d] \in GoodConversation(Len(prompts), Len(messages))
    BY DEF QueueInv, TypeInv
  <2>2. GiveUp(d).pending_prompts = <<>>
    BY <2>1 DEF GiveUp, GoodConversation
  <2> QED
    BY <2>1, <2>2
<1>6. made_way \in [Convs -> {made_way[d] : d \in Convs}]
  OBVIOUS
<1> HIDE DEF made_way
<1>7. CASE conv' = [made_way EXCEPT ![Default].pending_prompts = Append(@, m)] /\ work' = <<Advance>>
  <2>1. conv'[Default] = [conv[Default] EXCEPT !.pending_prompts = Append(conv[Default].pending_prompts, m)]
    BY <1>2, <1>4, <1>6, <1>7
  <2>2. queue' = Append(queue, m)
    BY <1>3, <2>1 DEF queue, GoodConversation
  <2>3. \A d \in Convs \ {Default} : conv'[d].pending_prompts = <<>>
    BY <1>5, <1>6, <1>7
  <2> QED
    BY <1>7, <2>2, <2>3
<1>8. CASE conv' = made_way /\ work' = Dispatched(Default, m, session) /\ ~DispatchBlocked(Default)
  <2>1. queue' = queue
    BY <1>4, <1>8 DEF queue
  <2>2. \A d \in Convs \ {Default} : conv'[d].pending_prompts = <<>>
    BY <1>5, <1>8
  <2> QED
    BY <1>8, <2>1, <2>2
<1> QED
  BY <1>1, <1>7, <1>8

(* The user's new prompt takes its place. *)
LEMMA SubmitFlows ==
    ASSUME TypeInv, TypeInv', AwaitInv, LookInv, FlowInv, SubmitUserPrompt PROVE FlowInv'
<1> PICK m, n : m = Len(messages) + 1 /\ n = session
  OBVIOUS
<1> PICK r : r = [conv |-> Default, kind |-> "prompt"]
  OBVIOUS
<1>1. /\ Idle /\ messages' = Append(messages, r) /\ r.kind = "prompt" /\ r \in Message
      /\ UNCHANGED <<tree, pending_intercept, deferred_publishes, discarded>>
  BY DEF SubmitUserPrompt, NewMessage, pipe, Message, Convs
<1>2. /\ \A d \in Convs \ {Default} : conv'[d].pending_prompts = <<>>
      /\ \/ work' = <<Advance>> /\ queue' = Append(queue, m)
         \/ work' = Dispatched(Default, m, n) /\ queue' = queue /\ ~DispatchBlocked(Default)
  BY SubmitQueues DEF FlowInv, QuietInv
<1>3. /\ m \in Nat
      /\ \A k \in Range(queue) : k < m
      /\ \A k \in asked : k < m
  BY NobodySaysTheNext DEF FlowInv
<1>4. /\ asked' = asked \cup {m}
      /\ Says(pending_intercept, asked') = Says(pending_intercept, asked)
      /\ Says(deferred_publishes, asked') = Says(deferred_publishes, asked)
      /\ Rising(deferred_publishes, asked')
      /\ \A z \in 1..MaxSessions : TreeRises(z)' /\ TreeSays(z)' = TreeSays(z)
  BY <1>1, NewAsked DEF FlowInv
<1>5. queue \in Seq(Nat) /\ Default \in Convs /\ n \in Nat
  <2>1. session \in Nat
    BY DEF TypeInv
  <2>2. Default \in Convs
    BY DEF Convs
  <2>3. queue \in Seq(Nat)
    BY GoodIsTask DEF queue
  <2> QED
    BY <2>1, <2>2, <2>3
<1>6. ~DispatchBlocked(Default) => queue = <<>>
  <2>1. Default \in conversations
    BY DEF AwaitInv
  <2>2. \A t \in Range(work) : FALSE
    BY <1>1, IdleWork
  <2> QED
    BY <2>1, <2>2 DEF LookInv, DispatchBlocked, Runnable, queue
<1>7. ~(pending_intercept = <<>> /\ deferred_publishes # <<>>)
  BY <1>1, NotDraining DEF FlowInv, QuietInv
<1>8. \A k \in Nat : /\ Given(k)' = Given(k) /\ Given(k) \in Nat /\ Born(k) \in Nat
                     /\ Born(k)' = Born(k) + IF k = m THEN 1 ELSE 0
  BY <1>1, BornGrows DEF Given
<1>9. work = <<>> /\ work \in Seq(Task)
  BY <1>1, GoodIsTask DEF Idle
<1>10. /\ Below(Says(pending_intercept, asked), Says(deferred_publishes, asked))
       /\ Below(later, Range(queue))
       /\ \A z \in 1..MaxSessions : Below(TreeSays(z), later \cup Range(queue))
  BY DEF FlowInv, OrderInv, LineInv, Before
<1>11. later \subseteq asked /\ \A z \in 1..MaxSessions : TreeSays(z) \subseteq asked
  BY DEF later, Says, TreeSays
<1>12. CASE work' = <<Advance>> /\ queue' = Append(queue, m)
  <2>1. work' \in Seq(Task) /\ Mute(work')
    BY <1>12, MuteTasks
  <2>2. work' \o work = work'
    BY <1>9, <2>1
  <2>3. CountInv'
    <3>1. ASSUME NEW k \in Nat
          PROVE  Count(work', About(k)) + Count(conv'[Default].pending_prompts, {k}) + Given(k)' + Born(k)
                    = Count(conv[Default].pending_prompts, {k}) + Given(k) + Born(k)'
      <4>1. Count(work', About(k)) = 0
        BY <2>1, MuteCounts
      <4>2. Count(queue', {k}) = Count(queue, {k}) + IF m \in {k} THEN 1 ELSE 0
        <5> PICK q : q = queue
          OBVIOUS
        <5>1. q \in Seq(Nat) /\ m \in Nat
          BY <1>3, <1>5
        <5>2. Count(Append(q, m), {k}) = Count(q, {k}) + IF m \in {k} THEN 1 ELSE 0
          BY ONLY <5>1, CountAppends
        <5> QED
          BY <1>12, <5>2
      <4>3. Count(queue, {k}) \in Nat
        BY <1>5, CountIsNat
      <4> PICK one, Q, G, B : one = (IF k = m THEN 1 ELSE 0) /\ Q = Count(queue, {k}) /\ G = Given(k) /\ B = Born(k)
        OBVIOUS
      <4>4. one \in Nat /\ Q \in Nat /\ G \in Nat /\ B \in Nat
        BY <1>8, <4>3
      <4>5. Count(conv'[Default].pending_prompts, {k}) = Q + one
        BY <4>2 DEF queue
      <4>6. Given(k)' = G /\ Born(k)' = B + one /\ Count(conv[Default].pending_prompts, {k}) = Q
        BY <1>8 DEF queue
      <4>7. 0 + (Q + one) + G + B = Q + G + (B + one)
        BY ONLY <4>4
      <4> QED
        BY <4>1, <4>5, <4>6, <4>7
    <3> QED
      BY <1>1, <1>9, <2>1, <2>2, <3>1, BalanceCounts DEF FlowInv
  <2>4. QuietInv'
    BY <1>1, <1>2, <1>7, <2>1, MuteIsTidy DEF QuietInv, QueueInv, DrainInv
  <2>5. Says(work', asked') = {} /\ Rising(work', asked')
    <3> PICK B : B = asked'
      OBVIOUS
    <3> QED
      BY <2>1, MuteSays
  <2>6. LineInv'
    BY <1>1, <1>4, <1>10, <2>5 DEF LineInv, Below
  <2>7. Range(queue') = Range(queue) \cup {m} /\ \A i, j \in DOMAIN queue' : i < j => queue'[i] < queue'[j]
    <3> PICK q, L : q = queue /\ L = Len(queue)
      OBVIOUS
    <3>1. /\ L \in Nat /\ DOMAIN q = 1..L /\ DOMAIN queue' = 1..(L + 1)
          /\ \A i \in 1..(L + 1) : queue'[i] = IF i = L + 1 THEN m ELSE q[i]
      BY <1>3, <1>5, <1>12
    <3>2. \A i : i \in 1..(L + 1) <=> i \in 1..L \/ i = L + 1
      BY <3>1
    <3>3. L + 1 \notin 1..L /\ \A i \in 1..L : ~(L + 1 < i)
      BY <3>1
    <3>4. \A i, j \in DOMAIN q : i < j => q[i] < q[j]
      BY DEF FlowInv, OrderInv
    <3>5. \A i \in DOMAIN q : q[i] < m
      BY <1>3 DEF Range
    <3>6. Range(queue') = Range(queue) \cup {m}
      BY <3>1, <3>2, <3>3 DEF Range
    <3>7. ASSUME NEW i \in DOMAIN queue', NEW j \in DOMAIN queue', i < j PROVE queue'[i] < queue'[j]
      <4>1. CASE j \in 1..L /\ i \in 1..L
        BY <3>1, <3>3, <3>4, <3>7, <4>1
      <4>2. CASE j = L + 1 /\ i \in 1..L
        BY <3>1, <3>3, <3>5, <4>2
      <4>3. CASE i = L + 1
        BY <3>1, <3>2, <3>3, <3>7, <4>3
      <4> QED
        BY <3>1, <3>2, <4>1, <4>2, <4>3
    <3> QED
      BY <3>6, <3>7
  <2>8. later' \subseteq later
    BY <1>1, <1>4, <2>5 DEF later
  <2>9. Below(later', Range(queue'))
    BY <1>3, <1>10, <1>11, <2>7, <2>8 DEF Below
  <2>10. Before(later \cup Range(queue))'
    <3>1. \A z \in 1..MaxSessions : Below(TreeSays(z), later' \cup Range(queue'))
      BY <1>3, <1>10, <1>11, <2>7, <2>8 DEF Below
    <3> QED
      BY <1>4, <3>1 DEF Before
  <2>11. OrderInv'
    BY <2>6, <2>7, <2>9, <2>10 DEF OrderInv
  <2> QED
    BY <2>3, <2>4, <2>11 DEF FlowInv
<1>13. CASE work' = Dispatched(Default, m, n) /\ queue' = queue /\ ~DispatchBlocked(Default)
  <2>1. work' \in Seq(Task) /\ Tidy(work')
    BY <1>3, <1>5, <1>13, DispatchSays
  <2>2. work' \o work = work'
    BY <1>9, <2>1
  <2>3. CountInv'
    <3>1. ASSUME NEW k \in Nat
          PROVE  Count(work', About(k)) + Count(conv'[Default].pending_prompts, {k}) + Given(k)' + Born(k)
                    = Count(conv[Default].pending_prompts, {k}) + Given(k) + Born(k)'
      <4>1. Count(work', About(k)) = IF k = m THEN 1 ELSE 0
        BY <1>3, <1>5, <1>13, DispatchOnce
      <4>2. Count(queue, {k}) \in Nat
        BY <1>5, CountIsNat
      <4>3. Count(queue', {k}) = Count(queue, {k})
        BY <1>13
      <4> PICK one, Q, G, B : one = (IF k = m THEN 1 ELSE 0) /\ Q = Count(queue, {k}) /\ G = Given(k) /\ B = Born(k)
        OBVIOUS
      <4>4. one \in Nat /\ Q \in Nat /\ G \in Nat /\ B \in Nat
        BY <1>8, <4>2
      <4>5. Count(conv'[Default].pending_prompts, {k}) = Q
        BY <4>3 DEF queue
      <4>6. Given(k)' = G /\ Born(k)' = B + one /\ Count(conv[Default].pending_prompts, {k}) = Q
        BY <1>8 DEF queue
      <4>7. one + Q + G + B = Q + G + (B + one)
        BY ONLY <4>4
      <4> QED
        BY <4>1, <4>5, <4>6, <4>7
    <3> QED
      BY <1>1, <1>9, <2>1, <2>2, <3>1, BalanceCounts DEF FlowInv
  <2>4. QuietInv'
    BY <1>1, <1>2, <1>7, <2>1 DEF QuietInv, QueueInv, DrainInv
  <2>5. Says(work', asked') \subseteq {m} /\ Rising(work', asked')
    <3> PICK B : B = asked'
      OBVIOUS
    <3>1. Rising(Dispatched(Default, m, n), B) /\ Says(Dispatched(Default, m, n), B) \subseteq {m}
      <4>1. m \in Nat /\ n \in Nat /\ Default \in Convs
        BY <1>3, <1>5
      <4> QED
        BY ONLY <4>1, DispatchSays
    <3> QED
      BY <1>13, <3>1
  <2>6. Range(queue') = {} /\ DOMAIN queue' = {}
    BY <1>6, <1>13 DEF Range
  <2>7. LineInv'
    <3>1. Says(pending_intercept, asked) \subseteq asked /\ Says(deferred_publishes, asked) \subseteq asked
      BY DEF Says
    <3> QED
      BY <1>1, <1>3, <1>4, <1>10, <2>5, <3>1 DEF LineInv, Below
  <2>8. later' \subseteq later \cup {m}
    BY <1>1, <1>4, <2>5 DEF later
  <2>9. Below(later', Range(queue'))
    BY <2>6 DEF Below
  <2>10. Before(later \cup Range(queue))'
    <3>1. \A z \in 1..MaxSessions : Below(TreeSays(z), later' \cup Range(queue'))
      BY <1>3, <1>10, <1>11, <2>6, <2>8 DEF Below
    <3> QED
      BY <1>4, <3>1 DEF Before
  <2>11. OrderInv'
    BY <2>6, <2>7, <2>9, <2>10 DEF OrderInv
  <2> QED
    BY <2>3, <2>4, <2>11 DEF FlowInv
<1> QED
  BY <1>2, <1>12, <1>13

(* Steps that say nothing new keep the flow. *)
LEMMA SteadyKeepsFlow == ASSUME TypeInv, TypeInv', FlowInv, Steady PROVE FlowInv'
BY SteadyCounts, SteadyFlows DEF FlowInv

(* Messages are conserved, and flow in their order, step by step. *)
LEMMA NextFlows == TypeInv /\ TypeInv' /\ AwaitInv /\ LookInv /\ FlowInv /\ [Next]_vars => FlowInv'
<1> SUFFICES ASSUME TypeInv, TypeInv', AwaitInv, LookInv, FlowInv, [Next]_vars PROVE FlowInv'
  OBVIOUS
<1>1. QuietInv /\ CountInv /\ OrderInv
  BY DEF FlowInv
<1>2. CASE EnqueuePublish
  BY <1>1, <1>2, PublishCounts, PublishFlows DEF FlowInv
<1>3. CASE DrainDeferred
  BY <1>1, <1>3, DrainCounts, DrainFlows DEF FlowInv
<1>4. CASE InterceptReply \/ InterceptorGone
  BY <1>1, <1>4, InterceptCounts, InterceptFlows DEF FlowInv
<1>5. CASE TryAdvanceQueue
  BY <1>5, AdvanceFlows
<1>6. CASE DispatchOrAwait \/ SendPrompt \/ TurnEnds \/ ToolsStart \/ ClearTracking \/ Respawn
  BY <1>1, <1>6, DispatchSteady, SendSteady, EndsSteady, ToolsSteady, ClearSteady, SteadyKeepsFlow
<1>7. CASE MaybeCompleteTurn
  BY <1>1, <1>7, TurnSteady, SteadyKeepsFlow, CompleteFlows
<1>8. CASE SubmitUserPrompt
  BY <1>8, SubmitFlows
<1>9. CASE CancelPrompt \/ SwitchSession
  BY <1>1, <1>9, CancelSteady, SwitchSteady, SteadyKeepsFlow
<1>10. CASE \E s \in 1..session : ShellFinished(s)
  BY <1>1, <1>10, ShellSteady, SteadyKeepsFlow
<1>11. CASE \E v \in Providers : \/ ExtensionGone(v) \/ ExtensionSubscribes(v) \/ ExtensionReady(v)
                                 \/ \E s \in 1..MaxSessions : ContextReady(v, s)
  BY <1>1, <1>11, GoneSteady, LifecycleSteady, ContextSteady, SteadyKeepsFlow
<1>12. CASE \E p \in at_agent : \E how \in {"answered", "called"} : AgentResponds(p, how)
  BY <1>1, <1>12, RespondsSteady, SteadyKeepsFlow
<1>13. CASE \E p \in running : ToolFinishes(p)
  BY <1>1, <1>13, FinishesSteady, SteadyKeepsFlow
<1>14. CASE \E q \in Queries : AgentQuery(q)
  BY <1>1, <1>14, QuerySteady, SteadyKeepsFlow
<1>15. CASE UNCHANGED vars
  <2>1. UNCHANGED <<tree, pending_intercept, deferred_publishes, work, conv, messages, discarded>>
    BY <1>15 DEF vars
  <2>2. CountInv'
    BY <1>1, <2>1 DEF CountInv, Given, Born
  <2>3. QuietInv'
    BY <1>1, <2>1 DEF QuietInv, QueueInv, DrainInv
  <2>4. OrderInv'
    <3>1. asked' = asked /\ queue' = queue
      BY <2>1 DEF asked, queue
    <3>2. LineInv' /\ later' = later
      BY <1>1, <2>1, <3>1 DEF OrderInv, LineInv, later
    <3> QED
      BY <1>1, <2>1, <3>1, <3>2, ThinnerOrders
  <2> QED
    BY <2>2, <2>3, <2>4 DEF FlowInv
<1> QED
  BY <1>2, <1>3, <1>4, <1>5, <1>6, <1>7, <1>8, <1>9, <1>10, <1>11, <1>12, <1>13, <1>14, <1>15 DEF Next, Handler

(* There are no messages at first. *)
LEMMA InitFlows == Init => FlowInv
<1> SUFFICES ASSUME Init PROVE FlowInv
  OBVIOUS
<1>1. /\ pending_intercept = <<>> /\ deferred_publishes = <<>> /\ work = <<>> /\ messages = <<>> /\ discarded = {}
      /\ tree = [s \in 1..MaxSessions |-> <<>>]
      /\ \A c \in Convs : conv[c].pending_prompts = <<>>
  BY DEF Init, Fresh
<1>2. queue = <<>> /\ asked = {} /\ Range(queue) = {}
  BY <1>1 DEF queue, asked, Convs, Range
<1>3. CountInv
  <2> SUFFICES ASSUME NEW m \in Nat
             PROVE  /\ IsFiniteSet(Places(tree, m))
                    /\ Cardinality(Places(tree, m)) + Count(pending_intercept, About(m))
                         + Count(deferred_publishes, About(m)) + Count(work, About(m))
                         + Count(conv[Default].pending_prompts, {m}) + Given(m) = Born(m)
    BY DEF CountInv
  <2>1. Places(tree, m) = {}
    <3> SUFFICES ASSUME NEW p \in Places(tree, m) PROVE FALSE
      OBVIOUS
    <3>1. PICK z \in 1..MaxSessions : \E i \in DOMAIN tree[z] : p = <<z, i>> /\ tree[z][i].entry = MessageEntry(m)
      BY PlacesAre
    <3>2. DOMAIN tree[z] = {}
      BY <1>1
    <3> QED
      BY <3>1, <3>2
  <2>2. IsFiniteSet(Places(tree, m)) /\ Cardinality(Places(tree, m)) = 0
    BY <2>1, FS_EmptySet
  <2>3. Count(<<>>, About(m)) = 0 /\ Count(<<>>, {m}) = 0
    BY CountOfOne
  <2>4. Given(m) = 0 /\ Born(m) = 0
    BY <1>1 DEF Given, Born
  <2>5. conv[Default].pending_prompts = <<>>
    BY <1>2 DEF queue
  <2> QED
    BY <1>1, <2>2, <2>3, <2>4, <2>5
<1>4. QuietInv
  BY <1>1, TidyLists DEF QuietInv, QueueInv, DrainInv
<1>5. LineInv /\ later = {}
  BY <1>1, <1>2, SaysOfLists DEF LineInv, later, Below
<1>6. Before(later \cup Range(queue))
  BY <1>2, <1>5 DEF Before, TreeRises, TreeSays, Below
<1>7. OrderInv
  BY <1>2, <1>5, <1>6 DEF OrderInv, Below
<1> QED
  BY <1>3, <1>4, <1>7 DEF FlowInv

-----------------------------------------------------------------------------
(* What is dropped stays silent. *)

(* The answer to a prompt is in a history, or on its way there; the rest of   *)
(* the handler that published it is still to come.                           *)
AnswerEntry(p) == [what |-> "answer", of |-> p]
Heard(p) == \E z \in 1..MaxSessions : \E i \in DOMAIN tree[z] : tree[z][i].entry = AnswerEntry(p)
Answers(t, p) == t.kind = "response_finished" /\ t.of = p
Spoken(p) ==
    \/ Heard(p)
    \/ \E t \in Range(pending_intercept) \cup Range(deferred_publishes) \cup Range(work) : Answers(t, p)
Closes(t, p) == t.op \in {"answered", "called"} /\ t.of = p
Closed(p) == \E t \in Range(work) : Closes(t, p)

(* What was dropped is silent: it is not tracked any more, and nothing was    *)
(* said for it while it was.                                                *)
SilentInv ==
    /\ \A p \in dropped : p \notin prompt_conversations /\ ~Heard(p)
    /\ \A p \in prompt_conversations : Spoken(p) => Closed(p)
    /\ \A p \in Nat : Spoken(p) => p \in 1..Len(prompts)

(* A step that answers no prompt but those that are tracked, and drops none   *)
(* whose answer was said.                                                    *)
Discreet ==
    /\ 1..Len(prompts) \subseteq 1..Len(prompts')
    /\ \A p \in Nat : Heard(p)' => Heard(p) \/ p \in prompt_conversations \cap prompt_conversations'
    /\ \A p \in Nat : Spoken(p)' => Spoken(p)
    /\ prompt_conversations' \cap 1..Len(prompts) \subseteq prompt_conversations
    /\ \A p \in prompt_conversations' : Closed(p) => Closed(p)'
    /\ \/ dropped' = dropped
       \/ /\ work = <<>> /\ UNCHANGED tree
          /\ dropped' \subseteq dropped \cup (prompt_conversations \ prompt_conversations')

(* A discreet step keeps what is dropped silent. *)
LEMMA DiscreetIsSilent == ASSUME TypeInv, TypeInv', SilentInv, Discreet PROVE SilentInv'
<1>1. /\ dropped \subseteq 1..Len(prompts) /\ prompt_conversations \subseteq 1..Len(prompts)
      /\ dropped' \subseteq Nat /\ prompt_conversations' \subseteq Nat /\ 1..Len(prompts) \subseteq Nat
  BY DEF TypeInv
<1>2. ASSUME NEW p \in dropped' PROVE p \notin prompt_conversations' /\ ~Heard(p)'
  <2>1. CASE p \in dropped
    <3>1. p \notin prompt_conversations /\ ~Heard(p) /\ p \in 1..Len(prompts) /\ p \in Nat
      BY <1>1, <2>1 DEF SilentInv
    <3> QED
      BY <3>1 DEF Discreet
  <2>2. CASE p \notin dropped
    <3>1. work = <<>> /\ UNCHANGED tree /\ p \in prompt_conversations \ prompt_conversations'
      BY <1>2, <2>2 DEF Discreet
    <3>2. ~Closed(p)
      BY <3>1 DEF Closed, Range
    <3>3. ~Heard(p)
      BY <3>1, <3>2 DEF SilentInv, Spoken
    <3>4. ~Heard(p)'
      BY <3>1, <3>3 DEF Heard
    <3> QED
      BY <3>1, <3>4
  <2> QED
    BY <2>1, <2>2
<1>3. ASSUME NEW p \in prompt_conversations', Spoken(p)' PROVE Closed(p)'
  <2>1. p \in Nat
    BY <1>1
  <2>2. Spoken(p)
    BY <1>3, <2>1 DEF Discreet
  <2>3. p \in prompt_conversations
    BY <2>1, <2>2 DEF Discreet, SilentInv
  <2>4. Closed(p)
    BY <2>2, <2>3 DEF SilentInv
  <2> QED
    BY <2>4 DEF Discreet
<1>4. ASSUME NEW p \in Nat, Spoken(p)' PROVE p \in 1..Len(prompts')
  BY <1>4 DEF Discreet, SilentInv
<1> QED
  BY <1>2, <1>3, <1>4 DEF SilentInv

(* A task that is no publish answers nothing. *)
LEMMA OnlyPublishesAnswer ==
    ASSUME NEW t \in Task, t.op # "publish"
    PROVE  t.kind = "none" \/ t.op = "publish"
BY DEF Task, Event

(* A committed event puts the answer of a tracked prompt in a history. *)
LEMMA CommitHears ==
    ASSUME TypeInv, NEW e \in GoodEvent(Len(prompts)), Fold(e), NEW p \in Nat, Heard(p)'
    PROVE  Heard(p) \/ (Answers(e, p) /\ p \in prompt_conversations)
<1>1. CASE tree' = tree
  BY <1>1 DEF Heard
<1>2. CASE tree' # tree
  <2>1. e.kind = "response_finished" => e.of \in prompt_conversations
    BY <1>2, CommitPlants
  <2>2. PICK s \in 1..MaxSessions, x \in Node :
            Planted(tree, s, x, tree') /\ x.entry = EntryOf(e) /\ e.kind \in UserKinds \cup {"response_finished", "tool_result"}
    BY <1>2, CommitPlants
  <2>3. PICK z \in 1..MaxSessions : \E i \in DOMAIN tree'[z] : tree'[z][i].entry = AnswerEntry(p)
    BY DEF Heard
  <2>4. PICK i \in DOMAIN tree'[z] : tree'[z][i].entry = AnswerEntry(p)
    BY <2>3
  <2>5. \/ i \in DOMAIN tree[z] /\ tree'[z][i] = tree[z][i]
        \/ tree'[z][i] = x
    BY <2>2, PlantedNodes
  <2>6. CASE i \in DOMAIN tree[z] /\ tree'[z][i] = tree[z][i]
    BY <2>4, <2>6 DEF Heard
  <2>7. CASE tree'[z][i] = x
    <3>1. EntryOf(e) = AnswerEntry(p)
      BY <2>2, <2>4, <2>7
    <3>2. e.kind = "response_finished" /\ e.of = p
      BY <2>2, <3>1 DEF EntryOf, AnswerEntry, UserKinds
    <3> QED
      BY <2>1, <3>2 DEF Answers
  <2> QED
    BY <2>5, <2>6, <2>7
<1> QED
  BY <1>1, <1>2

(* Where the publishes of a step come from. *)
Repeats(X, Y) == \A t \in X : \E u \in Y : u.kind = t.kind /\ u.of = t.of

(* A step that moves publishes on is silent. *)
LEMMA MovesAreSilent ==
    ASSUME TypeInv, TypeInv', SilentInv, Moves, UNCHANGED dropped,
           Repeats(Range(pending_intercept') \cup Range(deferred_publishes'),
                   Range(pending_intercept) \cup Range(deferred_publishes) \cup Range(work)),
           \/ UNCHANGED tree
           \/ \E e \in GoodEvent(Len(prompts)) :
                Fold(e) /\ Repeats({e}, Range(pending_intercept) \cup Range(deferred_publishes) \cup Range(work))
    PROVE  SilentInv'
<1>1. UNCHANGED <<prompts, prompt_conversations>>
  BY DEF Moves, tracking
<1>2. ASSUME NEW p \in Nat, Heard(p)' PROVE Heard(p) \/ (p \in prompt_conversations /\ Spoken(p))
  <2>1. CASE UNCHANGED tree
    BY <1>2, <2>1 DEF Heard
  <2>2. ASSUME NEW e \in GoodEvent(Len(prompts)), Fold(e),
               Repeats({e}, Range(pending_intercept) \cup Range(deferred_publishes) \cup Range(work))
        PROVE  Heard(p) \/ (p \in prompt_conversations /\ Spoken(p))
    <3>1. Heard(p) \/ (Answers(e, p) /\ p \in prompt_conversations)
      BY <1>2, <2>2, CommitHears
    <3>2. Answers(e, p) => Spoken(p)
      BY <2>2 DEF Answers, Spoken, Repeats
    <3> QED
      BY <3>1, <3>2
  <2> QED
    BY <2>1, <2>2
<1>3. ASSUME NEW p \in Nat, NEW t \in Range(work'), Answers(t, p) PROVE Spoken(p)
  <2>1. t \in GoodTask(Len(prompts'))
    <3>1. work' \in Seq(GoodTask(Len(prompts')))
      BY DEF TypeInv
    <3> HIDE DEF GoodTask
    <3> QED
      BY <3>1 DEF Range
  <2>2. t.op \notin {"send", "drain"}
    BY <1>3, <2>1, OnlyPublishesAnswer DEF GoodTask, Answers
  <2>3. t \in Range(work)
    BY <2>2 DEF Moves
  <2> QED
    BY <1>3, <2>3 DEF Spoken
<1>4. ASSUME NEW p \in Nat, NEW t \in Range(pending_intercept') \cup Range(deferred_publishes'), Answers(t, p) PROVE Spoken(p)
  <2> PICK X, Y : /\ X = Range(pending_intercept') \cup Range(deferred_publishes')
                  /\ Y = Range(pending_intercept) \cup Range(deferred_publishes) \cup Range(work)
    OBVIOUS
  <2>1. t \in X /\ Repeats(X, Y)
    BY <1>4
  <2>2. \E u \in Y : Answers(u, p)
    BY <1>4, <2>1 DEF Repeats, Answers
  <2> QED
    BY <2>2 DEF Spoken
<1>5. ASSUME NEW p \in Nat, Spoken(p)' PROVE Spoken(p)
  <2>1. Heard(p)' \/ \E t \in Range(pending_intercept') \cup Range(deferred_publishes') \cup Range(work') : Answers(t, p)
    BY <1>5 DEF Spoken
  <2>2. Heard(p)' => Spoken(p)
    BY <1>2 DEF Spoken
  <2> QED
    BY <1>3, <1>4, <2>1, <2>2
<1>6. ASSUME NEW p, Closed(p) PROVE Closed(p)'
  BY <1>6 DEF Closed, Closes, Moves
<1>7. Discreet
  BY <1>1, <1>2, <1>5, <1>6 DEF Discreet
<1> QED
  BY <1>7, DiscreetIsSilent

(* What is said in X and not in Y answers nothing. *)
Reticent(X, Y) == \A t \in X : t \in Y \/ t.kind # "response_finished"

(* A step that commits nothing and answers nothing. *)
Unheard ==
    /\ UNCHANGED <<tree, pending_intercept, deferred_publishes>>
    /\ Reticent(Range(work'), Range(work))
    /\ 1..Len(prompts) \subseteq 1..Len(prompts')
    /\ prompt_conversations' \cap 1..Len(prompts) \subseteq prompt_conversations
    /\ \A t \in Range(work) : t.op \in {"answered", "called"} /\ t.of \in prompt_conversations' => t \in Range(work')
    /\ \/ dropped' = dropped
       \/ work = <<>> /\ dropped' \subseteq dropped \cup (prompt_conversations \ prompt_conversations')

(* So does a step that commits and answers nothing. *)
LEMMA UnheardIsSilent == ASSUME TypeInv, TypeInv', SilentInv, Unheard PROVE SilentInv'
<1>1. ASSUME NEW p \in Nat, Heard(p)' PROVE Heard(p)
  <2>1. tree' = tree
    BY DEF Unheard
  <2> QED
    BY <1>1, <2>1 DEF Heard
<1>2. ASSUME NEW p \in Nat, Spoken(p)' PROVE Spoken(p)
  <2>1. Heard(p)' \/ \E t \in Range(pending_intercept) \cup Range(deferred_publishes) \cup Range(work') : Answers(t, p)
    BY <1>2 DEF Spoken, Unheard
  <2>2. ASSUME NEW t \in Range(work'), Answers(t, p) PROVE t \in Range(work)
    BY <2>2 DEF Unheard, Reticent, Answers
  <2> QED
    BY <1>1, <2>1, <2>2 DEF Spoken
<1>3. ASSUME NEW p \in prompt_conversations', Closed(p) PROVE Closed(p)'
  BY <1>3 DEF Closed, Closes, Unheard
<1>4. Discreet
  BY <1>1, <1>2, <1>3 DEF Discreet, Unheard
<1> QED
  BY <1>4, DiscreetIsSilent

(* The tasks of the handlers that answer nothing. *)
LEMMA ReticentTasks ==
    /\ \A op, c, n : Do(op, c, n).kind = "none" /\ Do(op, c, n).op = op /\ Do(op, c, n).of = n
    /\ Advance.kind = "none"
    /\ \A k, c, n, s : Publish(k, c, n, s).kind = k /\ Publish(k, c, n, s).op = "publish" /\ Publish(k, c, n, s).of = n
    /\ \A c, m : \A t \in Range(Dispatch(c, m)) : t.kind # "response_finished"
<1>1. /\ \A op, c, n : Do(op, c, n).kind = "none" /\ Do(op, c, n).op = op /\ Do(op, c, n).of = n
      /\ Advance.kind = "none"
      /\ \A k, c, n, s : Publish(k, c, n, s).kind = k /\ Publish(k, c, n, s).op = "publish" /\ Publish(k, c, n, s).of = n
  BY DEF Do, Advance, Publish
<1>2. ASSUME NEW c, NEW m, NEW t \in Range(Dispatch(c, m)) PROVE t.kind # "response_finished"
  <2>1. t \in {Publish("prompt_submitted", c, m, session), Do("dispatch", c, 0)}
    BY TasksOfDispatch
  <2>2. Publish("prompt_submitted", c, m, session).kind = "prompt_submitted" /\ Do("dispatch", c, 0).kind = "none"
    BY <1>1
  <2> QED
    BY ONLY <2>1, <2>2
<1> QED
  BY <1>1, <1>2

(* A handler's step that ends no turn. *)
LEMMA ThenUnheard ==
    ASSUME TypeInv, work # <<>>, NEW tasks \in Seq(GoodTask(Len(prompts))), Then(tasks),
           \A t \in Range(tasks) : t.kind # "response_finished",
           Head(work).op \notin {"answered", "called"} \/ Head(work).of \notin prompt_conversations',
           UNCHANGED <<tree, pending_intercept, deferred_publishes, dropped>>,
           1..Len(prompts) \subseteq 1..Len(prompts'),
           prompt_conversations' \cap 1..Len(prompts) \subseteq prompt_conversations
    PROVE  Unheard
<1>1. /\ Range(work') = Range(tasks) \cup Range(Tail(work))
      /\ Range(work) = {Head(work)} \cup Range(Tail(work))
  BY ThenRange
<1>2. Reticent(Range(work'), Range(work))
  BY <1>1 DEF Reticent
<1>3. \A t \in Range(work) : t.op \in {"answered", "called"} /\ t.of \in prompt_conversations' => t \in Range(work')
  BY <1>1
<1> QED
  BY <1>2, <1>3 DEF Unheard

(* A frame's step. *)
LEMMA FrameUnheard ==
    ASSUME TypeInv, Idle, \A t \in Range(work') : t.kind # "response_finished",
           UNCHANGED <<tree, pending_intercept, deferred_publishes, prompts>>,
           prompt_conversations' \subseteq prompt_conversations,
           dropped' \subseteq dropped \cup (prompt_conversations \ prompt_conversations')
    PROVE  Unheard
<1>1. Range(work) = {} /\ work = <<>>
  BY IdleWork DEF Idle
<1> QED
  BY <1>1 DEF Unheard, Reticent

(* try_advance_queue answers nothing. *)
LEMMA AdvanceUnheard == ASSUME TypeInv, TryAdvanceQueue PROVE Unheard
<1>1. /\ work # <<>> /\ Head(work).op = "advance"
      /\ UNCHANGED <<tree, pending_intercept, deferred_publishes, dropped, prompts, prompt_conversations>>
  BY DEF TryAdvanceQueue, Doing, pipe, tracking, gone
<1>2. CASE Then(<<>>)
  <2>1. \A t \in Range(<<>>) : t.kind # "response_finished"
    BY DEF Range
  <2> QED
    BY <1>1, <1>2, <2>1, NoTasks, ThenUnheard
<1>3. CASE ~Then(<<>>)
  <2>1. PICK c, m : c \in Runnable /\ m = Head(conv[c].pending_prompts) /\ work' = Dispatch(c, m) \o work
    BY <1>3 DEF TryAdvanceQueue
  <2>2. Dispatch(c, m) \in Seq(GoodTask(Len(prompts)))
    <3>1. c \in Convs /\ conv[c].pending_prompts # <<>> /\ conv[c] \in GoodConversation(Len(prompts), Len(messages))
      BY <2>1 DEF Runnable, TypeInv
    <3>2. m \in Nat
      <4> PICK q : q = conv[c].pending_prompts
        OBVIOUS
      <4>1. q \in Seq(1..Len(messages)) /\ q # <<>> /\ m = Head(q)
        BY <2>1, <3>1 DEF GoodConversation
      <4>2. m \in 1..Len(messages)
        BY <4>1
      <4> QED
        BY <4>2
    <3> QED
      BY <3>1, <3>2, DispatchTypes
  <2>3. work \in Seq(GoodTask(Len(prompts)))
    BY DEF TypeInv
  <2>4. Range(work') = Range(Dispatch(c, m)) \cup Range(work)
    <3> PICK T, x : T = GoodTask(Len(prompts)) /\ x = Dispatch(c, m)
      OBVIOUS
    <3>1. x \in Seq(T) /\ work \in Seq(T) /\ work' = x \o work
      BY <2>1, <2>2, <2>3
    <3>2. Range(x \o work) = Range(x) \cup Range(work)
      BY <3>1, RangeOfParts
    <3> QED
      BY <3>1, <3>2
  <2>5. Reticent(Range(work'), Range(work))
    BY <2>4, ReticentTasks DEF Reticent
  <2> QED
    BY <1>1, <2>4, <2>5 DEF Unheard
<1> QED
  BY <1>2, <1>3

(* Nor does a dispatch, or what clears up. *)
LEMMA SendUnheard == ASSUME TypeInv, DispatchOrAwait \/ SendPrompt \/ ClearTracking \/ Respawn PROVE Unheard
<1>1. work # <<>> /\ Head(work).op \notin {"answered", "called"}
      /\ UNCHANGED <<tree, pending_intercept, deferred_publishes, dropped>>
  BY DEF DispatchOrAwait, SendPrompt, ClearTracking, Respawn, Doing, pipe, gone
<1>2. \A t \in Range(<<>>) : t.kind # "response_finished"
  BY DEF Range
<1>3. CASE (ClearTracking \/ Respawn)
  <2>1. Then(<<>>) /\ UNCHANGED <<prompts, prompt_conversations>>
    BY <1>3 DEF ClearTracking, Respawn, tracking
  <2> QED
    BY <1>1, <1>2, <2>1, NoTasks, ThenUnheard
<1>4. CASE DispatchOrAwait
  <2>1. UNCHANGED <<prompts, prompt_conversations>>
    BY <1>4 DEF DispatchOrAwait, tracking
  <2>2. CASE Then(<<>>)
    BY <1>1, <1>2, <2>1, <2>2, NoTasks, ThenUnheard
  <2>3. CASE ~Then(<<>>)
    <3> PICK c : c = Head(work).conv
      OBVIOUS
    <3> PICK b : b = Do("send", c, 0)
      OBVIOUS
    <3>1. Then(<<b>>) /\ b.kind = "none"
      BY <1>4, <2>3, ReticentTasks DEF DispatchOrAwait
    <3>2. <<b>> \in Seq(GoodTask(Len(prompts)))
      <4>1. c \in Convs
        BY <1>4, HeadTypes DEF DispatchOrAwait, Doing
      <4> QED
        BY <4>1, DoTypes, LengthTypes, TaskLists
    <3>3. \A t \in Range(<<b>>) : t.kind # "response_finished"
      BY <3>1, RangeOfLists
    <3> QED
      BY <1>1, <2>1, <3>1, <3>2, <3>3, ThenUnheard
  <2> QED
    BY <2>2, <2>3
<1>5. CASE SendPrompt
  <2> PICK b, x, n : b = Publish("prompt_created", None, Len(prompts) + 1, 0) /\ n = Len(prompts)
    /\ x = Head(work)
    OBVIOUS
  <2>1. Then(<<b>>) /\ b.kind = "prompt_created" /\ prompt_conversations' = prompt_conversations \cup {n + 1}
    BY <1>5, ReticentTasks DEF SendPrompt, NextPrompt
  <2>2. work' = <<b>> \o Tail(work) /\ work \in Seq(GoodTask(n)) /\ n \in Nat
    BY <2>1, LengthTypes DEF Then, TypeInv
  <2>3. Range(work') = {b} \cup Range(Tail(work)) /\ Range(work) = {x} \cup Range(Tail(work))
    <3> PICK T : T = GoodTask(n) \cup {b}
      OBVIOUS
    <3>1. <<b>> \in Seq(T) /\ Tail(work) \in Seq(T) /\ Range(<<b>>) = {b}
      <4>1. work \in Seq(T)
        <5> HIDE DEF GoodTask
        <5> QED
          BY <2>2
      <4> QED
        BY <1>1, <4>1, RangeOfLists
    <3>2. Range(<<b>> \o Tail(work)) = Range(<<b>>) \cup Range(Tail(work))
      <4> PICK u, v : u = <<b>> /\ v = Tail(work)
        OBVIOUS
      <4>1. u \in Seq(T) /\ v \in Seq(T)
        BY <3>1
      <4>2. Range(u \o v) = Range(u) \cup Range(v)
        BY ONLY <4>1, RangeOfParts
      <4> QED
        BY <4>2
    <3> QED
      BY <1>1, <2>2, <3>1, <3>2, RangeOfWork
  <2>4. 1..n \subseteq 1..Len(prompts') /\ n + 1 \notin 1..n
    <3>1. Len(prompts') = n + 1
      <4>1. prompts \in Seq(Prompt) /\ \E r : prompts' = Append(prompts, r)
        BY <1>5 DEF TypeInv, SendPrompt
      <4> HIDE DEF Prompt
      <4> QED
        BY <4>1
    <3> QED
      BY <2>2, <3>1
  <2>5. Reticent(Range(work'), Range(work))
    BY <2>1, <2>3 DEF Reticent
  <2>6. prompt_conversations' \cap 1..n \subseteq prompt_conversations
    BY <2>1, <2>4
  <2>7. \A t \in Range(work) : t.op \in {"answered", "called"} /\ t.of \in prompt_conversations' => t \in Range(work')
    BY <1>1, <2>3
  <2> QED
    BY <1>1, <2>4, <2>5, <2>6, <2>7 DEF Unheard
<1> QED
  BY <1>3, <1>4, <1>5

(* Nor does the end of a turn; its prompt is not tracked any more. *)
LEMMA EndsUnheard == ASSUME TypeInv, TurnEnds \/ ToolsStart PROVE Unheard
<1>1. /\ work # <<>> /\ Head(work).of \notin prompt_conversations'
      /\ prompt_conversations' \subseteq prompt_conversations
      /\ UNCHANGED <<tree, pending_intercept, deferred_publishes, dropped, prompts>>
      /\ Then(<<Advance>>) \/ Then(<<>>)
  BY DEF TurnEnds, ToolsStart, Doing, pipe, gone
<1>2. \A t \in Range(<<>>) : t.kind # "response_finished"
  BY DEF Range
<1>3. \A t \in Range(<<Advance>>) : t.kind # "response_finished"
  BY ReticentTasks, RangeOfLists
<1>4. <<Advance>> \in Seq(GoodTask(Len(prompts)))
  BY DoTypes, LengthTypes, TaskLists
<1>5. CASE Then(<<>>)
  BY <1>1, <1>2, <1>5, NoTasks, ThenUnheard
<1>6. CASE Then(<<Advance>>)
  BY <1>1, <1>3, <1>4, <1>6, ThenUnheard
<1> QED
  BY <1>1, <1>5, <1>6

(* Folding the queue into a turn answers nothing. *)
LEMMA TurnUnheard == ASSUME TypeInv, MaybeCompleteTurn PROVE Unheard
<1> PICK c, b : c = Head(work).conv /\ b = Do("dispatch", c, 0)
  OBVIOUS
<1> PICK tasks : tasks = Append(Steered(c), b)
  OBVIOUS
<1>1. /\ work # <<>> /\ Head(work).op = "turn" /\ c \in Convs
      /\ UNCHANGED <<tree, pending_intercept, deferred_publishes, dropped, prompts, prompt_conversations>>
      /\ Then(tasks) \/ Then(<<>>)
  BY HeadTypes DEF MaybeCompleteTurn, Doing, pipe, tracking, gone
<1>2. \A t \in Range(<<>>) : t.kind # "response_finished"
  BY DEF Range
<1>3. tasks \in Seq(GoodTask(Len(prompts)))
  BY <1>1, SteeredTypes
<1>4. \A t \in Range(tasks) : t.kind # "response_finished"
  <2> PICK q, s, z : q = conv[c].pending_prompts /\ s = Steered(c) /\ z = session
    OBVIOUS
  <2> PICK S : S = {Publish("steered", c, n, z) : n \in Nat}
    OBVIOUS
  <2>1. q \in Seq(1..Len(messages))
    BY <1>1 DEF TypeInv, GoodConversation
  <2>2. \A i \in DOMAIN q : q[i] \in Nat
    <3>1. \A i \in DOMAIN q : q[i] \in 1..Len(messages)
      BY <2>1
    <3> QED
      BY <3>1
  <2>3. s = [i \in DOMAIN q |-> Publish("steered", c, q[i], z)]
    BY DEF Steered
  <2>4. \A t \in S : t.kind = "steered"
    BY ReticentTasks
  <2>5. s \in Seq(S)
    <3>1. \A i \in DOMAIN q : s[i] \in S
      <4> HIDE DEF Publish
      <4> QED
        BY <2>2, <2>3
    <3>2. DOMAIN s = 1..Len(q) /\ Len(q) \in Nat /\ DOMAIN q = 1..Len(q)
      BY <2>1, <2>3
    <3> HIDE DEF Publish
    <3> QED
      BY <2>3, <3>1, <3>2
  <2>6. Range(tasks) = Range(s) \cup {b}
    <3> PICK T : T = S \cup {b}
      OBVIOUS
    <3>1. s \in Seq(T) /\ b \in T
      BY <2>5
    <3>2. Range(Append(s, b)) = Range(s) \cup {b}
      BY <3>1, RangeOfParts
    <3> QED
      BY <3>2
  <2>7. Range(s) \subseteq S
    BY <2>5 DEF Range
  <2>8. b.kind = "none"
    BY ReticentTasks
  <2> QED
    BY <2>4, <2>6, <2>7, <2>8
<1>5. CASE Then(tasks)
  BY <1>1, <1>3, <1>4, <1>5, ThenUnheard
<1>6. CASE Then(<<>>)
  BY <1>1, <1>2, <1>6, NoTasks, ThenUnheard
<1> QED
  BY <1>1, <1>5, <1>6

(* The end of an initialisation answers nothing. *)
LEMMA InitTasksUnheard ==
    ASSUME TypeInv, NEW found, NEW s \in 1..MaxSessions,
           NEW rest \in Seq(GoodTask(Len(prompts))), CompleteInit(found, s, rest),
           \A t \in Range(rest) : t.kind # "response_finished"
    PROVE  \A t \in Range(work') : t.kind # "response_finished"
<1> PICK p : p = Publish("injected", Default, Len(messages) + 1, s)
  OBVIOUS
<1>1. p.kind = "injected" /\ Advance.kind = "none"
  BY ReticentTasks
<1>2. work' = <<p, Advance>> \o rest \/ work' = <<Advance>> \o rest
  BY DEF CompleteInit
<1> PICK a, x, y : a = Advance /\ x = <<p, a>> /\ y = <<a>>
  OBVIOUS
<1> PICK T : T = GoodTask(Len(prompts)) \cup {p, a}
  OBVIOUS
<1>3. rest \in Seq(T) /\ x \in Seq(T) /\ y \in Seq(T)
  <2>1. p \in T /\ a \in T /\ GoodTask(Len(prompts)) \subseteq T
    OBVIOUS
  <2>2. rest \in Seq(GoodTask(Len(prompts)))
    OBVIOUS
  <2> HIDE DEF GoodTask
  <2> QED
    BY <2>1, <2>2
<1>4. Range(x) = {p, a} /\ Range(y) = {a}
  BY RangeOfLists
<1>5. Range(x \o rest) = Range(x) \cup Range(rest)
  BY ONLY <1>3, RangeOfParts
<1>6. Range(y \o rest) = Range(y) \cup Range(rest)
  BY ONLY <1>3, RangeOfParts
<1>7. work' = x \o rest \/ work' = y \o rest
  BY <1>2
<1> QED
  BY <1>1, <1>4, <1>5, <1>6, <1>7

(* What is given up by submit_user_prompt and handle_cancel_prompt was tracked. *)
LEMMA SubmitUnheard == ASSUME TypeInv, AwaitInv, SubmitUserPrompt \/ CancelPrompt PROVE Unheard
<1>1. PICK X : /\ GiveUpPrompts(X) /\ X \subseteq {conv[q].in_flight_prompt : q \in {q \in conversations : conv[q].in_flight_prompt # 0}}
  BY DEF SubmitUserPrompt, CancelPrompt, Preempted, AwaitInv
<1>2. X \subseteq prompt_conversations
  <2> SUFFICES ASSUME NEW q \in conversations, conv[q].in_flight_prompt # 0 PROVE conv[q].in_flight_prompt \in prompt_conversations
    BY <1>1
  <2>1. Awaited(q)
    BY DEF AwaitInv
  <2> QED
    BY <2>1 DEF Awaited
<1>3. /\ dropped' \subseteq dropped \cup (prompt_conversations \ prompt_conversations')
      /\ prompt_conversations' \subseteq prompt_conversations
  BY <1>1, <1>2 DEF GiveUpPrompts
<1>4. /\ Idle /\ UNCHANGED <<tree, pending_intercept, deferred_publishes, prompts>>
      /\ work' = <<Advance>> \/ \E c, m : work' = Dispatch(c, m)
  BY DEF SubmitUserPrompt, CancelPrompt, pipe
<1>5. \A t \in Range(work') : t.kind # "response_finished"
  <2>1. CASE work' = <<Advance>>
    BY <2>1, ReticentTasks, RangeOfLists
  <2>2. CASE \E c, m : work' = Dispatch(c, m)
    BY <2>2, ReticentTasks
  <2> QED
    BY <1>4, <2>1, <2>2
<1> QED
  BY <1>3, <1>4, <1>5, FrameUnheard

(* What switch_session leaves behind is silent. *)
LEMMA SwitchUnheard == ASSUME TypeInv, SwitchSession PROVE Unheard
<1>1. /\ Idle /\ UNCHANGED <<tree, pending_intercept, deferred_publishes, prompts>>
      /\ prompt_conversations' = {} /\ dropped' = dropped \cup prompt_conversations
      /\ \/ CompleteInit(discovered, session + 1, <<>>)
         \/ work' = <<Publish("session_started", None, 0, session + 1)>>
      /\ session + 1 \in 1..MaxSessions
  BY PromptDispatchAssumption DEF SwitchSession, pipe, TypeInv
<1>2. \A t \in Range(work') : t.kind # "response_finished"
  <2>1. CASE CompleteInit(discovered, session + 1, <<>>)
    <3>1. \A t \in Range(<<>>) : t.kind # "response_finished"
      BY DEF Range
    <3> PICK s : s = session + 1
      OBVIOUS
    <3> QED
      BY <1>1, <2>1, <3>1, NoTasks, InitTasksUnheard
  <2>2. CASE work' = <<Publish("session_started", None, 0, session + 1)>>
    <3> PICK a : a = Publish("session_started", None, 0, session + 1)
      OBVIOUS
    <3>1. a.kind = "session_started"
      BY ReticentTasks
    <3> QED
      BY <2>2, <3>1, RangeOfLists
  <2> QED
    BY <1>1, <2>1, <2>2
<1> QED
  BY <1>1, <1>2, FrameUnheard

(* Extensions answer no prompt. *)
LEMMA ExtensionsUnheard ==
    ASSUME TypeInv, NEW v \in Providers, ExtensionGone(v) \/ \E s \in 1..MaxSessions : ContextReady(v, s)
    PROVE  Unheard
<1> PICK b, r : b = Do("respawn", v, 0) /\ r = <<b>>
  OBVIOUS
<1>1. /\ Idle /\ UNCHANGED <<tree, pending_intercept, deferred_publishes, prompts, prompt_conversations, dropped>>
      /\ \/ \E found : CompleteInit(found, session, r)
         \/ \E found : CompleteInit(found, session, <<>>)
         \/ work' = r
         \/ work' = work
      /\ session \in 1..MaxSessions
  BY DEF ExtensionGone, ContextReady, pipe, tracking, gone, TypeInv
<1>2. /\ r \in Seq(GoodTask(Len(prompts))) /\ Range(r) = {b} /\ b.kind = "none"
      /\ \A t \in Range(<<>>) : t.kind # "response_finished"
  <2>1. b \in GoodTask(Len(prompts))
    BY DoTypes, LengthTypes
  <2>2. Range(<<>>) = {}
    BY DEF Range
  <2> QED
    BY <2>1, <2>2, LengthTypes, TaskLists, RangeOfLists, ReticentTasks
<1>3. \A t \in Range(work') : t.kind # "response_finished"
  <2>1. CASE \E found : CompleteInit(found, session, r)
    BY <1>1, <1>2, <2>1, InitTasksUnheard
  <2>2. CASE \E found : CompleteInit(found, session, <<>>)
    BY <1>1, <1>2, <2>2, NoTasks, InitTasksUnheard
  <2>3. CASE work' = r
    BY <1>2, <2>3
  <2>4. CASE work' = work
    BY <1>1, <2>4, IdleWork
  <2> QED
    BY <1>1, <2>1, <2>2, <2>3, <2>4
<1> QED
  BY <1>1, <1>3, FrameUnheard

(* Other frames that answer no prompt. *)
LEMMA FramesUnheard ==
    ASSUME TypeInv, \/ \E s \in 1..session : ShellFinished(s)
                    \/ \E v \in Providers : ExtensionSubscribes(v) \/ ExtensionReady(v)
                    \/ \E p \in running : ToolFinishes(p)
                    \/ \E q \in Queries : AgentQuery(q)
    PROVE  Unheard
<1>1. /\ Idle /\ UNCHANGED <<tree, pending_intercept, deferred_publishes, prompts, prompt_conversations, dropped>>
      /\ \/ \E k, c, n, s : work' = <<Publish(k, c, n, s)>> /\ k = "injected"
         \/ work' = work \/ work' = <<Advance>> \/ work' = <<>>
         \/ \E c, m : work' = Dispatch(c, m)
         \/ \E c, p : work' = <<Publish("tool_result", c, p, 0), Do("turn", c, p), Advance, Do("clear", None, p)>>
  BY DEF ShellFinished, ExtensionSubscribes, ExtensionReady, ToolFinishes, AgentQuery, pipe, tracking, gone
<1>2. \A t \in Range(work') : t.kind # "response_finished"
  <2>1. ASSUME NEW k, NEW c, NEW n, NEW s, work' = <<Publish(k, c, n, s)>>, k = "injected"
        PROVE  \A t \in Range(work') : t.kind # "response_finished"
    <3> PICK a : a = Publish(k, c, n, s)
      OBVIOUS
    <3>1. a.kind = "injected"
      BY <2>1, ReticentTasks
    <3> QED
      BY <2>1, <3>1, RangeOfLists
  <2>2. CASE work' = work \/ work' = <<Advance>> \/ work' = <<>>
    <3>1. Range(<<>>) = {} /\ Range(<<Advance>>) = {Advance}
      BY RangeOfLists DEF Range
    <3> QED
      BY <1>1, <2>2, <3>1, IdleWork, ReticentTasks
  <2>3. CASE \E c, m : work' = Dispatch(c, m)
    BY <2>3, ReticentTasks
  <2>4. ASSUME NEW c, NEW p, work' = <<Publish("tool_result", c, p, 0), Do("turn", c, p), Advance, Do("clear", None, p)>>
        PROVE  \A t \in Range(work') : t.kind # "response_finished"
    <3> PICK u, v, x, y : u = Publish("tool_result", c, p, 0) /\ v = Do("turn", c, p) /\ x = Advance /\ y = Do("clear", None, p)
      OBVIOUS
    <3>1. u.kind = "tool_result" /\ v.kind = "none" /\ x.kind = "none" /\ y.kind = "none"
      BY ReticentTasks
    <3>2. Range(work') = {u, v, x, y}
      BY <2>4, RangeOfLists
    <3> QED
      BY <3>1, <3>2
  <2> QED
    BY <1>1, <2>1, <2>2, <2>3, <2>4
<1> QED
  BY <1>1, <1>2, FrameUnheard

(* A publish that moves on is silent. *)
LEMMA PublishSilent == ASSUME TypeInv, TypeInv', SilentInv, EnqueuePublish PROVE SilentInv'
<1>1. PICK e \in GoodEvent(Len(prompts)) :
            /\ e.kind = Head(work).kind /\ e.of = Head(work).of
            /\ \/ /\ pending_intercept # <<>>
                  /\ deferred_publishes' = Append(deferred_publishes, e)
                  /\ work' = Tail(work)
                  /\ UNCHANGED <<pending_intercept, tree>>
               \/ /\ pending_intercept = <<>>
                  /\ DispatchStep(e, Tail(work))
                  /\ UNCHANGED deferred_publishes
  BY PublishedEvent
<1>2. UNCHANGED dropped /\ work # <<>>
  BY PublishedEvent DEF gone
<1> PICK h, P, D, W : /\ h = Head(work) /\ P = Range(pending_intercept)
                      /\ D = Range(deferred_publishes) /\ W = Range(work)
  OBVIOUS
<1>3. h \in W /\ e.kind = h.kind /\ e.of = h.of
  BY <1>1, <1>2, RangeOfWork
<1>4. Repeats({e}, P \cup D \cup W)
  BY <1>3 DEF Repeats
<1>5. Range(<<>>) = {} /\ Range(<<e>>) = {e}
  BY RangeOfLists DEF Range
<1>6. Range(Append(deferred_publishes, e)) = D \cup {e}
  <2>1. deferred_publishes \in Seq(GoodEvent(Len(prompts)))
    BY DEF TypeInv
  <2> PICK S : S = GoodEvent(Len(prompts))
    OBVIOUS
  <2> QED
    BY <2>1, RangeOfParts
<1>7. Range(pending_intercept') \cup Range(deferred_publishes') \subseteq P \cup D \cup {e}
  <2>1. CASE pending_intercept # <<>>
    BY <1>1, <1>6, <2>1
  <2>2. CASE pending_intercept = <<>>
    <3>1. pending_intercept' = <<>> \/ pending_intercept' = <<e>>
      BY <1>1, <2>2 DEF DispatchStep
    <3> QED
      BY <1>1, <1>5, <2>2, <3>1
  <2> QED
    BY <2>1, <2>2
<1>8. Repeats(Range(pending_intercept') \cup Range(deferred_publishes'), P \cup D \cup W)
  BY <1>4, <1>7 DEF Repeats
<1>9. UNCHANGED tree \/ Fold(e)
  BY <1>1 DEF DispatchStep, Commit
<1> QED
  BY <1>2, <1>4, <1>8, <1>9, PublishMoves, MovesAreSilent

(* What is drained was on its way. *)
LEMMA DrainSilent == ASSUME TypeInv, TypeInv', SilentInv, DrainDeferred PROVE SilentInv'
<1> PICK P, D, W, S : /\ P = Range(pending_intercept) /\ D = Range(deferred_publishes)
                      /\ W = Range(work) /\ S = GoodEvent(Len(prompts))
  OBVIOUS
<1>1. UNCHANGED dropped /\ deferred_publishes \in Seq(S)
  BY DEF DrainDeferred, gone, TypeInv
<1>2. CASE pending_intercept = <<>> /\ deferred_publishes # <<>>
  <2> PICK e : e = Head(deferred_publishes)
    OBVIOUS
  <2>1. deferred_publishes' = Tail(deferred_publishes) /\ DispatchStep(e, work)
    BY <1>2 DEF DrainDeferred
  <2>2. e \in S /\ D = {e} \cup Range(Tail(deferred_publishes))
    <3>1. e \in S
      BY <1>1, <1>2
    <3> QED
      BY <1>1, <1>2, <3>1, RangeOfParts
  <2>3. Range(<<>>) = {} /\ Range(<<e>>) = {e}
    BY RangeOfLists DEF Range
  <2>4. pending_intercept' = <<>> \/ pending_intercept' = <<e>>
    BY <2>1 DEF DispatchStep
  <2>5. Repeats(Range(pending_intercept') \cup Range(deferred_publishes'), P \cup D \cup W)
    BY <2>1, <2>2, <2>3, <2>4 DEF Repeats
  <2>6. Repeats({e}, P \cup D \cup W)
    BY <2>2 DEF Repeats
  <2>7. UNCHANGED tree \/ Fold(e)
    BY <2>1 DEF DispatchStep, Commit
  <2> QED
    BY <1>1, <2>2, <2>5, <2>6, <2>7, DrainMoves, MovesAreSilent
<1>3. CASE ~(pending_intercept = <<>> /\ deferred_publishes # <<>>)
  <2>1. UNCHANGED <<tree, pending_intercept, deferred_publishes>>
    BY <1>3 DEF DrainDeferred
  <2>2. Repeats(Range(pending_intercept') \cup Range(deferred_publishes'), P \cup D \cup W)
    BY <2>1 DEF Repeats
  <2> QED
    BY <1>1, <2>1, <2>2, DrainMoves, MovesAreSilent
<1> QED
  BY <1>2, <1>3

(* What is released was on its way. *)
LEMMA InterceptSilent ==
    ASSUME TypeInv, TypeInv', SilentInv, InterceptReply \/ InterceptorGone PROVE SilentInv'
<1> PICK P, D, W : /\ P = Range(pending_intercept) /\ D = Range(deferred_publishes) /\ W = Range(work)
  OBVIOUS
<1>1. UNCHANGED <<dropped, deferred_publishes>> /\ Moves
  BY ReplyMoves, InterceptorGoneMoves DEF InterceptReply, InterceptorGone, gone
<1>2. CASE pending_intercept = <<>>
  <2>1. UNCHANGED <<tree, pending_intercept>>
    BY <1>2 DEF InterceptReply, InterceptorGone
  <2>2. Repeats(Range(pending_intercept') \cup Range(deferred_publishes'), P \cup D \cup W)
    BY <1>1, <2>1 DEF Repeats
  <2> QED
    BY <1>1, <2>1, <2>2, MovesAreSilent
<1>3. CASE pending_intercept # <<>>
  <2> PICK e : e = Head(pending_intercept)
    OBVIOUS
  <2>1. pending_intercept' = <<>> /\ Fold(e)
    BY <1>3 DEF InterceptReply, InterceptorGone, Commit
  <2>2. e \in GoodEvent(Len(prompts)) /\ e \in P
    <3> PICK S : S = GoodEvent(Len(prompts))
      OBVIOUS
    <3>1. pending_intercept \in Seq(S)
      BY DEF TypeInv
    <3>2. e \in S
      BY <1>3, <3>1
    <3>3. P = {e} \cup Range(Tail(pending_intercept))
      BY <1>3, <3>1, RangeOfParts
    <3> QED
      BY <3>2, <3>3
  <2>3. Range(<<>>) = {}
    BY DEF Range
  <2>4. Repeats(Range(pending_intercept') \cup Range(deferred_publishes'), P \cup D \cup W)
    BY <1>1, <2>1, <2>3 DEF Repeats
  <2>5. Repeats({e}, P \cup D \cup W)
    BY <2>2 DEF Repeats
  <2> QED
    BY <1>1, <2>1, <2>2, <2>4, <2>5, MovesAreSilent
<1> QED
  BY <1>2, <1>3

(* The answer to a prompt that is tracked is said; another is not. *)
LEMMA RespondsSilent ==
    ASSUME TypeInv, TypeInv', SilentInv, NEW p \in at_agent, NEW how \in {"answered", "called"},
           AgentResponds(p, how)
    PROVE  SilentInv'
<1> PICK c, a, b : c = prompts[p].conv /\ a = Publish("response_finished", c, p, 0) /\ b = Do(how, c, p)
  OBVIOUS
<1>1. /\ Idle /\ UNCHANGED <<tree, pending_intercept, deferred_publishes, prompts, dropped>>
      /\ prompt_conversations' \subseteq prompt_conversations
      /\ \/ work' = work
         \/ p \in prompt_conversations /\ UNCHANGED prompt_conversations /\ work' = <<a, b>>
  BY DEF AgentResponds, pipe, gone
<1>2. p \in 1..Len(prompts) /\ Range(work) = {}
  BY <1>1, IdleWork DEF TypeInv
<1>3. CASE work' = work
  <2>1. \A t \in Range(work') : t.kind # "response_finished"
    BY <1>2, <1>3
  <2>2. Unheard
    BY <1>1, <2>1, FrameUnheard
  <2> QED
    BY <2>2, UnheardIsSilent
<1>4. CASE p \in prompt_conversations /\ UNCHANGED prompt_conversations /\ work' = <<a, b>>
  <2>1. Range(work') = {a, b}
    BY <1>4, RangeOfLists
  <2>2. b.kind = "none" /\ b.op = how /\ b.of = p /\ a.of = p
    BY ReticentTasks
  <2>3. ASSUME NEW q PROVE Heard(q)' <=> Heard(q)
    BY <1>1 DEF Heard
  <2>4. ASSUME NEW q, Spoken(q)' PROVE Spoken(q) \/ q = p
    <3>1. Heard(q)' \/ \E t \in Range(pending_intercept) \cup Range(deferred_publishes) \cup {a, b} : Answers(t, q)
      BY <1>1, <2>1, <2>4 DEF Spoken
    <3>2. \A t \in {a, b} : Answers(t, q) => q = p
      BY <2>2 DEF Answers
    <3> QED
      BY <2>3, <3>1, <3>2 DEF Spoken
  <2>5. ASSUME NEW q \in dropped' PROVE q \notin prompt_conversations' /\ ~Heard(q)'
    BY <1>1, <1>4, <2>3, <2>5 DEF SilentInv
  <2>6. ASSUME NEW q \in prompt_conversations', Spoken(q)' PROVE Closed(q)'
    <3>1. CASE q = p
      BY <2>1, <2>2, <3>1 DEF Closed, Closes
    <3>2. CASE q # p
      <4>1. Spoken(q) /\ q \in prompt_conversations
        BY <1>4, <2>4, <2>6, <3>2
      <4>2. Closed(q)
        BY <4>1 DEF SilentInv
      <4> QED
        BY <1>2, <4>2 DEF Closed
    <3> QED
      BY <3>1, <3>2
  <2>7. ASSUME NEW q \in Nat, Spoken(q)' PROVE q \in 1..Len(prompts')
    BY <1>1, <1>2, <2>4, <2>7 DEF SilentInv
  <2> QED
    BY <2>5, <2>6, <2>7 DEF SilentInv
<1> QED
  BY <1>1, <1>3, <1>4

(* What is dropped stays silent, step by step. *)
LEMMA NextSilent == TypeInv /\ TypeInv' /\ AwaitInv /\ SilentInv /\ [Next]_vars => SilentInv'
<1> SUFFICES ASSUME TypeInv, TypeInv', AwaitInv, SilentInv, [Next]_vars PROVE SilentInv'
  OBVIOUS
<1>1. CASE EnqueuePublish \/ DrainDeferred \/ InterceptReply \/ InterceptorGone
  BY <1>1, PublishSilent, DrainSilent, InterceptSilent
<1>2. CASE TryAdvanceQueue \/ DispatchOrAwait \/ SendPrompt \/ TurnEnds \/ ToolsStart
  BY <1>2, AdvanceUnheard, SendUnheard, EndsUnheard, UnheardIsSilent
<1>3. CASE MaybeCompleteTurn \/ ClearTracking \/ Respawn
  BY <1>3, TurnUnheard, SendUnheard, UnheardIsSilent
<1>4. CASE SubmitUserPrompt \/ CancelPrompt \/ SwitchSession
  BY <1>4, SubmitUnheard, SwitchUnheard, UnheardIsSilent
<1>5. CASE \E s \in 1..session : ShellFinished(s)
  BY <1>5, FramesUnheard, UnheardIsSilent
<1>6. CASE \E v \in Providers : \/ ExtensionGone(v) \/ ExtensionSubscribes(v) \/ ExtensionReady(v)
                               \/ \E s \in 1..MaxSessions : ContextReady(v, s)
  BY <1>6, FramesUnheard, ExtensionsUnheard, UnheardIsSilent
<1>7. CASE \E p \in at_agent : \E how \in {"answered", "called"} : AgentResponds(p, how)
  BY <1>7, RespondsSilent
<1>8. CASE \E p \in running : ToolFinishes(p)
  BY <1>8, FramesUnheard, UnheardIsSilent
<1>9. CASE \E q \in Queries : AgentQuery(q)
  BY <1>9, FramesUnheard, UnheardIsSilent
<1>10. CASE UNCHANGED vars
  <2>1. Unheard
    BY <1>10 DEF vars, Unheard, Reticent
  <2> QED
    BY <2>1, UnheardIsSilent
<1> QED
  BY <1>1, <1>2, <1>3, <1>4, <1>5, <1>6, <1>7, <1>8, <1>9, <1>10 DEF Next, Handler

(* Nothing is dropped at first. *)
LEMMA InitSilent == Init => SilentInv
<1> SUFFICES ASSUME Init PROVE SilentInv
  OBVIOUS
<1>1. /\ pending_intercept = <<>> /\ deferred_publishes = <<>> /\ work = <<>>
      /\ tree = [s \in 1..MaxSessions |-> <<>>] /\ dropped = {} /\ prompt_conversations = {}
  BY DEF Init
<1>2. \A p : ~Heard(p)
  BY <1>1 DEF Heard
<1>3. \A p : ~Spoken(p)
  BY <1>1, <1>2 DEF Spoken, Range
<1> QED
  BY <1>1, <1>3 DEF SilentInv

-----------------------------------------------------------------------------
(* Histories are exact. *)

(* What is silent is dropped for good. *)
LEMMA SilentSuffices == SilentInv => DroppedPromptsAreSilent
<1> SUFFICES ASSUME SilentInv, NEW p \in dropped, NEW s \in 1..MaxSessions, NEW i \in Nodes(s, AnswerEntry(p))
             PROVE  FALSE
  BY DEF DroppedPromptsAreSilent, AnswerEntry
<1>1. i \in DOMAIN tree[s] /\ tree[s][i].entry = AnswerEntry(p)
  BY DEF Nodes
<1>2. Heard(p)
  BY <1>1 DEF Heard
<1> QED
  BY <1>2 DEF SilentInv

(* A message in a history is one there is. *)
LEMMA HistoryIsBorn ==
    ASSUME TypeInv, CountInv, NEW z \in 1..MaxSessions, NEW i \in DOMAIN tree[z],
           tree[z][i].entry.what = "message"
    PROVE  tree[z][i].entry.of \in DOMAIN messages /\ tree[z][i].entry = MessageEntry(tree[z][i].entry.of)
<1> PICK x, m : x = tree[z][i].entry /\ m = x.of
  OBVIOUS
<1>1. x \in Entry
  <2>1. tree[z] \in Seq(Node)
    BY DEF TypeInv
  <2>2. tree[z][i] \in Node
    <3> HIDE DEF Node
    <3> QED
      BY <2>1
  <2> QED
    BY <2>2 DEF Node
<1>2. m \in Nat /\ x = MessageEntry(m)
  BY <1>1 DEF Entry, MessageEntry
<1>3. <<z, i>> \in Places(tree, m)
  <2>1. tree[z][i].entry = MessageEntry(m)
    BY <1>2
  <2> QED
    BY <2>1, APlaceIs
<1>4. IsFiniteSet(Places(tree, m))
  BY <1>2 DEF CountInv
<1> PICK n, a, b, c, d, g, o : /\ n = Cardinality(Places(tree, m)) /\ a = Count(pending_intercept, About(m))
                               /\ b = Count(deferred_publishes, About(m)) /\ c = Count(work, About(m))
                               /\ d = Count(conv[Default].pending_prompts, {m}) /\ g = Given(m) /\ o = Born(m)
  OBVIOUS
<1>5. n \in Nat /\ a \in Nat /\ b \in Nat /\ c \in Nat /\ d \in Nat /\ g \in Nat /\ o \in Nat
  BY <1>4, CountTypes
<1>6. n # 0
  BY <1>3, <1>4, FS_EmptySet
<1>7. n + a + b + c + d + g = o
  BY <1>2 DEF CountInv
<1>8. o # 0
  BY ONLY <1>5, <1>6, <1>7
<1>9. m \in 1..Len(messages)
  BY <1>8 DEF Born
<1>10. DOMAIN messages = 1..Len(messages)
  BY DEF TypeInv
<1> QED
  BY <1>2, <1>9, <1>10

(* The order of what is on its way is that of the histories. *)
LEMMA OrderSuffices == TypeInv /\ CountInv /\ OrderInv => PromptsStayInOrder
<1> SUFFICES ASSUME TypeInv, CountInv, OrderInv, NEW s \in 1..MaxSessions,
                    NEW i \in DOMAIN tree[s], NEW j \in DOMAIN tree[s], i < j,
                    tree[s][i].entry.what = "message", messages[tree[s][i].entry.of].kind = "prompt",
                    tree[s][j].entry.what = "message", messages[tree[s][j].entry.of].kind = "prompt"
             PROVE  tree[s][i].entry.of < tree[s][j].entry.of
  BY DEF PromptsStayInOrder
<1> PICK m, n : m = tree[s][i].entry.of /\ n = tree[s][j].entry.of
  OBVIOUS
<1>1. m \in DOMAIN messages /\ tree[s][i].entry = MessageEntry(m)
  BY HistoryIsBorn
<1>2. n \in DOMAIN messages /\ tree[s][j].entry = MessageEntry(n)
  BY HistoryIsBorn
<1>3. m \in asked /\ n \in asked
  BY <1>1, <1>2 DEF asked
<1>4. TreeRises(s)
  BY DEF OrderInv, Before
<1> QED
  BY <1>1, <1>2, <1>3, <1>4 DEF TreeRises

(* What the invariant counts is what there is. *)
LEMMA CountSuffices == TypeInv /\ CountInv /\ QueueInv => MessagesAreConserved
<1> SUFFICES ASSUME TypeInv, CountInv, QueueInv PROVE MessagesAreConserved
  OBVIOUS
<1> SUFFICES ASSUME NEW m \in DOMAIN messages
             PROVE  LET queued == UNION {{c} \X {i \in DOMAIN conv[c].pending_prompts :
                                        conv[c].pending_prompts[i] = m} : c \in Convs}
                        folded == UNION {{s} \X Nodes(s, [what |-> "message", of |-> m]) : s \in 1..MaxSessions}
                        given_up == {m} \cap discarded
                    IN  Cardinality(queued) + InTransit(UserKinds, m) + Cardinality(folded)
                            + Cardinality(given_up) = 1
  BY DEF MessagesAreConserved
<1> DEFINE queued == UNION {{c} \X {i \in DOMAIN conv[c].pending_prompts : conv[c].pending_prompts[i] = m} : c \in Convs}
           folded == UNION {{s} \X Nodes(s, [what |-> "message", of |-> m]) : s \in 1..MaxSessions}
           given_up == {m} \cap discarded
<1>1. m \in Nat /\ Born(m) = 1
  BY DEF TypeInv, Born
<1>2. folded = Places(tree, m)
  BY DEF Places, MessageEntry, Nodes
<1>3. Cardinality(given_up) = Given(m)
  <2>1. CASE m \in discarded
    <3>1. given_up = {m}
      BY <2>1
    <3> QED
      BY <2>1, <3>1, FS_Singleton DEF Given
  <2>2. CASE m \notin discarded
    <3>1. given_up = {}
      BY <2>2
    <3> QED
      BY <2>2, <3>1, FS_EmptySet DEF Given
  <2> QED
    BY <2>1, <2>2
<1>4. Cardinality(queued) = Count(conv[Default].pending_prompts, {m})
  <2> DEFINE H == Hits(conv[Default].pending_prompts, {m})
  <2>1. queued = {Default} \X H
    <3>1. Default \in Convs
      BY DEF Convs
    <3>2. \A c \in Convs : c # Default => {i \in DOMAIN conv[c].pending_prompts : conv[c].pending_prompts[i] = m} = {}
      BY DEF QueueInv
    <3>3. {i \in DOMAIN conv[Default].pending_prompts : conv[Default].pending_prompts[i] = m} = H
      BY DEF Hits
    <3> DEFINE At(c) == {i \in DOMAIN conv[c].pending_prompts : conv[c].pending_prompts[i] = m}
    <3>4. At(Default) = H /\ \A c \in Convs : c # Default => At(c) = {}
      BY <3>2, <3>3
    <3> HIDE DEF At, H
    <3>5. UNION {{c} \X At(c) : c \in Convs} = {Default} \X H
      BY <3>1, <3>4
    <3> QED
      BY <3>5 DEF At
  <2>2. IsFiniteSet(H) /\ Cardinality(H) \in Nat
    <3>1. conv[Default].pending_prompts \in Seq(Nat)
      BY GoodIsTask
    <3>2. IsFiniteSet(H)
      BY <3>1, CountIsNat
    <3> QED
      BY <3>2, FS_CardinalityType
  <2>3. IsFiniteSet({Default}) /\ Cardinality({Default}) = 1
    BY FS_Singleton
  <2>4. Cardinality({Default} \X H) = Cardinality({Default}) * Cardinality(H)
    <3> HIDE DEF H
    <3> QED
      BY <2>2, <2>3, FS_Product
  <2>5. Cardinality({Default}) * Cardinality(H) = Cardinality(H)
    <3> HIDE DEF H
    <3> QED
      BY <2>2, <2>3
  <2> QED
    BY <2>1, <2>4, <2>5 DEF Count
<1>5. InTransit(UserKinds, m) = Count(pending_intercept, About(m)) + Count(deferred_publishes, About(m)) + Count(work, About(m))
  <2> PICK p, d, w : p = pending_intercept /\ d = deferred_publishes /\ w = work
    OBVIOUS
  <2>1. p \in Seq(Task) /\ d \in Seq(Task) /\ w \in Seq(Task)
    BY GoodIsTask
  <2>2. p \o d \in Seq(Task) /\ (p \o d) \o w \in Seq(Task)
    <3> HIDE DEF Task
    <3> QED
      BY <2>1
  <2> PICK l : l = (p \o d) \o w
    OBVIOUS
  <2>3. OnTheWay = l
    BY DEF OnTheWay
  <2>4. \A i \in DOMAIN l : l[i] \in Task
    <3> HIDE DEF Task
    <3> QED
      BY <2>2
  <2>5. Hits(l, About(m)) = {i \in DOMAIN OnTheWay : OnTheWay[i].kind \in UserKinds /\ OnTheWay[i].of = m}
    BY <2>3, <2>4, AboutTasks DEF Hits
  <2>6. Count(p \o d, About(m)) = Count(p, About(m)) + Count(d, About(m))
    BY ONLY <2>1, CountJoins
  <2>7. Count(l, About(m)) = Count(p \o d, About(m)) + Count(w, About(m))
    <3> PICK r : r = p \o d
      OBVIOUS
    <3>1. r \in Seq(Task) /\ l = r \o w
      BY <2>2
    <3>2. Count(r \o w, About(m)) = Count(r, About(m)) + Count(w, About(m))
      BY ONLY <2>1, <3>1, CountJoins
    <3> QED
      BY <3>1, <3>2
  <2> QED
    BY <2>5, <2>6, <2>7 DEF Count, InTransit
<1> HIDE DEF queued, folded, given_up
<1>6. Cardinality(queued) + InTransit(UserKinds, m) + Cardinality(folded) + Cardinality(given_up) = 1
  <2> PICK n, a, b, c, d, g : /\ n = Cardinality(Places(tree, m)) /\ a = Count(pending_intercept, About(m))
                              /\ b = Count(deferred_publishes, About(m)) /\ c = Count(work, About(m))
                              /\ d = Count(conv[Default].pending_prompts, {m}) /\ g = Given(m)
    OBVIOUS
  <2>1. IsFiniteSet(Places(tree, m)) /\ n + a + b + c + d + g = 1
    BY <1>1 DEF CountInv
  <2>2. n \in Nat /\ a \in Nat /\ b \in Nat /\ c \in Nat /\ d \in Nat /\ g \in Nat
    BY <2>1, CountTypes
  <2>3. d + (a + b + c) + n + g = 1
    BY ONLY <2>1, <2>2
  <2> QED
    BY <1>2, <1>3, <1>4, <1>5, <2>3
<1> QED
  BY <1>6 DEF queued, folded, given_up

(* Each thing said is said once and in its order, and what was given up stays  *)
(* silent, whatever interceptors hold back (pending_prompts, deferred_publishes, *)
(* canceled_prompts).                                                       *)
THEOREM HistoriesAreExact == ASSUME ~SpawnsFail PROVE Spec => []HistoryIsExact
<1> DEFINE Inv == TypeInv /\ AwaitInv /\ LookInv /\ FlowInv /\ SilentInv
<1>1. Init => Inv
  BY InitTypes, InitIsAwaited, InitFlows, InitSilent
<1>2. Inv /\ [Next]_vars => Inv'
  BY NextTypes, NextAwaits, NextLooks, NextFlows, NextSilent
<1>3. Inv => HistoryIsExact
  BY CountSuffices, OrderSuffices, SilentSuffices DEF HistoryIsExact, FlowInv, QuietInv
<1> QED
  BY <1>1, <1>2, <1>3, PTL DEF Spec
===============================================================================
