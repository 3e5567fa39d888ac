------------------------- MODULE SessionStoreProof -------------------------
(***************************************************************************)
(* What holds of the session store for any daemons, sessions, contents and  *)
(* bounds: one daemon writes a session at a time, however appends fail or   *)
(* daemons race, as long as no session is removed while it is held; and the *)
(* tree a daemon keeps is what its log says, and what was acknowledged is   *)
(* there after a restart.  A restart finds what the default conversation    *)
(* said, and a pointer names an earlier result of its branch.               *)
(*                                                                         *)
(* Replay and Branch are recursive: that they are defined, and what they    *)
(* give, follows from the smallest number at which a claim would fail.      *)
(***************************************************************************)
EXTENDS SessionStore, WellFoundedInduction, TLAPS

(* What the locks are in memory and on disk: a held session is locked, by   *)
(* the daemon that holds it; one that is off holds nothing.                 *)
LockTypes ==
    /\ lock \in [Sessions -> Harnesses \cup {None}]
    /\ holds \in [Harnesses -> SUBSET Sessions]
    /\ current \in [Harnesses -> Sessions \cup {None}]
    /\ pc \in [Harnesses -> {"off", "loaded", "running"}]

HeldIsLocked == \A h \in Harnesses : \A s \in holds[h] : lock[s] = h

RunningHolds == \A h \in Harnesses : pc[h] = "running" => current[h] \in holds[h]

BoundToSession == \A h \in Harnesses : pc[h] # "off" => current[h] \in Sessions

LockInv == LockTypes /\ HeldIsLocked /\ RunningHolds /\ BoundToSession

(* The invariant is OneWriter: of two holders of a session only one could be *)
(* its lock.                                                                *)
LEMMA LockInvIsOneWriter == LockInv => OneWriter
  BY DEF LockInv, LockTypes, HeldIsLocked, RunningHolds, OneWriter

(* The locks are right at the start.                                        *)
LEMMA LockInvInit == Init => LockInv
  BY DEF Init, LockInv, LockTypes, HeldIsLocked, RunningHolds, BoundToSession

(* What a step does that leaves the locks alone.                            *)
LEMMA LocksAreKept ==
    ASSUME LockInv, UNCHANGED <<lock, pc, current, holds>>
    PROVE  LockInv'
  BY DEF LockInv, LockTypes, HeldIsLocked, RunningHolds, BoundToSession

(* A daemon that stops gives up its own locks and no other.                 *)
LEMMA StoppedKeepsLocks ==
    ASSUME LockInv, NEW h \in Harnesses, Stopped(h)
    PROVE  LockInv'
<1>1. /\ pc' = [pc EXCEPT ![h] = "off"]
      /\ lock' = [s \in Sessions |-> IF lock[s] = h THEN None ELSE lock[s]]
      /\ holds' = [holds EXCEPT ![h] = {}]
      /\ current' = [current EXCEPT ![h] = None]
  BY DEF Stopped
<1>2. LockTypes'
  BY <1>1 DEF LockInv, LockTypes
<1>3. HeldIsLocked'
  BY <1>1 DEF LockInv, LockTypes, HeldIsLocked
<1>4. RunningHolds' /\ BoundToSession'
  BY <1>1 DEF LockInv, LockTypes, RunningHolds, BoundToSession
<1> QED
  BY <1>2, <1>3, <1>4 DEF LockInv

(* Taking a lock that may be taken, and being bound to its session.         *)
LEMMA TakingKeepsLocks ==
    ASSUME LockInv, NEW h \in Harnesses, NEW s \in Sessions, MayLock(h, s), TakeLock(h, s),
           pc' = [pc EXCEPT ![h] = "running"],
           current' = [current EXCEPT ![h] = s]
    PROVE  LockInv'
<1>1. LockTypes'
  BY DEF LockInv, LockTypes, TakeLock
<1>2. HeldIsLocked'
  <2> SUFFICES ASSUME NEW g \in Harnesses, NEW t \in holds'[g]
               PROVE  lock'[t] = g
    BY DEF HeldIsLocked
  <2>1. None \notin Harnesses
    BY SessionStoreAssumption
  <2>2. CASE t = s
    BY <2>1, <2>2 DEF LockInv, LockTypes, HeldIsLocked, MayLock, TakeLock
  <2>3. CASE t # s
    BY <2>3 DEF LockInv, LockTypes, HeldIsLocked, TakeLock
  <2> QED
    BY <2>2, <2>3
<1>3. RunningHolds' /\ BoundToSession'
  BY DEF LockInv, LockTypes, RunningHolds, BoundToSession, TakeLock
<1> QED
  BY <1>1, <1>2, <1>3 DEF LockInv

(* Every step keeps the locks right, when no session is removed while it is *)
(* held.                                                                    *)
LEMMA LockInvStep ==
    ASSUME ~LongIdle, LockInv, [Next]_vars
    PROVE  LockInv'
<1>0. CASE UNCHANGED vars
  BY <1>0, LocksAreKept DEF vars
<1> SUFFICES ASSUME NEW h \in Harnesses,
                    \/ \E s \in Sessions : Start(h, s) \/ Sweep(h, s)
                    \/ Lock(h)
                    \/ Exit(h)
                    \/ \E c \in Convs : Say(h, c)
                    \/ \E c \in Convs, x \in Contents : ToolResult(h, c, x)
                    \/ \E q \in Sides : Ask(h, q)
                    \/ \E q \in Sides, has_text \in BOOLEAN : AnswerQuery(h, q, has_text)
                    \/ \E node \in 1..MaxEvents : Navigate(h, node)
                    \/ \E s \in Sessions, reason \in {"new", "resume"} : Switch(h, s, reason)
                    \/ \E c \in Convs, whole \in {"yes", "cut"} : KilledWriting(h, c, whole)
             PROVE  LockInv'
  BY <1>0 DEF Next
<1>1. ASSUME NEW s \in Sessions, Start(h, s) PROVE LockInv'
  <2>1. /\ pc[h] = "off"
        /\ pc' = [pc EXCEPT ![h] = "loaded"]
        /\ current' = [current EXCEPT ![h] = s]
        /\ UNCHANGED <<lock, holds>>
    BY <1>1 DEF Start, Bound
  <2> QED
    BY <2>1 DEF LockInv, LockTypes, HeldIsLocked, RunningHolds, BoundToSession
<1>2. ASSUME NEW s \in Sessions, Sweep(h, s) PROVE LockInv'
  <2>1. /\ lock[s] = None
        /\ lock' = [lock EXCEPT ![s] = None]
        /\ UNCHANGED <<pc, current, holds>>
    BY <1>2 DEF Sweep, memory
  <2>2. None \notin Harnesses
    BY SessionStoreAssumption
  <2> QED
    BY <2>1, <2>2 DEF LockInv, LockTypes, HeldIsLocked, RunningHolds, BoundToSession
<1>3. CASE Lock(h)
  <2> DEFINE s == current[h]
  <2>1. pc[h] = "loaded" /\ s \in Sessions
    BY <1>3 DEF Lock, LockInv, BoundToSession
  <2>2. CASE MayLock(h, s)
    <3>1. /\ TakeLock(h, s)
          /\ pc' = [pc EXCEPT ![h] = "running"]
          /\ UNCHANGED current
      BY <1>3, <2>2 DEF Lock
    <3>2. current' = [current EXCEPT ![h] = s]
      BY <3>1 DEF LockInv, LockTypes
    <3> QED
      BY <2>1, <2>2, <3>1, <3>2, TakingKeepsLocks
  <2>3. CASE ~MayLock(h, s)
    BY <1>3, <2>3, StoppedKeepsLocks DEF Lock
  <2> QED
    BY <2>2, <2>3
<1>4. CASE Exit(h)
  BY <1>4, StoppedKeepsLocks DEF Exit
<1>5. ASSUME NEW c \in Convs, Say(h, c) PROVE LockInv'
  BY <1>5, LocksAreKept DEF Say, PublishFor
<1>6. ASSUME NEW c \in Convs, NEW x \in Contents, ToolResult(h, c, x) PROVE LockInv'
  BY <1>6, LocksAreKept DEF ToolResult, PublishFor
<1>7. ASSUME NEW q \in Sides, Ask(h, q) PROVE LockInv'
  BY <1>7, LocksAreKept DEF Ask
<1>8. ASSUME NEW q \in Sides, NEW has_text \in BOOLEAN, AnswerQuery(h, q, has_text)
      PROVE  LockInv'
  BY <1>8, LocksAreKept DEF AnswerQuery
<1>9. ASSUME NEW node \in 1..MaxEvents, Navigate(h, node) PROVE LockInv'
  BY <1>9, LocksAreKept DEF Navigate
<1>10. ASSUME NEW s \in Sessions, NEW reason \in {"new", "resume"}, Switch(h, s, reason)
       PROVE  LockInv'
  <2> DEFINE old == current[h]
             begins == reason = "new" \/ s # old
  <2>1. pc[h] = "running"
    BY <1>10 DEF Switch, Acts
  <2>2. CASE ~MayLock(h, s) \/ ~Readable(log[s])
    <3>1. Stopped(h)
      BY <1>10, <2>2 DEF Switch
    <3> QED
      BY <3>1, StoppedKeepsLocks
  <2>3. CASE MayLock(h, s) /\ Readable(log[s]) /\ ~begins
    <3>1. UNCHANGED <<lock, pc, current, holds>>
      BY <1>10, <2>3 DEF Switch
    <3> QED
      BY <3>1, LocksAreKept
  <2>4. CASE MayLock(h, s) /\ Readable(log[s]) /\ s = old /\ begins
    <3>1. current' = [current EXCEPT ![h] = s] /\ UNCHANGED <<lock, pc, holds>>
      BY <1>10, <2>4 DEF Switch, Bound
    <3> QED
      BY <3>1, <2>4 DEF LockInv, LockTypes, HeldIsLocked, RunningHolds, BoundToSession
  <2>5. CASE MayLock(h, s) /\ Readable(log[s]) /\ s # old
    <3>1. TakeLock(h, s) /\ current' = [current EXCEPT ![h] = s] /\ UNCHANGED pc
      BY <1>10, <2>5 DEF Switch, Bound
    <3>2. pc' = [pc EXCEPT ![h] = "running"]
      BY <2>1, <3>1 DEF LockInv, LockTypes
    <3> QED
      BY <2>5, <3>1, <3>2, TakingKeepsLocks
  <2> QED
    BY <2>2, <2>3, <2>4, <2>5
<1>11. ASSUME NEW c \in Convs, NEW whole \in {"yes", "cut"}, KilledWriting(h, c, whole)
       PROVE  LockInv'
  BY <1>11, StoppedKeepsLocks DEF KilledWriting
<1> QED
  BY <1>1, <1>2, <1>3, <1>4, <1>5, <1>6, <1>7, <1>8, <1>9, <1>10, <1>11

(* No two daemons hold a session, and who takes events for a session holds   *)
(* it (ensure_locked), unless sessions that are held are swept.              *)
THEOREM OneWriterAtATime ==
    ASSUME ~LongIdle
    PROVE  Spec => []OneWriter
<1>1. LockInv /\ [Next]_vars => LockInv'
  BY LockInvStep
<1> QED
  BY <1>1, LockInvInit, LockInvIsOneWriter, PTL DEF Spec

-----------------------------------------------------------------------------
(* Induction, as a statement about sets of numbers.                         *)
LEMMA SmallestNumber ==
    ASSUME NEW T \in SUBSET Nat, T # {}
    PROVE  \E m \in T : \A k \in T : m <= k
<1>1. PICK m \in T : \A k \in T : ~ (<<k, m>> \in OpToRel(<, Nat))
  BY NatLessThanWellFounded, WFMin
<1>2. \A k \in T : k < m => <<k, m>> \in OpToRel(<, Nat)
  BY Zenon DEF OpToRel
<1>3. \A k \in T : ~ (k < m)
  BY <1>1, <1>2, Zenon
<1> QED
  BY <1>3

(* A set of numbers that has 0 and goes on from n to n + 1 has them all.    *)
LEMMA Induction ==
    ASSUME NEW T, 0 \in T, \A n \in Nat : n \in T => n + 1 \in T
    PROVE  Nat \subseteq T
<1> SUFFICES ASSUME Nat \ T # {} PROVE FALSE
  OBVIOUS
<1>1. PICK m \in Nat \ T : \A k \in Nat \ T : m <= k
  BY SmallestNumber
<1>2. m # 0 /\ m - 1 \in Nat
  BY <1>1
<1>3. m - 1 \in T
  BY <1>1, <1>2
<1> QED
  BY <1>1, <1>2, <1>3

(* The same where n may rest on all that is below it.                       *)
LEMMA CourseOfValues ==
    ASSUME NEW T, \A n \in Nat : 0..n-1 \subseteq T => n \in T
    PROVE  Nat \subseteq T
<1> SUFFICES ASSUME Nat \ T # {} PROVE FALSE
  OBVIOUS
<1>1. PICK m \in Nat \ T : \A k \in Nat \ T : m <= k
  BY SmallestNumber
<1>2. 0..m-1 \subseteq T
  BY <1>1
<1> QED
  BY <1>1, <1>2

-----------------------------------------------------------------------------
(* Reading a log: the trees after each of its records.                      *)
Reading(records, n, read) ==
    read = [i \in 0..n |-> IF i = 0 THEN EmptyTree ELSE Read(read[i - 1], records[i])]

(* There is a reading of every length of a log, so that the recursion of    *)
(* Replay defines a function.                                               *)
LEMMA ReadingExists == ASSUME NEW records PROVE \A n \in Nat : \E read : Reading(records, n, read)
<1> DEFINE T == {n \in Nat : \E read : Reading(records, n, read)}
<1>1. 0 \in T
  <2>1. Reading(records, 0, [i \in 0..0 |-> EmptyTree])
    BY DEF Reading
  <2> QED
    BY <2>1
<1>2. ASSUME NEW n \in T PROVE n + 1 \in T
  <2>1. PICK read : Reading(records, n, read)
    OBVIOUS
  <2> DEFINE more == [i \in 0..n + 1 |-> IF i = n + 1 THEN Read(read[n], records[n + 1]) ELSE read[i]]
  <2>2. \A i \in 0..n + 1 : more[i] = IF i = 0 THEN EmptyTree ELSE Read(more[i - 1], records[i])
    BY <2>1 DEF Reading
  <2>3. Reading(records, n + 1, more)
    BY <2>2 DEF Reading
  <2> QED
    BY <2>3
<1> HIDE DEF T
<1>3. Nat \subseteq T
  BY <1>1, <1>2, Induction
<1> QED
  BY <1>3 DEF T

(* Two readings of a log agree as far as the shorter goes.                  *)
LEMMA ReadingIsUnique ==
    ASSUME NEW r, NEW s, NEW m \in Nat, NEW n \in Nat, m <= n, NEW f, NEW g,
           Reading(r, m, f), Reading(s, n, g), \A i \in 1..m : r[i] = s[i]
    PROVE  f[m] = g[m]
<1> DEFINE T == {k \in Nat : k <= m => f[k] = g[k]}
<1>1. 0 \in T
  BY DEF Reading
<1>2. ASSUME NEW k \in T PROVE k + 1 \in T
  <2> SUFFICES ASSUME k + 1 <= m PROVE f[k + 1] = g[k + 1]
    OBVIOUS
  <2>1. f[k + 1] = Read(f[k], r[k + 1]) /\ g[k + 1] = Read(g[k], s[k + 1])
    BY DEF Reading
  <2> QED
    BY <2>1
<1> HIDE DEF T
<1>3. Nat \subseteq T
  BY <1>1, <1>2, Induction
<1> QED
  BY <1>3 DEF T

(* What Replay gives is the last tree of a reading.                         *)
LEMMA ReplayIsAReading ==
    ASSUME NEW records, Len(records) \in Nat
    PROVE  \E read : Reading(records, Len(records), read) /\ Replay(records) = read[Len(records)]
<1>1. \E read : Reading(records, Len(records), read)
  BY ReadingExists
<1> DEFINE read == CHOOSE read : Reading(records, Len(records), read)
<1>2. Reading(records, Len(records), read)
  BY <1>1
<1>3. Replay(records) = read[Len(records)]
  BY DEF Reading, Replay
<1> QED
  BY <1>2, <1>3

(* An empty log gives an empty tree.                                        *)
LEMMA ReplayOfNothing == Replay(<<>>) = EmptyTree
BY ReplayIsAReading DEF Reading

(* A log is read record by record: what was read is not read again.         *)
LEMMA ReplayOfMore ==
    ASSUME NEW records \in Seq(Record), NEW r \in Record
    PROVE  Replay(Append(records, r)) = Read(Replay(records), r)
<1> DEFINE more == Append(records, r)
           n == Len(records)
<1>1. /\ n \in Nat /\ Len(more) = n + 1 /\ more[n + 1] = r
      /\ \A i \in 1..n : records[i] = more[i]
  OBVIOUS
<1>2. PICK f : Reading(records, n, f) /\ Replay(records) = f[n]
  BY <1>1, ReplayIsAReading
<1> HIDE DEF more, n
<1>3. PICK g : Reading(more, n + 1, g) /\ Replay(more) = g[n + 1]
  <2>1. Len(more) \in Nat
    BY <1>1
  <2>2. \E g : Reading(more, Len(more), g) /\ Replay(more) = g[Len(more)]
    BY <2>1, ReplayIsAReading
  <2> QED
    BY <1>1, <2>2
<1>4. f[n] = g[n]
  BY <1>1, <1>2, <1>3, ReadingIsUnique
<1>5. g[n + 1] = Read(g[n], more[n + 1])
  BY <1>1, <1>3 DEF Reading
<1> QED
  BY <1>1, <1>2, <1>3, <1>4, <1>5 DEF more

-----------------------------------------------------------------------------
(* Trees.  A parent comes before its children, and a tree with entries has  *)
(* a head.                                                                  *)
Node == [parent : Nat, entry : Event]

(* The trees a daemon keeps or reads.                                       *)
Tree == [nodes : Seq(Node), head : Nat, next : Nat]

(* A tree that grew by appending nodes: each one's parent is an earlier     *)
(* node or the root, and the head stands on the root only when there is no  *)
(* node.                                                                    *)
Grown(tree) ==
    /\ tree \in Tree
    /\ tree.head <= Len(tree.nodes)
    /\ tree.nodes # <<>> => tree.head # 0
    /\ \A n \in 1..Len(tree.nodes) : tree.nodes[n].parent < n

(* What is known of the nodes of such a tree.                               *)
LEMMA NodesOfGrown ==
    ASSUME NEW tree, Grown(tree)
    PROVE  /\ Len(tree.nodes) \in Nat /\ DOMAIN tree.nodes = 1..Len(tree.nodes)
           /\ tree.nodes \in Seq(Node) /\ tree.head \in 0..Len(tree.nodes) /\ tree.next \in Nat
           /\ \A n \in 1..Len(tree.nodes) : /\ tree.nodes[n] \in Node
                                            /\ tree.nodes[n].parent \in 0..n - 1
                                            /\ tree.nodes[n].entry \in Event
<1>1. tree.nodes \in Seq(Node) /\ tree.head \in Nat /\ tree.next \in Nat
  BY DEF Grown, Tree
<1>2. \A n \in 1..Len(tree.nodes) : tree.nodes[n] \in Node
  BY <1>1
<1>3. \A n \in 1..Len(tree.nodes) : tree.nodes[n].parent \in Nat /\ tree.nodes[n].entry \in Event
  BY <1>2 DEF Node
<1> QED
  BY <1>1, <1>2, <1>3 DEF Grown

(* The branches up to a node.                                               *)
Climbs(tree, n, up) ==
    up = [i \in 0..n |-> IF i = 0 THEN <<>> ELSE Append(up[tree.nodes[i].parent], tree.nodes[i].entry)]

(* There is a climb to every height of a grown tree, so that the recursion  *)
(* of Branch defines a function.                                            *)
LEMMA ClimbExists ==
    ASSUME NEW tree, Grown(tree)
    PROVE  \A n \in Nat : n <= Len(tree.nodes) => \E up : Climbs(tree, n, up)
<1> DEFINE T == {n \in Nat : n <= Len(tree.nodes) => \E up : Climbs(tree, n, up)}
<1>1. 0 \in T
  <2>1. Climbs(tree, 0, [i \in 0..0 |-> <<>>])
    BY DEF Climbs
  <2> QED
    BY <2>1
<1>2. ASSUME NEW n \in T PROVE n + 1 \in T
  <2> SUFFICES ASSUME n + 1 <= Len(tree.nodes) PROVE \E up : Climbs(tree, n + 1, up)
    OBVIOUS
  <2>0. Len(tree.nodes) \in Nat /\ \A i \in 1..n + 1 : tree.nodes[i].parent \in 0..i - 1
    BY NodesOfGrown
  <2>1. PICK up : Climbs(tree, n, up)
    BY <2>0
  <2> DEFINE more == [i \in 0..n + 1 |->
                 IF i = n + 1 THEN Append(up[tree.nodes[n + 1].parent], tree.nodes[n + 1].entry)
                 ELSE up[i]]
  <2>2. \A i \in 0..n : more[i] = up[i]
    OBVIOUS
  <2>3. \A i \in 1..n + 1 : tree.nodes[i].parent \in 0..n
    BY <2>0
  <2>9. /\ \A i \in 1..n : i \in 0..n /\ i # 0
        /\ \A i \in 1..n + 1 : i \in 1..n \/ i = n + 1
        /\ \A i \in 0..n + 1 : i = 0 \/ i \in 1..n + 1
    OBVIOUS
  <2>10. \A i \in 0..n : up[i] = IF i = 0 THEN <<>> ELSE Append(up[tree.nodes[i].parent], tree.nodes[i].entry)
    BY <2>1 DEF Climbs
  <2>6. \A i \in 1..n : up[i] = Append(up[tree.nodes[i].parent], tree.nodes[i].entry)
    BY <2>9, <2>10, Zenon
  <2>11. more[n + 1] = Append(up[tree.nodes[n + 1].parent], tree.nodes[n + 1].entry)
    <3>1. n + 1 \in 0..n + 1
      OBVIOUS
    <3> QED
      BY <3>1, Zenon
  <2>12. \A i \in 1..n + 1 : more[tree.nodes[i].parent] = up[tree.nodes[i].parent]
    BY <2>2, <2>3
  <2>13. \A i \in 1..n : more[i] = up[i]
    BY <2>2
  <2>14. 0 \in 0..n
    OBVIOUS
  <2> HIDE DEF more
  <2>7. up[0] = <<>>
    BY <2>1 DEF Climbs
  <2>8. \A i \in 1..n + 1 : more[i] = Append(more[tree.nodes[i].parent], tree.nodes[i].entry)
    BY <2>6, <2>9, <2>11, <2>12, <2>13, Zenon
  <2>4. \A i \in 0..n + 1 : more[i] =
            IF i = 0 THEN <<>> ELSE Append(more[tree.nodes[i].parent], tree.nodes[i].entry)
    BY <2>2, <2>7, <2>8, <2>9, <2>14, Zenon
  <2>5. Climbs(tree, n + 1, more)
    BY <2>4 DEF Climbs, more
  <2> QED
    BY <2>5
<1> HIDE DEF T
<1>3. Nat \subseteq T
  BY <1>1, <1>2, Induction
<1> QED
  BY <1>3 DEF T

(* There is one climb over the whole tree from which Branch takes every     *)
(* branch.                                                                  *)
LEMMA BranchIsAClimb ==
    ASSUME NEW tree, Grown(tree)
    PROVE  \E up : /\ Climbs(tree, Len(tree.nodes), up)
                   /\ \A n : Branch(tree, n) = up[n]
<1>1. Len(tree.nodes) \in Nat
  BY DEF Grown, Tree
<1>2. \E up : Climbs(tree, Len(tree.nodes), up)
  BY <1>1, ClimbExists
<1> DEFINE up == CHOOSE up : Climbs(tree, Len(tree.nodes), up)
<1>3. Climbs(tree, Len(tree.nodes), up)
  BY <1>2
<1>4. \A n : Branch(tree, n) = up[n]
  BY DEF Climbs, Branch
<1> QED
  BY <1>3, <1>4

(* The branch of a node is that of its parent and its entry.                *)
LEMMA BranchOf ==
    ASSUME NEW tree, Grown(tree)
    PROVE  /\ Branch(tree, 0) = <<>>
           /\ \A n \in 1..Len(tree.nodes) :
                 Branch(tree, n) = Append(Branch(tree, tree.nodes[n].parent), tree.nodes[n].entry)
<1>1. Len(tree.nodes) \in Nat
  BY DEF Grown, Tree
<1>2. PICK up : Climbs(tree, Len(tree.nodes), up) /\ \A n : Branch(tree, n) = up[n]
  BY BranchIsAClimb
<1>3. \A i \in 0..Len(tree.nodes) : up[i] =
         IF i = 0 THEN <<>> ELSE Append(up[tree.nodes[i].parent], tree.nodes[i].entry)
  BY <1>2 DEF Climbs
<1>4. Branch(tree, 0) = <<>>
  BY <1>1, <1>2, <1>3
<1>6. \A n \in 1..Len(tree.nodes) : n \in 0..Len(tree.nodes) /\ n # 0
  BY <1>1
<1>5. \A n \in 1..Len(tree.nodes) : up[n] = Append(up[tree.nodes[n].parent], tree.nodes[n].entry)
  BY <1>3, <1>6, Zenon
<1> QED
  BY <1>2, <1>4, <1>5

(* A branch is a sequence of events.                                        *)
LEMMA BranchType ==
    ASSUME NEW tree, Grown(tree)
    PROVE  \A n \in 0..Len(tree.nodes) : Branch(tree, n) \in Seq(Event)
<1> DEFINE T == {n \in Nat : n <= Len(tree.nodes) => Branch(tree, n) \in Seq(Event)}
<1>1. ASSUME NEW n \in Nat, 0..n-1 \subseteq T PROVE n \in T
  <2> SUFFICES ASSUME n <= Len(tree.nodes) PROVE Branch(tree, n) \in Seq(Event)
    OBVIOUS
  <2>1. CASE n = 0
    <3>1. Branch(tree, 0) = <<>>
      BY BranchOf
    <3>2. <<>> \in Seq(Event)
      OBVIOUS
    <3> QED
      BY <2>1, <3>1, <3>2, Zenon
  <2>2. CASE n # 0
    <3>1. n \in 1..Len(tree.nodes) /\ tree.nodes[n].parent \in 0..n-1 /\ tree.nodes[n].entry \in Event
      BY <2>2, NodesOfGrown
    <3>2. tree.nodes[n].parent \in T /\ tree.nodes[n].parent <= Len(tree.nodes)
      BY <1>1, <3>1 DEF Grown, Tree
    <3>3. Branch(tree, tree.nodes[n].parent) \in Seq(Event)
      BY <3>2
    <3>4. Branch(tree, n) = Append(Branch(tree, tree.nodes[n].parent), tree.nodes[n].entry)
      BY <3>1, BranchOf
    <3> QED
      BY <3>1, <3>3, <3>4
  <2> QED
    BY <2>1, <2>2
<1> HIDE DEF T
<1>2. Nat \subseteq T
  BY <1>1, CourseOfValues
<1> QED
  BY <1>2 DEF T, Grown, Tree

(* What two trees agree on up to a node, their branches agree on.           *)
LEMMA SameBranch ==
    ASSUME NEW old, NEW new, Grown(old), Grown(new), NEW m \in Nat,
           m <= Len(old.nodes), m <= Len(new.nodes),
           \A n \in 1..m : old.nodes[n] = new.nodes[n]
    PROVE  \A n \in 0..m : Branch(old, n) = Branch(new, n)
<1> DEFINE T == {n \in Nat : n <= m => Branch(old, n) = Branch(new, n)}
<1>1. ASSUME NEW n \in Nat, 0..n-1 \subseteq T PROVE n \in T
  <2> SUFFICES ASSUME n <= m PROVE Branch(old, n) = Branch(new, n)
    OBVIOUS
  <2>1. CASE n = 0
    BY <2>1, BranchOf
  <2>2. CASE n # 0
    <3>1. n \in 1..Len(old.nodes) /\ n \in 1..Len(new.nodes) /\ old.nodes[n].parent \in 0..n-1
      BY <2>2, NodesOfGrown
    <3>2. old.nodes[n].parent \in T /\ old.nodes[n].parent <= m
      BY <1>1, <3>1
    <3>3. old.nodes[n] = new.nodes[n]
      BY <2>2
    <3>4. /\ Branch(old, n) = Append(Branch(old, old.nodes[n].parent), old.nodes[n].entry)
          /\ Branch(new, n) = Append(Branch(new, new.nodes[n].parent), new.nodes[n].entry)
      BY <3>1, BranchOf
    <3>5. Branch(old, old.nodes[n].parent) = Branch(new, old.nodes[n].parent)
      BY <3>2
    <3> QED
      BY <3>3, <3>4, <3>5
  <2> QED
    BY <2>1, <2>2
<1> HIDE DEF T
<1>2. Nat \subseteq T
  BY <1>1, CourseOfValues
<1> QED
  BY <1>2 DEF T

(* What Apply makes of a tree: an entry more, or another head.              *)
ParentIn(tree, parent) == parent = <<>> \/ \E n \in 0..Len(tree.nodes) : parent = <<n>>

(* Where an event of this parent is put.                                    *)
Under(tree, parent) == IF parent = <<>> THEN tree.head ELSE parent[1]

(* An event that folds becomes the last node, under its parent, and the     *)
(* head.                                                                    *)
LEMMA ApplyFolds ==
    ASSUME NEW tree, Grown(tree), NEW parent, ParentIn(tree, parent), NEW event \in Event,
           event.what \in Folding
    PROVE  LET t == Apply(tree, parent, event) IN
           /\ Grown(t) /\ t.next = tree.next
           /\ t.nodes = Append(tree.nodes, [parent |-> Under(tree, parent), entry |-> event])
           /\ t.head = Len(tree.nodes) + 1
           /\ Len(t.nodes) = Len(tree.nodes) + 1
           /\ Under(tree, parent) \in 0..Len(tree.nodes)
<1>1. Under(tree, parent) \in 0..Len(tree.nodes) /\ tree.nodes \in Seq(Node) /\ Len(tree.nodes) \in Nat
  BY DEF Under, ParentIn, Grown, Tree
<1> DEFINE node == [parent |-> Under(tree, parent), entry |-> event]
<1>2. node \in Node
  BY <1>1 DEF Node
<1>3. Apply(tree, parent, event) = [tree EXCEPT !.nodes = Append(@, node), !.head = Len(tree.nodes) + 1]
  BY DEF Apply, Under, Folding
<1>4. /\ Append(tree.nodes, node) \in Seq(Node) /\ Len(Append(tree.nodes, node)) = Len(tree.nodes) + 1
      /\ \A i \in 1..Len(tree.nodes) : Append(tree.nodes, node)[i] = tree.nodes[i]
      /\ Append(tree.nodes, node)[Len(tree.nodes) + 1] = node
      /\ Append(tree.nodes, node) # <<>>
  BY <1>1, <1>2
<1>5. node.parent = Under(tree, parent)
  OBVIOUS
<1> HIDE DEF node
<1> DEFINE longer == Append(tree.nodes, node)
<1> HIDE DEF longer
<1>6. LET t == Apply(tree, parent, event) IN
      /\ t \in Tree /\ t.nodes = longer /\ t.head = Len(tree.nodes) + 1 /\ t.next = tree.next
  <2>1. Apply(tree, parent, event) = [tree EXCEPT !.nodes = longer, !.head = Len(tree.nodes) + 1]
    BY <1>3 DEF longer
  <2>2. longer \in Seq(Node) /\ tree \in Tree /\ Len(tree.nodes) + 1 \in Nat
    BY <1>1, <1>4 DEF longer, Grown
  <2> QED
    BY <2>1, <2>2 DEF Tree
<1>7. Grown(Apply(tree, parent, event))
  BY <1>1, <1>4, <1>5, <1>6 DEF Grown, longer
<1> QED
  BY <1>1, <1>4, <1>6, <1>7 DEF node, longer

(* An event that does not fold leaves the nodes and moves the head to a     *)
(* node or not at all.                                                      *)
LEMMA ApplyMoves ==
    ASSUME NEW tree, Grown(tree), NEW parent, NEW event \in Event, event.what \notin Folding
    PROVE  LET t == Apply(tree, parent, event) IN
           /\ Grown(t) /\ t.next = tree.next /\ t.nodes = tree.nodes
           /\ t.head = IF event.what = "navigate" /\ event.node \in DOMAIN tree.nodes
                       THEN event.node ELSE tree.head
<1>1. tree.nodes \in Seq(Node) /\ Len(tree.nodes) \in Nat /\ DOMAIN tree.nodes = 1..Len(tree.nodes)
  BY DEF Grown, Tree
<1>2. Apply(tree, parent, event) =
         IF event.what = "navigate" /\ event.node \in DOMAIN tree.nodes
         THEN [tree EXCEPT !.head = event.node] ELSE tree
  BY DEF Apply, Folding
<1> QED
  BY <1>1, <1>2 DEF Grown, Tree

-----------------------------------------------------------------------------
(* A kept tree follows the one that is read from the log when they differ in *)
(* nothing but roots that the log does not tell from "inherit the head".    *)
Follows(kept, read) ==
    /\ kept.head = read.head /\ kept.next = read.next /\ Len(kept.nodes) = Len(read.nodes)
    /\ \A n \in 1..Len(kept.nodes) : /\ kept.nodes[n].entry = read.nodes[n].entry
                                     /\ kept.nodes[n].parent \in {0, read.nodes[n].parent}

(* A record that is read.                                                   *)
IsWhole(r) == r.whole = "yes"

(* A log of at most n records, of events up to n, in order.                 *)
Ordered(records, n) ==
    /\ records \in Seq(Record)
    /\ Len(records) <= n
    /\ Grown(Replay(records))
    /\ Len(Replay(records).nodes) <= Len(records)
    /\ \A i \in 1..Len(records) : IsWhole(records[i]) =>
          records[i].event.of <= n /\ records[i].id < Replay(records).next
    /\ \A i, j \in 1..Len(records) : i < j /\ IsWhole(records[i]) /\ IsWhole(records[j]) =>
          records[i].event.of < records[j].event.of /\ records[i].id < records[j].id

(* A log that holds events up to n and a tree that follows it.              *)
Sound(records, tree, n) == Ordered(records, n) /\ Grown(tree) /\ Follows(tree, Replay(records))

(* The event n can be read in the log.                                      *)
Stands(records, n) == \E i \in 1..Len(records) : IsWhole(records[i]) /\ records[i].event.of = n

(* One sequence begins with the other.                                      *)
Longer(short, long) == Len(short) <= Len(long) /\ \A i \in 1..Len(short) : long[i] = short[i]

(* What becomes of a log and its tree by appending events up to n.          *)
Grows(records, tree, o, n) ==
    Sound(o.log, o.tree, n) /\ Longer(records, o.log) /\ Longer(tree.nodes, o.tree.nodes)

(* A log stays in order when more events are numbered.                      *)
LEMMA OrderedLater ==
    ASSUME NEW records, NEW m \in Nat, NEW n \in Nat, Ordered(records, m), m <= n
    PROVE  Ordered(records, n)
<1>1. \A r \in Record : r.event.of \in Nat
  BY DEF Record, Event
<1>2. \A i \in 1..Len(records) : records[i] \in Record
  BY DEF Ordered
<1>3. \A i \in 1..Len(records) : records[i].event.of <= m => records[i].event.of <= n
  BY <1>1, <1>2
<1>4. Len(records) <= n
  BY DEF Ordered
<1> QED
  BY <1>3, <1>4 DEF Ordered

(* What begins with what begins with a sequence begins with it.             *)
LEMMA LongerOn ==
    ASSUME NEW a, NEW b, NEW c, Len(a) \in Nat, Len(b) \in Nat, Len(c) \in Nat,
           Longer(a, b), Longer(b, c)
    PROVE  Longer(a, c)
BY DEF Longer

(* Two appends, one after the other.                                        *)
LEMMA GrowsOn ==
    ASSUME NEW r, NEW t, NEW o, NEW p, NEW m, NEW n,
           Len(r) \in Nat, Len(t.nodes) \in Nat,
           Grows(r, t, o, m), Grows(o.log, o.tree, p, n)
    PROVE  Grows(r, t, p, n)
<1>1. Len(o.log) \in Nat /\ Len(p.log) \in Nat
  BY DEF Grows, Sound, Ordered
<1>2. Len(o.tree.nodes) \in Nat /\ Len(p.tree.nodes) \in Nat
  BY NodesOfGrown DEF Grows, Sound
<1> QED
  BY <1>1, <1>2, LongerOn DEF Grows

(* What can be read in a log can be read in a longer one.                   *)
LEMMA StandsOn ==
    ASSUME NEW r, NEW s, Len(r) \in Nat, Len(s) \in Nat, Longer(r, s), NEW n, Stands(r, n)
    PROVE  Stands(s, n)
BY DEF Stands, Longer

(* Reading a record that was written in full, or in part.                   *)
LEMMA ReadRecord ==
    ASSUME NEW tree, Grown(tree), NEW r \in Record, ParentIn(tree, r.parent)
    PROVE  /\ Grown(Read(tree, r))
           /\ ~IsWhole(r) => Read(tree, r) = tree
           /\ IsWhole(r) => /\ Read(tree, r).next = r.id + 1
                            /\ Read(tree, r).nodes = Apply(tree, r.parent, r.event).nodes
                            /\ Read(tree, r).head = Apply(tree, r.parent, r.event).head
<1>1. Grown(Apply(tree, r.parent, r.event))
  <2>1. r.event \in Event
    BY DEF Record
  <2> QED
    BY <2>1, ApplyFolds, ApplyMoves
<1>2. r.id \in Nat
  BY DEF Record
<1>3. Grown([Apply(tree, r.parent, r.event) EXCEPT !.next = r.id + 1])
  <2> DEFINE a == Apply(tree, r.parent, r.event)
             b == [a EXCEPT !.next = r.id + 1]
  <2>1. a \in [nodes : Seq(Node), head : Nat, next : Nat]
    BY <1>1 DEF Grown, Tree
  <2>2. r.id + 1 \in Nat
    BY <1>2
  <2> HIDE DEF a
  <2>3. b.nodes = a.nodes /\ b.head = a.head /\ b \in [nodes : Seq(Node), head : Nat, next : Nat]
    BY <2>1, <2>2
  <2>4. Grown(a)
    BY <1>1 DEF a
  <2> HIDE DEF b
  <2>5. Grown(b)
    BY <2>3, <2>4 DEF Grown, Tree
  <2> QED
    BY <2>5 DEF a, b
<1>4. Apply(tree, r.parent, r.event) \in Tree
  BY <1>1 DEF Grown
<1>5. LET t == [Apply(tree, r.parent, r.event) EXCEPT !.next = r.id + 1] IN
      /\ t.next = r.id + 1
      /\ t.nodes = Apply(tree, r.parent, r.event).nodes
      /\ t.head = Apply(tree, r.parent, r.event).head
  BY <1>4 DEF Tree
<1> QED
  BY <1>3, <1>5 DEF Read, IsWhole

(* What append_session_event_at writes is a record, whose parent is never   *)
(* an explicit root.                                                        *)
LEMMA RecordIsARecord ==
    ASSUME NEW tree, Grown(tree), Len(tree.nodes) <= MaxEvents, NEW parent, ParentIn(tree, parent),
           NEW event \in Event, NEW whole \in {"yes", "short", "cut"}
    PROVE  LET r == RecordOf(tree, parent, event, whole) IN
           /\ r \in Record /\ r.id = tree.next /\ r.event = event /\ r.whole = whole
           /\ r.parent = Flatten(parent) /\ ParentIn(tree, Flatten(parent))
<1>1. tree.next \in Nat /\ Len(tree.nodes) \in Nat
  BY NodesOfGrown
<1>2. Flatten(parent) \in Parent \ {<<0>>} /\ ParentIn(tree, Flatten(parent))
  <2>1. CASE parent = <<>>
    <3>1. <<>> # <<0>>
      OBVIOUS
    <3> QED
      BY <2>1, <3>1 DEF Flatten, Parent, ParentIn
  <2>2. ASSUME NEW n \in 0..Len(tree.nodes), parent = <<n>> 
         PROVE  Flatten(parent) \in Parent \ {<<0>>} /\ ParentIn(tree, Flatten(parent))
    <3>1. MaxEvents \in Nat
      BY SessionStoreAssumption
    <3>2. n \in 0..MaxEvents
      BY <1>1, <3>1
    <3>3. <<>> # <<0>>
      OBVIOUS
    <3> QED
      BY <2>2, <3>2, <3>3 DEF Flatten, Parent, ParentIn
  <2> QED
    BY <2>1, <2>2 DEF ParentIn
<1> QED
  BY <1>1, <1>2 DEF RecordOf, Record

-----------------------------------------------------------------------------
(* What an append comes to when it does not fail after the record is whole. *)
Outcome(records, tree, parent, event, o) ==
    \/ /\ o.ok
       /\ o.log = Append(records, RecordOf(tree, parent, event, "yes"))
       /\ o.tree = [Apply(tree, parent, event) EXCEPT !.next = @ + 1]
    \/ /\ ~o.ok /\ o.tree = tree
       /\ \/ o.log = records
          \/ \E w \in {"short", "cut"} : o.log = Append(records, RecordOf(tree, parent, event, w))

(* What the outcomes of an append have in common when last_touched is       *)
(* always written.                                                          *)
LEMMA AppendsAre ==
    ASSUME NEW records, NEW tree, NEW parent, NEW event, "meta" \notin Failures,
           NEW o \in Appends(records, tree, parent, event)
    PROVE  Outcome(records, tree, parent, event, o)
BY DEF Appends, Outcome

(* The tree that is kept and the one that is read take the same event.      *)
LEMMA FollowsOn ==
    ASSUME NEW kept, NEW read, Grown(kept), Grown(read), Follows(kept, read),
           NEW parent, ParentIn(kept, parent), NEW event \in Event
    PROVE  LET k == Apply(kept, parent, event)
               r == Apply(read, Flatten(parent), event)
           IN /\ k.head = r.head /\ Len(k.nodes) = Len(r.nodes) /\ Grown(k) /\ Grown(r)
              /\ \A n \in 1..Len(k.nodes) : /\ k.nodes[n].entry = r.nodes[n].entry
                                            /\ k.nodes[n].parent \in {0, r.nodes[n].parent}
              /\ Longer(kept.nodes, k.nodes) /\ Longer(read.nodes, r.nodes)
              /\ Len(k.nodes) <= Len(kept.nodes) + 1
<1> DEFINE k == Apply(kept, parent, event)
           r == Apply(read, Flatten(parent), event)
<1>1. /\ kept.nodes \in Seq(Node) /\ read.nodes \in Seq(Node)
      /\ Len(kept.nodes) \in Nat /\ Len(read.nodes) = Len(kept.nodes) /\ kept.head = read.head
  BY NodesOfGrown DEF Follows
<1>2. ParentIn(read, Flatten(parent))
  <2>1. 0 # Len(<<>>) \/ <<>> # <<0>>
    OBVIOUS
  <2> QED
    BY <1>1 DEF ParentIn, Flatten
<1>3. CASE event.what \in Folding
  <2>1. /\ Grown(k) /\ k.head = Len(kept.nodes) + 1 /\ Len(k.nodes) = Len(kept.nodes) + 1
        /\ k.nodes = Append(kept.nodes, [parent |-> Under(kept, parent), entry |-> event])
        /\ Under(kept, parent) \in Nat
    BY <1>3, ApplyFolds
  <2>2. /\ Grown(r) /\ r.head = Len(read.nodes) + 1 /\ Len(r.nodes) = Len(read.nodes) + 1
        /\ r.nodes = Append(read.nodes, [parent |-> Under(read, Flatten(parent)), entry |-> event])
        /\ Under(read, Flatten(parent)) \in Nat
    BY <1>2, <1>3, ApplyFolds
  <2>3. Under(kept, parent) \in {0, Under(read, Flatten(parent))}
    <3>1. CASE parent = <<>>
      <4>1. <<>> # <<0>>
        OBVIOUS
      <4> QED
        BY <1>1, <3>1, <4>1 DEF Under, Flatten
    <3>2. ASSUME NEW n \in 0..Len(kept.nodes), parent = <<n>>
          PROVE  Under(kept, parent) \in {0, Under(read, Flatten(parent))}
      <4>1. <<n>> # <<>> /\ <<n>>[1] = n /\ (<<n>> = <<0>> <=> n = 0)
        OBVIOUS
      <4> QED
        BY <3>2, <4>1 DEF Under, Flatten
    <3> QED
      BY <3>1, <3>2 DEF ParentIn
  <2> DEFINE a == [parent |-> Under(kept, parent), entry |-> event]
             b == [parent |-> Under(read, Flatten(parent)), entry |-> event]
  <2>4. a \in Node /\ b \in Node /\ a.entry = b.entry /\ a.parent \in {0, b.parent}
    BY <2>1, <2>2, <2>3 DEF Node
  <2>5. k.nodes = Append(kept.nodes, a) /\ r.nodes = Append(read.nodes, b)
    BY <2>1, <2>2
  <2> HIDE DEF a, b, k, r
  <2>6. /\ \A n \in 1..Len(kept.nodes) : k.nodes[n] = kept.nodes[n] /\ r.nodes[n] = read.nodes[n]
        /\ k.nodes[Len(kept.nodes) + 1] = a /\ r.nodes[Len(kept.nodes) + 1] = b
    BY <1>1, <2>4, <2>5
  <2>7. \A n \in 1..Len(k.nodes) : n \in 1..Len(kept.nodes) \/ n = Len(kept.nodes) + 1
    BY <1>1, <2>1
  <2>8. \A n \in 1..Len(k.nodes) : /\ k.nodes[n].entry = r.nodes[n].entry
                                   /\ k.nodes[n].parent \in {0, r.nodes[n].parent}
    BY <2>4, <2>6, <2>7 DEF Follows
  <2>9. Longer(kept.nodes, k.nodes) /\ Longer(read.nodes, r.nodes)
    BY <1>1, <2>1, <2>2, <2>6 DEF Longer
  <2> QED
    BY <1>1, <2>1, <2>2, <2>8, <2>9 DEF k, r
<1>4. CASE event.what \notin Folding
  <2>1. /\ Grown(k) /\ k.nodes = kept.nodes
        /\ k.head = IF event.what = "navigate" /\ event.node \in DOMAIN kept.nodes
                    THEN event.node ELSE kept.head
    BY <1>4, ApplyMoves
  <2>2. /\ Grown(r) /\ r.nodes = read.nodes
        /\ r.head = IF event.what = "navigate" /\ event.node \in DOMAIN read.nodes
                    THEN event.node ELSE read.head
    BY <1>4, ApplyMoves
  <2>3. DOMAIN kept.nodes = DOMAIN read.nodes
    BY <1>1
  <2> QED
    BY <1>1, <2>1, <2>2, <2>3 DEF Follows, Longer
<1> QED
  BY <1>3, <1>4

(* A log grows by a record, written in full or in part.                     *)
LEMMA OrderedMore ==
    ASSUME NEW records, NEW m \in Nat, NEW n \in Nat, Ordered(records, m), m < n,
           NEW r \in Record, r.event.of = n, r.id = Replay(records).next,
           ParentIn(Replay(records), r.parent)
    PROVE  /\ Ordered(Append(records, r), n)
           /\ Longer(records, Append(records, r))
           /\ IsWhole(r) => Stands(Append(records, r), n)
<1> DEFINE more == Append(records, r)
           old == Replay(records)
           new == Replay(more)
<1>1. /\ more \in Seq(Record) /\ Len(records) \in Nat /\ Len(more) = Len(records) + 1
      /\ \A i \in 1..Len(records) : more[i] = records[i]
      /\ more[Len(records) + 1] = r
      /\ \A i \in 1..Len(more) : i \in 1..Len(records) \/ i = Len(records) + 1
  BY DEF Ordered
<1>2. new = Read(old, r) /\ Grown(old) /\ Len(old.nodes) <= Len(records)
  BY ReplayOfMore DEF Ordered
<1>3. /\ Grown(new) /\ (IsWhole(r) => new.next = r.id + 1) /\ (~IsWhole(r) => new = old)
      /\ old.next \in Nat /\ new.next \in Nat
      /\ Len(old.nodes) \in Nat /\ Len(new.nodes) \in Nat
      /\ Len(new.nodes) <= Len(old.nodes) + 1
  <2>1. r.event \in Event
    BY DEF Record
  <2>2. Len(Apply(old, r.parent, r.event).nodes) <= Len(old.nodes) + 1
    <3>1. Len(old.nodes) \in Nat
      BY <1>2, NodesOfGrown
    <3>2. CASE r.event.what \in Folding
      <4>1. \A t : LET a == Apply(t, r.parent, r.event) IN
               Grown(t) /\ ParentIn(t, r.parent) => Len(a.nodes) = Len(t.nodes) + 1
        BY <2>1, <3>2, ApplyFolds
      <4>2. Grown(old) /\ ParentIn(old, r.parent)
        BY <1>2
      <4> QED
        BY <3>1, <4>1, <4>2
    <3>3. CASE r.event.what \notin Folding
      BY <1>2, <2>1, <3>1, <3>3, ApplyMoves
    <3> QED
      BY <3>2, <3>3
  <2>3. Grown(Read(old, r))
    BY <1>2, ReadRecord
  <2> QED
    BY <1>2, <2>2, <2>3, ReadRecord, NodesOfGrown
<1>4. new.next >= old.next
  BY <1>3
<1>5. \A q \in Record : q.event.of \in Nat /\ q.id \in Nat
  BY DEF Record, Event
<1>6. \A i \in 1..Len(records) : /\ records[i] \in Record
                                 /\ IsWhole(records[i]) => records[i].event.of <= m /\ records[i].id < old.next
  BY DEF Ordered
<1> HIDE DEF more, old, new
<1>7. \A i \in 1..Len(more) : IsWhole(more[i]) => more[i].event.of <= n /\ more[i].id < new.next
  <2>1. ASSUME NEW i \in 1..Len(records), IsWhole(more[i])
        PROVE  more[i].event.of <= n /\ more[i].id < new.next
    <3>1. records[i] \in Record /\ more[i] = records[i] /\ IsWhole(records[i])
      BY <1>1, <1>6, <2>1
    <3>2. records[i].event.of <= m /\ records[i].id < old.next
      BY <1>6, <3>1
    <3>3. records[i].event.of \in Nat /\ records[i].id \in Nat
      BY <1>5, <3>1
    <3> QED
      BY <1>3, <1>4, <3>1, <3>2, <3>3
  <2>2. IsWhole(r) => r.event.of <= n /\ r.id < new.next
    BY <1>3, <1>5 DEF old
  <2> QED
    BY <1>1, <2>1, <2>2
<1>8. \A i, j \in 1..Len(more) : i < j /\ IsWhole(more[i]) /\ IsWhole(more[j]) =>
         more[i].event.of < more[j].event.of /\ more[i].id < more[j].id
  <2> SUFFICES ASSUME NEW i \in 1..Len(more), NEW j \in 1..Len(more), i < j, IsWhole(more[i]), IsWhole(more[j])
               PROVE  more[i].event.of < more[j].event.of /\ more[i].id < more[j].id
    OBVIOUS
  <2>0. i \in 1..Len(records)
    BY <1>1
  <2>1. CASE j \in 1..Len(records)
    BY <1>1, <2>0, <2>1 DEF Ordered
  <2>2. CASE j = Len(records) + 1
    <3>1. more[i] = records[i] /\ more[j] = r
      BY <1>1, <2>0, <2>2
    <3>2. records[i].event.of <= m /\ records[i].id < old.next /\ records[i] \in Record
      BY <1>6, <2>0, <3>1
    <3>3. records[i].event.of \in Nat
      BY <1>5, <3>2
    <3>4. r.event.of = n /\ r.id = old.next
      BY DEF old
    <3>5. records[i].event.of < n
      BY <3>2, <3>3
    <3> QED
      BY <3>1, <3>2, <3>4, <3>5
  <2> QED
    BY <1>1, <2>1, <2>2
<1>9. Len(more) <= n /\ Len(new.nodes) <= Len(more)
  BY <1>1, <1>2, <1>3 DEF Ordered
<1>10. Ordered(more, n)
  BY <1>1, <1>3, <1>7, <1>8, <1>9 DEF Ordered, new
<1>11. Longer(records, more)
  BY <1>1 DEF Longer
<1>12. IsWhole(r) => Stands(more, n)
  BY <1>1 DEF Stands
<1> QED
  BY <1>10, <1>11, <1>12 DEF more

(* What an event does to the tree that is kept and to the one that is read. *)
Takes(records, tree, parent, event, o) ==
    LET read == Replay(records)
        kept == Apply(tree, parent, event)
        again == Apply(read, Flatten(parent), event)
    IN /\ o.ok => /\ o.tree.nodes = kept.nodes /\ o.tree.head = kept.head
                  /\ Replay(o.log).nodes = again.nodes /\ Replay(o.log).head = again.head
       /\ ~o.ok => o.tree = tree /\ Replay(o.log) = read
       /\ Longer(read.nodes, Replay(o.log).nodes)

(* An append keeps the log in order and the tree after it, whatever becomes *)
(* of it.                                                                   *)
LEMMA OutcomeKeeps ==
    ASSUME NEW records, NEW tree, NEW m \in Nat, NEW n \in Nat, m < n, n <= MaxEvents,
           Sound(records, tree, m),
           NEW parent, ParentIn(tree, parent), NEW event \in Event, event.of = n,
           NEW o, Outcome(records, tree, parent, event, o)
    PROVE  /\ Grows(records, tree, o, n) /\ (o.ok => Stands(o.log, n))
           /\ Takes(records, tree, parent, event, o)
<1> DEFINE read == Replay(records)
<1>0. Grown(tree) /\ Grown(read) /\ Follows(tree, read) /\ Ordered(records, m)
  BY DEF Sound, Ordered
<1>1. /\ Len(tree.nodes) \in Nat /\ Len(read.nodes) = Len(tree.nodes) /\ read.next = tree.next
      /\ Len(records) \in Nat
      /\ Len(read.nodes) <= Len(records) /\ Len(records) <= m /\ tree.next \in Nat /\ records \in Seq(Record)
  BY <1>0, NodesOfGrown DEF Follows, Ordered
<1>2. Len(tree.nodes) <= MaxEvents
  BY <1>1, SessionStoreAssumption
<1>3. ParentIn(read, Flatten(parent))
  <2>1. \A w \in {"yes", "short", "cut"} : ParentIn(tree, Flatten(parent))
    BY <1>0, <1>2, RecordIsARecord
  <2> QED
    BY <1>1, <2>1 DEF ParentIn
<1>4. ASSUME NEW w \in {"yes", "short", "cut"}
      PROVE  LET r == RecordOf(tree, parent, event, w) IN
             /\ r \in Record /\ r.event = event /\ (IsWhole(r) <=> w = "yes") /\ r.parent = Flatten(parent)
             /\ r.id = read.next
             /\ Ordered(Append(records, r), n)
             /\ Longer(records, Append(records, r))
             /\ w = "yes" => Stands(Append(records, r), n)
             /\ Replay(Append(records, r)) = Read(read, r)
  <2>1. LET r == RecordOf(tree, parent, event, w) IN
        /\ r \in Record /\ r.id = tree.next /\ r.event = event /\ r.whole = w /\ r.parent = Flatten(parent)
    BY <1>0, <1>2, RecordIsARecord
  <2> DEFINE r == RecordOf(tree, parent, event, w)
  <2> HIDE DEF r
  <2>2. r \in Record /\ r.id = read.next /\ r.event = event /\ r.event.of = n /\ ParentIn(read, r.parent)
    BY <1>1, <1>3, <2>1 DEF r
  <2>3. IsWhole(r) <=> w = "yes"
    BY <2>1 DEF IsWhole, r
  <2>4. /\ Ordered(Append(records, r), n) /\ Longer(records, Append(records, r))
        /\ IsWhole(r) => Stands(Append(records, r), n)
    BY <1>0, <2>2, OrderedMore
  <2>5. Replay(Append(records, r)) = Read(read, r)
    BY <1>1, <2>2, ReplayOfMore
  <2> QED
    BY <2>1, <2>2, <2>3, <2>4, <2>5 DEF r
<1>5. CASE /\ o.ok
           /\ o.log = Append(records, RecordOf(tree, parent, event, "yes"))
           /\ o.tree = [Apply(tree, parent, event) EXCEPT !.next = @ + 1]
  <2> DEFINE r == RecordOf(tree, parent, event, "yes")
             k == Apply(tree, parent, event)
             q == Apply(read, Flatten(parent), event)
  <2>1. /\ r \in Record /\ r.event = event /\ IsWhole(r) /\ r.parent = Flatten(parent) /\ r.id = tree.next
        /\ o.log = Append(records, r)
        /\ Ordered(o.log, n) /\ Longer(records, o.log) /\ Stands(o.log, n) /\ Replay(o.log) = Read(read, r)
    BY <1>1, <1>4, <1>5
  <2>2. /\ Grown(k) /\ Grown(q) /\ k.head = q.head /\ Len(k.nodes) = Len(q.nodes)
        /\ \A i \in 1..Len(k.nodes) : /\ k.nodes[i].entry = q.nodes[i].entry
                                      /\ k.nodes[i].parent \in {0, q.nodes[i].parent}
        /\ Longer(tree.nodes, k.nodes) /\ Longer(read.nodes, q.nodes)
    BY <1>0, FollowsOn
  <2>3. k.next = tree.next
    <3>1. CASE event.what \in Folding
      BY <1>0, <3>1, ApplyFolds
    <3>2. CASE event.what \notin Folding
      BY <1>0, <3>2, ApplyMoves
    <3> QED
      BY <3>1, <3>2
  <2>4. /\ Replay(o.log).next = tree.next + 1
        /\ Replay(o.log).nodes = q.nodes /\ Replay(o.log).head = q.head
    BY <1>0, <1>3, <2>1, ReadRecord
  <2>5. o.tree = [k EXCEPT !.next = tree.next + 1]
    BY <1>5, <2>3
  <2> HIDE DEF r, k, q, read
  <2>6. Grown(o.tree) /\ o.tree.next = tree.next + 1 /\ o.tree.nodes = k.nodes /\ o.tree.head = k.head
    <3>1. k \in Tree /\ tree.next + 1 \in Nat
      BY <1>1, <2>2 DEF Grown
    <3>2. o.tree \in Tree /\ o.tree.next = tree.next + 1 /\ o.tree.nodes = k.nodes /\ o.tree.head = k.head
      BY <2>5, <3>1 DEF Tree
    <3> QED
      BY <2>2, <3>2 DEF Grown
  <2>7. Follows(o.tree, Replay(o.log))
    BY <2>2, <2>4, <2>6 DEF Follows
  <2>8. Longer(tree.nodes, o.tree.nodes)
    BY <2>2, <2>6
  <2>9. Grows(records, tree, o, n) /\ Stands(o.log, n)
    BY <2>1, <2>6, <2>7, <2>8 DEF Grows, Sound
  <2>10. Takes(records, tree, parent, event, o)
    BY <1>5, <2>2, <2>4, <2>6 DEF Takes, read, k, q
  <2> QED
    BY <2>9, <2>10
<1>6. Longer(tree.nodes, tree.nodes) /\ Longer(records, records) /\ Longer(read.nodes, read.nodes)
  BY <1>1 DEF Longer
<1>7. CASE ~o.ok /\ o.tree = tree /\ o.log = records
  <2>1. Ordered(records, n)
    BY <1>0, OrderedLater
  <2> QED
    BY <1>0, <1>6, <1>7, <2>1 DEF Grows, Sound, Takes
<1>8. ASSUME ~o.ok, o.tree = tree, NEW w \in {"short", "cut"},
             o.log = Append(records, RecordOf(tree, parent, event, w))
      PROVE  Grows(records, tree, o, n) /\ Takes(records, tree, parent, event, o)
  <2> DEFINE r == RecordOf(tree, parent, event, w)
  <2>1. /\ r \in Record /\ ~IsWhole(r) /\ r.parent = Flatten(parent) /\ Ordered(o.log, n) /\ Longer(records, o.log)
        /\ Replay(o.log) = Read(read, r)
    BY <1>4, <1>8
  <2>2. Replay(o.log) = read
    BY <1>0, <1>3, <2>1, ReadRecord
  <2> QED
    BY <1>0, <1>6, <1>8, <2>1, <2>2 DEF Grows, Sound, Takes
<1> QED
  BY <1>5, <1>7, <1>8 DEF Outcome

(* The same for every outcome of an append.                                 *)
LEMMA AppendKeeps ==
    ASSUME "meta" \notin Failures,
           NEW records, NEW tree, NEW m \in Nat, NEW n \in Nat, m < n, n <= MaxEvents,
           Sound(records, tree, m),
           NEW parent, ParentIn(tree, parent), NEW event \in Event, event.of = n,
           NEW o \in Appends(records, tree, parent, event)
    PROVE  /\ Grows(records, tree, o, n) /\ (o.ok => Stands(o.log, n))
           /\ Takes(records, tree, parent, event, o)
BY AppendsAre, OutcomeKeeps

-----------------------------------------------------------------------------
(* What a map has of a content is the number of a call.                     *)
Maps == [first : UNION {[X -> Nat] : X \in SUBSET (Contents \ Small)}, built_for : Nat]

(* A conversation starts with a map of this kind.                           *)
LEMMA NoMapIsAMap == NoMap \in Maps
<1>1. <<>> \in [{} -> Nat]
  OBVIOUS
<1>2. [{} -> Nat] \in {[X -> Nat] : X \in SUBSET (Contents \ Small)}
  OBVIOUS
<1> QED
  BY <1>1, <1>2 DEF NoMap, Maps

(* What is on disk, and what each daemon has of it.                         *)
StoreTypes ==
    /\ said \in 0..MaxEvents
    /\ log = [s \in Sessions |-> log[s]]
    /\ acked \in [Sessions -> SUBSET (1..MaxEvents)]
    /\ trees = [h \in Harnesses |-> trees[h]]
    /\ open \in [Harnesses -> SUBSET Convs]
    /\ head \in [Harnesses -> [Convs -> Nat]]
    /\ dedup \in [Harnesses -> [Convs -> Maps]]

(* The logs are in order and have every acknowledged event; none of them    *)
(* has a number that was not given out.                                     *)
DiskInv ==
    \A s \in Sessions : Ordered(log[s], said) /\ \A n \in acked[s] : Stands(log[s], n)

(* The number of nodes of the tree a daemon works on.                       *)
Size(h) == Len(TreeOf(h, current[h]).nodes)

(* What a daemon keeps: trees of sessions it holds, and of the one it has   *)
(* just loaded, which follow their logs; heads that are in the tree; and,   *)
(* when it has just loaded a session, the head that the log gives.          *)
HarnessInv(h) ==
    /\ \A s \in DOMAIN trees[h] :
          /\ s \in Sessions /\ (s \in holds[h] \/ (pc[h] = "loaded" /\ s = current[h]))
          /\ Grown(trees[h][s]) /\ Follows(trees[h][s], Replay(log[s]))
    /\ pc[h] # "off" => \A c \in Convs : head[h][c] <= Size(h)
    /\ pc[h] = "loaded" => head[h][Default] = Replay(log[current[h]]).head
    /\ pc[h] = "running" => current[h] \in DOMAIN trees[h]
    /\ pc[h] # "running" => holds[h] = {}

(* At most one daemon has loaded its session and not locked it yet.         *)
OneLoads == \A g, h \in Harnesses : pc[g] = "loaded" /\ pc[h] = "loaded" => g = h

(* The inductive invariant of LogIsTheTruth.                                *)
TruthInv ==
    /\ LockInv /\ StoreTypes /\ DiskInv /\ OneLoads
    /\ \A h \in Harnesses : HarnessInv(h)

(* A daemon the step is not about.                                          *)
Unmoved(g) ==
    /\ pc'[g] = pc[g] /\ current'[g] = current[g] /\ holds'[g] = holds[g]
    /\ trees'[g] = trees[g] /\ open'[g] = open[g] /\ head'[g] = head[g] /\ dedup'[g] = dedup[g]

(* The invariant gives the property.                                        *)
LEMMA TruthIsTold == TruthInv => LogIsTheTruth
<1> SUFFICES ASSUME TruthInv PROVE TreesFollowTheLog /\ AcknowledgedIsKept
  BY DEF LogIsTheTruth
<1>1. TreesFollowTheLog
  <2> SUFFICES ASSUME NEW h \in Harnesses, NEW s \in holds[h] \cap DOMAIN trees[h]
               PROVE  LET kept == trees[h][s]
                          read == Replay(log[s])
                      IN /\ <<kept.head, kept.next, Len(kept.nodes)>> = <<read.head, read.next, Len(read.nodes)>>
                         /\ \A n \in DOMAIN kept.nodes :
                              /\ kept.nodes[n].entry = read.nodes[n].entry
                              /\ kept.nodes[n].parent \in {0, read.nodes[n].parent}
    BY DEF TreesFollowTheLog
  <2>1. Grown(trees[h][s]) /\ Follows(trees[h][s], Replay(log[s]))
    BY DEF TruthInv, HarnessInv
  <2>2. DOMAIN trees[h][s].nodes = 1..Len(trees[h][s].nodes)
    BY <2>1, NodesOfGrown
  <2> QED
    BY <2>1, <2>2 DEF Follows
<1>2. AcknowledgedIsKept
  <2> SUFFICES ASSUME NEW s \in Sessions
               PROVE  LET kept == {i \in DOMAIN log[s] : log[s][i].whole = "yes"} IN
                      /\ \A n \in acked[s] : \E i \in kept : log[s][i].event.of = n
                      /\ \A i, j \in kept : i < j => /\ log[s][i].event.of < log[s][j].event.of
                                                     /\ log[s][i].id < log[s][j].id
    BY DEF AcknowledgedIsKept
  <2>1. Ordered(log[s], said) /\ \A n \in acked[s] : Stands(log[s], n)
    BY DEF TruthInv, DiskInv
  <2>2. DOMAIN log[s] = 1..Len(log[s])
    BY <2>1 DEF Ordered
  <2> QED
    BY <2>1, <2>2 DEF Ordered, Stands, IsWhole
<1> QED
  BY <1>1, <1>2

(* A session without records is in order and has the empty tree.            *)
LEMMA EmptyIsSound == Ordered(<<>>, 0) /\ Grown(EmptyTree) /\ Replay(<<>>) = EmptyTree /\ Len(EmptyTree.nodes) = 0
<1>1. EmptyTree \in Tree /\ EmptyTree.nodes = <<>> /\ EmptyTree.head = 0 /\ Len(<<>>) = 0
  BY DEF EmptyTree, Tree
<1>2. Grown(EmptyTree)
  BY <1>1 DEF Grown
<1>3. <<>> \in Seq(Record)
  OBVIOUS
<1> QED
  BY <1>1, <1>2, <1>3, ReplayOfNothing DEF Ordered

(* The invariant holds at the start.                                        *)
LEMMA TruthInvInit == Init => TruthInv
<1> SUFFICES ASSUME Init PROVE TruthInv
  OBVIOUS
<1>1. LockInv
  BY LockInvInit
<1>2. StoreTypes
  <2>1. MaxEvents \in Nat
    BY SessionStoreAssumption
  <2> QED
    BY <2>1, NoMapIsAMap DEF Init, StoreTypes
<1>3. DiskInv
  BY EmptyIsSound DEF Init, DiskInv
<1>4. OneLoads
  BY DEF Init, OneLoads
<1>5. ASSUME NEW h \in Harnesses PROVE HarnessInv(h)
  <2>1. trees[h] = <<>> /\ pc[h] = "off" /\ holds[h] = {}
    BY DEF Init
  <2>2. DOMAIN <<>> = {}
    OBVIOUS
  <2> QED
    BY <2>1, <2>2 DEF HarnessInv
<1> QED
  BY <1>1, <1>2, <1>3, <1>4, <1>5 DEF TruthInv

(* The tree a daemon has of a session, in memory or from the log.           *)
LEMMA TreeIsSound ==
    ASSUME TruthInv, NEW h \in Harnesses, NEW s \in Sessions
    PROVE  Sound(log[s], TreeOf(h, s), said)
<1>1. Ordered(log[s], said)
  BY DEF TruthInv, DiskInv
<1>2. CASE s \in DOMAIN trees[h]
  <2>1. Grown(trees[h][s]) /\ Follows(trees[h][s], Replay(log[s]))
    BY <1>2 DEF TruthInv, HarnessInv
  <2> QED
    BY <1>1, <1>2, <2>1 DEF Sound, TreeOf
<1>3. CASE s \notin DOMAIN trees[h]
  <2>1. Grown(Replay(log[s]))
    BY <1>1 DEF Ordered
  <2>2. Follows(Replay(log[s]), Replay(log[s]))
    BY DEF Follows
  <2> QED
    BY <1>1, <1>3, <2>1, <2>2 DEF Sound, TreeOf
<1> QED
  BY <1>2, <1>3

(* A session that a daemon may write no other has in memory.                *)
LEMMA OthersHaveNothing ==
    ASSUME TruthInv, ~Races, NEW h \in Harnesses, Alone(h), NEW s \in Sessions,
           MayLock(h, s) \/ lock[s] = None, NEW g \in Harnesses \ {h}
    PROVE  s \notin DOMAIN trees[g] /\ pc[g] # "loaded"
<1>1. pc[g] # "loaded"
  BY DEF Alone
<1>2. s \notin holds[g]
  <2>1. None \notin Harnesses
    BY SessionStoreAssumption
  <2> QED
    BY <2>1 DEF TruthInv, LockInv, HeldIsLocked, MayLock
<1> QED
  BY <1>1, <1>2 DEF TruthInv, HarnessInv

(* A daemon the step is not about still follows its logs when the step      *)
(* writes none that it has a tree of.                                       *)
LEMMA OthersKeep ==
    ASSUME NEW g \in Harnesses, HarnessInv(g), Unmoved(g), pc[g] \in {"off", "loaded", "running"},
           pc[g] = "loaded" => log'[current[g]] = log[current[g]],
           \A s \in DOMAIN trees[g] : log'[s] = log[s]
    PROVE  HarnessInv(g)'
<1>1. /\ pc'[g] = pc[g] /\ current'[g] = current[g] /\ holds'[g] = holds[g]
      /\ trees'[g] = trees[g] /\ open'[g] = open[g] /\ head'[g] = head[g]
  BY DEF Unmoved
<1>2. pc[g] # "off" => Size(g)' = Size(g)
  <2>1. CASE current[g] \in DOMAIN trees[g]
    BY <1>1, <2>1 DEF Size, TreeOf
  <2>2. CASE current[g] \notin DOMAIN trees[g] /\ pc[g] = "loaded"
    BY <1>1, <2>2 DEF Size, TreeOf
  <2> QED
    BY <2>1, <2>2 DEF HarnessInv
<1>3. \A s \in DOMAIN trees'[g] :
          /\ s \in Sessions /\ (s \in holds'[g] \/ (pc'[g] = "loaded" /\ s = current'[g]))
          /\ Grown(trees'[g][s]) /\ Follows(trees'[g][s], Replay(log'[s]))
  BY <1>1 DEF HarnessInv
<1>4. pc'[g] # "off" => \A c \in Convs : head'[g][c] <= Size(g)'
  BY <1>1, <1>2 DEF HarnessInv
<1>5. /\ pc'[g] = "loaded" => head'[g][Default] = Replay(log'[current'[g]]).head
      /\ pc'[g] = "running" => current'[g] \in DOMAIN trees'[g]
      /\ pc'[g] # "running" => holds'[g] = {}
  BY <1>1 DEF HarnessInv
<1> QED
  BY <1>3, <1>4, <1>5 DEF HarnessInv

-----------------------------------------------------------------------------
(* Where a daemon is and what follows for its session.                      *)
LEMMA PcIs ==
    ASSUME TruthInv, NEW h \in Harnesses
    PROVE  /\ pc[h] \in {"off", "loaded", "running"}
           /\ pc[h] # "off" => current[h] \in Sessions
           /\ pc[h] = "running" => MayLock(h, current[h]) /\ current[h] \in holds[h] /\ current[h] \in DOMAIN trees[h]
BY DEF TruthInv, LockInv, LockTypes, BoundToSession, RunningHolds, MayLock, HarnessInv

(* An append to one log, and nothing of the others.                         *)
LEMMA DiskKeeps ==
    ASSUME TruthInv, NEW s \in Sessions, NEW r, NEW tags \in SUBSET (1..MaxEvents), NEW n \in Nat,
           said <= n, n <= MaxEvents, Ordered(r, n), Longer(log[s], r), \A k \in tags : Stands(r, k),
           log' = [log EXCEPT ![s] = r],
           acked' = [acked EXCEPT ![s] = @ \cup tags],
           said' = n
    PROVE  /\ DiskInv'
           /\ said' \in 0..MaxEvents
           /\ log' = [t \in Sessions |-> log'[t]]
           /\ acked' \in [Sessions -> SUBSET (1..MaxEvents)]
           /\ log'[s] = r
           /\ \A t \in Sessions : t # s => log'[t] = log[t]
<1>0. StoreTypes /\ DiskInv /\ said \in Nat
  BY SessionStoreAssumption DEF TruthInv, StoreTypes
<1>1. said' \in 0..MaxEvents
  BY SessionStoreAssumption
<1>2. /\ log' = [t \in Sessions |-> log'[t]] /\ log'[s] = r
      /\ \A t \in Sessions : t # s => log'[t] = log[t]
  BY <1>0 DEF StoreTypes
<1>3. /\ acked' \in [Sessions -> SUBSET (1..MaxEvents)] /\ acked'[s] = acked[s] \cup tags
      /\ \A t \in Sessions : t # s => acked'[t] = acked[t]
  BY <1>0 DEF StoreTypes
<1>4. ASSUME NEW t \in Sessions
      PROVE  Ordered(log'[t], said') /\ \A k \in acked'[t] : Stands(log'[t], k)
  <2>1. CASE t # s
    <3>1. Ordered(log[t], said) /\ \A k \in acked[t] : Stands(log[t], k)
      BY <1>0 DEF DiskInv
    <3>2. Ordered(log[t], n)
      BY <1>0, <3>1, OrderedLater
    <3> QED
      BY <1>2, <1>3, <2>1, <3>1, <3>2
  <2>2. CASE t = s
    <3>1. \A k \in acked[s] : Stands(log[s], k)
      BY <1>0 DEF DiskInv
    <3>2. Len(log[s]) \in Nat /\ Len(r) \in Nat
      BY <1>0 DEF DiskInv, Ordered
    <3>3. \A k \in acked[s] : Stands(r, k)
      BY <3>1, <3>2, StandsOn
    <3> QED
      BY <1>2, <1>3, <2>2, <3>3
  <2> QED
    BY <2>1, <2>2
<1>5. DiskInv'
  BY <1>4 DEF DiskInv
<1> QED
  BY <1>1, <1>2, <1>3, <1>5

(* What a daemon that publishes in its session makes of the store.          *)
LEMMA PublishKeeps ==
    ASSUME TruthInv, LockInv', ~Races, NEW h \in Harnesses, Alone(h), pc[h] # "off", MayLock(h, current[h]),
           NEW o, NEW n \in Nat, said <= n, n <= MaxEvents,
           Grows(log[current[h]], TreeOf(h, current[h]), o, n),
           NEW tags \in SUBSET (1..MaxEvents), \A k \in tags : Stands(o.log, k),
           Stored(h, o, tags), said' = n,
           pc'[h] = "running", current'[h] = current[h], current[h] \in holds'[h], holds[h] \subseteq holds'[h],
           \A g \in Harnesses \ {h} : Unmoved(g),
           open' \in [Harnesses -> SUBSET Convs], head' \in [Harnesses -> [Convs -> Nat]],
           dedup' \in [Harnesses -> [Convs -> Maps]],
           \A c \in Convs : head'[h][c] <= Len(o.tree.nodes)
    PROVE  TruthInv'
<1> DEFINE s == current[h]
<1>0. s \in Sessions /\ StoreTypes /\ (\A g \in Harnesses : HarnessInv(g) /\ pc[g] \in {"off", "loaded", "running"})
  BY PcIs DEF TruthInv
<1>1. /\ log' = [log EXCEPT ![s] = o.log]
      /\ trees' = [trees EXCEPT ![h] = Insert(@, s, o.tree)]
      /\ acked' = [acked EXCEPT ![s] = @ \cup tags]
  BY DEF Stored
<1>2. Ordered(o.log, n) /\ Longer(log[s], o.log) /\ Grown(o.tree) /\ Follows(o.tree, Replay(o.log))
  BY DEF Grows, Sound
<1>3. /\ DiskInv' /\ said' \in 0..MaxEvents
      /\ log' = [t \in Sessions |-> log'[t]]
      /\ acked' \in [Sessions -> SUBSET (1..MaxEvents)]
      /\ log'[s] = o.log
      /\ \A t \in Sessions : t # s => log'[t] = log[t]
  BY <1>0, <1>1, <1>2, DiskKeeps
<1>4. /\ trees' = [g \in Harnesses |-> trees'[g]] /\ trees'[h] = Insert(trees[h], s, o.tree)
  BY <1>0, <1>1 DEF StoreTypes
<1>5. StoreTypes'
  BY <1>3, <1>4 DEF StoreTypes
<1>6. OneLoads'
  BY DEF OneLoads, Alone, Unmoved
<1>7. ASSUME NEW g \in Harnesses \ {h} PROVE HarnessInv(g)'
  <2>1. s \notin DOMAIN trees[g] /\ pc[g] # "loaded"
    BY <1>0, OthersHaveNothing
  <2>2. \A t \in DOMAIN trees[g] : log'[t] = log[t]
    BY <1>0, <1>3, <2>1 DEF HarnessInv
  <2> QED
    BY <1>0, <2>1, <2>2, OthersKeep
<1>8. HarnessInv(h)'
  <2>1. DOMAIN trees'[h] = DOMAIN trees[h] \cup {s} /\ trees'[h][s] = o.tree
        /\ \A t \in DOMAIN trees[h] : t # s => trees'[h][t] = trees[h][t]
    BY <1>4 DEF Insert
  <2>2. ASSUME NEW t \in DOMAIN trees'[h]
        PROVE  t \in Sessions /\ t \in holds'[h] /\ Grown(trees'[h][t]) /\ Follows(trees'[h][t], Replay(log'[t]))
    <3>1. CASE t = s
      BY <1>0, <1>2, <1>3, <2>1, <3>1
    <3>2. CASE t # s
      <4>1. t \in DOMAIN trees[h]
        BY <2>1, <3>2
      <4>2. t \in Sessions /\ t \in holds[h] /\ Grown(trees[h][t]) /\ Follows(trees[h][t], Replay(log[t]))
        BY <1>0, <3>2, <4>1 DEF HarnessInv
      <4> QED
        BY <1>3, <2>1, <3>2, <4>1, <4>2
    <3> QED
      BY <3>1, <3>2
  <2>3. Size(h)' = Len(o.tree.nodes)
    BY <2>1 DEF Size, TreeOf
  <2> QED
    BY <2>1, <2>2, <2>3 DEF HarnessInv
<1> QED
  BY <1>3, <1>5, <1>6, <1>7, <1>8 DEF TruthInv

(* A daemon that stops leaves the logs to the others.                       *)
LEMMA StopKeeps ==
    ASSUME TruthInv, LockInv', NEW h \in Harnesses, Stopped(h), DiskInv',
           said' \in 0..MaxEvents, log' = [t \in Sessions |-> log'[t]],
           acked' \in [Sessions -> SUBSET (1..MaxEvents)],
           \A g \in Harnesses \ {h} : pc[g] # "loaded" /\ \A t \in DOMAIN trees[g] : log'[t] = log[t]
    PROVE  TruthInv'
<1>1. /\ pc' = [pc EXCEPT ![h] = "off"]
      /\ holds' = [holds EXCEPT ![h] = {}]
      /\ trees' = [trees EXCEPT ![h] = <<>>]
      /\ open' = [open EXCEPT ![h] = {}]
      /\ head' = [head EXCEPT ![h] = [c \in Convs |-> 0]]
      /\ dedup' = [dedup EXCEPT ![h] = [c \in Convs |-> NoMap]]
      /\ current' = [current EXCEPT ![h] = None]
  BY DEF Stopped
<1>2. StoreTypes /\ LockTypes /\ \A g \in Harnesses : HarnessInv(g) /\ pc[g] \in {"off", "loaded", "running"}
  BY PcIs DEF TruthInv, LockInv
<1>3. StoreTypes'
  BY <1>1, <1>2, NoMapIsAMap DEF StoreTypes
<1>4. pc'[h] = "off" /\ holds'[h] = {} /\ trees'[h] = <<>>
  BY <1>1, <1>2 DEF LockTypes, StoreTypes
<1>5. \A g \in Harnesses \ {h} : pc'[g] = pc[g] /\ current'[g] = current[g] /\ holds'[g] = holds[g]
                                /\ trees'[g] = trees[g] /\ open'[g] = open[g] /\ head'[g] = head[g]
                                /\ dedup'[g] = dedup[g]
  BY <1>1
<1>6. \A g \in Harnesses \ {h} : HarnessInv(g)'
  <2> SUFFICES ASSUME NEW g \in Harnesses \ {h} PROVE HarnessInv(g)'
    OBVIOUS
  <2>1. Unmoved(g)
    BY <1>5 DEF Unmoved
  <2> QED
    BY <1>2, <2>1, OthersKeep
<1>7. HarnessInv(h)'
  <2>1. DOMAIN <<>> = {}
    OBVIOUS
  <2> QED
    BY <1>4, <2>1 DEF HarnessInv
<1>8. OneLoads'
  BY <1>4, <1>5 DEF OneLoads, TruthInv
<1> QED
  BY <1>3, <1>6, <1>7, <1>8 DEF TruthInv

-----------------------------------------------------------------------------
(* Messages, notes and navigations are events of their number.              *)
LEMMA EventsAre ==
    ASSUME NEW n \in Nat
    PROVE  /\ Message(n) \in Event /\ Message(n).of = n /\ Message(n).what = "message"
           /\ Note(n) \in Event /\ Note(n).of = n /\ Note(n).what = "note"
           /\ \A node \in Nat : /\ NavigateTo(n, node) \in Event /\ NavigateTo(n, node).of = n
                                /\ NavigateTo(n, node).what = "navigate" /\ NavigateTo(n, node).node = node
BY DEF Message, Note, NavigateTo, Event, Folding

(* What a rebuild finds for a content is its first result on the branch that *)
(* is there in full.                                                        *)
LEMMA RebuiltIs ==
    ASSUME NEW branch \in Seq(Event), NEW node \in Nat
    PROVE  LET map == Rebuilt(branch, node)
               full == {i \in 1..Len(branch) : IsFull(branch[i])}
           IN /\ map \in Maps /\ map.built_for = node
              /\ DOMAIN map.first = {branch[i].content : i \in full}
              /\ \A x \in DOMAIN map.first : \E i \in full :
                    /\ branch[i].content = x /\ map.first[x] = branch[i].of
                    /\ \A j \in full : branch[j].content = x => i <= j
<1> DEFINE map == Rebuilt(branch, node)
           full == {i \in 1..Len(branch) : IsFull(branch[i])}
           first(x) == CHOOSE i \in full :
                          /\ branch[i].content = x
                          /\ \A j \in full : branch[j].content = x => i <= j
           X == {branch[i].content : i \in full}
<1>1. DOMAIN branch = 1..Len(branch) /\ Len(branch) \in Nat /\ \A i \in 1..Len(branch) : branch[i] \in Event
  OBVIOUS
<1>2. map = [first |-> [x \in X |-> branch[first(x)].of], built_for |-> node]
  BY <1>1 DEF Rebuilt
<1>3. ASSUME NEW x \in X
      PROVE  /\ first(x) \in full /\ branch[first(x)].content = x
             /\ \A j \in full : branch[j].content = x => first(x) <= j
  <2> DEFINE T == {i \in full : branch[i].content = x}
  <2>1. T \in SUBSET Nat /\ T # {}
    BY <1>1
  <2>2. PICK m \in T : \A k \in T : m <= k
    <3> HIDE DEF T
    <3> QED
      BY <2>1, SmallestNumber
  <2>3. \E i \in full : branch[i].content = x /\ \A j \in full : branch[j].content = x => i <= j
    BY <2>2
  <2> HIDE DEF full
  <2> QED
    BY <2>3
<1>4. X \subseteq Contents \ Small
  <2>1. \A e \in Event : IsFull(e) => e.content \in Contents \ Small
    BY DEF Event, IsFull
  <2> QED
    BY <1>1, <2>1
<1>5. \A x \in X : branch[first(x)].of \in Nat
  <2>1. \A e \in Event : e.of \in Nat
    BY DEF Event
  <2>2. \A x \in X : first(x) \in 1..Len(branch)
    BY <1>3
  <2> HIDE DEF first, X
  <2> QED
    BY <1>1, <2>1, <2>2
<1> HIDE DEF first, X, map
<1>6. [x \in X |-> branch[first(x)].of] \in [X -> Nat]
  BY <1>5
<1>7. [X -> Nat] \in {[Y -> Nat] : Y \in SUBSET (Contents \ Small)}
  BY <1>4
<1>8. [x \in X |-> branch[first(x)].of] \in UNION {[Y -> Nat] : Y \in SUBSET (Contents \ Small)}
  BY <1>6, <1>7
<1>9. map \in Maps
  BY <1>2, <1>8 DEF Maps
<1>10. /\ map.built_for = node /\ DOMAIN map.first = X
       /\ \A x \in X : map.first[x] = branch[first(x)].of
  BY <1>2
<1> QED
  BY <1>3, <1>9, <1>10 DEF map, X

(* What is known of a map.                                                  *)
LEMMA MapIs ==
    ASSUME NEW map \in Maps
    PROVE  /\ DOMAIN map.first \subseteq Contents \ Small
           /\ \A x \in DOMAIN map.first : map.first[x] \in Nat
           /\ map.first = [x \in DOMAIN map.first |-> map.first[x]]
           /\ map.built_for \in Nat
           /\ map = [first |-> map.first, built_for |-> map.built_for]
<1>1. /\ map.first \in UNION {[X -> Nat] : X \in SUBSET (Contents \ Small)}
      /\ map.built_for \in Nat
      /\ map = [first |-> map.first, built_for |-> map.built_for]
  BY DEF Maps
<1>2. PICK X \in SUBSET (Contents \ Small) : map.first \in [X -> Nat]
  BY <1>1
<1> QED
  BY <1>1, <1>2

(* A map that remembers one more result is a map.                           *)
LEMMA MapTaken ==
    ASSUME NEW map \in Maps, NEW x \in Contents \ Small, NEW n \in Nat
    PROVE  LET more == [map EXCEPT !.first = Insert(@, x, n)] IN
           /\ more \in Maps /\ more.first = Insert(map.first, x, n) /\ more.built_for = map.built_for
<1>1. map.built_for \in Nat /\ map = [first |-> map.first, built_for |-> map.built_for]
  BY MapIs
<1>2. Insert(map.first, x, n) \in [DOMAIN map.first \cup {x} -> Nat]
  BY MapIs DEF Insert
<1>3. DOMAIN map.first \cup {x} \in SUBSET (Contents \ Small)
  BY MapIs
<1>4. Insert(map.first, x, n) \in UNION {[X -> Nat] : X \in SUBSET (Contents \ Small)}
  BY <1>2, <1>3
<1>5. [map EXCEPT !.first = Insert(@, x, n)] = [first |-> Insert(map.first, x, n), built_for |-> map.built_for]
  BY <1>1
<1> QED
  BY <1>1, <1>4, <1>5 DEF Maps

(* What note_head_advanced_to does to a map.                                *)
LEMMA AdvancedIs ==
    ASSUME NEW map \in Maps, NEW n \in Nat
    PROVE  /\ Advanced(map, n) \in Maps /\ Advanced(map, n).first = map.first
           /\ Advanced(map, n).built_for = IF map.built_for = 0 THEN 0 ELSE n
BY MapIs DEF Advanced, Maps

(* What dedup_tool_result makes of a result.                                *)
LEMMA IntakeIs ==
    ASSUME NEW map \in Maps, NEW n \in Nat, NEW x \in Contents
    PROVE  LET taken == Intake(map, n, x) IN
           /\ taken.map \in Maps /\ taken.map.built_for = map.built_for
           /\ taken.event \in Event /\ taken.event.of = n /\ taken.event.content = x
           /\ taken.event.what \in {"result", "pointer"}
           /\ taken.event.what = "pointer" => /\ x \in DOMAIN map.first /\ x \notin Small
                                              /\ taken.event.same_as = map.first[x] /\ taken.map = map
           /\ taken.event.what = "result" /\ x \in Small => taken.map = map
           /\ taken.event.what = "result" /\ x \notin Small =>
                 x \notin DOMAIN map.first /\ taken.map.first = Insert(map.first, x, n)
<1> DEFINE result == [Message(n) EXCEPT !.what = "result", !.content = x]
<1>0. None \notin Contents
  BY SessionStoreAssumption
<1>1. /\ result \in Event /\ result.of = n /\ result.content = x /\ result.what = "result"
      /\ \A k \in Nat : LET p == [result EXCEPT !.what = "pointer", !.same_as = k] IN
            p \in Event /\ p.of = n /\ p.content = x /\ p.what = "pointer" /\ p.same_as = k
  BY <1>0 DEF Message, Event, Folding
<1> HIDE DEF result
<1>2. CASE x \in Small
  <2>1. Intake(map, n, x) = [map |-> map, event |-> result]
    BY <1>2 DEF Intake, result
  <2>2. Intake(map, n, x).map = map /\ Intake(map, n, x).event = result
    BY <2>1
  <2>3. "result" # "pointer" /\ "result" \in {"result", "pointer"}
    OBVIOUS
  <2> QED
    BY <1>1, <1>2, <2>2, <2>3, Zenon
<1>3. CASE x \notin Small /\ x \in DOMAIN map.first
  <2> DEFINE p == [result EXCEPT !.what = "pointer", !.same_as = map.first[x]]
  <2>1. Intake(map, n, x) = [map |-> map, event |-> p]
    BY <1>3 DEF Intake, result
  <2>2. p \in Event /\ p.of = n /\ p.content = x /\ p.what = "pointer" /\ p.same_as = map.first[x]
    BY <1>1, <1>3, MapIs
  <2> HIDE DEF p
  <2> QED
    BY <1>3, <2>1, <2>2
<1>4. CASE x \notin Small /\ x \notin DOMAIN map.first
  <2> DEFINE more == [map EXCEPT !.first = Insert(@, x, n)]
  <2>1. Intake(map, n, x) = [map |-> more, event |-> result]
    BY <1>4 DEF Intake, result
  <2>2. more \in Maps /\ more.first = Insert(map.first, x, n) /\ more.built_for = map.built_for
    BY <1>4, MapTaken
  <2> HIDE DEF more
  <2>3. Intake(map, n, x).map = more /\ Intake(map, n, x).event = result
    BY <2>1
  <2>4. "result" # "pointer" /\ "result" \in {"result", "pointer"}
    OBVIOUS
  <2> QED
    BY <1>1, <1>4, <2>2, <2>3, <2>4, Zenon
<1> QED
  BY <1>2, <1>3, <1>4

-----------------------------------------------------------------------------
(* What may be assumed of the daemon that takes a step in its session.      *)
LEMMA AtWork ==
    ASSUME TruthInv, NEW h \in Harnesses, pc[h] # "off"
    PROVE  LET s == current[h]
               tree == TreeOf(h, s)
           IN /\ s \in Sessions /\ Sound(log[s], tree, said) /\ Grown(tree) /\ Len(tree.nodes) \in Nat
              /\ said \in Nat /\ said <= MaxEvents /\ MaxEvents \in Nat
              /\ \A c \in Convs : head[h][c] \in 0..Len(tree.nodes) /\ ParentIn(tree, <<head[h][c]>>)
              /\ ParentIn(tree, <<>>) /\ ParentIn(tree, <<0>>)
<1>1. current[h] \in Sessions
  BY PcIs
<1>2. Sound(log[current[h]], TreeOf(h, current[h]), said)
  BY <1>1, TreeIsSound
<1>3. Grown(TreeOf(h, current[h])) /\ Len(TreeOf(h, current[h]).nodes) \in Nat
  BY <1>2, NodesOfGrown DEF Sound
<1>4. said \in Nat /\ said <= MaxEvents /\ MaxEvents \in Nat
  BY SessionStoreAssumption DEF TruthInv, StoreTypes
<1>5. \A c \in Convs : head[h][c] \in 0..Len(TreeOf(h, current[h]).nodes)
  <2>1. \A c \in Convs : head[h][c] \in Nat
    BY DEF TruthInv, StoreTypes
  <2>2. \A c \in Convs : head[h][c] <= Len(TreeOf(h, current[h]).nodes)
    BY DEF TruthInv, HarnessInv, Size
  <2> QED
    BY <1>3, <2>1, <2>2
<1> QED
  BY <1>1, <1>2, <1>3, <1>4, <1>5 DEF ParentIn

(* A conversation that says something.                                      *)
LEMMA PublishForKeeps ==
    ASSUME TruthInv, LockInv', ~Races, "meta" \notin Failures, NEW h \in Harnesses, NEW c \in Convs, Acts(h),
           said < MaxEvents, NEW map \in Maps, NEW event \in Event, event.of = said + 1,
           PublishFor(h, c, map, event), UNCHANGED open
    PROVE  TruthInv'
<1> DEFINE s == current[h]
           tree == TreeOf(h, s)
<1>1. pc[h] = "running" /\ Alone(h) /\ MayLock(h, s) /\ s \in holds[h]
  BY PcIs DEF Acts
<1>2. /\ s \in Sessions /\ Sound(log[s], tree, said) /\ Grown(tree) /\ Len(tree.nodes) \in Nat
      /\ said \in Nat /\ MaxEvents \in Nat
      /\ \A d \in Convs : head[h][d] \in 0..Len(tree.nodes) /\ ParentIn(tree, <<head[h][d]>>)
  BY <1>1, AtWork
<1>3. PICK o \in Appends(log[s], tree, <<head[h][c]>>, event) :
          /\ Committed(h, c, map, event, o)
          /\ Stored(h, o, Tags(o, event.of))
          /\ said' = said + 1
          /\ UNCHANGED <<lock, pc, current, holds>>
  BY DEF PublishFor
<1>4. Grows(log[s], tree, o, said + 1) /\ (o.ok => Stands(o.log, said + 1))
  BY <1>2, AppendKeeps
<1>5. /\ Grown(o.tree) /\ Len(o.tree.nodes) \in Nat /\ Longer(tree.nodes, o.tree.nodes)
  BY <1>4, NodesOfGrown DEF Grows, Sound
<1>6. Tags(o, event.of) \in SUBSET (1..MaxEvents) /\ \A k \in Tags(o, event.of) : Stands(o.log, k)
  BY <1>2, <1>4 DEF Tags
<1>7. /\ head' = [head EXCEPT ![h][c] = IF o.ok /\ event.what \in Folding THEN Len(o.tree.nodes) ELSE @]
      /\ dedup' = [dedup EXCEPT ![h][c] = IF o.ok /\ event.what \in Folding
                                          THEN Advanced(map, Len(o.tree.nodes)) ELSE map]
  BY <1>3 DEF Committed
<1>8. /\ head \in [Harnesses -> [Convs -> Nat]] /\ dedup \in [Harnesses -> [Convs -> Maps]]
      /\ open \in [Harnesses -> SUBSET Convs]
  BY DEF TruthInv, StoreTypes
<1>9. head' \in [Harnesses -> [Convs -> Nat]]
  BY <1>5, <1>7, <1>8
<1>10. dedup' \in [Harnesses -> [Convs -> Maps]]
  <2>1. (IF o.ok /\ event.what \in Folding THEN Advanced(map, Len(o.tree.nodes)) ELSE map) \in Maps
    BY <1>5, AdvancedIs
  <2> QED
    BY <1>7, <1>8, <2>1
<1>11. \A d \in Convs : head'[h][d] <= Len(o.tree.nodes)
  <2>1. \A d \in Convs : head'[h][d] = head[h][d] \/ head'[h][d] = Len(o.tree.nodes)
    BY <1>7, <1>8
  <2>2. Len(tree.nodes) <= Len(o.tree.nodes)
    BY <1>5 DEF Longer
  <2>3. \A d \in Convs : head[h][d] \in 0..Len(tree.nodes)
    BY <1>2
  <2> HIDE DEF tree
  <2>4. \A d \in Convs : head[h][d] <= Len(o.tree.nodes)
    BY <1>2, <1>5, <2>2, <2>3
  <2> QED
    BY <1>5, <2>1, <2>4
<1>12. \A g \in Harnesses \ {h} : Unmoved(g)
  BY <1>3, <1>7, <1>8 DEF Unmoved, Stored
<1>13. said <= said + 1 /\ said + 1 <= MaxEvents /\ said + 1 \in Nat
  BY <1>2
<1>14. pc[h] # "off"
  BY <1>1
<1> HIDE DEF s, tree
<1> QED
  BY <1>1, <1>3, <1>4, <1>6, <1>8, <1>9, <1>10, <1>11, <1>12, <1>13, <1>14, PublishKeeps DEF s, tree

(* The map that takes a result, rebuilt or not.                             *)
LEMMA BuiltIsAMap ==
    ASSUME TruthInv, NEW h \in Harnesses, pc[h] = "running", NEW c \in Convs
    PROVE  Built(h, c) \in Maps
<1>1. current[h] \in DOMAIN trees[h] /\ pc[h] # "off"
  BY PcIs
<1>2. TreeOf(h, current[h]) = trees[h][current[h]]
  BY <1>1 DEF TreeOf
<1>3. Grown(trees[h][current[h]]) /\ head[h][c] \in 0..Len(trees[h][current[h]].nodes)
  BY <1>1, <1>2, AtWork
<1>4. Branch(trees[h][current[h]], head[h][c]) \in Seq(Event)
  BY <1>3, BranchType
<1>5. Rebuilt(Branch(trees[h][current[h]], head[h][c]), head[h][c]) \in Maps
  <2>1. head[h][c] \in Nat
    BY DEF TruthInv, StoreTypes
  <2> QED
    BY <1>4, <2>1, RebuiltIs
<1>6. dedup[h][c] \in Maps
  BY DEF TruthInv, StoreTypes
<1> QED
  BY <1>5, <1>6 DEF Built

(* Say keeps the invariant: its publish is one of PublishForKeeps.          *)
LEMMA SayKeeps ==
    ASSUME TruthInv, LockInv', ~Races, "meta" \notin Failures, NEW h \in Harnesses, NEW c \in Convs, Say(h, c)
    PROVE  TruthInv'
<1>1. said + 1 \in Nat /\ dedup[h][c] \in Maps
  BY SessionStoreAssumption DEF TruthInv, StoreTypes
<1>2. Message(said + 1) \in Event /\ Message(said + 1).of = said + 1
  BY <1>1, EventsAre
<1> QED
  BY <1>1, <1>2, PublishForKeeps DEF Say

(* ToolResult keeps the invariant, whatever the intake makes of the result. *)
LEMMA ToolResultKeeps ==
    ASSUME TruthInv, LockInv', ~Races, "meta" \notin Failures, NEW h \in Harnesses, NEW c \in Convs,
           NEW x \in Contents, ToolResult(h, c, x)
    PROVE  TruthInv'
<1> DEFINE taken == Intake(Built(h, c), said + 1, x)
<1>1. said + 1 \in Nat /\ pc[h] = "running"
  BY SessionStoreAssumption DEF TruthInv, StoreTypes, ToolResult, Acts
<1>2. Built(h, c) \in Maps
  BY <1>1, BuiltIsAMap
<1>3. taken.map \in Maps /\ taken.event \in Event /\ taken.event.of = said + 1
  BY <1>1, <1>2, IntakeIs
<1>4. /\ Acts(h) /\ said < MaxEvents /\ UNCHANGED open
      /\ PublishFor(h, c, taken.map, taken.event)
  BY DEF ToolResult
<1> HIDE DEF taken
<1> QED
  BY <1>3, <1>4, PublishForKeeps

(* Ask keeps the invariant: the side conversation stands on its             *)
(* instruction, or where it was to start when the append fails.             *)
LEMMA AskKeeps ==
    ASSUME TruthInv, LockInv', ~Races, "meta" \notin Failures, NEW h \in Harnesses, NEW q \in Sides, Ask(h, q)
    PROVE  TruthInv'
<1> DEFINE s == current[h]
           tree == TreeOf(h, s)
           event == Message(said + 1)
           from == IF q \in Delegates THEN 0 ELSE head[h][Default]
<1>1. pc[h] = "running" /\ pc[h] # "off" /\ Alone(h) /\ MayLock(h, s) /\ s \in holds[h]
  BY PcIs DEF Ask, Acts
<1>2. /\ s \in Sessions /\ Sound(log[s], tree, said) /\ Grown(tree) /\ Len(tree.nodes) \in Nat
      /\ said \in Nat /\ MaxEvents \in Nat
      /\ \A d \in Convs : head[h][d] \in 0..Len(tree.nodes) /\ ParentIn(tree, <<head[h][d]>>)
      /\ ParentIn(tree, <<0>>)
  BY <1>1, AtWork
<1>3. Default \in Convs /\ q \in Convs
  BY DEF Convs, Sides
<1>4. PICK o \in Appends(log[s], tree, <<from>>, event) :
          /\ head' = [head EXCEPT ![h][q] = IF o.ok THEN Len(o.tree.nodes) ELSE from]
          /\ dedup' = [dedup EXCEPT ![h][q] = NoMap]
          /\ Stored(h, o, Tags(o, event.of))
  BY DEF Ask
<1>5. /\ said' = said + 1 /\ said < MaxEvents /\ UNCHANGED <<lock, pc, current, holds>>
      /\ open' = [open EXCEPT ![h] = @ \cup {q}]
  BY DEF Ask
<1>6. event \in Event /\ event.of = said + 1
  BY <1>2, EventsAre
<1>7. from \in 0..Len(tree.nodes) /\ ParentIn(tree, <<from>>)
  BY <1>2, <1>3
<1> HIDE DEF event, from
<1>8. Grows(log[s], tree, o, said + 1) /\ (o.ok => Stands(o.log, said + 1))
  BY <1>2, <1>5, <1>6, <1>7, AppendKeeps
<1>9. /\ Grown(o.tree) /\ Len(o.tree.nodes) \in Nat /\ Longer(tree.nodes, o.tree.nodes)
  BY <1>8, NodesOfGrown DEF Grows, Sound
<1>10. Tags(o, event.of) \in SUBSET (1..MaxEvents) /\ \A k \in Tags(o, event.of) : Stands(o.log, k)
  BY <1>2, <1>5, <1>6, <1>8 DEF Tags
<1>11. /\ head \in [Harnesses -> [Convs -> Nat]] /\ dedup \in [Harnesses -> [Convs -> Maps]]
       /\ open \in [Harnesses -> SUBSET Convs]
  BY DEF TruthInv, StoreTypes
<1>12. from \in Nat
  BY <1>2, <1>7
<1>13. head' \in [Harnesses -> [Convs -> Nat]]
  BY <1>4, <1>9, <1>11, <1>12
<1>14. dedup' \in [Harnesses -> [Convs -> Maps]] /\ open' \in [Harnesses -> SUBSET Convs]
  BY <1>3, <1>4, <1>5, <1>11, NoMapIsAMap
<1>15. \A d \in Convs : head'[h][d] <= Len(o.tree.nodes)
  <2>1. \A d \in Convs : head'[h][d] \in {head[h][d], Len(o.tree.nodes), from}
    BY <1>4, <1>11
  <2>2. Len(tree.nodes) <= Len(o.tree.nodes)
    BY <1>9 DEF Longer
  <2>3. \A d \in Convs : head[h][d] \in 0..Len(tree.nodes)
    BY <1>2
  <2> HIDE DEF tree
  <2>4. from <= Len(o.tree.nodes) /\ \A d \in Convs : head[h][d] <= Len(o.tree.nodes)
    BY <1>2, <1>7, <1>9, <2>2, <2>3
  <2> QED
    BY <1>9, <2>1, <2>4
<1>16. \A g \in Harnesses \ {h} : Unmoved(g)
  BY <1>4, <1>5, <1>11 DEF Unmoved, Stored
<1>17. said <= said + 1 /\ said + 1 <= MaxEvents /\ said + 1 \in Nat
  BY <1>2, <1>5
<1> HIDE DEF s, tree
<1> QED
  BY <1>1, <1>4, <1>5, <1>8, <1>10, <1>13, <1>14, <1>15, <1>16, <1>17, PublishKeeps DEF s, tree

(* Navigate keeps the invariant: only the head of the tree moves.           *)
LEMMA NavigateKeeps ==
    ASSUME TruthInv, LockInv', ~Races, "meta" \notin Failures, NEW h \in Harnesses, NEW node \in 1..MaxEvents,
           Navigate(h, node)
    PROVE  TruthInv'
<1> DEFINE s == current[h]
           tree == TreeOf(h, s)
           event == NavigateTo(said + 1, node)
<1>1. pc[h] = "running" /\ pc[h] # "off" /\ Alone(h) /\ MayLock(h, s) /\ s \in holds[h]
  BY PcIs DEF Navigate, Acts
<1>2. /\ s \in Sessions /\ Sound(log[s], tree, said) /\ Grown(tree) /\ Len(tree.nodes) \in Nat
      /\ said \in Nat /\ MaxEvents \in Nat
      /\ \A d \in Convs : head[h][d] \in 0..Len(tree.nodes)
      /\ ParentIn(tree, <<>>)
  BY <1>1, AtWork
<1>3. PICK o \in Appends(log[s], tree, <<>>, event) : Stored(h, o, Tags(o, event.of))
  BY DEF Navigate
<1>4. said' = said + 1 /\ said < MaxEvents /\ UNCHANGED <<lock, pc, current, holds, open, head, dedup>>
  BY DEF Navigate
<1>5. event \in Event /\ event.of = said + 1
  BY <1>2, EventsAre
<1> HIDE DEF event
<1>6. Grows(log[s], tree, o, said + 1) /\ (o.ok => Stands(o.log, said + 1))
  <2>1. /\ Sound(log[s], tree, said) /\ ParentIn(tree, <<>>) /\ said \in Nat /\ said + 1 \in Nat
        /\ said < said + 1 /\ said + 1 <= MaxEvents
    BY <1>2, <1>4
  <2> HIDE DEF s, tree
  <2> QED
    BY <1>5, <2>1, AppendKeeps
<1>7. /\ Grown(o.tree) /\ Len(o.tree.nodes) \in Nat /\ Longer(tree.nodes, o.tree.nodes)
  BY <1>6, NodesOfGrown DEF Grows, Sound
<1>8. Tags(o, event.of) \in SUBSET (1..MaxEvents) /\ \A k \in Tags(o, event.of) : Stands(o.log, k)
  BY <1>2, <1>4, <1>5, <1>6 DEF Tags
<1>9. /\ head' \in [Harnesses -> [Convs -> Nat]] /\ dedup' \in [Harnesses -> [Convs -> Maps]]
      /\ open' \in [Harnesses -> SUBSET Convs]
  BY <1>4 DEF TruthInv, StoreTypes
<1>10. \A d \in Convs : head'[h][d] <= Len(o.tree.nodes)
  <2>1. Len(tree.nodes) <= Len(o.tree.nodes)
    BY <1>7 DEF Longer
  <2>2. \A d \in Convs : head'[h][d] \in 0..Len(tree.nodes)
    BY <1>2, <1>4
  <2> HIDE DEF tree
  <2> QED
    BY <1>2, <1>7, <2>1, <2>2
<1>11. \A g \in Harnesses \ {h} : Unmoved(g)
  BY <1>3, <1>4 DEF Unmoved, Stored
<1>12. said <= said + 1 /\ said + 1 <= MaxEvents /\ said + 1 \in Nat
  BY <1>2, <1>4
<1> HIDE DEF s, tree
<1> QED
  BY <1>1, <1>3, <1>4, <1>6, <1>8, <1>9, <1>10, <1>11, <1>12, PublishKeeps DEF s, tree

-----------------------------------------------------------------------------
(* AnswerQuery keeps the invariant through its answer and the snap, either  *)
(* of which may fail.                                                       *)
LEMMA AnswerQueryKeeps ==
    ASSUME TruthInv, LockInv', ~Races, "meta" \notin Failures, NEW h \in Harnesses, NEW q \in Sides,
           NEW has_text \in BOOLEAN, AnswerQuery(h, q, has_text)
    PROVE  TruthInv'
<1> DEFINE s == current[h]
           tree == TreeOf(h, s)
           answer == IF has_text THEN Message(said + 1) ELSE Note(said + 1)
           snap == NavigateTo(said + 2, head[h][Default])
<1>1. pc[h] = "running" /\ pc[h] # "off" /\ Alone(h) /\ MayLock(h, s) /\ s \in holds[h]
  BY PcIs DEF AnswerQuery, Acts
<1>2. /\ s \in Sessions /\ Sound(log[s], tree, said) /\ Grown(tree) /\ Len(tree.nodes) \in Nat
      /\ said \in Nat /\ MaxEvents \in Nat
      /\ \A d \in Convs : head[h][d] \in 0..Len(tree.nodes) /\ ParentIn(tree, <<head[h][d]>>)
  BY <1>1, AtWork
<1>3. Default \in Convs /\ q \in Convs
  BY DEF Convs, Sides
<1>4. PICK o \in Appends(log[s], tree, <<head[h][q]>>, answer) :
          IF Snaps(h, o.tree)
          THEN \E p \in Appends(o.log, o.tree, <<>>, snap) :
                  /\ Stored(h, p, Tags(o, answer.of) \cup Tags(p, snap.of))
                  /\ said' = said + 2
          ELSE /\ Stored(h, o, Tags(o, answer.of))
               /\ said' = said + 1
  BY DEF AnswerQuery
<1>5. /\ said + 1 < MaxEvents
      /\ open' = [open EXCEPT ![h] = @ \ {q}]
      /\ head' = [head EXCEPT ![h][q] = 0]
      /\ dedup' = [dedup EXCEPT ![h][q] = NoMap]
      /\ UNCHANGED <<lock, pc, current, holds>>
  BY DEF AnswerQuery
<1>6. /\ answer \in Event /\ answer.of = said + 1 /\ snap \in Event /\ snap.of = said + 2
      /\ said + 1 \in Nat /\ said + 2 \in Nat /\ said < said + 1 /\ said + 1 < said + 2
      /\ said + 1 <= MaxEvents /\ said + 2 <= MaxEvents /\ said <= said + 2
  <2>0. head[h][Default] \in Nat
    BY <1>3 DEF TruthInv, StoreTypes
  <2>1. said + 1 \in Nat /\ said + 2 \in Nat /\ head[h][Default] \in Nat
    BY <1>2, <2>0
  <2> QED
    BY <1>2, <1>5, <2>1, EventsAre
<1>7. ParentIn(tree, <<head[h][q]>>)
  BY <1>2, <1>3
<1> HIDE DEF answer, snap
<1>8. Grows(log[s], tree, o, said + 1) /\ (o.ok => Stands(o.log, said + 1))
  <2> HIDE DEF s, tree
  <2> QED
    BY <1>2, <1>6, <1>7, AppendKeeps
<1>9. /\ head' \in [Harnesses -> [Convs -> Nat]] /\ dedup' \in [Harnesses -> [Convs -> Maps]]
      /\ open' \in [Harnesses -> SUBSET Convs]
      /\ \A d \in Convs : head'[h][d] \in {0, head[h][d]}
  BY <1>5, NoMapIsAMap DEF TruthInv, StoreTypes
<1>10. \A g \in Harnesses \ {h} : pc'[g] = pc[g] /\ current'[g] = current[g] /\ holds'[g] = holds[g]
                                 /\ open'[g] = open[g] /\ head'[g] = head[g] /\ dedup'[g] = dedup[g]
  BY <1>5
<1>11. pc'[h] = "running" /\ current'[h] = current[h] /\ current[h] \in holds'[h] /\ holds[h] \subseteq holds'[h]
  BY <1>1, <1>5
<1>12. ASSUME NEW r, NEW n \in Nat, said <= n, n <= MaxEvents, Grows(log[s], tree, r, n),
              NEW tags \in SUBSET (1..MaxEvents), \A k \in tags : Stands(r.log, k),
              Stored(h, r, tags), said' = n
       PROVE  TruthInv'
  <2>1. Len(r.tree.nodes) \in Nat /\ Len(tree.nodes) <= Len(r.tree.nodes)
    BY <1>12, NodesOfGrown DEF Grows, Sound, Longer
  <2>2. \A d \in Convs : head[h][d] \in 0..Len(tree.nodes)
    BY <1>2
  <2>3. \A d \in Convs : head'[h][d] <= Len(r.tree.nodes)
    <3> HIDE DEF tree
    <3>1. Len(tree.nodes) \in Nat
      BY <1>2
    <3>2. \A d \in Convs : head[h][d] <= Len(r.tree.nodes) /\ 0 <= Len(r.tree.nodes)
      BY <2>1, <2>2, <3>1
    <3> QED
      BY <1>9, <3>2
  <2>4. \A g \in Harnesses \ {h} : Unmoved(g)
    BY <1>10, <1>12 DEF Unmoved, Stored
  <2> HIDE DEF s, tree
  <2> QED
    BY <1>1, <1>9, <1>11, <1>12, <2>3, <2>4, PublishKeeps DEF s, tree
<1>13. CASE ~Snaps(h, o.tree)
  <2>1. Stored(h, o, Tags(o, answer.of)) /\ said' = said + 1
    BY <1>4, <1>13
  <2>2. Tags(o, answer.of) \in SUBSET (1..MaxEvents) /\ \A k \in Tags(o, answer.of) : Stands(o.log, k)
    BY <1>2, <1>6, <1>8 DEF Tags
  <2> HIDE DEF s, tree
  <2> QED
    BY <1>2, <1>6, <1>8, <1>12, <2>1, <2>2
<1>14. CASE Snaps(h, o.tree)
  <2>1. PICK p \in Appends(o.log, o.tree, <<>>, snap) :
            Stored(h, p, Tags(o, answer.of) \cup Tags(p, snap.of)) /\ said' = said + 2
    BY <1>4, <1>14
  <2>2. Sound(o.log, o.tree, said + 1) /\ ParentIn(o.tree, <<>>)
    BY <1>8 DEF Grows, ParentIn
  <2>3. Grows(o.log, o.tree, p, said + 2) /\ (p.ok => Stands(p.log, said + 2))
    BY <1>6, <2>2, AppendKeeps
  <2>4. Len(log[s]) \in Nat /\ Len(o.log) \in Nat /\ Len(p.log) \in Nat
    <3>1. o.log \in Seq(Record) /\ p.log \in Seq(Record)
      BY <2>2, <2>3 DEF Grows, Sound, Ordered
    <3> QED
      BY <1>2, <3>1
  <2>5. Grows(log[s], tree, p, said + 2)
    <3> HIDE DEF s, tree
    <3> QED
      BY <1>2, <1>8, <2>3, <2>4, GrowsOn
  <2>6. o.ok => Stands(p.log, said + 1)
    BY <1>8, <2>3, <2>4, StandsOn DEF Grows
  <2>7. /\ Tags(o, answer.of) \cup Tags(p, snap.of) \in SUBSET (1..MaxEvents)
        /\ \A k \in Tags(o, answer.of) \cup Tags(p, snap.of) : Stands(p.log, k)
    BY <1>2, <1>6, <2>3, <2>6 DEF Tags
  <2> HIDE DEF s, tree
  <2> QED
    BY <1>6, <1>12, <2>1, <2>5, <2>7
<1> QED
  BY <1>13, <1>14

(* An event that folds nothing after what came before it.                   *)
LEMMA NotesKeep ==
    ASSUME "meta" \notin Failures, NEW p, NEW m \in Nat, NEW n \in Nat, m < n, n <= MaxEvents,
           Sound(p.log, p.tree, m), NEW o \in Notes({p}, n)
    PROVE  /\ Grows(p.log, p.tree, o, n) /\ (o.ok => Stands(o.log, n))
           /\ o \in Appends(p.log, p.tree, <<>>, Note(n))
<1>1. o \in Appends(p.log, p.tree, <<>>, Note(n))
  BY DEF Notes
<1>2. ParentIn(p.tree, <<>>) /\ Note(n) \in Event /\ Note(n).of = n
  BY EventsAre DEF ParentIn
<1> QED
  BY <1>1, <1>2, AppendKeeps

(* Exit keeps the invariant: the log has all that was acknowledged.         *)
LEMMA ExitKeeps ==
    ASSUME TruthInv, LockInv', ~Races, NEW h \in Harnesses, Exit(h)
    PROVE  TruthInv'
<1>1. Stopped(h) /\ Alone(h) /\ UNCHANGED <<log, said, acked>>
  BY DEF Exit
<1>2. DiskInv'
  BY <1>1 DEF TruthInv, DiskInv
<1>3. /\ said' \in 0..MaxEvents /\ log' = [t \in Sessions |-> log'[t]]
      /\ acked' \in [Sessions -> SUBSET (1..MaxEvents)]
  BY <1>1 DEF TruthInv, StoreTypes
<1>4. \A g \in Harnesses \ {h} : pc[g] # "loaded" /\ \A t \in DOMAIN trees[g] : log'[t] = log[t]
  BY <1>1 DEF Alone
<1> QED
  BY <1>1, <1>2, <1>3, <1>4, StopKeeps

(* KilledWriting keeps the invariant: a whole record that no one was told   *)
(* of, or a part of one that is skipped.                                    *)
LEMMA KilledWritingKeeps ==
    ASSUME TruthInv, LockInv', ~Races, NEW h \in Harnesses, NEW c \in Convs, NEW whole \in {"yes", "cut"},
           KilledWriting(h, c, whole)
    PROVE  TruthInv'
<1> DEFINE s == current[h]
           tree == TreeOf(h, s)
           event == Message(said + 1)
           r == RecordOf(tree, <<head[h][c]>>, event, whole)
<1>1. pc[h] = "running" /\ pc[h] # "off" /\ Alone(h) /\ MayLock(h, s) /\ s \in holds[h]
  BY PcIs DEF KilledWriting, Acts
<1>2. /\ s \in Sessions /\ Sound(log[s], tree, said) /\ Grown(tree) /\ Len(tree.nodes) \in Nat
      /\ said \in Nat /\ MaxEvents \in Nat
      /\ ParentIn(tree, <<head[h][c]>>)
  BY <1>1, AtWork
<1>3. /\ Stopped(h) /\ said < MaxEvents /\ said' = said + 1 /\ UNCHANGED acked
      /\ log' = [log EXCEPT ![s] = Append(@, r)]
  BY DEF KilledWriting
<1>4. event \in Event /\ event.of = said + 1
  BY <1>2, EventsAre
<1>5. /\ Ordered(log[s], said) /\ Grown(tree) /\ Follows(tree, Replay(log[s]))
      /\ Len(tree.nodes) <= MaxEvents
  <2>1. Ordered(log[s], said) /\ Grown(tree) /\ Follows(tree, Replay(log[s]))
    BY <1>2 DEF Sound
  <2>2. Len(tree.nodes) <= Len(log[s]) /\ Len(log[s]) <= said /\ Len(log[s]) \in Nat
    BY <2>1 DEF Ordered, Follows
  <2>3. said <= MaxEvents
    BY <1>3, <1>2
  <2> HIDE DEF tree
  <2> QED
    BY <1>2, <2>1, <2>2, <2>3
<1> HIDE DEF event
<1>6. /\ r \in Record /\ r.id = tree.next /\ r.event = event
      /\ r.parent = Flatten(<<head[h][c]>>) /\ ParentIn(tree, Flatten(<<head[h][c]>>))
  <2> HIDE DEF tree
  <2> QED
    BY <1>2, <1>4, <1>5, RecordIsARecord
<1>7. r.event.of = said + 1 /\ r.id = Replay(log[s]).next /\ ParentIn(Replay(log[s]), r.parent)
  BY <1>4, <1>5, <1>6 DEF Follows, ParentIn
<1> HIDE DEF r
<1>8. Ordered(Append(log[s], r), said + 1) /\ Longer(log[s], Append(log[s], r))
  <2> HIDE DEF s, tree
  <2> QED
    BY <1>2, <1>5, <1>6, <1>7, OrderedMore
<1>9. acked' = [acked EXCEPT ![s] = @ \cup {}]
  BY <1>3 DEF TruthInv, StoreTypes
<1>10. log' = [log EXCEPT ![s] = Append(log[s], r)]
  BY <1>3
<1>11. /\ DiskInv' /\ said' \in 0..MaxEvents
       /\ log' = [t \in Sessions |-> log'[t]]
       /\ acked' \in [Sessions -> SUBSET (1..MaxEvents)]
       /\ \A t \in Sessions : t # s => log'[t] = log[t]
  <2>1. said + 1 \in Nat /\ said <= said + 1 /\ said + 1 <= MaxEvents
    BY <1>2, <1>3
  <2>2. {} \in SUBSET (1..MaxEvents) /\ \A k \in {} : Stands(Append(log[s], r), k)
    OBVIOUS
  <2>3. s \in Sessions /\ said' = said + 1
    BY <1>2, <1>3
  <2> HIDE DEF s
  <2> QED
    BY <1>8, <1>9, <1>10, <2>1, <2>2, <2>3, DiskKeeps
<1>12. ASSUME NEW g \in Harnesses \ {h}
       PROVE  pc[g] # "loaded" /\ \A t \in DOMAIN trees[g] : log'[t] = log[t]
  <2>1. s \notin DOMAIN trees[g] /\ pc[g] # "loaded"
    BY <1>1, <1>2, OthersHaveNothing
  <2>2. DOMAIN trees[g] \subseteq Sessions
    BY DEF TruthInv, HarnessInv
  <2> QED
    BY <1>11, <2>1, <2>2
<1> HIDE DEF s
<1> QED
  BY <1>3, <1>11, <1>12, StopKeeps

(* Lock keeps the invariant: no one wrote the log since the session was     *)
(* loaded.                                                                  *)
LEMMA LockKeeps ==
    ASSUME TruthInv, LockInv', ~Races, "meta" \notin Failures, NEW h \in Harnesses, Lock(h)
    PROVE  TruthInv'
<1> DEFINE s == current[h]
           tree == TreeOf(h, s)
           started == Note(said + 1)
<1>1. pc[h] = "loaded" /\ pc[h] # "off" /\ Alone(h) /\ said < MaxEvents
  BY DEF Lock
<1>2. /\ s \in Sessions /\ Sound(log[s], tree, said) /\ Grown(tree) /\ Len(tree.nodes) \in Nat
      /\ said \in Nat /\ MaxEvents \in Nat
      /\ \A d \in Convs : head[h][d] \in 0..Len(tree.nodes)
      /\ ParentIn(tree, <<>>)
  BY <1>1, AtWork
<1>3. CASE MayLock(h, s)
  <2>1. PICK o \in Appends(log[s], tree, <<>>, started) : Stored(h, o, Tags(o, started.of))
    BY <1>3 DEF Lock
  <2>2. /\ TakeLock(h, s) /\ pc' = [pc EXCEPT ![h] = "running"] /\ said' = said + 1
        /\ UNCHANGED <<current, open, head, dedup>>
    BY <1>3 DEF Lock
  <2>3. started \in Event /\ started.of = said + 1
    BY <1>2, EventsAre
  <2> HIDE DEF started
  <2>4. Grows(log[s], tree, o, said + 1) /\ (o.ok => Stands(o.log, said + 1))
    <3>1. /\ said + 1 \in Nat /\ said < said + 1 /\ said + 1 <= MaxEvents
      BY <1>1, <1>2
    <3> HIDE DEF s, tree
    <3> QED
      BY <1>2, <2>3, <3>1, AppendKeeps
  <2>5. /\ Grown(o.tree) /\ Len(o.tree.nodes) \in Nat /\ Longer(tree.nodes, o.tree.nodes)
    BY <2>4, NodesOfGrown DEF Grows, Sound
  <2>6. Tags(o, started.of) \in SUBSET (1..MaxEvents) /\ \A k \in Tags(o, started.of) : Stands(o.log, k)
    BY <1>1, <1>2, <2>3, <2>4 DEF Tags
  <2>7. /\ head' \in [Harnesses -> [Convs -> Nat]] /\ dedup' \in [Harnesses -> [Convs -> Maps]]
        /\ open' \in [Harnesses -> SUBSET Convs]
    BY <2>2 DEF TruthInv, StoreTypes
  <2>8. \A d \in Convs : head'[h][d] <= Len(o.tree.nodes)
    <3>1. Len(tree.nodes) <= Len(o.tree.nodes)
      BY <2>5 DEF Longer
    <3>2. \A d \in Convs : head'[h][d] \in 0..Len(tree.nodes)
      BY <1>2, <2>2
    <3> HIDE DEF tree
    <3> QED
      BY <1>2, <2>5, <3>1, <3>2
  <2>9. /\ pc'[h] = "running" /\ current'[h] = current[h]
        /\ s \in holds'[h] /\ holds[h] \subseteq holds'[h]
    BY <2>2 DEF TakeLock, TruthInv, LockInv, LockTypes
  <2>10. \A g \in Harnesses \ {h} : Unmoved(g)
    BY <2>1, <2>2 DEF Unmoved, Stored, TakeLock
  <2>11. said <= said + 1 /\ said + 1 <= MaxEvents /\ said + 1 \in Nat
    BY <1>1, <1>2
  <2> HIDE DEF s, tree
  <2> QED
    BY <1>1, <1>3, <2>1, <2>2, <2>4, <2>6, <2>7, <2>8, <2>9, <2>10, <2>11, PublishKeeps DEF s, tree
<1>4. CASE ~MayLock(h, s)
  <2>1. Stopped(h) /\ UNCHANGED <<log, said, acked>>
    BY <1>4 DEF Lock
  <2>2. DiskInv'
    BY <2>1 DEF TruthInv, DiskInv
  <2>3. /\ said' \in 0..MaxEvents /\ log' = [t \in Sessions |-> log'[t]]
        /\ acked' \in [Sessions -> SUBSET (1..MaxEvents)]
    BY <2>1 DEF TruthInv, StoreTypes
  <2>4. \A g \in Harnesses \ {h} : pc[g] # "loaded" /\ \A t \in DOMAIN trees[g] : log'[t] = log[t]
    BY <1>1, <2>1 DEF Alone
  <2> QED
    BY <2>1, <2>2, <2>3, <2>4, StopKeeps
<1> QED
  BY <1>3, <1>4

-----------------------------------------------------------------------------
(* Start keeps the invariant: the tree is what the log says.                *)
LEMMA StartKeeps ==
    ASSUME TruthInv, LockInv', ~Races, NEW h \in Harnesses, NEW s \in Sessions, Start(h, s)
    PROVE  TruthInv'
<1>1. /\ pc[h] = "off" /\ Alone(h)
      /\ pc' = [pc EXCEPT ![h] = "loaded"]
      /\ trees' = [trees EXCEPT ![h] = IF log[s] = <<>> THEN <<>> ELSE Insert(<<>>, s, Replay(log[s]))]
      /\ current' = [current EXCEPT ![h] = s]
      /\ open' = [open EXCEPT ![h] = {Default}]
      /\ head' = [head EXCEPT ![h] = [c \in Convs |-> IF c = Default THEN Replay(log[s]).head ELSE 0]]
      /\ dedup' = [dedup EXCEPT ![h] = [c \in Convs |-> NoMap]]
      /\ UNCHANGED <<log, lock, holds, said, acked>>
  BY DEF Start, Bound
<1>2. /\ StoreTypes /\ DiskInv /\ OneLoads /\ LockTypes
      /\ \A g \in Harnesses : HarnessInv(g) /\ pc[g] \in {"off", "loaded", "running"}
  BY PcIs DEF TruthInv, LockInv
<1>3. Default \in Convs
  BY DEF Convs
<1>4. Ordered(log[s], said) /\ Grown(Replay(log[s])) /\ Follows(Replay(log[s]), Replay(log[s]))
  BY <1>2 DEF DiskInv, Ordered, Follows
<1>5. Replay(log[s]).head \in 0..Len(Replay(log[s]).nodes) /\ Len(Replay(log[s]).nodes) \in Nat
  BY <1>4, NodesOfGrown
<1>6. StoreTypes'
  <2>1. trees' = [g \in Harnesses |-> trees'[g]]
    BY <1>1, <1>2 DEF StoreTypes
  <2>2. head' \in [Harnesses -> [Convs -> Nat]]
    <3>1. [c \in Convs |-> IF c = Default THEN Replay(log[s]).head ELSE 0] \in [Convs -> Nat]
      BY <1>5
    <3> QED
      BY <1>1, <1>2, <3>1 DEF StoreTypes
  <2> QED
    BY <1>1, <1>2, <1>3, <2>1, <2>2, NoMapIsAMap DEF StoreTypes
<1>7. DiskInv'
  BY <1>1, <1>2 DEF DiskInv
<1>8. OneLoads'
  BY <1>1, <1>2 DEF OneLoads, Alone
<1>9. ASSUME NEW g \in Harnesses \ {h} PROVE HarnessInv(g)'
  <2>1. Unmoved(g)
    BY <1>1 DEF Unmoved
  <2>2. pc[g] # "loaded"
    BY <1>1 DEF Alone
  <2> QED
    BY <1>1, <1>2, <2>1, <2>2, OthersKeep
<1>10. HarnessInv(h)'
  <2>1. /\ pc'[h] = "loaded" /\ current'[h] = s /\ holds'[h] = {} /\ log' = log
        /\ trees'[h] = IF log[s] = <<>> THEN <<>> ELSE Insert(<<>>, s, Replay(log[s]))
        /\ head'[h] = [c \in Convs |-> IF c = Default THEN Replay(log[s]).head ELSE 0]
    BY <1>1, <1>2 DEF HarnessInv, LockTypes, StoreTypes
  <2>2. DOMAIN trees'[h] \subseteq {s} /\ (s \in DOMAIN trees'[h] => trees'[h][s] = Replay(log[s]))
    <3>1. DOMAIN <<>> = {}
      OBVIOUS
    <3> QED
      BY <2>1, <3>1 DEF Insert
  <2>3. Size(h)' = Len(Replay(log[s]).nodes)
    BY <2>1, <2>2 DEF Size, TreeOf
  <2>4. /\ \A c \in Convs : head'[h][c] <= Size(h)'
        /\ head'[h][Default] = Replay(log'[current'[h]]).head
    BY <1>3, <1>5, <2>1, <2>3
  <2>5. \A t \in DOMAIN trees'[h] :
          /\ t \in Sessions /\ t = current'[h]
          /\ Grown(trees'[h][t]) /\ Follows(trees'[h][t], Replay(log'[t]))
    BY <1>4, <2>1, <2>2
  <2> QED
    BY <2>1, <2>4, <2>5 DEF HarnessInv
<1> QED
  BY <1>6, <1>7, <1>8, <1>9, <1>10 DEF TruthInv

(* Sweep keeps the invariant: no one has a tree of a session that is not    *)
(* held, unless it is loading that session.                                 *)
LEMMA SweepKeeps ==
    ASSUME TruthInv, LockInv', ~Races, ~LongIdle, NEW h \in Harnesses, NEW s \in Sessions, Sweep(h, s)
    PROVE  TruthInv'
<1>1. /\ Alone(h) /\ lock[s] = None /\ current[h] # s
      /\ log' = [log EXCEPT ![s] = <<>>]
      /\ acked' = [acked EXCEPT ![s] = {}]
      /\ UNCHANGED <<pc, current, holds, trees, open, head, dedup, said>>
  BY DEF Sweep, memory
<1>2. /\ StoreTypes /\ DiskInv /\ OneLoads
      /\ \A g \in Harnesses : HarnessInv(g) /\ pc[g] \in {"off", "loaded", "running"}
  BY PcIs DEF TruthInv
<1>3. /\ log'[s] = <<>> /\ acked'[s] = {}
      /\ \A t \in Sessions : t # s => log'[t] = log[t] /\ acked'[t] = acked[t]
      /\ log' = [t \in Sessions |-> log'[t]] /\ acked' \in [Sessions -> SUBSET (1..MaxEvents)]
  BY <1>1, <1>2 DEF StoreTypes
<1>4. StoreTypes'
  BY <1>1, <1>2, <1>3 DEF StoreTypes
<1>5. DiskInv'
  <2>1. Ordered(<<>>, said)
    <3>1. said \in Nat /\ 0 <= said /\ 0 \in Nat
      BY <1>2, SessionStoreAssumption DEF StoreTypes
    <3> QED
      BY <3>1, EmptyIsSound, OrderedLater
  <2>2. ASSUME NEW t \in Sessions
        PROVE  Ordered(log'[t], said') /\ \A n \in acked'[t] : Stands(log'[t], n)
    BY <1>1, <1>2, <1>3, <2>1 DEF DiskInv
  <2> QED
    BY <2>2 DEF DiskInv
<1>6. OneLoads'
  BY <1>1, <1>2 DEF OneLoads
<1>7. ASSUME NEW g \in Harnesses PROVE HarnessInv(g)'
  <2>1. s \notin holds[g]
    BY <1>1, SessionStoreAssumption DEF TruthInv, LockInv, HeldIsLocked
  <2>2. pc[g] = "loaded" => current[g] # s
    BY <1>1 DEF Alone
  <2>3. s \notin DOMAIN trees[g]
    BY <1>2, <2>1, <2>2 DEF HarnessInv
  <2>4. Unmoved(g)
    BY <1>1 DEF Unmoved
  <2>5. \A t \in DOMAIN trees[g] : log'[t] = log[t]
    BY <1>2, <1>3, <2>3 DEF HarnessInv
  <2>6. pc[g] = "loaded" => log'[current[g]] = log[current[g]]
    BY <1>3, <2>2, PcIs
  <2> QED
    BY <1>2, <2>4, <2>5, <2>6, OthersKeep
<1> QED
  BY <1>4, <1>5, <1>6, <1>7 DEF TruthInv

(* A switch that only tells the session that it is resumed, or that starts  *)
(* it again: events that fold nothing.                                      *)
LEMMA SwitchHereKeeps ==
    ASSUME TruthInv, LockInv', ~Races, "meta" \notin Failures, NEW h \in Harnesses, Acts(h),
           NEW n \in Nat, said < n, n <= MaxEvents,
           NEW q, Grows(log[current[h]], TreeOf(h, current[h]), q, n),
           NEW tags \in SUBSET (1..MaxEvents), \A k \in tags : Stands(q.log, k),
           Stored(h, q, tags), said' = n,
           \/ UNCHANGED <<lock, pc, current, holds, open, head, dedup>>
           \/ Bound(h, current[h], 0) /\ UNCHANGED <<lock, pc, holds>>
    PROVE  TruthInv'
<1>1. /\ pc[h] = "running" /\ pc[h] # "off" /\ Alone(h) /\ MayLock(h, current[h]) /\ current[h] \in holds[h]
      /\ pc' = pc /\ holds' = holds
  BY PcIs DEF Acts
<1>2. /\ head \in [Harnesses -> [Convs -> Nat]] /\ dedup \in [Harnesses -> [Convs -> Maps]]
      /\ open \in [Harnesses -> SUBSET Convs] /\ current \in [Harnesses -> Sessions \cup {None}]
      /\ Default \in Convs /\ said \in Nat
  <2>1. said \in Nat
    BY SessionStoreAssumption DEF TruthInv, StoreTypes
  <2>2. Default \in Convs
    BY DEF Convs
  <2> QED
    BY <2>1, <2>2 DEF TruthInv, StoreTypes, LockInv, LockTypes
<1>3. Len(q.tree.nodes) \in Nat /\ Len(TreeOf(h, current[h]).nodes) <= Len(q.tree.nodes)
  BY NodesOfGrown DEF Grows, Sound, Longer
<1>4. \A d \in Convs : head[h][d] <= Len(q.tree.nodes)
  <2>1. Len(TreeOf(h, current[h]).nodes) \in Nat
        /\ \A d \in Convs : head[h][d] \in 0..Len(TreeOf(h, current[h]).nodes)
    BY <1>1, AtWork
  <2> QED
    BY <1>3, <2>1
<1>5. /\ current'[h] = current[h]
      /\ head' \in [Harnesses -> [Convs -> Nat]] /\ dedup' \in [Harnesses -> [Convs -> Maps]]
      /\ open' \in [Harnesses -> SUBSET Convs]
      /\ \A d \in Convs : head'[h][d] \in {0, head[h][d]}
      /\ \A g \in Harnesses \ {h} : open'[g] = open[g] /\ head'[g] = head[g] /\ dedup'[g] = dedup[g]
                                    /\ current'[g] = current[g]
  <2>1. CASE UNCHANGED <<lock, pc, current, holds, open, head, dedup>>
    BY <1>2, <2>1
  <2>2. CASE Bound(h, current[h], 0)
    <3>1. /\ current' = [current EXCEPT ![h] = current[h]]
          /\ open' = [open EXCEPT ![h] = {Default}]
          /\ head' = [head EXCEPT ![h] = [c \in Convs |-> 0]]
          /\ dedup' = [dedup EXCEPT ![h] = [c \in Convs |-> NoMap]]
      BY <2>2 DEF Bound
    <3> QED
      BY <1>2, <3>1, NoMapIsAMap
  <2> QED
    BY <2>1, <2>2
<1>6. \A d \in Convs : head'[h][d] <= Len(q.tree.nodes)
  <2>1. 0 <= Len(q.tree.nodes)
    BY <1>3
  <2>2. \A d \in Convs : head'[h][d] = 0 \/ head'[h][d] = head[h][d]
    BY <1>5
  <2> QED
    BY <1>4, <2>1, <2>2
<1>7. \A g \in Harnesses \ {h} : Unmoved(g)
  BY <1>1, <1>5 DEF Unmoved, Stored
<1>8. said <= n
  BY <1>2
<1> QED
  BY <1>1, <1>5, <1>6, <1>7, <1>8, PublishKeeps
(* A switch to another session writes both logs.                            *)
LEMMA SwitchAwayKeeps ==
    ASSUME TruthInv, LockInv', ~Races, "meta" \notin Failures, NEW h \in Harnesses, Acts(h),
           NEW s \in Sessions, s # current[h], MayLock(h, s), TakeLock(h, s), UNCHANGED pc,
           NEW n \in Nat, said < n, n <= MaxEvents, said' = n,
           NEW o, Grows(log[current[h]], TreeOf(h, current[h]), o, n),
           NEW q, Grows(log[s], TreeOf(h, s), q, n),
           NEW mark \in SUBSET (1..MaxEvents), \A k \in mark : Stands(o.log, k),
           NEW tags \in SUBSET (1..MaxEvents), \A k \in tags : Stands(q.log, k),
           log' = [log EXCEPT ![s] = q.log, ![current[h]] = o.log],
           trees' = [trees EXCEPT ![h] = Insert(Insert(@, s, q.tree), current[h], o.tree)],
           acked' = [acked EXCEPT ![s] = @ \cup tags, ![current[h]] = @ \cup mark],
           NEW node \in 0..Len(q.tree.nodes), Bound(h, s, node)
    PROVE  TruthInv'
<1> DEFINE old == current[h]
<1>1. /\ pc[h] = "running" /\ Alone(h) /\ old \in Sessions /\ MayLock(h, old) /\ old \in holds[h]
      /\ old \in DOMAIN trees[h]
  BY PcIs DEF Acts
<1>2. /\ StoreTypes /\ DiskInv /\ OneLoads /\ LockTypes
      /\ \A g \in Harnesses : HarnessInv(g) /\ pc[g] \in {"off", "loaded", "running"}
  BY PcIs DEF TruthInv, LockInv
<1>3. /\ current' = [current EXCEPT ![h] = s]
      /\ open' = [open EXCEPT ![h] = {Default}]
      /\ head' = [head EXCEPT ![h] = [c \in Convs |-> IF c = Default THEN node ELSE 0]]
      /\ dedup' = [dedup EXCEPT ![h] = [c \in Convs |-> NoMap]]
      /\ pc' = pc
      /\ holds' = [holds EXCEPT ![h] = @ \cup {s}]
  BY DEF Bound, TakeLock
<1>4. /\ Ordered(o.log, n) /\ Longer(log[old], o.log) /\ Grown(o.tree) /\ Follows(o.tree, Replay(o.log))
      /\ Ordered(q.log, n) /\ Longer(log[s], q.log) /\ Grown(q.tree) /\ Follows(q.tree, Replay(q.log))
  BY DEF Grows, Sound
<1>5. /\ log'[s] = q.log /\ log'[old] = o.log
      /\ \A t \in Sessions : t # s /\ t # old => log'[t] = log[t] /\ acked'[t] = acked[t]
      /\ acked'[s] = acked[s] \cup tags /\ acked'[old] = acked[old] \cup mark
      /\ log' = [t \in Sessions |-> log'[t]] /\ acked' \in [Sessions -> SUBSET (1..MaxEvents)]
  BY <1>1, <1>2 DEF StoreTypes
<1>6. /\ trees' = [g \in Harnesses |-> trees'[g]]
      /\ trees'[h] = Insert(Insert(trees[h], s, q.tree), old, o.tree)
  BY <1>2 DEF StoreTypes
<1>7. said \in Nat /\ MaxEvents \in Nat /\ Default \in Convs
  <2>1. MaxEvents \in Nat
    BY SessionStoreAssumption
  <2>2. Default \in Convs
    BY DEF Convs
  <2> QED
    BY <1>2, <2>1, <2>2 DEF StoreTypes
<1>8. node \in Nat
  OBVIOUS
<1>9. StoreTypes'
  <2>1. head' \in [Harnesses -> [Convs -> Nat]]
    <3>1. [c \in Convs |-> IF c = Default THEN node ELSE 0] \in [Convs -> Nat]
      BY <1>8
    <3> QED
      BY <1>2, <1>3, <3>1 DEF StoreTypes
  <2>2. said' \in 0..MaxEvents
    BY <1>7
  <2> QED
    BY <1>2, <1>3, <1>5, <1>6, <1>7, <2>1, <2>2, NoMapIsAMap DEF StoreTypes
<1>10. DiskInv'
  <2>1. ASSUME NEW t \in Sessions, t # s, t # old
        PROVE  Ordered(log'[t], said') /\ \A k \in acked'[t] : Stands(log'[t], k)
    <3>1. Ordered(log[t], said) /\ \A k \in acked[t] : Stands(log[t], k)
      BY <1>2 DEF DiskInv
    <3>2. Ordered(log[t], n)
      BY <1>7, <3>1, OrderedLater
    <3> QED
      BY <1>5, <2>1, <3>1, <3>2
  <2>2. ASSUME NEW t \in Sessions, NEW r, Ordered(r, n), Longer(log[t], r)
        PROVE  \A k \in acked[t] : Stands(r, k)
    <3>1. \A k \in acked[t] : Stands(log[t], k)
      BY <1>2 DEF DiskInv
    <3>2. Len(log[t]) \in Nat /\ Len(r) \in Nat
      BY <1>2, <2>2 DEF DiskInv, Ordered
    <3> QED
      BY <2>2, <3>1, <3>2, StandsOn
  <2>3. \A k \in acked'[s] : Stands(q.log, k)
    BY <1>4, <1>5, <2>2
  <2>4. \A k \in acked'[old] : Stands(o.log, k)
    BY <1>1, <1>4, <1>5, <2>2
  <2>5. ASSUME NEW t \in Sessions
        PROVE  Ordered(log'[t], said') /\ \A k \in acked'[t] : Stands(log'[t], k)
    BY <1>4, <1>5, <2>1, <2>3, <2>4
  <2> QED
    BY <2>5 DEF DiskInv
<1>11. OneLoads'
  BY <1>2, <1>3 DEF OneLoads
<1>12. ASSUME NEW g \in Harnesses \ {h} PROVE HarnessInv(g)'
  <2>1. s \notin DOMAIN trees[g] /\ old \notin DOMAIN trees[g] /\ pc[g] # "loaded"
    BY <1>1, OthersHaveNothing
  <2>2. Unmoved(g)
    BY <1>3 DEF Unmoved
  <2>3. \A t \in DOMAIN trees[g] : log'[t] = log[t]
    <3>1. \A t \in DOMAIN trees[g] : t \in Sessions /\ t # s /\ t # old
      BY <1>2, <2>1 DEF HarnessInv
    <3> HIDE DEF old
    <3> QED
      BY <1>5, <3>1
  <2> QED
    BY <1>2, <2>1, <2>2, <2>3, OthersKeep
<1>13. HarnessInv(h)'
  <2>1. /\ pc'[h] = "running" /\ current'[h] = s /\ holds'[h] = holds[h] \cup {s}
        /\ head'[h] = [c \in Convs |-> IF c = Default THEN node ELSE 0]
    BY <1>1, <1>2, <1>3 DEF LockTypes, StoreTypes
  <2>2. /\ DOMAIN trees'[h] = DOMAIN trees[h] \cup {s} \cup {old}
        /\ trees'[h][s] = q.tree /\ trees'[h][old] = o.tree
        /\ \A t \in DOMAIN trees[h] : t # s /\ t # old => trees'[h][t] = trees[h][t]
    BY <1>6 DEF Insert
  <2>3. ASSUME NEW t \in DOMAIN trees'[h]
        PROVE  t \in Sessions /\ t \in holds'[h] /\ Grown(trees'[h][t]) /\ Follows(trees'[h][t], Replay(log'[t]))
    <3>1. CASE t = s
      BY <1>4, <1>5, <2>1, <2>2, <3>1
    <3>2. CASE t = old
      BY <1>1, <1>4, <1>5, <2>1, <2>2, <3>2
    <3>3. CASE t # s /\ t # old
      <4>1. t \in DOMAIN trees[h]
        BY <2>2, <3>3
      <4>2. t \in Sessions /\ t \in holds[h] /\ Grown(trees[h][t]) /\ Follows(trees[h][t], Replay(log[t]))
        BY <1>1, <1>2, <4>1 DEF HarnessInv
      <4> QED
        BY <1>5, <2>1, <2>2, <3>3, <4>1, <4>2
    <3> QED
      BY <3>1, <3>2, <3>3
  <2>4. Size(h)' = Len(q.tree.nodes)
    BY <2>1, <2>2 DEF Size, TreeOf
  <2>5. \A c \in Convs : head'[h][c] <= Size(h)'
    <3>1. node <= Len(q.tree.nodes) /\ 0 <= Len(q.tree.nodes)
      BY <1>4, NodesOfGrown
    <3> QED
      BY <2>1, <2>4, <3>1
  <2> QED
    BY <2>1, <2>2, <2>3, <2>5 DEF HarnessInv
<1> QED
  BY <1>9, <1>10, <1>11, <1>12, <1>13 DEF TruthInv

(* Switch keeps the invariant, whichever of its four ways it goes.          *)
LEMMA SwitchKeeps ==
    ASSUME TruthInv, LockInv', ~Races, "meta" \notin Failures, NEW h \in Harnesses, NEW s \in Sessions,
           NEW reason \in {"new", "resume"}, Switch(h, s, reason)
    PROVE  TruthInv'
<1> DEFINE old == current[h]
           begins == reason = "new" \/ s # old
           before(t) == {[log |-> log[t], tree |-> TreeOf(h, t), ok |-> TRUE]}
<1>1. /\ Acts(h) /\ pc[h] = "running" /\ pc[h] # "off" /\ Alone(h) /\ old \in Sessions
      /\ MayLock(h, old)
  BY PcIs DEF Acts, Switch
<1>2. said \in Nat /\ MaxEvents \in Nat /\ said < MaxEvents /\ (begins => said + 2 < MaxEvents)
  <2>1. said \in Nat /\ MaxEvents \in Nat
    BY SessionStoreAssumption DEF TruthInv, StoreTypes
  <2>2. (IF begins THEN said + 2 ELSE said) < MaxEvents
    BY DEF Switch
  <2> HIDE DEF begins
  <2> QED
    BY <2>1, <2>2
<1>3. /\ Sound(log[s], TreeOf(h, s), said) /\ Sound(log[old], TreeOf(h, old), said)
      /\ Len(log[s]) \in Nat /\ Len(log[old]) \in Nat
      /\ Len(TreeOf(h, s).nodes) \in Nat /\ Len(TreeOf(h, old).nodes) \in Nat
  <2>1. Sound(log[s], TreeOf(h, s), said) /\ Sound(log[old], TreeOf(h, old), said)
    BY <1>1, TreeIsSound
  <2> QED
    BY <2>1, NodesOfGrown DEF Sound, Ordered
<1>4. ASSUME NEW t \in Sessions, Sound(log[t], TreeOf(h, t), said), NEW n \in Nat, said < n, n <= MaxEvents,
             NEW p \in Notes(before(t), n)
      PROVE  /\ Grows(log[t], TreeOf(h, t), p, n) /\ Sound(p.log, p.tree, n) /\ Len(p.log) \in Nat
             /\ Len(p.tree.nodes) \in Nat
             /\ p.ok => Stands(p.log, n)
  <2> DEFINE first == [log |-> log[t], tree |-> TreeOf(h, t), ok |-> TRUE]
  <2>1. first.log = log[t] /\ first.tree = TreeOf(h, t) /\ p \in Notes({first}, n)
    BY <1>4
  <2> HIDE DEF first
  <2>2. Grows(first.log, first.tree, p, n) /\ (p.ok => Stands(p.log, n))
    BY <1>2, <1>4, <2>1, NotesKeep
  <2>3. Sound(p.log, p.tree, n)
    BY <2>2 DEF Grows
  <2>4. Len(p.log) \in Nat /\ Len(p.tree.nodes) \in Nat
    BY <2>3, NodesOfGrown DEF Sound, Ordered
  <2> QED
    BY <2>1, <2>2, <2>3, <2>4
<1>5. ASSUME NEW t \in Sessions, Len(log[t]) \in Nat, Len(TreeOf(h, t).nodes) \in Nat,
             NEW m \in Nat, NEW n \in Nat, m < n, n <= MaxEvents,
             NEW p, Grows(log[t], TreeOf(h, t), p, m), NEW q \in Notes({p}, n)
      PROVE  /\ Grows(log[t], TreeOf(h, t), q, n) /\ Longer(p.log, q.log)
             /\ Len(p.log) \in Nat /\ Len(q.log) \in Nat
             /\ q.ok => Stands(q.log, n)
             /\ Longer(p.tree.nodes, q.tree.nodes)
  <2>1. Sound(p.log, p.tree, m)
    BY <1>5 DEF Grows
  <2>2. Grows(p.log, p.tree, q, n) /\ (q.ok => Stands(q.log, n))
    BY <1>5, <2>1, NotesKeep
  <2>3. Grows(log[t], TreeOf(h, t), q, n)
    BY <1>5, <2>2, GrowsOn
  <2>4. Len(p.log) \in Nat /\ Len(q.log) \in Nat
    BY <2>1, <2>2 DEF Grows, Sound, Ordered
  <2> QED
    BY <2>2, <2>3, <2>4 DEF Grows
<1>6. /\ said + 1 \in Nat /\ said + 2 \in Nat /\ said + 3 \in Nat /\ said < said + 1 /\ said + 1 <= MaxEvents
      /\ said + 1 < said + 2 /\ said + 2 < said + 3 /\ said + 1 < said + 3 /\ said < said + 2 /\ said < said + 3
      /\ begins => said + 2 <= MaxEvents /\ said + 3 <= MaxEvents
      /\ said <= said + 1
  <2> HIDE DEF begins
  <2> QED
    BY <1>2
<1>7. CASE ~MayLock(h, s) \/ ~Readable(log[s])
  <2>1. PICK o \in Notes(before(old), said + 1) :
            /\ log' = [log EXCEPT ![old] = o.log]
            /\ acked' = [acked EXCEPT ![old] = @ \cup Tags(o, said + 1)]
            /\ said' = said + 1
            /\ Stopped(h)
    BY <1>7 DEF Switch
  <2>2. Grows(log[old], TreeOf(h, old), o, said + 1) /\ (o.ok => Stands(o.log, said + 1))
    <3> HIDE DEF old, before
    <3> QED
      BY <1>1, <1>3, <1>4, <1>6, <2>1
  <2>3. Tags(o, said + 1) \in SUBSET (1..MaxEvents) /\ \A k \in Tags(o, said + 1) : Stands(o.log, k)
    BY <1>2, <2>2 DEF Tags
  <2>4. Ordered(o.log, said + 1) /\ Longer(log[old], o.log)
    BY <2>2 DEF Grows, Sound
  <2>5. /\ DiskInv' /\ said' \in 0..MaxEvents
        /\ log' = [t \in Sessions |-> log'[t]]
        /\ acked' \in [Sessions -> SUBSET (1..MaxEvents)]
        /\ \A t \in Sessions : t # old => log'[t] = log[t]
    <3>1. log' = [log EXCEPT ![old] = o.log] /\ acked' = [acked EXCEPT ![old] = @ \cup Tags(o, said + 1)]
          /\ said' = said + 1
      BY <2>1
    <3> HIDE DEF old
    <3> QED
      BY <1>1, <1>6, <2>3, <2>4, <3>1, DiskKeeps
  <2>6. ASSUME NEW g \in Harnesses \ {h}
        PROVE  pc[g] # "loaded" /\ \A t \in DOMAIN trees[g] : log'[t] = log[t]
    <3>1. old \notin DOMAIN trees[g] /\ pc[g] # "loaded"
      BY <1>1, OthersHaveNothing
    <3>2. DOMAIN trees[g] \subseteq Sessions
      BY DEF TruthInv, HarnessInv
    <3> HIDE DEF old
    <3> QED
      BY <2>5, <3>1, <3>2
  <2> QED
    BY <2>1, <2>5, <2>6, StopKeeps
<1>8. CASE MayLock(h, s) /\ Readable(log[s]) /\ ~begins
  <2>1. PICK o \in Notes(before(s), said + 1) : Stored(h, o, Tags(o, said + 1))
    BY <1>8 DEF Switch
  <2>2. said' = said + 1 /\ UNCHANGED <<lock, pc, current, holds, open, head, dedup>> /\ s = old
    BY <1>8 DEF Switch
  <2>3. Grows(log[s], TreeOf(h, s), o, said + 1) /\ (o.ok => Stands(o.log, said + 1))
    <3> HIDE DEF before
    <3> QED
      BY <1>3, <1>4, <1>6, <2>1
  <2>4. Tags(o, said + 1) \in SUBSET (1..MaxEvents) /\ \A k \in Tags(o, said + 1) : Stands(o.log, k)
    BY <1>2, <2>3 DEF Tags
  <2>5. Grows(log[old], TreeOf(h, old), o, said + 1)
    BY <2>2, <2>3
  <2> QED
    BY <1>1, <1>6, <2>1, <2>2, <2>4, <2>5, SwitchHereKeeps
<1>9. CASE MayLock(h, s) /\ Readable(log[s]) /\ s = old /\ begins
  <2>1. PICK o \in Notes(before(s), said + 1) :
            \E p \in Notes({o}, said + 2) : \E q \in Notes({p}, said + 3) :
                Stored(h, q, Tags(o, said + 1) \cup Tags(p, said + 2) \cup Tags(q, said + 3))
    BY <1>9 DEF Switch
  <2>2. PICK p \in Notes({o}, said + 2) : \E q \in Notes({p}, said + 3) :
            Stored(h, q, Tags(o, said + 1) \cup Tags(p, said + 2) \cup Tags(q, said + 3))
    BY <2>1
  <2>3. PICK q \in Notes({p}, said + 3) :
            Stored(h, q, Tags(o, said + 1) \cup Tags(p, said + 2) \cup Tags(q, said + 3))
    BY <2>2
  <2>4. said' = said + 3 /\ Bound(h, s, 0) /\ UNCHANGED <<lock, pc, holds>>
    BY <1>9 DEF Switch
  <2>5. Grows(log[s], TreeOf(h, s), o, said + 1) /\ (o.ok => Stands(o.log, said + 1))
    <3> HIDE DEF before
    <3> QED
      BY <1>3, <1>4, <1>6, <2>1
  <2>6. /\ Grows(log[s], TreeOf(h, s), p, said + 2) /\ (p.ok => Stands(p.log, said + 2))
        /\ Longer(o.log, p.log) /\ Len(o.log) \in Nat /\ Len(p.log) \in Nat
    <3>1. said + 2 <= MaxEvents /\ said + 3 <= MaxEvents
      BY <1>6, <1>9
    <3>2. s \in Sessions /\ Len(log[s]) \in Nat /\ Len(TreeOf(h, s).nodes) \in Nat
      BY <1>3
    <3>3. PICK m \in Nat, n \in Nat : m = said + 1 /\ n = said + 2 /\ m < n /\ n <= MaxEvents
      BY <1>6, <3>1
    <3>4. Grows(log[s], TreeOf(h, s), o, m) /\ p \in Notes({o}, n)
      BY <2>2, <2>5, <3>3
    <3> HIDE DEF old, before, begins
    <3>5. /\ Grows(log[s], TreeOf(h, s), p, n) /\ Longer(o.log, p.log)
          /\ Len(o.log) \in Nat /\ Len(p.log) \in Nat
          /\ p.ok => Stands(p.log, n)
      BY <1>5, <3>2, <3>3, <3>4
    <3> QED
      BY <3>3, <3>5
  <2>7. /\ Grows(log[s], TreeOf(h, s), q, said + 3) /\ (q.ok => Stands(q.log, said + 3))
        /\ Longer(p.log, q.log) /\ Len(q.log) \in Nat
    <3>1. said + 2 <= MaxEvents /\ said + 3 <= MaxEvents
      BY <1>6, <1>9
    <3>2. s \in Sessions /\ Len(log[s]) \in Nat /\ Len(TreeOf(h, s).nodes) \in Nat
      BY <1>3
    <3>3. PICK m \in Nat, n \in Nat : m = said + 2 /\ n = said + 3 /\ m < n /\ n <= MaxEvents
      BY <1>6, <3>1
    <3>4. Grows(log[s], TreeOf(h, s), p, m) /\ q \in Notes({p}, n)
      BY <2>3, <2>6, <3>3
    <3> HIDE DEF old, before, begins
    <3>5. Sound(p.log, p.tree, m)
      BY <3>4 DEF Grows
    <3>6. Grows(p.log, p.tree, q, n) /\ (q.ok => Stands(q.log, n))
      BY <3>3, <3>4, <3>5, NotesKeep
    <3>7. Grows(log[s], TreeOf(h, s), q, n)
      BY <3>2, <3>4, <3>6, GrowsOn
    <3>8. Longer(p.log, q.log) /\ Len(q.log) \in Nat
      BY <3>6 DEF Grows, Sound, Ordered
    <3> QED
      BY <3>3, <3>6, <3>7, <3>8
  <2>8. (o.ok => Stands(q.log, said + 1)) /\ (p.ok => Stands(q.log, said + 2))
    BY <2>5, <2>6, <2>7, StandsOn
  <2> DEFINE tags == Tags(o, said + 1) \cup Tags(p, said + 2) \cup Tags(q, said + 3)
  <2>9. tags \in SUBSET (1..MaxEvents) /\ \A k \in tags : Stands(q.log, k)
    <3>1. said + 1 \in 1..MaxEvents /\ said + 2 \in 1..MaxEvents /\ said + 3 \in 1..MaxEvents
      BY <1>2, <1>6, <1>9
    <3> QED
      BY <2>7, <2>8, <3>1 DEF Tags
  <2>10. Grows(log[old], TreeOf(h, old), q, said + 3) /\ Bound(h, old, 0) /\ said + 3 <= MaxEvents
    BY <1>6, <1>9, <2>4, <2>7
  <2> HIDE DEF tags, old
  <2>11. Stored(h, q, tags)
    BY <2>3 DEF tags
  <2> QED
    BY <1>1, <1>6, <2>4, <2>9, <2>10, <2>11, SwitchHereKeeps DEF old
<1>10. CASE MayLock(h, s) /\ Readable(log[s]) /\ s # old
  <2> DEFINE Moved(o, p, q) ==
                 /\ log' = [log EXCEPT ![s] = q.log, ![old] = o.log]
                 /\ trees' = [trees EXCEPT ![h] = Insert(Insert(@, s, q.tree), old, o.tree)]
                 /\ acked' = [acked EXCEPT ![s] = @ \cup Tags(p, said + 1) \cup Tags(q, said + 3),
                                           ![old] = @ \cup Tags(o, said + 2)]
                 /\ Bound(h, s, IF reason = "new" THEN 0 ELSE p.tree.head)
                 /\ TakeLock(h, s) /\ said' = said + 3 /\ UNCHANGED pc
  <2>1. \E o \in Notes(before(old), said + 2), p \in Notes(before(s), said + 1) :
            \E q \in Notes({p}, said + 3) : Moved(o, p, q)
    BY <1>10 DEF Switch
  <2>2. PICK o \in Notes(before(old), said + 2), p \in Notes(before(s), said + 1) :
            \E q \in Notes({p}, said + 3) : Moved(o, p, q)
    BY <2>1
  <2>3. PICK q \in Notes({p}, said + 3) : Moved(o, p, q)
    BY <2>2
  <2>4. said + 2 <= MaxEvents /\ said + 3 <= MaxEvents
    BY <1>6, <1>10
  <2>5. Grows(log[old], TreeOf(h, old), o, said + 2) /\ (o.ok => Stands(o.log, said + 2))
    <3> HIDE DEF before, old, Moved
    <3> QED
      BY <1>1, <1>3, <1>4, <1>6, <2>2, <2>4
  <2>6. Grows(log[s], TreeOf(h, s), p, said + 1) /\ (p.ok => Stands(p.log, said + 1))
    <3> HIDE DEF before, Moved
    <3> QED
      BY <1>3, <1>4, <1>6, <2>2
  <2>7. /\ Grows(log[s], TreeOf(h, s), q, said + 3) /\ (q.ok => Stands(q.log, said + 3))
        /\ Longer(p.log, q.log) /\ Len(p.log) \in Nat /\ Len(q.log) \in Nat
        /\ Longer(p.tree.nodes, q.tree.nodes)
    <3> HIDE DEF Moved
    <3> QED
      BY <1>3, <1>5, <1>6, <2>3, <2>4, <2>6
  <2> DEFINE node == IF reason = "new" THEN 0 ELSE p.tree.head
  <2>8. node \in 0..Len(q.tree.nodes)
    <3>1. Grown(p.tree) /\ Grown(q.tree)
      BY <2>6, <2>7 DEF Grows, Sound
    <3>2. p.tree.head \in 0..Len(p.tree.nodes) /\ Len(p.tree.nodes) \in Nat /\ Len(q.tree.nodes) \in Nat
      BY <3>1, NodesOfGrown
    <3>3. Len(p.tree.nodes) <= Len(q.tree.nodes)
      BY <2>7 DEF Longer
    <3> QED
      BY <3>2, <3>3
  <2> DEFINE mark == Tags(o, said + 2)
             tags == Tags(p, said + 1) \cup Tags(q, said + 3)
  <2>9. /\ mark \in SUBSET (1..MaxEvents) /\ \A k \in mark : Stands(o.log, k)
        /\ tags \in SUBSET (1..MaxEvents) /\ \A k \in tags : Stands(q.log, k)
    <3>1. said + 1 \in 1..MaxEvents /\ said + 2 \in 1..MaxEvents /\ said + 3 \in 1..MaxEvents
      BY <1>2, <2>4
    <3>2. p.ok => Stands(q.log, said + 1)
      BY <2>6, <2>7, StandsOn
    <3> HIDE DEF Moved
    <3> QED
      BY <2>5, <2>7, <3>1, <3>2 DEF Tags
  <2>10. /\ log' = [log EXCEPT ![s] = q.log, ![old] = o.log]
         /\ trees' = [trees EXCEPT ![h] = Insert(Insert(@, s, q.tree), old, o.tree)]
         /\ acked' = [acked EXCEPT ![s] = @ \cup tags, ![old] = @ \cup mark]
         /\ Bound(h, s, node)
         /\ TakeLock(h, s) /\ said' = said + 3 /\ UNCHANGED pc
    <3>1. acked[s] \cup Tags(p, said + 1) \cup Tags(q, said + 3) = acked[s] \cup tags
      OBVIOUS
    <3> QED
      BY <2>3, <3>1
  <2>11. Grows(log[old], TreeOf(h, old), o, said + 3)
    <3>1. Sound(o.log, o.tree, said + 3)
      BY <1>6, <2>5, OrderedLater DEF Grows, Sound
    <3> QED
      BY <2>5, <3>1 DEF Grows
  <2> HIDE DEF node, mark, tags, Moved
  <2> QED
    BY <1>1, <1>6, <1>10, <2>4, <2>7, <2>8, <2>9, <2>10, <2>11, SwitchAwayKeeps
<1> QED
  BY <1>7, <1>8, <1>9, <1>10

-----------------------------------------------------------------------------
(* Every step keeps the invariant.                                          *)
LEMMA TruthInvStep ==
    ASSUME ~Races, ~LongIdle, "meta" \notin Failures, TruthInv, [Next]_vars
    PROVE  TruthInv'
<1>0. LockInv'
  BY LockInvStep DEF TruthInv
<1>1. CASE UNCHANGED vars
  <2>1. UNCHANGED <<log, lock, pc, current, holds, trees, open, head, dedup, said, acked>>
    BY <1>1 DEF vars
  <2>2. StoreTypes' /\ DiskInv' /\ OneLoads'
    BY <2>1 DEF TruthInv, StoreTypes, DiskInv, OneLoads
  <2>3. \A h \in Harnesses : HarnessInv(h)'
    <3>1. \A h \in Harnesses : Unmoved(h)
      BY <2>1 DEF Unmoved
    <3>2. \A h \in Harnesses : HarnessInv(h) /\ pc[h] \in {"off", "loaded", "running"}
      BY PcIs DEF TruthInv
    <3> QED
      BY <2>1, <3>1, <3>2, OthersKeep
  <2> QED
    BY <1>0, <2>2, <2>3 DEF TruthInv
<1> SUFFICES ASSUME NEW h \in Harnesses,
                    \/ \E s \in Sessions : Start(h, s) \/ Sweep(h, s)
                    \/ Lock(h)
                    \/ Exit(h)
                    \/ \E c \in Convs : Say(h, c)
                    \/ \E c \in Convs, x \in Contents : ToolResult(h, c, x)
                    \/ \E q \in Sides : Ask(h, q)
                    \/ \E q \in Sides, has_text \in BOOLEAN : AnswerQuery(h, q, has_text)
                    \/ \E node \in 1..MaxEvents : Navigate(h, node)
                    \/ \E s \in Sessions, reason \in {"new", "resume"} : Switch(h, s, reason)
                    \/ \E c \in Convs, whole \in {"yes", "cut"} : KilledWriting(h, c, whole)
             PROVE  TruthInv'
  BY <1>1 DEF Next
<1>2. ASSUME NEW s \in Sessions, Start(h, s) PROVE TruthInv'
  BY <1>0, <1>2, StartKeeps
<1>3. ASSUME NEW s \in Sessions, Sweep(h, s) PROVE TruthInv'
  BY <1>0, <1>3, SweepKeeps
<1>4. CASE Lock(h)
  BY <1>0, <1>4, LockKeeps
<1>5. CASE Exit(h)
  BY <1>0, <1>5, ExitKeeps
<1>6. ASSUME NEW c \in Convs, Say(h, c) PROVE TruthInv'
  BY <1>0, <1>6, SayKeeps
<1>7. ASSUME NEW c \in Convs, NEW x \in Contents, ToolResult(h, c, x) PROVE TruthInv'
  BY <1>0, <1>7, ToolResultKeeps
<1>8. ASSUME NEW q \in Sides, Ask(h, q) PROVE TruthInv'
  BY <1>0, <1>8, AskKeeps
<1>9. ASSUME NEW q \in Sides, NEW has_text \in BOOLEAN, AnswerQuery(h, q, has_text) PROVE TruthInv'
  BY <1>0, <1>9, AnswerQueryKeeps
<1>10. ASSUME NEW node \in 1..MaxEvents, Navigate(h, node) PROVE TruthInv'
  BY <1>0, <1>10, NavigateKeeps
<1>11. ASSUME NEW s \in Sessions, NEW reason \in {"new", "resume"}, Switch(h, s, reason) PROVE TruthInv'
  BY <1>0, <1>11, SwitchKeeps
<1>12. ASSUME NEW c \in Convs, NEW whole \in {"yes", "cut"}, KilledWriting(h, c, whole) PROVE TruthInv'
  BY <1>0, <1>12, KilledWritingKeeps
<1> QED
  BY <1>2, <1>3, <1>4, <1>5, <1>6, <1>7, <1>8, <1>9, <1>10, <1>11, <1>12

(* The log, what each daemon keeps of it and what was acknowledged agree,   *)
(* through starts, switches, kills and failed writes of any daemons         *)
(* (append_session_event, load), as long as no event is reported as failed  *)
(* after its record was written, and no session is loaded or removed while  *)
(* another daemon writes it.                                                *)
THEOREM TheLogIsTheTruth ==
    ASSUME ~Races, ~LongIdle, "meta" \notin Failures
    PROVE  Spec => []LogIsTheTruth
<1>1. TruthInv /\ [Next]_vars => TruthInv'
  BY TruthInvStep
<1> QED
  BY <1>1, TruthInvInit, TruthIsTold, PTL DEF Spec


-----------------------------------------------------------------------------
(* The default conversation of a session: its head d is the root of an empty *)
(* tree or a node, whose branch is what was said (m), in the tree that is    *)
(* kept and in the one that is read, unless it came back to another branch.  *)
Anchored(records, tree, d, m, a) ==
    /\ d \in 0..Len(tree.nodes)
    /\ d = 0 => tree.nodes = <<>>
    /\ a # "forked" => Branch(Replay(records), d) = m /\ Branch(tree, d) = m

(* A branch depends on the nodes alone.                                     *)
LEMMA BranchOfNodes ==
    ASSUME NEW t, NEW u, t.nodes = u.nodes
    PROVE  \A n : Branch(t, n) = Branch(u, n)
BY DEF Branch

(* An event that adds no entry leaves every branch alone.                   *)
LEMMA AnchoredStill ==
    ASSUME NEW r, NEW t, NEW q, NEW u, NEW d, NEW m, NEW a, Anchored(r, t, d, m, a),
           u.nodes = t.nodes, Replay(q).nodes = Replay(r).nodes
    PROVE  Anchored(q, u, d, m, a)
<1>1. Branch(u, d) = Branch(t, d) /\ Branch(Replay(q), d) = Branch(Replay(r), d)
  BY BranchOfNodes
<1> QED
  BY <1>1 DEF Anchored

(* A note changes neither nodes nor head.                                   *)
LEMMA NothingTaken ==
    ASSUME NEW records, NEW tree, NEW m, Sound(records, tree, m), NEW parent, NEW event \in Event, NEW o,
           Takes(records, tree, parent, event, o), ~o.ok \/ event.what = "note"
    PROVE  /\ o.tree.nodes = tree.nodes /\ o.tree.head = tree.head
           /\ Replay(o.log).nodes = Replay(records).nodes /\ Replay(o.log).head = Replay(records).head
<1>1. CASE ~o.ok
  BY <1>1 DEF Takes
<1>2. CASE o.ok /\ event.what = "note"
  <2>1. event.what \notin Folding /\ event.what # "navigate"
    BY <1>2 DEF Folding
  <2>2. Grown(tree) /\ Grown(Replay(records))
    BY DEF Sound, Ordered
  <2>3. /\ Apply(tree, parent, event).nodes = tree.nodes /\ Apply(tree, parent, event).head = tree.head
        /\ Apply(Replay(records), Flatten(parent), event).nodes = Replay(records).nodes
        /\ Apply(Replay(records), Flatten(parent), event).head = Replay(records).head
    BY <2>1, <2>2, ApplyMoves
  <2> QED
    BY <1>2, <2>3 DEF Takes
<1> QED
  BY <1>1, <1>2

(* A navigation changes no node and goes to its target.                     *)
LEMMA NavigationTaken ==
    ASSUME NEW records, NEW tree, NEW m, Sound(records, tree, m), NEW parent, NEW event \in Event, NEW o,
           Takes(records, tree, parent, event, o), event.what = "navigate"
    PROVE  /\ o.tree.nodes = tree.nodes
           /\ Replay(o.log).nodes = Replay(records).nodes
           /\ o.ok /\ event.node \in 1..Len(tree.nodes) => o.tree.head = event.node
<1>1. CASE ~o.ok
  BY <1>1 DEF Takes
<1>2. CASE o.ok
  <2>1. event.what \notin Folding
    BY DEF Folding
  <2>2. Grown(tree) /\ Grown(Replay(records)) /\ DOMAIN tree.nodes = 1..Len(tree.nodes)
    BY NodesOfGrown DEF Sound, Ordered
  <2>3. /\ Apply(tree, parent, event).nodes = tree.nodes
        /\ event.node \in 1..Len(tree.nodes) => Apply(tree, parent, event).head = event.node
        /\ Apply(Replay(records), Flatten(parent), event).nodes = Replay(records).nodes
    BY <2>1, <2>2, ApplyMoves
  <2> QED
    BY <1>2, <2>3 DEF Takes
<1> QED
  BY <1>1, <1>2

(* A conversation that has said something keeps its branch when others add  *)
(* entries.                                                                 *)
LEMMA AnchoredOn ==
    ASSUME NEW r, NEW t, NEW m, NEW n, NEW parent, NEW event, NEW o, Sound(r, t, m), Grows(r, t, o, n),
           Takes(r, t, parent, event, o),
           NEW d, NEW b, NEW a, Anchored(r, t, d, b, a), d # 0
    PROVE  Anchored(o.log, o.tree, d, b, a)
<1>1. /\ Grown(t) /\ Grown(Replay(r)) /\ Grown(o.tree) /\ Grown(Replay(o.log))
      /\ Len(t.nodes) = Len(Replay(r).nodes)
  BY DEF Grows, Sound, Ordered, Follows
<1>2. /\ Len(t.nodes) \in Nat /\ Len(o.tree.nodes) \in Nat /\ Len(Replay(r).nodes) \in Nat /\ Len(Replay(o.log).nodes) \in Nat
  BY <1>1, NodesOfGrown
<1>3. Longer(t.nodes, o.tree.nodes) /\ Longer(Replay(r).nodes, Replay(o.log).nodes)
  BY DEF Grows, Takes
<1>4. d \in 0..Len(t.nodes)
  BY DEF Anchored
<1>5. \A k \in 0..Len(t.nodes) : Branch(t, k) = Branch(o.tree, k)
  <2>1. Len(t.nodes) <= Len(o.tree.nodes) /\ Len(t.nodes) <= Len(t.nodes)
        /\ \A i \in 1..Len(t.nodes) : t.nodes[i] = o.tree.nodes[i]
    BY <1>2, <1>3 DEF Longer
  <2> QED
    BY <1>1, <1>2, <2>1, SameBranch
<1>6. \A k \in 0..Len(t.nodes) : Branch(Replay(r), k) = Branch(Replay(o.log), k)
  BY <1>1, <1>2, <1>3, SameBranch DEF Longer
<1>7. d \in 0..Len(o.tree.nodes)
  BY <1>2, <1>3, <1>4 DEF Longer
<1> QED
  BY <1>4, <1>5, <1>6, <1>7 DEF Anchored

(* The branch after an entry at a head is the branch of the head with the entry. *)
LEMMA BranchGrows ==
    ASSUME NEW tree, Grown(tree), NEW d \in 0..Len(tree.nodes), NEW parent, ParentIn(tree, parent),
           Under(tree, parent) = d,
           NEW event \in Event, event.what \in Folding
    PROVE  LET t == Apply(tree, parent, event) IN
           Branch(t, Len(tree.nodes) + 1) = Append(Branch(tree, d), event)
<1> DEFINE t == Apply(tree, parent, event)
           n == Len(tree.nodes) + 1
           node == [parent |-> d, entry |-> event]
<1>1. /\ Grown(t) /\ t.nodes = Append(tree.nodes, node) /\ Len(t.nodes) = n
      /\ tree.nodes \in Seq(Node) /\ Len(tree.nodes) \in Nat
  BY ApplyFolds, NodesOfGrown
<1>2. node \in Node
  <2>1. d \in Nat
    BY <1>1
  <2> QED
    BY <2>1 DEF Node
<1> HIDE DEF t
<1>3. t.nodes[n] = node /\ \A i \in 1..Len(tree.nodes) : t.nodes[i] = tree.nodes[i]
  BY <1>1, <1>2
<1>4. n \in 1..Len(t.nodes)
  BY <1>1
<1>5. Branch(t, n) = Append(Branch(t, t.nodes[n].parent), t.nodes[n].entry)
  BY <1>1, <1>4, BranchOf
<1>6. Branch(t, d) = Branch(tree, d)
  <2>1. \A k \in 0..Len(tree.nodes) : Branch(tree, k) = Branch(t, k)
    <3>1. Len(tree.nodes) <= Len(t.nodes) /\ Len(tree.nodes) <= Len(tree.nodes) /\ \A i \in 1..Len(tree.nodes) : tree.nodes[i] = t.nodes[i]
      BY <1>1, <1>3
    <3> QED
      BY <1>1, <3>1, SameBranch
  <2> QED
    BY <2>1
<1> QED
  BY <1>3, <1>5, <1>6 DEF t

(* What the default conversation says follows its branch.                   *)
LEMMA AnchoredAhead ==
    ASSUME NEW r, NEW t, NEW m, Sound(r, t, m),
           NEW d, NEW b, NEW a, Anchored(r, t, d, b, a), ParentIn(t, <<d>>), d \in Nat,
           NEW event \in Event, event.what \in Folding, NEW o, o.ok, Takes(r, t, <<d>>, event, o)
    PROVE  /\ Anchored(o.log, o.tree, Len(o.tree.nodes), Append(b, event), a)
           /\ o.tree.head = Len(o.tree.nodes) /\ Len(o.tree.nodes) # 0 /\ Len(o.tree.nodes) \in Nat
           /\ Replay(o.log).head = Len(o.tree.nodes)
<1> DEFINE read == Replay(r)
           kept == Apply(t, <<d>>, event)
           again == Apply(read, Flatten(<<d>>), event)
           n == Len(t.nodes) + 1
<1>1. /\ Grown(t) /\ Grown(read) /\ Len(t.nodes) = Len(read.nodes) /\ Len(t.nodes) \in Nat
      /\ read.head \in 0..Len(read.nodes)
  BY NodesOfGrown DEF Sound, Ordered, Follows
<1>2. d \in 0..Len(t.nodes) /\ d \in 0..Len(read.nodes) /\ Under(t, <<d>>) = d
  <2>1. <<d>> # <<>> /\ <<d>>[1] = d
    OBVIOUS
  <2> QED
    BY <1>1, <2>1 DEF Anchored, Under
<1>3. ParentIn(read, Flatten(<<d>>)) /\ Under(read, Flatten(<<d>>)) = d
  <2>1. CASE d = 0
    <3>1. t.nodes = <<>>
      BY <2>1 DEF Anchored
    <3>2. read.head = 0
      BY <1>1, <3>1
    <3> QED
      BY <2>1, <3>2 DEF Flatten, ParentIn, Under
  <2>2. CASE d # 0
    <3>1. <<d>> # <<0>> /\ <<d>> # <<>> /\ <<d>>[1] = d
      BY <2>2
    <3> QED
      BY <1>2, <3>1 DEF Flatten, ParentIn, Under
  <2> QED
    BY <2>1, <2>2
<1>4. Branch(kept, n) = Append(Branch(t, d), event) /\ Len(kept.nodes) = n /\ kept.head = n
  <2>1. Branch(kept, n) = Append(Branch(t, d), event)
    BY <1>1, <1>2, BranchGrows
  <2>2. Len(kept.nodes) = n /\ kept.head = n
    BY <1>1, ApplyFolds
  <2> QED
    BY <2>1, <2>2
<1>5. Branch(again, n) = Append(Branch(read, d), event) /\ again.head = n
  <2> DEFINE p == Flatten(<<d>>)
  <2>0. Grown(read) /\ d \in 0..Len(read.nodes) /\ ParentIn(read, p) /\ Under(read, p) = d
        /\ n = Len(read.nodes) + 1
    BY <1>1, <1>2, <1>3
  <2> HIDE DEF read, p, n
  <2>1. Branch(again, Len(read.nodes) + 1) = Append(Branch(read, d), event)
    BY <2>0, BranchGrows DEF p
  <2>2. again.head = Len(read.nodes) + 1
    BY <2>0, ApplyFolds DEF p
  <2> QED
    BY <2>0, <2>1, <2>2
<1>6. o.tree.nodes = kept.nodes /\ o.tree.head = kept.head /\ Replay(o.log).nodes = again.nodes /\ Replay(o.log).head = again.head
  BY DEF Takes
<1>7. Branch(o.tree, n) = Branch(kept, n) /\ Branch(Replay(o.log), n) = Branch(again, n)
  <2> HIDE DEF kept, again
  <2> QED
    BY <1>6, BranchOfNodes
<1>8. n \in Nat /\ n # 0 /\ n \in 0..n
  BY <1>1
<1> HIDE DEF kept, again, n, read
<1>9. Len(o.tree.nodes) = n
  BY <1>4, <1>6
<1>10. a # "forked" => Branch(read, d) = b /\ Branch(t, d) = b
  BY DEF Anchored, read
<1>11. Anchored(o.log, o.tree, n, Append(b, event), a)
  BY <1>4, <1>5, <1>7, <1>8, <1>9, <1>10 DEF Anchored
<1> QED
  BY <1>4, <1>5, <1>6, <1>8, <1>9, <1>11

-----------------------------------------------------------------------------
(* What a restart finds of the default conversation of each session, and    *)
(* what each daemon has of it.                                              *)
HistoryTypes ==
    /\ mine = [s \in Sessions |-> mine[s]]
    /\ astray \in [Sessions -> {"no", "moved", "forked"}]

(* What a restart finds of a session.                                       *)
SessionResumes(s) == astray[s] = "no" => Branch(Replay(log[s]), Replay(log[s]).head) = mine[s]

(* What a daemon knows of its sessions: the trees of those it holds and     *)
(* that nothing else moved stand on what the default conversation said, and *)
(* its own is anchored.                                                     *)
HarnessResumes(h) ==
    /\ \A s \in DOMAIN trees[h] : s \in holds[h] /\ astray[s] = "no" =>
          Branch(trees[h][s], trees[h][s].head) = mine[s]
    /\ pc[h] = "loaded" => /\ open[h] \cap Sides = {}
                           /\ TreeOf(h, current[h]) = Replay(log[current[h]])
    /\ pc[h] = "running" =>
          /\ Anchored(log[current[h]], trees[h][current[h]], head[h][Default], mine[current[h]], astray[current[h]])
          /\ astray[current[h]] = "no" => trees[h][current[h]].head = head[h][Default]
          /\ open[h] \cap Sides # {} => head[h][Default] # 0

(* The inductive invariant of ResumeFindsTheBranch, beside TruthInv.        *)
ResumeInv ==
    /\ HistoryTypes
    /\ \A s \in Sessions : SessionResumes(s)
    /\ \A h \in Harnesses : HarnessResumes(h)

(* The invariant gives the property.                                        *)
LEMMA ResumeIsFound == ResumeInv => ResumeFindsTheBranch
BY DEF ResumeInv, SessionResumes, ResumeFindsTheBranch

(* The invariant holds at the start.                                        *)
LEMMA ResumeInvInit == Init => ResumeInv
<1> SUFFICES ASSUME Init PROVE ResumeInv
  OBVIOUS
<1>1. HistoryTypes
  BY DEF Init, HistoryTypes
<1>2. ASSUME NEW s \in Sessions PROVE SessionResumes(s)
  <2>1. Replay(<<>>) = EmptyTree /\ Grown(EmptyTree) /\ EmptyTree.head = 0
    BY EmptyIsSound DEF EmptyTree
  <2>2. Branch(EmptyTree, 0) = <<>>
    BY <2>1, BranchOf
  <2> QED
    BY <2>1, <2>2 DEF Init, SessionResumes
<1>3. ASSUME NEW h \in Harnesses PROVE HarnessResumes(h)
  <2>1. DOMAIN <<>> = {}
    OBVIOUS
  <2> QED
    BY <2>1 DEF Init, HarnessResumes
<1> QED
  BY <1>1, <1>2, <1>3 DEF ResumeInv

(* A daemon is not disturbed by what happens to sessions it has not.        *)
LEMMA OthersResume ==
    ASSUME TruthInv, ResumeInv, NEW g \in Harnesses, Unmoved(g), pc[g] # "loaded",
           \A t \in DOMAIN trees[g] : log'[t] = log[t] /\ mine'[t] = mine[t] /\ astray'[t] = astray[t]
    PROVE  HarnessResumes(g)'
<1>1. /\ pc'[g] = pc[g] /\ current'[g] = current[g] /\ holds'[g] = holds[g]
      /\ trees'[g] = trees[g] /\ open'[g] = open[g] /\ head'[g] = head[g]
  BY DEF Unmoved
<1>2. HarnessResumes(g)
  BY DEF ResumeInv
<1>3. pc[g] = "running" => current[g] \in DOMAIN trees[g]
  BY DEF TruthInv, HarnessInv
<1>4. pc[g] = "running" =>
          /\ Anchored(log'[current'[g]], trees'[g][current'[g]], head'[g][Default], mine'[current'[g]], astray'[current'[g]])
          /\ astray'[current'[g]] = "no" => trees'[g][current'[g]].head = head'[g][Default]
          /\ open'[g] \cap Sides # {} => head'[g][Default] # 0
  BY <1>1, <1>2, <1>3 DEF HarnessResumes
<1>5. \A s \in DOMAIN trees'[g] : s \in holds'[g] /\ astray'[s] = "no" =>
          Branch(trees'[g][s], trees'[g][s].head) = mine'[s]
  BY <1>1, <1>2 DEF HarnessResumes
<1> QED
  BY <1>1, <1>4, <1>5 DEF HarnessResumes

(* What a daemon that writes its session needs to leave behind.             *)
LEMMA PublishResumes ==
    ASSUME TruthInv, ResumeInv, ~Races, NEW h \in Harnesses, Alone(h), pc[h] # "off", MayLock(h, current[h]),
           NEW o, NEW tags, Stored(h, o, tags), Follows(o.tree, Replay(o.log)),
           pc'[h] = "running", current'[h] = current[h], holds'[h] \subseteq holds[h] \cup {current[h]},
           \A g \in Harnesses \ {h} : Unmoved(g),
           NEW m, NEW a \in {"no", "moved", "forked"},
           mine' = [mine EXCEPT ![current[h]] = m], astray' = [astray EXCEPT ![current[h]] = a],
           Anchored(o.log, o.tree, head'[h][Default], m, a),
           a = "no" => o.tree.head = head'[h][Default],
           open'[h] \cap Sides # {} => head'[h][Default] # 0
    PROVE  ResumeInv'
<1> DEFINE s == current[h]
<1>1. /\ log' = [log EXCEPT ![s] = o.log]
      /\ trees' = [trees EXCEPT ![h] = Insert(@, s, o.tree)]
  BY DEF Stored
<1>2. /\ s \in Sessions /\ StoreTypes /\ HistoryTypes
      /\ \A g \in Harnesses : HarnessInv(g) /\ HarnessResumes(g)
      /\ \A t \in Sessions : SessionResumes(t)
  BY PcIs DEF TruthInv, ResumeInv
<1>3. /\ log'[s] = o.log /\ mine'[s] = m /\ astray'[s] = a
      /\ \A t \in Sessions : t # s => log'[t] = log[t] /\ mine'[t] = mine[t] /\ astray'[t] = astray[t]
  BY <1>1, <1>2 DEF StoreTypes, HistoryTypes
<1>4. /\ DOMAIN trees'[h] = DOMAIN trees[h] \cup {s} /\ trees'[h][s] = o.tree
      /\ \A t \in DOMAIN trees[h] : t # s => trees'[h][t] = trees[h][t]
  BY <1>1, <1>2 DEF Insert, StoreTypes
<1>5. HistoryTypes'
  BY <1>2 DEF HistoryTypes
<1>6. a = "no" => Branch(o.tree, o.tree.head) = m /\ Branch(Replay(o.log), Replay(o.log).head) = m
  BY DEF Anchored, Follows
<1>7. ASSUME NEW t \in Sessions PROVE SessionResumes(t)'
  <2>1. astray'[t] = "no" => Branch(Replay(log'[t]), Replay(log'[t]).head) = mine'[t]
    BY <1>2, <1>3, <1>6 DEF SessionResumes
  <2> QED
    BY <2>1 DEF SessionResumes
<1>8. ASSUME NEW g \in Harnesses \ {h} PROVE HarnessResumes(g)'
  <2>1. s \notin DOMAIN trees[g] /\ pc[g] # "loaded"
    BY <1>2, OthersHaveNothing
  <2>2. \A t \in DOMAIN trees[g] : t \in Sessions /\ t # s
    BY <1>2, <2>1 DEF HarnessInv
  <2>3. \A t \in DOMAIN trees[g] : log'[t] = log[t] /\ mine'[t] = mine[t] /\ astray'[t] = astray[t]
    <3> HIDE DEF s
    <3> QED
      BY <1>3, <2>2
  <2> QED
    BY <2>1, <2>3, OthersResume
<1>9. HarnessResumes(h)'
  <2>1. ASSUME NEW t \in DOMAIN trees'[h], t \in holds'[h], astray'[t] = "no"
        PROVE  Branch(trees'[h][t], trees'[h][t].head) = mine'[t]
    <3>1. CASE t = s
      BY <1>3, <1>4, <1>6, <2>1, <3>1
    <3>2. CASE t # s
      <4>1. t \in DOMAIN trees[h] /\ t \in holds[h] /\ t \in Sessions
        BY <1>2, <1>4, <2>1, <3>2 DEF HarnessInv
      <4> QED
        BY <1>2, <1>3, <1>4, <2>1, <3>2, <4>1 DEF HarnessResumes
    <3> QED
      BY <3>1, <3>2
  <2>2. /\ current'[h] = s /\ log'[s] = o.log /\ trees'[h][s] = o.tree /\ mine'[s] = m /\ astray'[s] = a
    BY <1>3, <1>4
  <2>3. /\ Anchored(log'[current'[h]], trees'[h][current'[h]], head'[h][Default], mine'[current'[h]], astray'[current'[h]])
        /\ astray'[current'[h]] = "no" => trees'[h][current'[h]].head = head'[h][Default]
    BY <2>2
  <2> QED
    BY <2>1, <2>3 DEF HarnessResumes
<1> QED
  BY <1>5, <1>7, <1>8, <1>9 DEF ResumeInv

(* What a daemon at work knows of its session.                              *)
LEMMA AtWorkResumes ==
    ASSUME TruthInv, ResumeInv, NEW h \in Harnesses, pc[h] = "running"
    PROVE  LET s == current[h] IN
           /\ Anchored(log[s], TreeOf(h, s), head[h][Default], mine[s], astray[s])
           /\ astray[s] = "no" => TreeOf(h, s).head = head[h][Default]
           /\ open[h] \cap Sides # {} => head[h][Default] # 0
           /\ astray[s] \in {"no", "moved", "forked"} /\ head[h][Default] \in Nat
           /\ s \in Sessions /\ Default \in Convs
           /\ mine = [mine EXCEPT ![s] = mine[s]] /\ astray = [astray EXCEPT ![s] = astray[s]]
<1>1. current[h] \in DOMAIN trees[h] /\ current[h] \in Sessions
  BY PcIs
<1>2. TreeOf(h, current[h]) = trees[h][current[h]]
  BY <1>1 DEF TreeOf
<1>3. Default \in Convs
  BY DEF Convs
<1>4. HistoryTypes /\ StoreTypes /\ HarnessResumes(h)
  BY DEF TruthInv, ResumeInv
<1>5. mine = [mine EXCEPT ![current[h]] = mine[current[h]]] /\ astray = [astray EXCEPT ![current[h]] = astray[current[h]]]
  BY <1>1, <1>4 DEF HistoryTypes
<1> QED
  BY <1>1, <1>2, <1>3, <1>4, <1>5 DEF HarnessResumes, HistoryTypes, StoreTypes

-----------------------------------------------------------------------------
(* publish_for_conversation_from: the default conversation says one thing   *)
(* more, or another one moves the head away from it.                        *)
LEMMA PublishForResumes ==
    ASSUME TruthInv, TruthInv', ResumeInv, ~Races, "meta" \notin Failures, NEW h \in Harnesses, NEW c \in open[h],
           Acts(h), said < MaxEvents, NEW map, NEW event \in Event, event.of = said + 1, event.what \in Folding,
           PublishFor(h, c, map, event), UNCHANGED open
    PROVE  ResumeInv'
<1> DEFINE s == current[h]
           tree == TreeOf(h, s)
           d == head[h][Default]
<1>1. pc[h] = "running" /\ pc[h] # "off" /\ Alone(h) /\ MayLock(h, s) /\ s \in holds[h]
  BY PcIs DEF Acts
<1>0. c \in Convs
  BY DEF TruthInv, StoreTypes
<1>2. /\ s \in Sessions /\ Sound(log[s], tree, said) /\ Grown(tree)
      /\ said \in Nat /\ MaxEvents \in Nat
      /\ \A e \in Convs : ParentIn(tree, <<head[h][e]>>)
  BY <1>1, AtWork
<1>3. PICK o \in Appends(log[s], tree, <<head[h][c]>>, event) :
          /\ Committed(h, c, map, event, o)
          /\ Stored(h, o, Tags(o, event.of))
          /\ Folded(s, c, event, o)
          /\ UNCHANGED <<lock, pc, current, holds>>
  BY DEF PublishFor
<1>4. Grows(log[s], tree, o, said + 1) /\ Takes(log[s], tree, <<head[h][c]>>, event, o)
  <2>1. said + 1 \in Nat /\ said < said + 1 /\ said + 1 <= MaxEvents
    BY <1>2
  <2> HIDE DEF s, tree
  <2> QED
    BY <1>0, <1>2, <2>1, AppendKeeps
<1>5. Follows(o.tree, Replay(o.log))
  BY <1>4 DEF Grows, Sound
<1>6. /\ Anchored(log[s], tree, d, mine[s], astray[s])
      /\ astray[s] = "no" => tree.head = d
      /\ open[h] \cap Sides # {} => d # 0
      /\ astray[s] \in {"no", "moved", "forked"} /\ d \in Nat /\ Default \in Convs
      /\ mine = [mine EXCEPT ![s] = mine[s]] /\ astray = [astray EXCEPT ![s] = astray[s]]
  BY <1>1, AtWorkResumes
<1>7. /\ head \in [Harnesses -> [Convs -> Nat]]
      /\ head' = [head EXCEPT ![h][c] = IF o.ok THEN Len(o.tree.nodes) ELSE @]
      /\ dedup' = [dedup EXCEPT ![h][c] = IF o.ok THEN Advanced(map, Len(o.tree.nodes)) ELSE map]
  BY <1>3 DEF Committed, TruthInv, StoreTypes
<1>8. \A g \in Harnesses \ {h} : Unmoved(g)
  BY <1>3, <1>7 DEF Unmoved, Stored
<1>9. pc'[h] = "running" /\ current'[h] = s /\ holds'[h] \subseteq holds[h] \cup {s} /\ open'[h] = open[h]
  BY <1>1, <1>3
<1>10. ASSUME NEW m, NEW a \in {"no", "moved", "forked"},
              mine' = [mine EXCEPT ![s] = m], astray' = [astray EXCEPT ![s] = a],
              Anchored(o.log, o.tree, head'[h][Default], m, a),
              a = "no" => o.tree.head = head'[h][Default],
              open[h] \cap Sides # {} => head'[h][Default] # 0
       PROVE  ResumeInv'
  <2> DEFINE tags == Tags(o, event.of)
  <2>1. Stored(h, o, tags)
    BY <1>3
  <2> HIDE DEF s, tree, tags
  <2> QED
    BY <1>1, <1>5, <1>8, <1>9, <1>10, <2>1, PublishResumes DEF s
<1>11. CASE ~o.ok
  <2>1. /\ o.tree.nodes = tree.nodes /\ o.tree.head = tree.head /\ Replay(o.log).nodes = Replay(log[s]).nodes
    BY <1>2, <1>4, <1>11, NothingTaken
  <2>2. Anchored(o.log, o.tree, d, mine[s], astray[s])
    BY <1>6, <2>1, AnchoredStill
  <2>3. head'[h][Default] = d
    BY <1>6, <1>7, <1>11
  <2>4. mine' = [mine EXCEPT ![s] = mine[s]] /\ astray' = [astray EXCEPT ![s] = astray[s]]
    BY <1>3, <1>6, <1>11 DEF Folded
  <2> HIDE DEF s, tree, d
  <2> QED
    BY <1>6, <1>10, <2>1, <2>2, <2>3, <2>4
<1>12. CASE o.ok /\ c = Default
  <2> DEFINE a == IF astray[s] = "forked" THEN "forked" ELSE "no"
             n == Len(o.tree.nodes)
  <2>1. /\ Anchored(o.log, o.tree, n, Append(mine[s], event), astray[s])
        /\ o.tree.head = n /\ n # 0
    <3>1. ParentIn(tree, <<d>>)
      BY <1>2, <1>6
    <3>2. o.ok /\ Takes(log[s], tree, <<d>>, event, o)
      BY <1>4, <1>12
    <3> HIDE DEF s, tree, d
    <3> QED
      BY <1>2, <1>6, <3>1, <3>2, AnchoredAhead
  <2>2. Anchored(o.log, o.tree, n, Append(mine[s], event), a)
    BY <2>1 DEF Anchored
  <2>3. head'[h][Default] = n
    BY <1>6, <1>7, <1>12
  <2>4. mine' = [mine EXCEPT ![s] = Append(mine[s], event)]
    BY <1>3, <1>12 DEF Folded
  <2>5. astray' = [astray EXCEPT ![s] = a]
    BY <1>3, <1>12 DEF Folded, Strays
  <2>6. a \in {"no", "moved", "forked"}
    OBVIOUS
  <2> HIDE DEF a, n, s
  <2> QED
    BY <1>10, <2>1, <2>2, <2>3, <2>4, <2>5, <2>6
<1>13. CASE o.ok /\ c # Default
  <2> DEFINE a == IF astray[s] = "forked" THEN "forked" ELSE "moved"
  <2>1. c \in Sides /\ d # 0
    BY <1>0, <1>6, <1>13 DEF Convs, Sides
  <2>2. Anchored(o.log, o.tree, d, mine[s], astray[s])
    <3> HIDE DEF s, tree, d
    <3> QED
      BY <1>2, <1>4, <1>6, <2>1, AnchoredOn
  <2>3. Anchored(o.log, o.tree, d, mine[s], a)
    BY <2>2 DEF Anchored
  <2>4. head'[h][Default] = d
    BY <1>0, <1>6, <1>7, <1>13
  <2>5. mine' = [mine EXCEPT ![s] = mine[s]]
    BY <1>3, <1>6, <1>13 DEF Folded
  <2>6. astray' = [astray EXCEPT ![s] = a]
    BY <1>3, <1>13 DEF Folded, Strays
  <2>7. a \in {"no", "moved", "forked"} /\ a # "no"
    OBVIOUS
  <2> HIDE DEF a, s, d
  <2> QED
    BY <1>10, <2>1, <2>3, <2>4, <2>5, <2>6, <2>7
<1> QED
  BY <1>11, <1>12, <1>13

(* Say keeps the invariant.                                                 *)
LEMMA SayResumes ==
    ASSUME TruthInv, TruthInv', ResumeInv, ~Races, "meta" \notin Failures, NEW h \in Harnesses, NEW c \in Convs, Say(h, c)
    PROVE  ResumeInv'
<1>1. said + 1 \in Nat
  BY SessionStoreAssumption DEF TruthInv, StoreTypes
<1>2. Message(said + 1) \in Event /\ Message(said + 1).of = said + 1 /\ Message(said + 1).what \in Folding
  BY <1>1, EventsAre DEF Folding
<1>3. /\ c \in open[h] /\ Acts(h) /\ said < MaxEvents /\ UNCHANGED open
      /\ PublishFor(h, c, dedup[h][c], Message(said + 1))
  BY DEF Say
<1> QED
  BY <1>2, <1>3, PublishForResumes

(* ToolResult keeps the invariant, whether the result or a pointer is       *)
(* stored.                                                                  *)
LEMMA ToolResultResumes ==
    ASSUME TruthInv, TruthInv', ResumeInv, ~Races, "meta" \notin Failures, NEW h \in Harnesses, NEW c \in Convs,
           NEW x \in Contents, ToolResult(h, c, x)
    PROVE  ResumeInv'
<1> DEFINE taken == Intake(Built(h, c), said + 1, x)
<1>1. said + 1 \in Nat /\ pc[h] = "running"
  BY SessionStoreAssumption DEF TruthInv, StoreTypes, ToolResult, Acts
<1>2. Built(h, c) \in Maps
  BY <1>1, BuiltIsAMap
<1>3. taken.event \in Event /\ taken.event.of = said + 1 /\ taken.event.what \in Folding
  BY <1>1, <1>2, IntakeIs DEF Folding
<1>4. /\ c \in open[h] /\ Acts(h) /\ said < MaxEvents /\ UNCHANGED open
      /\ PublishFor(h, c, taken.map, taken.event)
  BY DEF ToolResult
<1> HIDE DEF taken
<1> QED
  BY <1>3, <1>4, PublishForResumes

(* Ask keeps the invariant: a side conversation moves the head, and that is *)
(* known.                                                                   *)
LEMMA AskResumes ==
    ASSUME TruthInv, TruthInv', ResumeInv, ~Races, "meta" \notin Failures, NEW h \in Harnesses, NEW q \in Sides, Ask(h, q)
    PROVE  ResumeInv'
<1> DEFINE s == current[h]
           tree == TreeOf(h, s)
           d == head[h][Default]
           event == Message(said + 1)
           from == IF q \in Delegates THEN 0 ELSE d
<1>1. pc[h] = "running" /\ pc[h] # "off" /\ Alone(h) /\ MayLock(h, s) /\ s \in holds[h]
  BY PcIs DEF Ask, Acts
<1>2. /\ s \in Sessions /\ Sound(log[s], tree, said) /\ Grown(tree)
      /\ said \in Nat /\ MaxEvents \in Nat
      /\ \A e \in Convs : ParentIn(tree, <<head[h][e]>>)
      /\ ParentIn(tree, <<0>>)
  BY <1>1, AtWork
<1>3. PICK o \in Appends(log[s], tree, <<from>>, event) :
          /\ head' = [head EXCEPT ![h][q] = IF o.ok THEN Len(o.tree.nodes) ELSE from]
          /\ dedup' = [dedup EXCEPT ![h][q] = NoMap]
          /\ Stored(h, o, Tags(o, event.of))
          /\ Folded(s, q, event, o)
  BY DEF Ask
<1>4. /\ said < MaxEvents /\ UNCHANGED <<lock, pc, current, holds>> /\ d # 0
      /\ open' = [open EXCEPT ![h] = @ \cup {q}]
  BY DEF Ask
<1>5. event \in Event /\ event.of = said + 1 /\ event.what \in Folding
  BY <1>2, EventsAre DEF Folding
<1>6. /\ Anchored(log[s], tree, d, mine[s], astray[s])
      /\ astray[s] = "no" => tree.head = d
      /\ astray[s] \in {"no", "moved", "forked"} /\ Default \in Convs
      /\ mine = [mine EXCEPT ![s] = mine[s]] /\ astray = [astray EXCEPT ![s] = astray[s]]
  BY <1>1, AtWorkResumes
<1>7. ParentIn(tree, <<from>>)
  BY <1>2, <1>6
<1> HIDE DEF event, from
<1>8. Grows(log[s], tree, o, said + 1) /\ Takes(log[s], tree, <<from>>, event, o)
  <2>1. said + 1 \in Nat /\ said < said + 1 /\ said + 1 <= MaxEvents
    BY <1>2, <1>4
  <2> HIDE DEF s, tree
  <2> QED
    BY <1>2, <1>5, <1>7, <2>1, AppendKeeps
<1>9. Follows(o.tree, Replay(o.log))
  BY <1>8 DEF Grows, Sound
<1>10. q # Default
  BY SessionStoreAssumption
<1>11. head'[h][Default] = d
  BY <1>3, <1>6, <1>10 DEF TruthInv, StoreTypes
<1>12. \A g \in Harnesses \ {h} : Unmoved(g)
  BY <1>3, <1>4 DEF Unmoved, Stored
<1>13. pc'[h] = "running" /\ current'[h] = s /\ holds'[h] \subseteq holds[h] \cup {s}
  BY <1>1, <1>4
<1> DEFINE a == IF o.ok /\ astray[s] # "forked" THEN "moved" ELSE astray[s]
<1>14. a \in {"no", "moved", "forked"}
  BY <1>6
<1>15. mine' = [mine EXCEPT ![s] = mine[s]] /\ astray' = [astray EXCEPT ![s] = a]
  <2>1. CASE o.ok
    BY <1>3, <1>5, <1>6, <1>10, <2>1 DEF Folded, Strays
  <2>2. CASE ~o.ok
    BY <1>3, <1>5, <1>6, <1>10, <2>2 DEF Folded, Strays
  <2> QED
    BY <2>1, <2>2
<1>16. Anchored(o.log, o.tree, d, mine[s], a)
  <2>1. Anchored(o.log, o.tree, d, mine[s], astray[s])
    <3> HIDE DEF s, tree, d
    <3> QED
      BY <1>2, <1>4, <1>6, <1>8, AnchoredOn
  <2> QED
    BY <2>1 DEF Anchored
<1>17. a = "no" => o.tree.head = d
  <2>1. ~o.ok => o.tree.head = tree.head
    BY <1>2, <1>5, <1>8, NothingTaken
  <2> QED
    BY <1>6, <2>1
<1> DEFINE tags == Tags(o, event.of)
<1>18. Stored(h, o, tags)
  BY <1>3
<1> HIDE DEF s, tree, d, a, tags
<1> QED
  BY <1>1, <1>4, <1>9, <1>11, <1>12, <1>13, <1>14, <1>15, <1>16, <1>17, <1>18, PublishResumes DEF s

(* Navigate keeps the invariant: the head is where the default conversation *)
(* stands, or that it strays is known.                                      *)
LEMMA NavigateResumes ==
    ASSUME TruthInv, TruthInv', ResumeInv, ~Races, "meta" \notin Failures, NEW h \in Harnesses,
           NEW node \in 1..MaxEvents, Navigate(h, node)
    PROVE  ResumeInv'
<1> DEFINE s == current[h]
           tree == TreeOf(h, s)
           d == head[h][Default]
           event == NavigateTo(said + 1, node)
<1>1. pc[h] = "running" /\ pc[h] # "off" /\ Alone(h) /\ MayLock(h, s) /\ s \in holds[h]
  BY PcIs DEF Navigate, Acts
<1>2. /\ s \in Sessions /\ Sound(log[s], tree, said) /\ Grown(tree)
      /\ said \in Nat /\ MaxEvents \in Nat
      /\ ParentIn(tree, <<>>)
  BY <1>1, AtWork
<1>3. PICK o \in Appends(log[s], tree, <<>>, event) :
          /\ Stored(h, o, Tags(o, event.of))
          /\ IF o.ok THEN Strays(s, node # head[h][Default]) ELSE UNCHANGED astray
  BY DEF Navigate
<1>4. said < MaxEvents /\ node \in DOMAIN tree.nodes /\ UNCHANGED <<lock, pc, current, holds, open, head, dedup, mine>>
  BY DEF Navigate
<1>5. event \in Event /\ event.of = said + 1 /\ event.what = "navigate" /\ event.node = node
  BY <1>2, EventsAre
<1>6. /\ Anchored(log[s], tree, d, mine[s], astray[s])
      /\ astray[s] = "no" => tree.head = d
      /\ open[h] \cap Sides # {} => d # 0
      /\ astray[s] \in {"no", "moved", "forked"} /\ Default \in Convs
      /\ mine = [mine EXCEPT ![s] = mine[s]] /\ astray = [astray EXCEPT ![s] = astray[s]]
  BY <1>1, AtWorkResumes
<1> HIDE DEF event
<1>7. Grows(log[s], tree, o, said + 1) /\ Takes(log[s], tree, <<>>, event, o)
  <2>1. said + 1 \in Nat /\ said < said + 1 /\ said + 1 <= MaxEvents
    BY <1>2, <1>4
  <2> HIDE DEF s, tree
  <2> QED
    BY <1>2, <1>5, <2>1, AppendKeeps
<1>8. Follows(o.tree, Replay(o.log))
  BY <1>7 DEF Grows, Sound
<1>9. \A g \in Harnesses \ {h} : Unmoved(g)
  BY <1>3, <1>4 DEF Unmoved, Stored
<1>10. /\ pc'[h] = "running" /\ current'[h] = s /\ holds'[h] \subseteq holds[h] \cup {s}
       /\ head'[h][Default] = d /\ open'[h] = open[h]
  BY <1>1, <1>4
<1> DEFINE a == IF astray[s] = "forked" \/ ~o.ok THEN astray[s] ELSE IF node # d THEN "moved" ELSE "no"
<1>11. a \in {"no", "moved", "forked"}
  BY <1>6
<1>12. mine' = [mine EXCEPT ![s] = mine[s]] /\ astray' = [astray EXCEPT ![s] = a]
  <2>1. CASE o.ok
    BY <1>3, <1>4, <1>6, <2>1 DEF Strays
  <2>2. CASE ~o.ok
    BY <1>3, <1>4, <1>6, <2>2
  <2> QED
    BY <2>1, <2>2
<1>13. /\ o.tree.nodes = tree.nodes /\ Replay(o.log).nodes = Replay(log[s]).nodes
       /\ o.ok /\ event.node \in 1..Len(tree.nodes) => o.tree.head = event.node
       /\ ~o.ok => o.tree.head = tree.head
  BY <1>2, <1>5, <1>7, NavigationTaken, NothingTaken
<1>14. Anchored(o.log, o.tree, d, mine[s], a)
  <2>1. Anchored(o.log, o.tree, d, mine[s], astray[s])
    BY <1>6, <1>13, AnchoredStill
  <2> QED
    BY <2>1 DEF Anchored
<1>15. a = "no" => o.tree.head = d
  <2>1. node \in 1..Len(tree.nodes)
    BY <1>2, <1>4, NodesOfGrown
  <2> QED
    BY <1>5, <1>6, <1>13, <2>1
<1> DEFINE tags == Tags(o, event.of)
<1>16. Stored(h, o, tags)
  BY <1>3
<1>17. /\ Anchored(o.log, o.tree, head'[h][Default], mine[s], a)
       /\ a = "no" => o.tree.head = head'[h][Default]
       /\ open'[h] \cap Sides # {} => head'[h][Default] # 0
  <2> HIDE DEF s, tree, d, a
  <2> QED
    BY <1>6, <1>10, <1>14, <1>15
<1> HIDE DEF s, tree, d, a, tags
<1> QED
  BY <1>1, <1>8, <1>9, <1>10, <1>11, <1>12, <1>16, <1>17, PublishResumes DEF s

-----------------------------------------------------------------------------
(* Events that fold nothing leave entries and heads as they are.            *)
Same(r, t, q, u) ==
    /\ u.nodes = t.nodes /\ u.head = t.head
    /\ Replay(q).nodes = Replay(r).nodes /\ Replay(q).head = Replay(r).head

(* A note that was appended, or failed to be, leaves log and tree the same. *)
LEMMA NotesTake ==
    ASSUME "meta" \notin Failures, NEW p, NEW m \in Nat, NEW n \in Nat, m < n, n <= MaxEvents,
           Sound(p.log, p.tree, m), NEW o \in Notes({p}, n)
    PROVE  Sound(o.log, o.tree, n) /\ Same(p.log, p.tree, o.log, o.tree)
<1>1. o \in Appends(p.log, p.tree, <<>>, Note(n))
  BY DEF Notes
<1>2. ParentIn(p.tree, <<>>) /\ Note(n) \in Event /\ Note(n).of = n /\ Note(n).what = "note"
  BY EventsAre DEF ParentIn
<1>3. Grows(p.log, p.tree, o, n) /\ Takes(p.log, p.tree, <<>>, Note(n), o)
  BY <1>1, <1>2, AppendKeeps
<1> QED
  BY <1>2, <1>3, NothingTaken DEF Grows, Same

(* A log that is the same but for notes gives the same branch.              *)
LEMMA SameResumes ==
    ASSUME NEW r, NEW q, Replay(q).nodes = Replay(r).nodes, Replay(q).head = Replay(r).head
    PROVE  Branch(Replay(q), Replay(q).head) = Branch(Replay(r), Replay(r).head)
BY BranchOfNodes

(* A daemon that stops leaves to the others what they know.                 *)
LEMMA StopResumes ==
    ASSUME TruthInv, ResumeInv, NEW h \in Harnesses, Stopped(h), HistoryTypes',
           \A t \in Sessions : astray'[t] = "no" => Branch(Replay(log'[t]), Replay(log'[t]).head) = mine'[t],
           \A g \in Harnesses \ {h} : pc[g] # "loaded" /\ \A t \in DOMAIN trees[g] :
               log'[t] = log[t] /\ mine'[t] = mine[t] /\ astray'[t] = astray[t]
    PROVE  ResumeInv'
<1>1. /\ pc' = [pc EXCEPT ![h] = "off"]
      /\ holds' = [holds EXCEPT ![h] = {}]
      /\ trees' = [trees EXCEPT ![h] = <<>>]
      /\ open' = [open EXCEPT ![h] = {}]
      /\ head' = [head EXCEPT ![h] = [c \in Convs |-> 0]]
      /\ dedup' = [dedup EXCEPT ![h] = [c \in Convs |-> NoMap]]
      /\ current' = [current EXCEPT ![h] = None]
  BY DEF Stopped
<1>2. \A g \in Harnesses \ {h} : HarnessResumes(g)'
  <2> SUFFICES ASSUME NEW g \in Harnesses \ {h} PROVE HarnessResumes(g)'
    OBVIOUS
  <2>1. Unmoved(g)
    BY <1>1 DEF Unmoved
  <2> QED
    BY <2>1, OthersResume
<1>3. HarnessResumes(h)'
  <2>1. pc'[h] = "off" /\ trees'[h] = <<>>
    BY <1>1 DEF TruthInv, StoreTypes, LockInv, LockTypes
  <2>2. DOMAIN <<>> = {}
    OBVIOUS
  <2> QED
    BY <2>1, <2>2 DEF HarnessResumes
<1>4. \A t \in Sessions : SessionResumes(t)'
  BY DEF SessionResumes
<1> QED
  BY <1>2, <1>3, <1>4 DEF ResumeInv

(* Exit keeps the invariant.                                                *)
LEMMA ExitResumes ==
    ASSUME TruthInv, ResumeInv, ~Races, NEW h \in Harnesses, Exit(h)
    PROVE  ResumeInv'
<1>1. Stopped(h) /\ Alone(h) /\ UNCHANGED <<log, mine, astray>>
  BY DEF Exit
<1>2. HistoryTypes'
  BY <1>1 DEF ResumeInv, HistoryTypes
<1>3. \A t \in Sessions : astray'[t] = "no" => Branch(Replay(log'[t]), Replay(log'[t]).head) = mine'[t]
  BY <1>1 DEF ResumeInv, SessionResumes
<1>4. \A g \in Harnesses \ {h} : pc[g] # "loaded" /\ \A t \in DOMAIN trees[g] :
          log'[t] = log[t] /\ mine'[t] = mine[t] /\ astray'[t] = astray[t]
  BY <1>1 DEF Alone
<1> QED
  BY <1>1, <1>2, <1>3, <1>4, StopResumes

(* KilledWriting keeps the invariant: what the log has in whole was said,   *)
(* also when no one was told.                                               *)
LEMMA KilledWritingResumes ==
    ASSUME TruthInv, ResumeInv, ~Races, NEW h \in Harnesses, NEW c \in Convs, NEW whole \in {"yes", "cut"},
           KilledWriting(h, c, whole)
    PROVE  ResumeInv'
<1> DEFINE s == current[h]
           tree == TreeOf(h, s)
           d == head[h][Default]
           parent == <<head[h][c]>>
           event == Message(said + 1)
           r == RecordOf(tree, parent, event, whole)
           o == [log |-> Append(log[s], r), ok |-> whole = "yes",
                 tree |-> IF whole = "yes" THEN [Apply(tree, parent, event) EXCEPT !.next = @ + 1] ELSE tree]
<1>1. pc[h] = "running" /\ pc[h] # "off" /\ Alone(h) /\ MayLock(h, s)
  BY PcIs DEF KilledWriting, Acts
<1>2. /\ s \in Sessions /\ Sound(log[s], tree, said) /\ said \in Nat /\ MaxEvents \in Nat
      /\ \A e \in Convs : ParentIn(tree, <<head[h][e]>>)
  BY <1>1, AtWork
<1>3. /\ Stopped(h) /\ said < MaxEvents
      /\ log' = [log EXCEPT ![s] = Append(@, r)]
      /\ Folded(s, c, event, [ok |-> whole = "yes"])
  BY DEF KilledWriting
<1>4. event \in Event /\ event.of = said + 1 /\ event.what \in Folding
  BY <1>2, EventsAre DEF Folding
<1>5. /\ Anchored(log[s], tree, d, mine[s], astray[s])
      /\ astray[s] \in {"no", "moved", "forked"} /\ d \in Nat /\ Default \in Convs
      /\ mine = [mine EXCEPT ![s] = mine[s]] /\ astray = [astray EXCEPT ![s] = astray[s]]
  BY <1>1, AtWorkResumes
<1>6. o.log = Append(log[s], r) /\ (o.ok <=> whole = "yes") /\ Outcome(log[s], tree, parent, event, o)
  BY DEF Outcome
<1> HIDE DEF event
<1>7. Takes(log[s], tree, parent, event, o)
  <2>1. said + 1 \in Nat /\ said < said + 1 /\ said + 1 <= MaxEvents /\ ParentIn(tree, parent)
    BY <1>2, <1>3
  <2> HIDE DEF s, tree, o, parent
  <2> QED
    BY <1>2, <1>4, <1>6, <2>1, OutcomeKeeps
<1>8. /\ StoreTypes /\ HistoryTypes /\ SessionResumes(s)
  BY <1>2 DEF TruthInv, ResumeInv
<1> HIDE DEF o, r
<1>9. /\ log'[s] = o.log
      /\ mine'[s] = IF o.ok /\ c = Default THEN Append(mine[s], event) ELSE mine[s]
      /\ astray'[s] = IF ~o.ok \/ astray[s] = "forked" THEN astray[s] ELSE IF c # Default THEN "moved" ELSE "no"
      /\ \A t \in Sessions : t # s => log'[t] = log[t] /\ mine'[t] = mine[t] /\ astray'[t] = astray[t]
  <2>1. log'[s] = o.log /\ \A t \in Sessions : t # s => log'[t] = log[t]
    BY <1>2, <1>3, <1>6, <1>8 DEF StoreTypes
  <2>2. /\ mine'[s] = IF o.ok /\ c = Default THEN Append(mine[s], event) ELSE mine[s]
        /\ \A t \in Sessions : t # s => mine'[t] = mine[t]
    BY <1>2, <1>3, <1>4, <1>6, <1>8 DEF Folded, HistoryTypes
  <2>3. /\ astray'[s] = IF ~o.ok \/ astray[s] = "forked" THEN astray[s] ELSE IF c # Default THEN "moved" ELSE "no"
        /\ \A t \in Sessions : t # s => astray'[t] = astray[t]
    <3>1. CASE o.ok
      BY <1>2, <1>3, <1>4, <1>6, <1>8, <3>1 DEF Folded, Strays, HistoryTypes
    <3>2. CASE ~o.ok
      BY <1>2, <1>3, <1>4, <1>6, <1>8, <3>2 DEF Folded, Strays, HistoryTypes
    <3> QED
      BY <3>1, <3>2
  <2> QED
    BY <2>1, <2>2, <2>3
<1>10. HistoryTypes'
  <2>1. mine' = [t \in Sessions |-> mine'[t]]
    BY <1>3, <1>8 DEF Folded, HistoryTypes
  <2>2. astray' \in [Sessions -> {"no", "moved", "forked"}]
    BY <1>3, <1>8 DEF Folded, Strays, HistoryTypes
  <2> QED
    BY <2>1, <2>2 DEF HistoryTypes
<1>11. astray'[s] = "no" => Branch(Replay(o.log), Replay(o.log).head) = mine'[s]
  <2>1. CASE ~o.ok
    <3>1. Replay(o.log) = Replay(log[s])
      BY <1>7, <2>1 DEF Takes
    <3> QED
      BY <1>8, <1>9, <2>1, <3>1 DEF SessionResumes
  <2>2. CASE o.ok /\ c # Default
    BY <1>9, <2>2
  <2>3. CASE o.ok /\ c = Default
    <3>1. ParentIn(tree, <<d>>) /\ Takes(log[s], tree, <<d>>, event, o)
      BY <1>2, <1>5, <1>7, <2>3
    <3>2. /\ Anchored(o.log, o.tree, Len(o.tree.nodes), Append(mine[s], event), astray[s])
          /\ Replay(o.log).head = Len(o.tree.nodes)
      <4> HIDE DEF s, tree, d
      <4> QED
        BY <1>2, <1>4, <1>5, <2>3, <3>1, AnchoredAhead
    <3> QED
      BY <1>9, <2>3, <3>2 DEF Anchored
  <2> QED
    BY <2>1, <2>2, <2>3
<1>12. \A t \in Sessions : astray'[t] = "no" => Branch(Replay(log'[t]), Replay(log'[t]).head) = mine'[t]
  <2>1. \A t \in Sessions : SessionResumes(t)
    BY DEF ResumeInv
  <2> HIDE DEF s
  <2> QED
    BY <1>9, <1>11, <2>1 DEF SessionResumes
<1>13. ASSUME NEW g \in Harnesses \ {h}
       PROVE  pc[g] # "loaded" /\ \A t \in DOMAIN trees[g] :
                 log'[t] = log[t] /\ mine'[t] = mine[t] /\ astray'[t] = astray[t]
  <2>1. s \notin DOMAIN trees[g] /\ pc[g] # "loaded"
    BY <1>1, <1>2, OthersHaveNothing
  <2>2. DOMAIN trees[g] \subseteq Sessions
    BY DEF TruthInv, HarnessInv
  <2> HIDE DEF s
  <2> QED
    BY <1>9, <2>1, <2>2
<1> HIDE DEF s
<1> QED
  BY <1>3, <1>10, <1>12, <1>13, StopResumes

(* Start keeps the invariant.                                               *)
LEMMA StartResumes ==
    ASSUME TruthInv, TruthInv', ResumeInv, ~Races, NEW h \in Harnesses, NEW s \in Sessions, Start(h, s)
    PROVE  ResumeInv'
<1>1. /\ pc[h] = "off" /\ Alone(h)
      /\ pc' = [pc EXCEPT ![h] = "loaded"]
      /\ trees' = [trees EXCEPT ![h] = IF log[s] = <<>> THEN <<>> ELSE Insert(<<>>, s, Replay(log[s]))]
      /\ current' = [current EXCEPT ![h] = s]
      /\ open' = [open EXCEPT ![h] = {Default}]
      /\ head' = [head EXCEPT ![h] = [c \in Convs |-> IF c = Default THEN Replay(log[s]).head ELSE 0]]
      /\ dedup' = [dedup EXCEPT ![h] = [c \in Convs |-> NoMap]]
      /\ UNCHANGED <<log, lock, holds, mine, astray>>
  BY DEF Start, Bound
<1>2. HistoryTypes'
  BY <1>1 DEF ResumeInv, HistoryTypes
<1>3. \A t \in Sessions : SessionResumes(t)'
  BY <1>1 DEF ResumeInv, SessionResumes
<1>4. ASSUME NEW g \in Harnesses \ {h} PROVE HarnessResumes(g)'
  <2>1. Unmoved(g) /\ pc[g] # "loaded"
    BY <1>1 DEF Unmoved, Alone
  <2> QED
    BY <1>1, <2>1, OthersResume
<1>5. HarnessResumes(h)'
  <2>1. /\ pc'[h] = "loaded" /\ current'[h] = s /\ holds'[h] = {} /\ log' = log /\ open'[h] = {Default}
        /\ trees'[h] = IF log[s] = <<>> THEN <<>> ELSE Insert(<<>>, s, Replay(log[s]))
    BY <1>1 DEF TruthInv, HarnessInv, LockInv, LockTypes, StoreTypes
  <2>2. DOMAIN trees'[h] \subseteq {s} /\ (s \in DOMAIN trees'[h] => trees'[h][s] = Replay(log[s]))
    <3>1. DOMAIN <<>> = {}
      OBVIOUS
    <3> QED
      BY <2>1, <3>1 DEF Insert
  <2>3. TreeOf(h, s)' = Replay(log[s])
    BY <2>1, <2>2 DEF TreeOf
  <2>4. TreeOf(h, current[h])' = Replay(log'[current'[h]])
    BY <2>1, <2>3 DEF TreeOf
  <2>5. open'[h] \cap Sides = {}
    BY <2>1, SessionStoreAssumption
  <2> QED
    BY <2>1, <2>4, <2>5 DEF HarnessResumes
<1> QED
  BY <1>2, <1>3, <1>4, <1>5 DEF ResumeInv

(* Sweep keeps the invariant: the session has nothing and nothing was said  *)
(* in it.                                                                   *)
LEMMA SweepResumes ==
    ASSUME TruthInv, ResumeInv, ~Races, ~LongIdle, NEW h \in Harnesses, NEW s \in Sessions, Sweep(h, s)
    PROVE  ResumeInv'
<1>1. /\ Alone(h) /\ lock[s] = None /\ current[h] # s
      /\ log' = [log EXCEPT ![s] = <<>>]
      /\ mine' = [mine EXCEPT ![s] = <<>>]
      /\ astray' = [astray EXCEPT ![s] = "no"]
      /\ UNCHANGED <<pc, current, holds, trees, open, head, dedup>>
  BY DEF Sweep, memory
<1>2. StoreTypes /\ HistoryTypes /\ \A g \in Harnesses : HarnessInv(g) /\ HarnessResumes(g)
  BY DEF TruthInv, ResumeInv
<1>3. /\ log'[s] = <<>> /\ mine'[s] = <<>>
      /\ \A t \in Sessions : t # s => log'[t] = log[t] /\ mine'[t] = mine[t] /\ astray'[t] = astray[t]
  BY <1>1, <1>2 DEF StoreTypes, HistoryTypes
<1>4. HistoryTypes'
  BY <1>1, <1>2 DEF HistoryTypes
<1>5. ASSUME NEW t \in Sessions PROVE SessionResumes(t)'
  <2>1. CASE t = s
    <3>1. Replay(<<>>) = EmptyTree /\ Grown(EmptyTree) /\ EmptyTree.head = 0
      BY EmptyIsSound DEF EmptyTree
    <3>2. Branch(EmptyTree, 0) = <<>>
      BY <3>1, BranchOf
    <3> QED
      BY <1>3, <2>1, <3>1, <3>2 DEF SessionResumes
  <2>2. CASE t # s
    BY <1>3, <2>2 DEF ResumeInv, SessionResumes
  <2> QED
    BY <2>1, <2>2
<1>6. ASSUME NEW g \in Harnesses PROVE HarnessResumes(g)'
  <2>1. s \notin holds[g]
    BY <1>1, SessionStoreAssumption DEF TruthInv, LockInv, HeldIsLocked
  <2>2. pc[g] = "loaded" => current[g] # s
    BY <1>1 DEF Alone
  <2>3. s \notin DOMAIN trees[g] /\ DOMAIN trees[g] \subseteq Sessions
    BY <1>2, <2>1, <2>2 DEF HarnessInv
  <2>4. \A t \in DOMAIN trees[g] : log'[t] = log[t] /\ mine'[t] = mine[t] /\ astray'[t] = astray[t]
    BY <1>3, <2>3
  <2>5. CASE pc[g] # "loaded"
    <3>1. Unmoved(g)
      BY <1>1 DEF Unmoved
    <3> QED
      BY <2>4, <2>5, <3>1, OthersResume
  <2>6. CASE pc[g] = "loaded"
    <3>1. log'[current[g]] = log[current[g]]
      BY <1>3, <2>2, <2>6, PcIs
    <3>2. TreeOf(g, current[g])' = Replay(log'[current'[g]])
      BY <1>1, <1>2, <2>6, <3>1 DEF TreeOf, HarnessResumes
    <3>3. \A t \in DOMAIN trees'[g] : t \in holds'[g] /\ astray'[t] = "no" =>
              Branch(trees'[g][t], trees'[g][t].head) = mine'[t]
      BY <1>1, <1>2, <2>4 DEF HarnessResumes
    <3> QED
      BY <1>1, <1>2, <2>6, <3>2, <3>3 DEF HarnessResumes
  <2> QED
    BY <2>5, <2>6
<1> QED
  BY <1>4, <1>5, <1>6 DEF ResumeInv

-----------------------------------------------------------------------------
(* AnswerQuery keeps the invariant: the snap brings the head back to the    *)
(* default conversation, or that it failed is known.                        *)
LEMMA AnswerQueryResumes ==
    ASSUME TruthInv, TruthInv', ResumeInv, ~Races, "meta" \notin Failures, NEW h \in Harnesses, NEW q \in Sides,
           NEW has_text \in BOOLEAN, AnswerQuery(h, q, has_text)
    PROVE  ResumeInv'
<1> DEFINE s == current[h]
           tree == TreeOf(h, s)
           d == head[h][Default]
           answer == IF has_text THEN Message(said + 1) ELSE Note(said + 1)
           snap == NavigateTo(said + 2, d)
<1>1. pc[h] = "running" /\ pc[h] # "off" /\ Alone(h) /\ MayLock(h, s) /\ s \in holds[h]
  BY PcIs DEF AnswerQuery, Acts
<1>2. /\ s \in Sessions /\ Sound(log[s], tree, said) /\ Grown(tree) /\ Len(tree.nodes) \in Nat
      /\ said \in Nat /\ MaxEvents \in Nat
      /\ \A e \in Convs : ParentIn(tree, <<head[h][e]>>)
  BY <1>1, AtWork
<1>3. PICK o \in Appends(log[s], tree, <<head[h][q]>>, answer) :
          IF Snaps(h, o.tree)
          THEN \E p \in Appends(o.log, o.tree, <<>>, snap) :
                  /\ Stored(h, p, Tags(o, answer.of) \cup Tags(p, snap.of))
                  /\ Strays(s, ~p.ok)
          ELSE /\ Stored(h, o, Tags(o, answer.of))
               /\ Strays(s, astray[s] = "moved" /\ d = 0)
  BY DEF AnswerQuery
<1>4. /\ said + 1 < MaxEvents /\ q \in open[h] \cap Sides
      /\ open' = [open EXCEPT ![h] = @ \ {q}]
      /\ head' = [head EXCEPT ![h][q] = 0]
      /\ dedup' = [dedup EXCEPT ![h][q] = NoMap]
      /\ UNCHANGED <<lock, pc, current, holds, mine>>
  BY DEF AnswerQuery
<1>5. /\ Anchored(log[s], tree, d, mine[s], astray[s])
      /\ open[h] \cap Sides # {} => d # 0
      /\ astray[s] \in {"no", "moved", "forked"} /\ d \in Nat /\ Default \in Convs
      /\ mine = [mine EXCEPT ![s] = mine[s]]
  BY <1>1, AtWorkResumes
<1>6. d # 0 /\ q \in Convs /\ q # Default
  BY <1>4, <1>5, SessionStoreAssumption DEF Convs, Sides
<1>7. /\ answer \in Event /\ answer.of = said + 1
      /\ snap \in Event /\ snap.of = said + 2 /\ snap.what = "navigate" /\ snap.node = d
      /\ said + 1 \in Nat /\ said + 2 \in Nat /\ said < said + 1 /\ said + 1 < said + 2
      /\ said + 1 <= MaxEvents /\ said + 2 <= MaxEvents
  <2>1. said + 1 \in Nat /\ said + 2 \in Nat
    BY <1>2
  <2> QED
    BY <1>2, <1>4, <1>5, <2>1, EventsAre
<1> HIDE DEF answer, snap
<1>8. Grows(log[s], tree, o, said + 1) /\ Takes(log[s], tree, <<head[h][q]>>, answer, o)
  <2>1. ParentIn(tree, <<head[h][q]>>)
    BY <1>2, <1>6
  <2> HIDE DEF s, tree
  <2> QED
    BY <1>2, <1>7, <2>1, AppendKeeps
<1>9. Anchored(o.log, o.tree, d, mine[s], astray[s])
  <2> HIDE DEF s, tree, d
  <2> QED
    BY <1>2, <1>5, <1>6, <1>8, AnchoredOn
<1>10. /\ pc'[h] = "running" /\ current'[h] = s /\ holds'[h] \subseteq holds[h] \cup {s}
       /\ head'[h][Default] = d
       /\ \A g \in Harnesses \ {h} : pc'[g] = pc[g] /\ current'[g] = current[g] /\ holds'[g] = holds[g]
                                     /\ open'[g] = open[g] /\ head'[g] = head[g] /\ dedup'[g] = dedup[g]
  BY <1>1, <1>4, <1>6 DEF TruthInv, StoreTypes
<1>11. ASSUME NEW r, NEW tags, Stored(h, r, tags), Follows(r.tree, Replay(r.log)),
              NEW a \in {"no", "moved", "forked"}, astray' = [astray EXCEPT ![s] = a],
              Anchored(r.log, r.tree, d, mine[s], a), a = "no" => r.tree.head = d
       PROVE  ResumeInv'
  <2>1. \A g \in Harnesses \ {h} : Unmoved(g)
    BY <1>10, <1>11 DEF Unmoved, Stored
  <2>2. mine' = [mine EXCEPT ![s] = mine[s]]
    BY <1>4, <1>5
  <2>3. /\ Anchored(r.log, r.tree, head'[h][Default], mine[s], a)
        /\ a = "no" => r.tree.head = head'[h][Default]
        /\ head'[h][Default] # 0
    BY <1>6, <1>10, <1>11
  <2> HIDE DEF s, tree, d
  <2> QED
    BY <1>1, <1>10, <1>11, <2>1, <2>2, <2>3, PublishResumes DEF s
<1>12. CASE ~Snaps(h, o.tree)
  <2> DEFINE a == IF astray[s] = "forked" THEN "forked" ELSE "no"
             tags == Tags(o, answer.of)
  <2>1. Stored(h, o, tags) /\ Strays(s, astray[s] = "moved" /\ d = 0)
    BY <1>3, <1>12
  <2>2. astray' = [astray EXCEPT ![s] = a]
    BY <1>6, <2>1 DEF Strays
  <2>3. o.tree.head = d
    BY <1>6, <1>12 DEF Snaps
  <2>4. Anchored(o.log, o.tree, d, mine[s], a) /\ Follows(o.tree, Replay(o.log))
    BY <1>8, <1>9 DEF Anchored, Grows, Sound
  <2>5. a \in {"no", "moved", "forked"}
    OBVIOUS
  <2> HIDE DEF a, tags, s, d
  <2> QED
    BY <1>11, <2>1, <2>2, <2>3, <2>4, <2>5
<1>13. CASE Snaps(h, o.tree)
  <2>1. PICK p \in Appends(o.log, o.tree, <<>>, snap) :
            /\ Stored(h, p, Tags(o, answer.of) \cup Tags(p, snap.of))
            /\ Strays(s, ~p.ok)
    BY <1>3, <1>13
  <2> DEFINE a == IF astray[s] = "forked" THEN "forked" ELSE IF p.ok THEN "no" ELSE "moved"
             tags == Tags(o, answer.of) \cup Tags(p, snap.of)
  <2>2. Sound(o.log, o.tree, said + 1) /\ ParentIn(o.tree, <<>>)
    BY <1>8 DEF Grows, ParentIn
  <2>3. Grows(o.log, o.tree, p, said + 2) /\ Takes(o.log, o.tree, <<>>, snap, p)
    BY <1>7, <2>2, AppendKeeps
  <2>4. /\ p.tree.nodes = o.tree.nodes /\ Replay(p.log).nodes = Replay(o.log).nodes
        /\ p.ok /\ d \in 1..Len(o.tree.nodes) => p.tree.head = d
    BY <1>7, <2>2, <2>3, NavigationTaken
  <2>5. Anchored(p.log, p.tree, d, mine[s], astray[s])
    BY <1>9, <2>4, AnchoredStill
  <2>6. Anchored(p.log, p.tree, d, mine[s], a) /\ Follows(p.tree, Replay(p.log))
    BY <2>3, <2>5 DEF Anchored, Grows, Sound
  <2>7. d \in 1..Len(o.tree.nodes)
    <3>1. d \in 0..Len(o.tree.nodes) /\ Len(o.tree.nodes) \in Nat
      BY <1>9, <2>2, NodesOfGrown DEF Anchored, Sound
    <3> QED
      BY <1>6, <3>1
  <2>8. astray' = [astray EXCEPT ![s] = a] /\ (a = "no" => p.tree.head = d)
    BY <2>1, <2>4, <2>7 DEF Strays
  <2>9. a \in {"no", "moved", "forked"} /\ Stored(h, p, tags)
    BY <2>1
  <2> HIDE DEF a, tags, s, d
  <2> QED
    BY <1>11, <2>6, <2>8, <2>9
<1> QED
  BY <1>12, <1>13

(* Lock keeps the invariant: the daemon goes on where the log stands.       *)
LEMMA LockResumes ==
    ASSUME TruthInv, TruthInv', ResumeInv, ~Races, "meta" \notin Failures, NEW h \in Harnesses, Lock(h)
    PROVE  ResumeInv'
<1> DEFINE s == current[h]
           tree == TreeOf(h, s)
           d == head[h][Default]
           m == Branch(tree, d)
           started == Note(said + 1)
<1>1. pc[h] = "loaded" /\ pc[h] # "off" /\ Alone(h) /\ said < MaxEvents
  BY DEF Lock
<1>2. /\ s \in Sessions /\ Sound(log[s], tree, said) /\ Grown(tree)
      /\ said \in Nat /\ MaxEvents \in Nat /\ ParentIn(tree, <<>>)
      /\ \A c \in Convs : head[h][c] \in 0..Len(tree.nodes)
  BY <1>1, AtWork
<1>3. tree = Replay(log[s]) /\ open[h] \cap Sides = {} /\ d = tree.head /\ HistoryTypes
  <2>1. HarnessResumes(h) /\ HarnessInv(h) /\ HistoryTypes
    BY DEF TruthInv, ResumeInv
  <2> QED
    BY <1>1, <2>1 DEF HarnessResumes, HarnessInv
<1>4. Default \in Convs
  BY DEF Convs
<1>5. Anchored(log[s], tree, d, m, "no")
  <2>1. d = 0 => tree.nodes = <<>>
    BY <1>2, <1>3 DEF Grown
  <2>2. d \in 0..Len(tree.nodes)
    BY <1>2, <1>4
  <2>3. Branch(Replay(log[s]), d) = m
    BY <1>3
  <2> HIDE DEF s, tree, d
  <2> QED
    BY <2>1, <2>2, <2>3 DEF Anchored
<1>6. CASE MayLock(h, s)
  <2>1. PICK o \in Appends(log[s], tree, <<>>, started) : Stored(h, o, Tags(o, started.of))
    BY <1>6 DEF Lock
  <2>2. /\ TakeLock(h, s) /\ pc' = [pc EXCEPT ![h] = "running"]
        /\ mine' = [mine EXCEPT ![s] = m] /\ astray' = [astray EXCEPT ![s] = "no"]
        /\ UNCHANGED <<current, open, head, dedup>>
    BY <1>6 DEF Lock
  <2>3. started \in Event /\ started.of = said + 1 /\ started.what = "note"
    BY <1>2, EventsAre
  <2> HIDE DEF started
  <2>4. Grows(log[s], tree, o, said + 1) /\ Takes(log[s], tree, <<>>, started, o)
    <3>1. said + 1 \in Nat /\ said < said + 1 /\ said + 1 <= MaxEvents
      BY <1>1, <1>2
    <3> HIDE DEF s, tree
    <3> QED
      BY <1>2, <2>3, <3>1, AppendKeeps
  <2>5. o.tree.nodes = tree.nodes /\ o.tree.head = tree.head /\ Replay(o.log).nodes = Replay(log[s]).nodes
    BY <1>2, <2>3, <2>4, NothingTaken
  <2>6. Anchored(o.log, o.tree, d, m, "no")
    <3> HIDE DEF s, tree, d, m
    <3> QED
      BY <1>5, <2>5, AnchoredStill
  <2>7. Follows(o.tree, Replay(o.log))
    BY <2>4 DEF Grows, Sound
  <2>8. /\ pc'[h] = "running" /\ current'[h] = s /\ holds'[h] \subseteq holds[h] \cup {s}
    BY <2>2 DEF TakeLock, TruthInv, LockInv, LockTypes
  <2>9. \A g \in Harnesses \ {h} : Unmoved(g)
    BY <2>1, <2>2 DEF Unmoved, Stored, TakeLock
  <2>10. /\ Anchored(o.log, o.tree, head'[h][Default], m, "no")
         /\ o.tree.head = head'[h][Default] /\ open'[h] \cap Sides = {}
    BY <1>3, <2>2, <2>5, <2>6
  <2> DEFINE tags == Tags(o, started.of)
  <2>11. Stored(h, o, tags)
    BY <2>1
  <2>12. mine' = [mine EXCEPT ![s] = m] /\ astray' = [astray EXCEPT ![s] = "no"]
    BY <2>2
  <2> HIDE DEF s, tree, d, m, tags
  <2> QED
    BY <1>1, <1>6, <2>7, <2>8, <2>9, <2>10, <2>11, <2>12, PublishResumes DEF s
<1>7. CASE ~MayLock(h, s)
  <2>1. Stopped(h) /\ UNCHANGED <<log, mine, astray>>
    BY <1>7 DEF Lock
  <2>2. HistoryTypes'
    BY <2>1 DEF ResumeInv, HistoryTypes
  <2>3. \A t \in Sessions : astray'[t] = "no" => Branch(Replay(log'[t]), Replay(log'[t]).head) = mine'[t]
    BY <2>1 DEF ResumeInv, SessionResumes
  <2>4. \A g \in Harnesses \ {h} : pc[g] # "loaded" /\ \A t \in DOMAIN trees[g] :
            log'[t] = log[t] /\ mine'[t] = mine[t] /\ astray'[t] = astray[t]
    BY <1>1, <2>1 DEF Alone
  <2> QED
    BY <2>1, <2>2, <2>3, <2>4, StopResumes
<1> QED
  BY <1>6, <1>7

-----------------------------------------------------------------------------
(* What a restart finds of a session is what the default conversation said   *)
(* when the daemon's head is that of its tree.                              *)
LEMMA FoundWhereAnchored ==
    ASSUME NEW r, NEW t, NEW d, NEW m, Anchored(r, t, d, m, "no"), t.head = d, Replay(r).head = t.head
    PROVE  Branch(t, t.head) = m /\ Branch(Replay(r), Replay(r).head) = m
BY DEF Anchored

(* A switch to another session: both logs are the same but for notes, and   *)
(* the daemon stands where the tree it keeps of the other session does.     *)
LEMMA SwitchAwayResumes ==
    ASSUME TruthInv, ResumeInv, ~Races, NEW h \in Harnesses, Acts(h),
           NEW s \in Sessions, s # current[h], MayLock(h, s), TakeLock(h, s), UNCHANGED pc,
           NEW o, Same(log[current[h]], TreeOf(h, current[h]), o.log, o.tree),
           NEW q, Same(log[s], TreeOf(h, s), q.log, q.tree),
           log' = [log EXCEPT ![s] = q.log, ![current[h]] = o.log],
           trees' = [trees EXCEPT ![h] = Insert(Insert(@, s, q.tree), current[h], o.tree)],
           NEW d, NEW m, NEW a \in {"no", "moved", "forked"}, Bound(h, s, d),
           mine' = [mine EXCEPT ![s] = m], astray' = [astray EXCEPT ![s] = a],
           Anchored(log[s], TreeOf(h, s), d, m, a), a = "no" => TreeOf(h, s).head = d
    PROVE  ResumeInv'
<1> DEFINE old == current[h]
<1>1. /\ pc[h] = "running" /\ Alone(h) /\ old \in Sessions /\ MayLock(h, old) /\ old \in holds[h]
      /\ old \in DOMAIN trees[h] /\ TreeOf(h, old) = trees[h][old]
  BY PcIs DEF Acts, TreeOf
<1>2. /\ StoreTypes /\ HistoryTypes /\ LockTypes
      /\ \A g \in Harnesses : HarnessInv(g) /\ HarnessResumes(g)
      /\ \A t \in Sessions : SessionResumes(t)
  BY DEF TruthInv, ResumeInv, LockInv
<1>3. /\ current' = [current EXCEPT ![h] = s]
      /\ open' = [open EXCEPT ![h] = {Default}]
      /\ head' = [head EXCEPT ![h] = [c \in Convs |-> IF c = Default THEN d ELSE 0]]
      /\ dedup' = [dedup EXCEPT ![h] = [c \in Convs |-> NoMap]]
      /\ pc' = pc
      /\ holds' = [holds EXCEPT ![h] = @ \cup {s}]
  BY DEF Bound, TakeLock
<1>4. /\ log'[s] = q.log /\ log'[old] = o.log
      /\ \A t \in Sessions : t # s /\ t # old => log'[t] = log[t]
  BY <1>1, <1>2 DEF StoreTypes
<1>5. /\ mine'[s] = m /\ astray'[s] = a
      /\ \A t \in Sessions : t # s => mine'[t] = mine[t] /\ astray'[t] = astray[t]
  BY <1>2 DEF HistoryTypes
<1>6. HistoryTypes'
  BY <1>2 DEF HistoryTypes
<1>7. Anchored(q.log, q.tree, d, m, a)
  BY AnchoredStill DEF Same
<1>8. a = "no" => Branch(q.tree, q.tree.head) = m /\ Branch(Replay(q.log), Replay(q.log).head) = m
  <2>1. Replay(log[s]).head = TreeOf(h, s).head
    BY TreeIsSound DEF Sound, Follows
  <2>2. q.tree.head = TreeOf(h, s).head /\ Replay(q.log).head = Replay(log[s]).head
    BY DEF Same
  <2> QED
    BY <1>7, <2>1, <2>2, FoundWhereAnchored
<1>9. Branch(Replay(o.log), Replay(o.log).head) = Branch(Replay(log[old]), Replay(log[old]).head)
  BY SameResumes DEF Same
<1>10. Branch(o.tree, o.tree.head) = Branch(trees[h][old], trees[h][old].head)
  BY <1>1, BranchOfNodes DEF Same
<1>11. ASSUME NEW t \in Sessions PROVE SessionResumes(t)'
  <2>1. astray'[t] = "no" => Branch(Replay(log'[t]), Replay(log'[t]).head) = mine'[t]
    <3>1. CASE t = s
      BY <1>4, <1>5, <1>8, <3>1
    <3>2. CASE t = old
      BY <1>1, <1>2, <1>4, <1>5, <1>9, <3>2 DEF SessionResumes
    <3>3. CASE t # s /\ t # old
      BY <1>2, <1>4, <1>5, <3>3 DEF SessionResumes
    <3> QED
      BY <3>1, <3>2, <3>3
  <2> QED
    BY <2>1 DEF SessionResumes
<1>12. ASSUME NEW g \in Harnesses \ {h} PROVE HarnessResumes(g)'
  <2>1. s \notin DOMAIN trees[g] /\ old \notin DOMAIN trees[g] /\ pc[g] # "loaded"
    BY <1>1, OthersHaveNothing
  <2>2. Unmoved(g)
    BY <1>3 DEF Unmoved
  <2>3. \A t \in DOMAIN trees[g] : log'[t] = log[t] /\ mine'[t] = mine[t] /\ astray'[t] = astray[t]
    <3>1. \A t \in DOMAIN trees[g] : t \in Sessions /\ t # s /\ t # old
      BY <1>2, <2>1 DEF HarnessInv
    <3> HIDE DEF old
    <3> QED
      BY <1>4, <1>5, <3>1
  <2> QED
    BY <2>1, <2>2, <2>3, OthersResume
<1>13. HarnessResumes(h)'
  <2>1. /\ pc'[h] = "running" /\ current'[h] = s /\ holds'[h] = holds[h] \cup {s} /\ open'[h] = {Default}
    BY <1>1, <1>2, <1>3 DEF LockTypes, StoreTypes
  <2>2. /\ DOMAIN trees'[h] = DOMAIN trees[h] \cup {s} \cup {old}
        /\ trees'[h][s] = q.tree /\ trees'[h][old] = o.tree
        /\ \A t \in DOMAIN trees[h] : t # s /\ t # old => trees'[h][t] = trees[h][t]
    <3>1. trees'[h] = Insert(Insert(trees[h], s, q.tree), old, o.tree)
      BY <1>2 DEF StoreTypes
    <3> QED
      BY <3>1 DEF Insert
  <2>3. head'[h][Default] = d /\ open'[h] \cap Sides = {}
    <3>1. Default \in Convs
      BY DEF Convs
    <3>2. head'[h] = [c \in Convs |-> IF c = Default THEN d ELSE 0]
      BY <1>2, <1>3 DEF StoreTypes
    <3> QED
      BY <2>1, <3>1, <3>2, SessionStoreAssumption
  <2>4. ASSUME NEW t \in DOMAIN trees'[h], t \in holds'[h], astray'[t] = "no"
        PROVE  Branch(trees'[h][t], trees'[h][t].head) = mine'[t]
    <3>1. CASE t = s
      BY <1>5, <1>8, <2>2, <2>4, <3>1
    <3>2. CASE t = old
      <4>1. Branch(trees[h][old], trees[h][old].head) = mine[old]
        BY <1>1, <1>2, <1>5, <2>4, <3>2 DEF HarnessResumes
      <4> QED
        BY <1>1, <1>5, <1>10, <2>2, <3>2, <4>1
    <3>3. CASE t # s /\ t # old
      <4>1. t \in DOMAIN trees[h] /\ t \in holds[h]
        BY <2>1, <2>2, <2>4, <3>3
      <4>2. t \in Sessions
        BY <1>2, <4>1 DEF HarnessInv
      <4> QED
        BY <1>2, <1>5, <2>2, <2>4, <3>3, <4>1, <4>2 DEF HarnessResumes
    <3> QED
      BY <3>1, <3>2, <3>3
  <2>5. /\ Anchored(log'[current'[h]], trees'[h][current'[h]], head'[h][Default], mine'[current'[h]], astray'[current'[h]])
        /\ astray'[current'[h]] = "no" => trees'[h][current'[h]].head = head'[h][Default]
    <3>1. a = "no" => q.tree.head = d
      BY DEF Same
    <3>2. /\ log'[current'[h]] = q.log /\ trees'[h][current'[h]] = q.tree /\ head'[h][Default] = d
          /\ mine'[current'[h]] = m /\ astray'[current'[h]] = a
      BY <1>4, <1>5, <2>1, <2>2, <2>3
    <3> QED
      BY <1>7, <3>1, <3>2
  <2> QED
    BY <2>1, <2>3, <2>4, <2>5 DEF HarnessResumes
<1> QED
  BY <1>6, <1>11, <1>12, <1>13 DEF ResumeInv

(* Two notes, one after the other.                                          *)
LEMMA SameOn ==
    ASSUME NEW r, NEW t, NEW q, NEW u, NEW v, NEW w, Same(r, t, q, u), Same(q, u, v, w)
    PROVE  Same(r, t, v, w)
BY DEF Same

(* A session without a log has a tree without entries.                      *)
LEMMA NothingThere ==
    ASSUME TruthInv, NEW h \in Harnesses, NEW s \in Sessions, log[s] = <<>>, NEW a
    PROVE  Anchored(log[s], TreeOf(h, s), 0, <<>>, a) /\ TreeOf(h, s).head = 0
<1>1. Replay(log[s]) = EmptyTree /\ Grown(EmptyTree) /\ EmptyTree.head = 0 /\ Len(EmptyTree.nodes) = 0
  BY EmptyIsSound DEF EmptyTree
<1>2. Grown(TreeOf(h, s)) /\ Follows(TreeOf(h, s), Replay(log[s]))
  BY TreeIsSound DEF Sound
<1>3. Len(TreeOf(h, s).nodes) = 0 /\ TreeOf(h, s).head = 0
  BY <1>1, <1>2 DEF Follows
<1>4. TreeOf(h, s).nodes = <<>>
  <2>1. TreeOf(h, s).nodes \in Seq(Node)
    BY <1>2, NodesOfGrown
  <2> QED
    BY <1>3, <2>1
<1>5. Branch(Replay(log[s]), 0) = <<>> /\ Branch(TreeOf(h, s), 0) = <<>>
  BY <1>1, <1>2, BranchOf
<1> QED
  BY <1>3, <1>4, <1>5 DEF Anchored

(* A daemon that comes back to a session finds what a restart finds, or     *)
(* knows that it does not.                                                  *)
LEMMA BackOnTheBranch ==
    ASSUME TruthInv, ResumeInv, NEW h \in Harnesses, pc[h] = "running", NEW s \in Sessions,
           NEW p, Same(log[s], TreeOf(h, s), p.log, p.tree),
           NEW a, a = IF Forked(s, p.tree) THEN "forked" ELSE "no"
    PROVE  Anchored(log[s], TreeOf(h, s), p.tree.head, Branch(p.tree, p.tree.head), a)
<1> DEFINE tree == TreeOf(h, s)
           d == p.tree.head
<1>1. Grown(tree) /\ Follows(tree, Replay(log[s]))
  BY TreeIsSound DEF Sound
<1>2. d = tree.head /\ Replay(log[s]).head = d
  BY <1>1 DEF Same, Follows
<1>3. Branch(p.tree, d) = Branch(tree, d)
  <2> HIDE DEF tree, d
  <2> QED
    BY BranchOfNodes DEF Same, tree
<1>4. d \in 0..Len(tree.nodes) /\ (d = 0 => tree.nodes = <<>>)
  BY <1>1, <1>2, NodesOfGrown DEF Grown
<1>5. ASSUME a # "forked" PROVE Branch(Replay(log[s]), d) = Branch(p.tree, d)
  <2>1. ~Forked(s, p.tree)
    BY <1>5
  <2>2. CASE astray[s] # "no"
    BY <2>1, <2>2 DEF Forked
  <2>3. CASE astray[s] = "no"
    <3>1. Branch(Replay(log[s]), d) = mine[s]
      BY <1>2, <2>3 DEF ResumeInv, SessionResumes
    <3>2. CASE s \in DOMAIN trees[h]
      <4>1. s \in holds[h] /\ tree = trees[h][s]
        BY <3>2 DEF TruthInv, HarnessInv, TreeOf
      <4>2. Branch(tree, d) = mine[s]
        BY <1>2, <2>3, <3>2, <4>1 DEF ResumeInv, HarnessResumes
      <4> QED
        BY <1>3, <3>1, <4>2
    <3>3. CASE s \notin DOMAIN trees[h]
      <4>1. tree = Replay(log[s])
        BY <3>3 DEF TreeOf
      <4> QED
        BY <1>3, <4>1
    <3> QED
      BY <3>2, <3>3
  <2> QED
    BY <2>2, <2>3
<1> HIDE DEF tree, d
<1>6. Anchored(log[s], tree, d, Branch(p.tree, d), a)
  BY <1>3, <1>4, <1>5 DEF Anchored
<1> QED
  BY <1>6 DEF tree, d

-----------------------------------------------------------------------------
(* Switch keeps the invariant, whichever of its four ways it goes.          *)
LEMMA SwitchResumes ==
    ASSUME TruthInv, TruthInv', ResumeInv, ~Races, ~ReusesIds, "meta" \notin Failures,
           NEW h \in Harnesses, NEW s \in Sessions,
           NEW reason \in {"new", "resume"}, Switch(h, s, reason)
    PROVE  ResumeInv'
<1> DEFINE old == current[h]
           begins == reason = "new" \/ s # old
           before(t) == {[log |-> log[t], tree |-> TreeOf(h, t), ok |-> TRUE]}
<1>1. /\ Acts(h) /\ pc[h] = "running" /\ pc[h] # "off" /\ Alone(h) /\ old \in Sessions
      /\ MayLock(h, old)
  BY PcIs DEF Acts, Switch
<1>2. said \in Nat /\ MaxEvents \in Nat /\ said < MaxEvents /\ (begins => said + 2 < MaxEvents)
  <2>1. said \in Nat /\ MaxEvents \in Nat
    BY SessionStoreAssumption DEF TruthInv, StoreTypes
  <2>2. (IF begins THEN said + 2 ELSE said) < MaxEvents
    BY DEF Switch
  <2> HIDE DEF begins
  <2> QED
    BY <2>1, <2>2
<1>3. \A t \in Sessions : Sound(log[t], TreeOf(h, t), said)
  BY TreeIsSound
<1>4. ASSUME NEW t \in Sessions, NEW n \in Nat, said < n, n <= MaxEvents, NEW p \in Notes(before(t), n)
      PROVE  Sound(p.log, p.tree, n) /\ Same(log[t], TreeOf(h, t), p.log, p.tree)
  <2> DEFINE first == [log |-> log[t], tree |-> TreeOf(h, t), ok |-> TRUE]
  <2>1. first.log = log[t] /\ first.tree = TreeOf(h, t) /\ p \in Notes({first}, n)
    BY <1>4
  <2> HIDE DEF first
  <2>2. Sound(first.log, first.tree, said)
    BY <1>3, <2>1
  <2>3. Sound(p.log, p.tree, n) /\ Same(first.log, first.tree, p.log, p.tree)
    BY <1>2, <1>4, <2>1, <2>2, NotesTake
  <2> QED
    BY <2>1, <2>3
<1>5. /\ said + 1 \in Nat /\ said + 2 \in Nat /\ said + 3 \in Nat /\ said < said + 1 /\ said + 1 <= MaxEvents
      /\ said + 1 < said + 2 /\ said + 2 < said + 3 /\ said + 1 < said + 3 /\ said < said + 2
      /\ begins => said + 2 <= MaxEvents /\ said + 3 <= MaxEvents
  <2> HIDE DEF begins
  <2> QED
    BY <1>2
<1>6. reason = "new" => log[s] = <<>>
  BY DEF Switch
<1>7. /\ Anchored(log[old], TreeOf(h, old), head[h][Default], mine[old], astray[old])
      /\ astray[old] = "no" => TreeOf(h, old).head = head[h][Default]
      /\ open[h] \cap Sides # {} => head[h][Default] # 0
      /\ astray[old] \in {"no", "moved", "forked"}
      /\ mine = [mine EXCEPT ![old] = mine[old]] /\ astray = [astray EXCEPT ![old] = astray[old]]
  BY <1>1, AtWorkResumes
<1>8. StoreTypes /\ HistoryTypes /\ LockTypes /\ Default \in Convs
  <2>1. Default \in Convs
    BY DEF Convs
  <2> QED
    BY <2>1 DEF TruthInv, LockInv, ResumeInv
<1>9. CASE ~MayLock(h, s) \/ ~Readable(log[s])
  <2>1. PICK o \in Notes(before(old), said + 1) :
            /\ log' = [log EXCEPT ![old] = o.log]
            /\ Stopped(h)
            /\ UNCHANGED <<mine, astray>>
    BY <1>9 DEF Switch
  <2>2. Same(log[old], TreeOf(h, old), o.log, o.tree)
    <3> HIDE DEF old, before
    <3> QED
      BY <1>1, <1>4, <1>5, <2>1
  <2>3. log'[old] = o.log /\ \A t \in Sessions : t # old => log'[t] = log[t]
    BY <1>1, <1>8, <2>1 DEF StoreTypes
  <2>4. HistoryTypes'
    BY <1>8, <2>1 DEF HistoryTypes
  <2>5. Branch(Replay(o.log), Replay(o.log).head) = Branch(Replay(log[old]), Replay(log[old]).head)
    BY <2>2, SameResumes DEF Same
  <2>6. \A t \in Sessions : astray'[t] = "no" => Branch(Replay(log'[t]), Replay(log'[t]).head) = mine'[t]
    <3>1. \A t \in Sessions : SessionResumes(t)
      BY DEF ResumeInv
    <3>2. mine' = mine /\ astray' = astray
      BY <2>1
    <3> HIDE DEF old, before
    <3> QED
      BY <2>3, <2>5, <3>1, <3>2 DEF SessionResumes
  <2>7. ASSUME NEW g \in Harnesses \ {h}
        PROVE  pc[g] # "loaded" /\ \A t \in DOMAIN trees[g] :
                  log'[t] = log[t] /\ mine'[t] = mine[t] /\ astray'[t] = astray[t]
    <3>1. old \notin DOMAIN trees[g] /\ pc[g] # "loaded"
      BY <1>1, OthersHaveNothing
    <3>2. DOMAIN trees[g] \subseteq Sessions
      BY DEF TruthInv, HarnessInv
    <3>3. mine' = mine /\ astray' = astray
      BY <2>1
    <3> HIDE DEF old, before
    <3> QED
      BY <2>3, <3>1, <3>2, <3>3
  <2> QED
    BY <2>1, <2>4, <2>6, <2>7, StopResumes
<1>10. CASE MayLock(h, s) /\ Readable(log[s]) /\ ~begins
  <2>1. PICK o \in Notes(before(s), said + 1) : Stored(h, o, Tags(o, said + 1))
    BY <1>10 DEF Switch
  <2>2. UNCHANGED <<lock, pc, current, holds, open, head, dedup, mine, astray>> /\ s = old
    BY <1>10 DEF Switch
  <2>3. Sound(o.log, o.tree, said + 1) /\ Same(log[s], TreeOf(h, s), o.log, o.tree)
    <3> HIDE DEF before
    <3> QED
      BY <1>4, <1>5, <2>1
  <2> DEFINE tags == Tags(o, said + 1)
             d == head[h][Default]
  <2>4. Anchored(o.log, o.tree, d, mine[old], astray[old]) /\ Follows(o.tree, Replay(o.log))
    <3>1. Anchored(log[s], TreeOf(h, s), d, mine[old], astray[old])
      BY <1>7, <2>2
    <3> QED
      BY <2>3, <3>1, AnchoredStill DEF Same, Sound
  <2>5. astray[old] = "no" => o.tree.head = d
    BY <1>7, <2>2, <2>3 DEF Same
  <2>6. /\ pc'[h] = "running" /\ current'[h] = old /\ holds'[h] \subseteq holds[h] \cup {old}
        /\ head'[h][Default] = d /\ (open'[h] \cap Sides # {} => head'[h][Default] # 0)
        /\ mine' = [mine EXCEPT ![old] = mine[old]] /\ astray' = [astray EXCEPT ![old] = astray[old]]
        /\ Stored(h, o, tags)
    BY <1>1, <1>7, <2>1, <2>2
  <2>7. \A g \in Harnesses \ {h} : Unmoved(g)
    BY <2>1, <2>2 DEF Unmoved, Stored
  <2> HIDE DEF tags, d, old, before
  <2>8. Anchored(o.log, o.tree, head'[h][Default], mine[old], astray[old])
        /\ (astray[old] = "no" => o.tree.head = head'[h][Default])
    BY <2>4, <2>5, <2>6
  <2>9. ASSUME NEW m, NEW a \in {"no", "moved", "forked"},
               mine' = [mine EXCEPT ![old] = m], astray' = [astray EXCEPT ![old] = a],
               Anchored(o.log, o.tree, head'[h][Default], m, a),
               a = "no" => o.tree.head = head'[h][Default]
        PROVE  ResumeInv'
    <3> HIDE DEF begins
    <3>1. Alone(h) /\ pc[h] # "off" /\ MayLock(h, current[h])
      BY <1>1 DEF old
    <3>2. Stored(h, o, tags) /\ Follows(o.tree, Replay(o.log))
      BY <2>4, <2>6
    <3>3. pc'[h] = "running" /\ current'[h] = current[h] /\ holds'[h] \subseteq holds[h] \cup {current[h]}
      BY <2>6 DEF old
    <3>4. mine' = [mine EXCEPT ![current[h]] = m] /\ astray' = [astray EXCEPT ![current[h]] = a]
      BY <2>9 DEF old
    <3>5. open'[h] \cap Sides # {} => head'[h][Default] # 0
      BY <2>6
    <3>6. /\ Anchored(o.log, o.tree, head'[h][Default], m, a)
          /\ a = "no" => o.tree.head = head'[h][Default]
      BY <2>9
    <3> QED
      BY <2>7, <3>1, <3>2, <3>3, <3>4, <3>5, <3>6, PublishResumes
  <2> QED
    BY <1>7, <2>4, <2>6, <2>8, <2>9
<1>11. CASE MayLock(h, s) /\ Readable(log[s]) /\ s = old /\ begins
  <2>1. PICK o \in Notes(before(s), said + 1) :
            \E p \in Notes({o}, said + 2) : \E q \in Notes({p}, said + 3) :
                Stored(h, q, Tags(o, said + 1) \cup Tags(p, said + 2) \cup Tags(q, said + 3))
    BY <1>11 DEF Switch
  <2>2. PICK p \in Notes({o}, said + 2) : \E q \in Notes({p}, said + 3) :
            Stored(h, q, Tags(o, said + 1) \cup Tags(p, said + 2) \cup Tags(q, said + 3))
    BY <2>1
  <2>3. PICK q \in Notes({p}, said + 3) :
            Stored(h, q, Tags(o, said + 1) \cup Tags(p, said + 2) \cup Tags(q, said + 3))
    BY <2>2
  <2>4. /\ Bound(h, s, 0) /\ UNCHANGED <<lock, pc, holds>>
        /\ mine' = [mine EXCEPT ![s] = <<>>] /\ astray' = [astray EXCEPT ![s] = "no"]
    BY <1>11 DEF Switch
  <2>5. Sound(o.log, o.tree, said + 1) /\ Same(log[s], TreeOf(h, s), o.log, o.tree)
    <3> HIDE DEF before
    <3> QED
      BY <1>4, <1>5, <2>1
  <2>6. Sound(p.log, p.tree, said + 2) /\ Same(log[s], TreeOf(h, s), p.log, p.tree)
    <3>1. Sound(p.log, p.tree, said + 2) /\ Same(o.log, o.tree, p.log, p.tree)
      <4>1. said + 2 <= MaxEvents
        BY <1>5, <1>11
      <4> QED
        BY <1>5, <2>2, <2>5, <4>1, NotesTake
    <3> QED
      BY <2>5, <3>1, SameOn
  <2>7. Sound(q.log, q.tree, said + 3) /\ Same(log[s], TreeOf(h, s), q.log, q.tree)
    <3>1. Sound(q.log, q.tree, said + 3) /\ Same(p.log, p.tree, q.log, q.tree)
      <4>1. said + 3 <= MaxEvents
        BY <1>5, <1>11
      <4> QED
        BY <1>5, <2>3, <2>6, <4>1, NotesTake
    <3> QED
      BY <2>6, <3>1, SameOn
  <2>8. Anchored(q.log, q.tree, 0, <<>>, "no") /\ q.tree.head = 0 /\ Follows(q.tree, Replay(q.log))
    <3>1. log[s] = <<>>
      BY <1>6, <1>11
    <3>2. Anchored(log[s], TreeOf(h, s), 0, <<>>, "no") /\ TreeOf(h, s).head = 0
      BY <3>1, NothingThere
    <3> QED
      BY <2>7, <3>2, AnchoredStill DEF Same, Sound
  <2> DEFINE tags == Tags(o, said + 1) \cup Tags(p, said + 2) \cup Tags(q, said + 3)
  <2>9. Stored(h, q, tags)
    BY <2>3
  <2>10. /\ pc'[h] = "running" /\ current'[h] = old /\ holds'[h] \subseteq holds[h] \cup {old}
         /\ head'[h][Default] = 0 /\ open'[h] \cap Sides = {}
         /\ mine' = [mine EXCEPT ![old] = <<>>] /\ astray' = [astray EXCEPT ![old] = "no"]
    <3>1. /\ pc' = pc /\ holds' = holds /\ current' = [current EXCEPT ![h] = s]
          /\ open' = [open EXCEPT ![h] = {Default}]
          /\ head' = [head EXCEPT ![h] = [c \in Convs |-> IF c = Default THEN 0 ELSE 0]]
      BY <2>4 DEF Bound
    <3>2. open'[h] = {Default} /\ head'[h][Default] = 0 /\ current'[h] = s
      BY <1>8, <3>1 DEF StoreTypes, LockTypes
    <3>3. {Default} \cap Sides = {}
      BY SessionStoreAssumption
    <3> QED
      BY <1>1, <1>11, <2>4, <3>1, <3>2, <3>3
  <2>11. \A g \in Harnesses \ {h} : Unmoved(g)
    BY <2>3, <2>4 DEF Unmoved, Stored, Bound
  <2> HIDE DEF tags, old, before
  <2>12. Anchored(q.log, q.tree, head'[h][Default], <<>>, "no") /\ q.tree.head = head'[h][Default]
    BY <2>8, <2>10
  <2> QED
    BY <1>1, <2>8, <2>9, <2>10, <2>11, <2>12, PublishResumes DEF old
<1>12. CASE MayLock(h, s) /\ Readable(log[s]) /\ s # old
  <2> DEFINE node(p) == IF reason = "new" THEN 0 ELSE p.tree.head
             said_by(p) == IF reason = "new" THEN <<>> ELSE Branch(p.tree, p.tree.head)
             went(p) == IF reason = "resume" /\ Forked(s, p.tree) THEN "forked" ELSE "no"
             Moved(o, p, q) ==
                 /\ log' = [log EXCEPT ![s] = q.log, ![old] = o.log]
                 /\ trees' = [trees EXCEPT ![h] = Insert(Insert(@, s, q.tree), old, o.tree)]
                 /\ Bound(h, s, node(p))
                 /\ mine' = [mine EXCEPT ![s] = said_by(p)]
                 /\ astray' = [astray EXCEPT ![s] = went(p)]
                 /\ TakeLock(h, s) /\ UNCHANGED pc
  <2>1. \E o \in Notes(before(old), said + 2), p \in Notes(before(s), said + 1) :
            \E q \in Notes({p}, said + 3) : Moved(o, p, q)
    BY <1>12 DEF Switch
  <2>2. PICK o \in Notes(before(old), said + 2), p \in Notes(before(s), said + 1) :
            \E q \in Notes({p}, said + 3) : Moved(o, p, q)
    BY <2>1
  <2>3. PICK q \in Notes({p}, said + 3) : Moved(o, p, q)
    BY <2>2
  <2>4. said + 2 <= MaxEvents /\ said + 3 <= MaxEvents
    BY <1>5, <1>12
  <2>5. Same(log[old], TreeOf(h, old), o.log, o.tree)
    <3> HIDE DEF before, old, Moved
    <3> QED
      BY <1>1, <1>4, <1>5, <2>2, <2>4
  <2>6. Sound(p.log, p.tree, said + 1) /\ Same(log[s], TreeOf(h, s), p.log, p.tree)
    <3> HIDE DEF before, Moved
    <3> QED
      BY <1>4, <1>5, <2>2
  <2>7. Same(log[s], TreeOf(h, s), q.log, q.tree)
    <3>1. Same(p.log, p.tree, q.log, q.tree)
      <4> HIDE DEF before, Moved
      <4> QED
        BY <1>5, <2>3, <2>4, <2>6, NotesTake
    <3> QED
      BY <2>6, <3>1, SameOn
  <2> DEFINE d == node(p)
             m == said_by(p)
             a == went(p)
  <2>8. /\ Anchored(log[s], TreeOf(h, s), d, m, a) /\ TreeOf(h, s).head = d /\ a \in {"no", "moved", "forked"}
    <3>1. CASE reason = "new"
      <4>1. log[s] = <<>> /\ d = 0 /\ m = <<>> /\ a = "no"
        BY <1>6, <3>1
      <4>2. Anchored(log[s], TreeOf(h, s), 0, <<>>, "no") /\ TreeOf(h, s).head = 0
        BY <4>1, NothingThere
      <4> QED
        BY <4>1, <4>2
    <3>2. CASE reason # "new"
      <4>1. d = p.tree.head /\ m = Branch(p.tree, p.tree.head) /\ a = IF Forked(s, p.tree) THEN "forked" ELSE "no"
        BY <3>2
      <4>2. TreeOf(h, s).head = p.tree.head
        BY <2>6 DEF Same
      <4>3. a \in {"no", "moved", "forked"}
        OBVIOUS
      <4> HIDE DEF d, m, a, Moved, before
      <4>4. Anchored(log[s], TreeOf(h, s), p.tree.head, Branch(p.tree, p.tree.head), a)
        BY <1>1, <2>6, <4>1, BackOnTheBranch
      <4> QED
        BY <4>1, <4>2, <4>3, <4>4
    <3> QED
      BY <3>1, <3>2
  <2>9. /\ log' = [log EXCEPT ![s] = q.log, ![old] = o.log]
        /\ trees' = [trees EXCEPT ![h] = Insert(Insert(@, s, q.tree), old, o.tree)]
        /\ Bound(h, s, d) /\ mine' = [mine EXCEPT ![s] = m] /\ astray' = [astray EXCEPT ![s] = a]
        /\ TakeLock(h, s) /\ UNCHANGED pc
    BY <2>3
  <2> HIDE DEF d, m, a, Moved, before
  <2> QED
    BY <1>1, <1>12, <2>5, <2>7, <2>8, <2>9, SwitchAwayResumes
<1> QED
  BY <1>9, <1>10, <1>11, <1>12

(* Every step keeps the invariant.                                          *)
LEMMA ResumeInvStep ==
    ASSUME ~Races, ~LongIdle, ~ReusesIds, "meta" \notin Failures, TruthInv, TruthInv', ResumeInv, [Next]_vars
    PROVE  ResumeInv'
<1>1. CASE UNCHANGED vars
  <2>1. UNCHANGED <<log, pc, current, holds, trees, open, head, mine, astray>>
    BY <1>1 DEF vars
  <2>2. HistoryTypes' /\ \A s \in Sessions : SessionResumes(s)'
    BY <2>1 DEF ResumeInv, HistoryTypes, SessionResumes
  <2>3. ASSUME NEW h \in Harnesses PROVE HarnessResumes(h)'
    <3>1. TreeOf(h, current[h])' = TreeOf(h, current[h])
      BY <2>1 DEF TreeOf
    <3>2. HarnessResumes(h)
      BY DEF ResumeInv
    <3> QED
      BY <2>1, <3>1, <3>2 DEF HarnessResumes
  <2> QED
    BY <2>2, <2>3 DEF ResumeInv
<1> SUFFICES ASSUME NEW h \in Harnesses,
                    \/ \E s \in Sessions : Start(h, s) \/ Sweep(h, s)
                    \/ Lock(h)
                    \/ Exit(h)
                    \/ \E c \in Convs : Say(h, c)
                    \/ \E c \in Convs, x \in Contents : ToolResult(h, c, x)
                    \/ \E q \in Sides : Ask(h, q)
                    \/ \E q \in Sides, has_text \in BOOLEAN : AnswerQuery(h, q, has_text)
                    \/ \E node \in 1..MaxEvents : Navigate(h, node)
                    \/ \E s \in Sessions, reason \in {"new", "resume"} : Switch(h, s, reason)
                    \/ \E c \in Convs, whole \in {"yes", "cut"} : KilledWriting(h, c, whole)
             PROVE  ResumeInv'
  BY <1>1 DEF Next
<1>2. ASSUME NEW s \in Sessions, Start(h, s) PROVE ResumeInv'
  BY <1>2, StartResumes
<1>3. ASSUME NEW s \in Sessions, Sweep(h, s) PROVE ResumeInv'
  BY <1>3, SweepResumes
<1>4. CASE Lock(h)
  BY <1>4, LockResumes
<1>5. CASE Exit(h)
  BY <1>5, ExitResumes
<1>6. ASSUME NEW c \in Convs, Say(h, c) PROVE ResumeInv'
  BY <1>6, SayResumes
<1>7. ASSUME NEW c \in Convs, NEW x \in Contents, ToolResult(h, c, x) PROVE ResumeInv'
  BY <1>7, ToolResultResumes
<1>8. ASSUME NEW q \in Sides, Ask(h, q) PROVE ResumeInv'
  BY <1>8, AskResumes
<1>9. ASSUME NEW q \in Sides, NEW has_text \in BOOLEAN, AnswerQuery(h, q, has_text) PROVE ResumeInv'
  BY <1>9, AnswerQueryResumes
<1>10. ASSUME NEW node \in 1..MaxEvents, Navigate(h, node) PROVE ResumeInv'
  BY <1>10, NavigateResumes
<1>11. ASSUME NEW s \in Sessions, NEW reason \in {"new", "resume"}, Switch(h, s, reason) PROVE ResumeInv'
  BY <1>11, SwitchResumes
<1>12. ASSUME NEW c \in Convs, NEW whole \in {"yes", "cut"}, KilledWriting(h, c, whole) PROVE ResumeInv'
  BY <1>12, KilledWritingResumes
<1> QED
  BY <1>2, <1>3, <1>4, <1>5, <1>6, <1>7, <1>8, <1>9, <1>10, <1>11, <1>12

(* Whatever daemons came and went, were killed or failed to write, a restart *)
(* finds the head of a session on what its default conversation said, all of *)
(* it and nothing else, unless something else had the last word (Replay,     *)
(* Branch), under the hypotheses of TheLogIsTheTruth and when "new" is not   *)
(* given the name of a session that has a log.                              *)
THEOREM ARestartFindsTheBranch ==
    ASSUME ~Races, ~LongIdle, ~ReusesIds, "meta" \notin Failures
    PROVE  Spec => []ResumeFindsTheBranch
<1>1. Init => TruthInv /\ ResumeInv
  BY TruthInvInit, ResumeInvInit
<1>2. TruthInv /\ ResumeInv /\ [Next]_vars => (TruthInv /\ ResumeInv)'
  BY TruthInvStep, ResumeInvStep
<1>3. TruthInv /\ ResumeInv => ResumeFindsTheBranch
  BY ResumeIsFound
<1> QED
  BY <1>1, <1>2, <1>3, PTL DEF Spec

-----------------------------------------------------------------------------
(* A pointer on a branch names an earlier result of it that returned the     *)
(* same; such a result is on the branch.                                    *)
Names(e, event) == e.what = "result" /\ e.of = event.same_as /\ e.content = event.content

(* Some result on the branch is what the pointer stands for.                *)
Known(branch, event) == \E j \in 1..Len(branch) : Names(branch[j], event)

(* Every pointer of the branch names an earlier result of it.               *)
Resolves(branch) ==
    \A i \in 1..Len(branch) : branch[i].what = "pointer" =>
        \E j \in 1..i-1 : Names(branch[j], branch[i])

(* Every branch of the tree is of that kind.                                *)
AllResolve(tree) == \A n \in 0..Len(tree.nodes) : Resolves(Branch(tree, n))

(* A map of contents is up to date with a branch when it has the first call *)
(* of each content that is there in full.                                   *)
FullOn(branch) == {i \in 1..Len(branch) : IsFull(branch[i])}

(* The first result in full of a content.                                   *)
FirstOn(branch, x, i) ==
    i \in FullOn(branch) /\ branch[i].content = x
    /\ \A j \in FullOn(branch) : branch[j].content = x => i <= j

(* The map has every content that is on the branch in full, with its first  *)
(* call, and no other.                                                      *)
Current(branch, first) ==
    /\ \A i \in FullOn(branch) : branch[i].content \in DOMAIN first
    /\ \A x \in DOMAIN first : \E i : FirstOn(branch, x, i) /\ first[x] = branch[i].of

(* What is known of a branch with one more event.                           *)
LEMMA Appended ==
    ASSUME NEW branch \in Seq(Event), NEW event \in Event
    PROVE  /\ Len(branch) \in Nat /\ Len(Append(branch, event)) = Len(branch) + 1
           /\ \A i \in 1..Len(branch) : Append(branch, event)[i] = branch[i]
           /\ Append(branch, event)[Len(branch) + 1] = event
           /\ Append(branch, event) \in Seq(Event)
  OBVIOUS

(* A branch stays of that kind with an event that is no pointer, or one to  *)
(* what is on it.                                                           *)
LEMMA ResolvesOn ==
    ASSUME NEW branch \in Seq(Event), NEW event \in Event, Resolves(branch),
           event.what = "pointer" => Known(branch, event)
    PROVE  Resolves(Append(branch, event))
<1> DEFINE more == Append(branch, event)
           n == Len(branch)
<1>1. /\ n \in Nat /\ Len(more) = n + 1 /\ more[n + 1] = event
      /\ \A i \in 1..n : more[i] = branch[i]
  BY Appended
<1> HIDE DEF more, n
<1>2. ASSUME NEW i \in 1..Len(more), more[i].what = "pointer"
      PROVE  \E j \in 1..i-1 : Names(more[j], more[i])
  <2>1. CASE i = n + 1
    <3>1. PICK j \in 1..n : Names(branch[j], event)
      BY <1>1, <1>2, <2>1 DEF Known, n
    <3>2. j \in 1..i-1 /\ more[j] = branch[j] /\ more[i] = event
      BY <1>1, <2>1, <3>1
    <3> QED
      BY <3>1, <3>2
  <2>2. CASE i # n + 1
    <3>1. i \in 1..n
      BY <1>1, <2>2
    <3>2. more[i] = branch[i]
      BY <1>1, <3>1
    <3>3. PICK j \in 1..i-1 : Names(branch[j], branch[i])
      BY <1>2, <3>1, <3>2 DEF Resolves, n
    <3>4. j \in 1..n
      BY <1>1, <3>1
    <3>5. more[j] = branch[j]
      BY <1>1, <3>4
    <3> QED
      BY <3>2, <3>3, <3>5
  <2> QED
    BY <2>1, <2>2
<1> QED
  BY <1>2 DEF Resolves, more

(* A map stays up to date with an event that is no full result, or when it  *)
(* takes the result.                                                        *)
LEMMA CurrentOn ==
    ASSUME NEW branch \in Seq(Event), NEW event \in Event, NEW first, Current(branch, first)
    PROVE  /\ ~IsFull(event) => Current(Append(branch, event), first)
           /\ IsFull(event) /\ event.content \notin DOMAIN first =>
                 Current(Append(branch, event), Insert(first, event.content, event.of))
<1> DEFINE more == Append(branch, event)
           n == Len(branch)
           y == event.content
<1>1. /\ n \in Nat /\ Len(more) = n + 1 /\ more[n + 1] = event
      /\ \A i \in 1..n : more[i] = branch[i]
  BY Appended
<1> HIDE DEF more
<1>2. /\ \A i \in FullOn(branch) : i \in 1..n /\ i \in FullOn(more) /\ more[i] = branch[i]
      /\ \A i \in FullOn(more) : i \in FullOn(branch) \/ (i = n + 1 /\ IsFull(event))
      /\ IsFull(event) => n + 1 \in FullOn(more)
  <2>1. \A i \in 1..n : i \in 1..Len(more)
    BY <1>1
  <2>2. \A i \in 1..Len(more) : i \in 1..n \/ i = n + 1
    BY <1>1
  <2>3. n + 1 \in 1..Len(more)
    BY <1>1
  <2> QED
    BY <1>1, <2>1, <2>2, <2>3 DEF FullOn
<1> HIDE DEF n
<1>3. ASSUME NEW x, NEW i, FirstOn(branch, x, i), ~IsFull(event) \/ x # event.content
      PROVE  FirstOn(more, x, i) /\ more[i] = branch[i]
  BY <1>1, <1>2, <1>3 DEF FirstOn
<1>4. ASSUME ~IsFull(event) PROVE Current(more, first)
  <2>1. \A i \in FullOn(more) : more[i].content \in DOMAIN first
    BY <1>2, <1>4 DEF Current
  <2>2. ASSUME NEW x \in DOMAIN first PROVE \E i : FirstOn(more, x, i) /\ first[x] = more[i].of
    <3>1. PICK i : FirstOn(branch, x, i) /\ first[x] = branch[i].of
      BY DEF Current
    <3> QED
      BY <1>3, <1>4, <3>1
  <2> QED
    BY <2>1, <2>2 DEF Current
<1>5. ASSUME IsFull(event), y \notin DOMAIN first
      PROVE  Current(more, Insert(first, y, event.of))
  <2> DEFINE f == Insert(first, y, event.of)
  <2>1. DOMAIN f = DOMAIN first \cup {y} /\ f[y] = event.of /\ \A x \in DOMAIN first : f[x] = first[x]
    BY <1>5 DEF Insert
  <2> HIDE DEF f
  <2>2. \A i \in FullOn(more) : more[i].content \in DOMAIN f
    BY <1>1, <1>2, <2>1 DEF Current
  <2>3. ASSUME NEW x \in DOMAIN first PROVE \E i : FirstOn(more, x, i) /\ f[x] = more[i].of
    <3>1. PICK i : FirstOn(branch, x, i) /\ first[x] = branch[i].of
      BY DEF Current
    <3>2. x # y
      BY <1>5
    <3> QED
      BY <1>3, <2>1, <3>1, <3>2
  <2>4. FirstOn(more, y, n + 1)
    <3>1. \A j \in FullOn(branch) : branch[j].content # y
      BY <1>5 DEF Current
    <3>2. \A j \in FullOn(more) : more[j].content = y => j = n + 1
      BY <1>2, <3>1
    <3>3. n + 1 <= n + 1
      BY <1>1
    <3> QED
      BY <1>1, <1>2, <1>5, <3>2, <3>3 DEF FirstOn
  <2>5. \A x \in DOMAIN f : \E i : FirstOn(more, x, i) /\ f[x] = more[i].of
    BY <1>1, <2>1, <2>3, <2>4
  <2> QED
    BY <2>2, <2>5 DEF Current, f
<1> QED
  BY <1>4, <1>5 DEF more

(* A map that is up to date is the one a rebuild gives, and a rebuild gives *)
(* one that is.                                                             *)
LEMMA CurrentIsRebuilt ==
    ASSUME NEW branch \in Seq(Event), NEW node \in Nat
    PROVE  /\ Current(branch, Rebuilt(branch, node).first)
           /\ \A map \in Maps : map.built_for = node /\ Current(branch, map.first) => map = Rebuilt(branch, node)
<1> DEFINE r == Rebuilt(branch, node)
<1>1. /\ r \in Maps /\ r.built_for = node
      /\ DOMAIN r.first = {branch[i].content : i \in FullOn(branch)}
      /\ \A x \in DOMAIN r.first : \E i \in FullOn(branch) :
            /\ branch[i].content = x /\ r.first[x] = branch[i].of
            /\ \A j \in FullOn(branch) : branch[j].content = x => i <= j
  BY RebuiltIs DEF FullOn
<1> HIDE DEF r
<1>2. Current(branch, r.first)
  BY <1>1 DEF Current, FirstOn
<1>3. ASSUME NEW map \in Maps, map.built_for = node, Current(branch, map.first)
      PROVE  map = r
  <2>1. DOMAIN map.first = DOMAIN r.first
    <3>1. DOMAIN map.first \subseteq {branch[i].content : i \in FullOn(branch)}
      BY <1>3 DEF Current, FirstOn
    <3>2. {branch[i].content : i \in FullOn(branch)} \subseteq DOMAIN map.first
      BY <1>3 DEF Current
    <3> QED
      BY <1>1, <3>1, <3>2
  <2>2. ASSUME NEW x \in DOMAIN map.first PROVE map.first[x] = r.first[x]
    <3>1. PICK i : FirstOn(branch, x, i) /\ map.first[x] = branch[i].of
      BY <1>3 DEF Current
    <3>2. PICK j : FirstOn(branch, x, j) /\ r.first[x] = branch[j].of
      BY <1>2, <2>1 DEF Current
    <3>3. i <= j /\ j <= i /\ i \in Nat /\ j \in Nat
      <4>1. \A k \in FullOn(branch) : k \in Nat
        BY DEF FullOn
      <4> QED
        BY <3>1, <3>2, <4>1 DEF FirstOn
    <3> QED
      BY <3>1, <3>2, <3>3
  <2>3. /\ map.first = [x \in DOMAIN map.first |-> map.first[x]]
        /\ r.first = [x \in DOMAIN r.first |-> r.first[x]]
        /\ map = [first |-> map.first, built_for |-> map.built_for]
        /\ r = [first |-> r.first, built_for |-> r.built_for]
    BY <1>1, MapIs
  <2>4. map.first = r.first
    BY <2>1, <2>2, <2>3
  <2> QED
    BY <1>1, <1>3, <2>3, <2>4
<1> QED
  BY <1>2, <1>3 DEF r

(* A result that is taken against a map that is up to date becomes a pointer *)
(* to one that is on the branch, or enters the map.                         *)
LEMMA IntakeResolves ==
    ASSUME NEW branch \in Seq(Event), NEW map \in Maps, Current(branch, map.first),
           NEW n \in Nat, NEW x \in Contents
    PROVE  LET taken == Intake(map, n, x) IN
           /\ Current(Append(branch, taken.event), taken.map.first)
           /\ taken.event.what = "pointer" => Known(branch, taken.event)
<1> DEFINE taken == Intake(map, n, x)
           event == taken.event
<1>1. /\ taken.map \in Maps
      /\ event \in Event /\ event.of = n /\ event.content = x
      /\ event.what \in {"result", "pointer"}
      /\ event.what = "pointer" => /\ x \in DOMAIN map.first /\ x \notin Small
                                   /\ event.same_as = map.first[x] /\ taken.map = map
      /\ event.what = "result" /\ x \in Small => taken.map = map
      /\ event.what = "result" /\ x \notin Small =>
            x \notin DOMAIN map.first /\ taken.map.first = Insert(map.first, x, n)
  BY IntakeIs
<1> HIDE DEF taken
<1>2. CASE event.what = "pointer"
  <2>1. ~IsFull(event)
    BY <1>2 DEF IsFull
  <2>2. PICK i : FirstOn(branch, x, i) /\ map.first[x] = branch[i].of
    BY <1>1, <1>2 DEF Current
  <2>3. i \in 1..Len(branch) /\ Names(branch[i], event)
    BY <1>1, <1>2, <2>2 DEF FirstOn, FullOn, IsFull, Names
  <2>4. Known(branch, event)
    BY <2>3 DEF Known
  <2>5. Current(Append(branch, event), map.first)
    BY <1>1, <2>1, CurrentOn
  <2> QED
    BY <1>1, <1>2, <2>4, <2>5 DEF taken
<1>3. CASE event.what = "result" /\ x \in Small
  <2>1. ~IsFull(event)
    BY <1>1, <1>3 DEF IsFull
  <2>2. Current(Append(branch, event), map.first)
    BY <1>1, <2>1, CurrentOn
  <2>3. event.what # "pointer"
    BY <1>3
  <2> QED
    BY <1>1, <1>3, <2>2, <2>3 DEF taken
<1>4. CASE event.what = "result" /\ x \notin Small
  <2>1. IsFull(event) /\ event.content \notin DOMAIN map.first
    BY <1>1, <1>4 DEF IsFull
  <2>2. Current(Append(branch, event), Insert(map.first, event.content, event.of))
    BY <1>1, <2>1, CurrentOn
  <2>3. event.what # "pointer"
    BY <1>4
  <2> QED
    BY <1>1, <1>4, <2>2, <2>3 DEF taken
<1> QED
  BY <1>1, <1>2, <1>3, <1>4

-----------------------------------------------------------------------------
(* A tree that has more entries has the same branches.                      *)
LEMMA BranchKept ==
    ASSUME NEW t, NEW u, Grown(t), Grown(u), Longer(t.nodes, u.nodes)
    PROVE  \A n \in 0..Len(t.nodes) : Branch(t, n) = Branch(u, n) /\ n \in 0..Len(u.nodes)
<1>1. Len(t.nodes) \in Nat /\ Len(u.nodes) \in Nat
  BY NodesOfGrown
<1>2. /\ Len(t.nodes) <= Len(u.nodes) /\ Len(t.nodes) <= Len(t.nodes)
      /\ \A i \in 1..Len(t.nodes) : t.nodes[i] = u.nodes[i]
  BY <1>1 DEF Longer
<1>3. \A n \in 0..Len(t.nodes) : Branch(t, n) = Branch(u, n)
  BY <1>1, <1>2, SameBranch
<1>4. \A n \in 0..Len(t.nodes) : n \in 0..Len(u.nodes)
  BY <1>1, <1>2
<1> QED
  BY <1>3, <1>4

(* Trees with the same nodes have the same branches.                        *)
LEMMA StillResolve ==
    ASSUME NEW t, NEW u, t.nodes = u.nodes, AllResolve(t)
    PROVE  AllResolve(u)
<1>1. \A n : Branch(t, n) = Branch(u, n)
  BY BranchOfNodes
<1> QED
  BY <1>1 DEF AllResolve

(* One more entry that is no pointer, or a pointer to what is on its branch. *)
LEMMA FoldResolves ==
    ASSUME NEW tree, Grown(tree), AllResolve(tree), NEW parent, ParentIn(tree, parent),
           NEW event \in Event, event.what \in Folding,
           event.what = "pointer" => Known(Branch(tree, Under(tree, parent)), event)
    PROVE  AllResolve(Apply(tree, parent, event))
<1> DEFINE t == Apply(tree, parent, event)
           d == Under(tree, parent)
           n == Len(tree.nodes)
<1>1. /\ Grown(t) /\ Len(t.nodes) = n + 1 /\ d \in 0..n /\ n \in Nat
      /\ t.nodes = Append(tree.nodes, [parent |-> d, entry |-> event])
  BY ApplyFolds, NodesOfGrown
<1>2. Branch(t, n + 1) = Append(Branch(tree, d), event)
  BY <1>1, BranchGrows
<1>3. Branch(tree, d) \in Seq(Event) /\ Resolves(Branch(tree, d))
  BY <1>1, BranchType DEF AllResolve
<1>4. Resolves(Branch(t, n + 1))
  <2> DEFINE b == Branch(tree, d)
  <2>1. event.what = "pointer" => Known(b, event)
    OBVIOUS
  <2>2. b \in Seq(Event) /\ Resolves(b) /\ Branch(t, n + 1) = Append(b, event)
    BY <1>2, <1>3
  <2> HIDE DEF b, t, n, d
  <2>3. Resolves(Append(b, event))
    BY <2>1, <2>2, ResolvesOn
  <2> QED
    BY <2>2, <2>3
<1>5. Longer(tree.nodes, t.nodes)
  <2> DEFINE node == [parent |-> d, entry |-> event]
  <2>1. node \in Node /\ tree.nodes \in Seq(Node)
    <3>1. d \in Nat
      BY <1>1
    <3> QED
      BY <3>1, NodesOfGrown DEF Node
  <2>2. t.nodes = Append(tree.nodes, node)
    BY <1>1
  <2> HIDE DEF node, t
  <2> QED
    BY <1>1, <2>1, <2>2 DEF Longer
<1>6. \A k \in 0..n : Resolves(Branch(t, k))
  <2>1. \A k \in 0..n : Branch(tree, k) = Branch(t, k)
    <3>1. Grown(t)
      BY <1>1
    <3> HIDE DEF t, d
    <3> QED
      BY <1>5, <3>1, BranchKept
  <2> QED
    BY <2>1 DEF AllResolve
<1>7. \A k \in 0..Len(t.nodes) : k \in 0..n \/ k = n + 1
  BY <1>1
<1> HIDE DEF t, n, d
<1>8. AllResolve(t)
  BY <1>4, <1>6, <1>7 DEF AllResolve
<1> QED
  BY <1>8 DEF t

(* What is on a branch of the tree that is kept is on that of the one that  *)
(* is read, whose branches go on where the kept ones start at the root.     *)
LEMMA ReadHasTheBranch ==
    ASSUME NEW kept, NEW read, Grown(kept), Grown(read), Follows(kept, read)
    PROVE  \A n \in 0..Len(kept.nodes) : \A j \in 1..Len(Branch(kept, n)) :
              \E k \in 1..Len(Branch(read, n)) : Branch(read, n)[k] = Branch(kept, n)[j]
<1> DEFINE Within(n) == \A j \in 1..Len(Branch(kept, n)) :
                           \E k \in 1..Len(Branch(read, n)) : Branch(read, n)[k] = Branch(kept, n)[j]
           T == {n \in Nat : n <= Len(kept.nodes) => Within(n)}
<1>0. Len(kept.nodes) \in Nat /\ Len(read.nodes) = Len(kept.nodes)
  BY NodesOfGrown DEF Follows
<1>1. ASSUME NEW n \in Nat, 0..n-1 \subseteq T PROVE n \in T
  <2> SUFFICES ASSUME n <= Len(kept.nodes) PROVE Within(n)
    OBVIOUS
  <2>1. CASE n = 0
    <3>1. Branch(kept, 0) = <<>> /\ Len(<<>>) = 0
      BY BranchOf
    <3>2. Len(Branch(kept, n)) = 0
      BY <2>1, <3>1
    <3> QED
      BY <3>2
  <2>2. CASE n # 0
    <3> DEFINE p == kept.nodes[n].parent
               r == read.nodes[n].parent
               e == kept.nodes[n].entry
    <3>1. /\ n \in 1..Len(kept.nodes) /\ n \in 1..Len(read.nodes)
          /\ p \in 0..n-1 /\ r \in 0..n-1 /\ e \in Event /\ read.nodes[n].entry = e /\ p \in {0, r}
      BY <1>0, <2>2, NodesOfGrown DEF Follows
    <3>2. /\ Branch(kept, n) = Append(Branch(kept, p), e) /\ Branch(read, n) = Append(Branch(read, r), e)
      BY <3>1, BranchOf
    <3>3. Branch(kept, p) \in Seq(Event) /\ Branch(read, r) \in Seq(Event)
      <4>1. p \in 0..Len(kept.nodes) /\ r \in 0..Len(read.nodes)
        BY <1>0, <3>1
      <4> QED
        BY <4>1, BranchType
    <3>4. \A j \in 1..Len(Branch(kept, p)) :
             \E k \in 1..Len(Branch(read, r)) : Branch(read, r)[k] = Branch(kept, p)[j]
      <4>1. CASE p = r
        <5>1. p \in Nat /\ p <= Len(kept.nodes)
          <6> HIDE DEF p, T
          <6> QED
            BY <1>0, <3>1
        <5>2. p \in T
          <6> HIDE DEF p, T
          <6> QED
            BY <1>1, <3>1
        <5> QED
          BY <4>1, <5>1, <5>2
      <4>2. CASE p = 0
        <5>1. Branch(kept, 0) = <<>> /\ Len(<<>>) = 0
          BY BranchOf
        <5>2. Len(Branch(kept, p)) = 0
          BY <4>2, <5>1
        <5> QED
          BY <5>2
      <4> QED
        BY <3>1, <4>1, <4>2
    <3> DEFINE a == Branch(kept, p)
               b == Branch(read, r)
    <3>5. /\ Len(a) \in Nat /\ Len(Branch(kept, n)) = Len(a) + 1
          /\ \A j \in 1..Len(a) : Branch(kept, n)[j] = a[j]
          /\ Branch(kept, n)[Len(a) + 1] = e
      BY <3>1, <3>2, <3>3, Appended
    <3>6. /\ Len(b) \in Nat /\ Len(Branch(read, n)) = Len(b) + 1
          /\ \A j \in 1..Len(b) : Branch(read, n)[j] = b[j]
          /\ Branch(read, n)[Len(b) + 1] = e
      BY <3>1, <3>2, <3>3, Appended
    <3>7. \A j \in 1..Len(a) : \E k \in 1..Len(b) : b[k] = a[j]
      BY <3>4
    <3> HIDE DEF a, b, e, p, r
    <3>8. ASSUME NEW j \in 1..Len(Branch(kept, n))
          PROVE  \E k \in 1..Len(Branch(read, n)) : Branch(read, n)[k] = Branch(kept, n)[j]
      <4>1. CASE j \in 1..Len(a)
        <5>1. PICK k \in 1..Len(b) : b[k] = a[j]
          BY <3>7, <4>1
        <5>2. k \in 1..Len(Branch(read, n))
          BY <3>6
        <5> QED
          BY <3>5, <3>6, <4>1, <5>1, <5>2
      <4>2. CASE j = Len(a) + 1
        <5>1. Len(b) + 1 \in 1..Len(Branch(read, n))
          BY <3>6
        <5> QED
          BY <3>5, <3>6, <4>2, <5>1
      <4> QED
        BY <3>5, <4>1, <4>2
    <3> QED
      BY <3>8
  <2> QED
    BY <2>1, <2>2
<1> HIDE DEF T
<1>2. Nat \subseteq T
  BY <1>1, CourseOfValues
<1>3. \A n \in 0..Len(kept.nodes) : n \in T /\ n <= Len(kept.nodes)
  BY <1>0, <1>2
<1> QED
  BY <1>3 DEF T

(* A result the daemon has on a branch is on that branch of the log, too.   *)
LEMMA ReadKnows ==
    ASSUME NEW kept, NEW read, Grown(kept), Grown(read), Follows(kept, read),
           NEW n \in 0..Len(kept.nodes), NEW event, Known(Branch(kept, n), event)
    PROVE  Known(Branch(read, n), event)
<1>1. PICK j \in 1..Len(Branch(kept, n)) : Names(Branch(kept, n)[j], event)
  BY DEF Known
<1>2. PICK k \in 1..Len(Branch(read, n)) : Branch(read, n)[k] = Branch(kept, n)[j]
  BY <1>1, ReadHasTheBranch
<1> QED
  BY <1>1, <1>2 DEF Known

(* What an append does to the branches of the tree and of the log.          *)
LEMMA AppendResolves ==
    ASSUME NEW records, NEW tree, NEW m, Sound(records, tree, m), AllResolve(tree), AllResolve(Replay(records)),
           NEW parent, ParentIn(tree, parent), NEW event \in Event, NEW o,
           Takes(records, tree, parent, event, o),
           event.what = "pointer" => parent # <<>> /\ Known(Branch(tree, parent[1]), event)
    PROVE  AllResolve(o.tree) /\ AllResolve(Replay(o.log))
<1> DEFINE read == Replay(records)
           kept == Apply(tree, parent, event)
           again == Apply(read, Flatten(parent), event)
<1>1. /\ Grown(tree) /\ Grown(read) /\ Follows(tree, read)
      /\ Len(tree.nodes) = Len(read.nodes) /\ Len(tree.nodes) \in Nat
  BY NodesOfGrown DEF Sound, Ordered, Follows
<1>2. CASE ~o.ok
  BY <1>2 DEF Takes
<1>3. CASE o.ok
  <2>1. AllResolve(kept) /\ AllResolve(again)
    <3>1. CASE event.what \notin Folding
      <4>1. kept.nodes = tree.nodes /\ again.nodes = read.nodes
        BY <1>1, <3>1, ApplyMoves
      <4> HIDE DEF kept, again, read
      <4>2. AllResolve(kept)
        BY <4>1, StillResolve
      <4>3. AllResolve(read)
        BY DEF read
      <4>4. AllResolve(again)
        BY <4>1, <4>3, StillResolve
      <4> QED
        BY <4>2, <4>4
    <3>2. CASE event.what \in Folding
      <4>1. ParentIn(read, Flatten(parent))
        <5>1. ParentIn(read, <<>>)
          BY DEF ParentIn
        <5>2. ParentIn(read, parent)
          BY <1>1 DEF ParentIn
        <5> QED
          BY <5>1, <5>2 DEF Flatten
      <4>2. event.what = "pointer" => Known(Branch(tree, Under(tree, parent)), event)
        BY DEF Under
      <4>3. event.what = "pointer" => Known(Branch(read, Under(read, Flatten(parent))), event)
        <5> SUFFICES ASSUME event.what = "pointer" PROVE Known(Branch(read, Under(read, Flatten(parent))), event)
          OBVIOUS
        <5>1. PICK d \in 0..Len(tree.nodes) : parent = <<d>>
          BY DEF ParentIn
        <5>2. Known(Branch(tree, d), event)
          BY <5>1
        <5>3. d # 0
          <6>1. Branch(tree, 0) = <<>> /\ Len(<<>>) = 0
            BY <1>1, BranchOf
          <6> QED
            BY <5>2, <6>1 DEF Known
        <5>4. Flatten(parent) = <<d>> /\ Under(read, <<d>>) = d
          <6>1. <<d>> # <<0>> /\ <<d>> # <<>> /\ <<d>>[1] = d
            BY <5>3
          <6> QED
            BY <5>1, <6>1 DEF Flatten, Under
        <5>5. Known(Branch(read, d), event)
          BY <1>1, <5>2, ReadKnows
        <5> QED
          BY <5>4, <5>5
      <4>4. AllResolve(kept)
        BY <1>1, <3>2, <4>2, FoldResolves
      <4> DEFINE p == Flatten(parent)
      <4>5. ParentIn(read, p) /\ (event.what = "pointer" => Known(Branch(read, Under(read, p)), event))
            /\ Grown(read) /\ AllResolve(read)
        BY <1>1, <4>1, <4>3
      <4> HIDE DEF p, read, kept
      <4>6. AllResolve(Apply(read, p, event))
        BY <3>2, <4>5, FoldResolves
      <4> QED
        BY <4>4, <4>6 DEF p, read
    <3> QED
      BY <3>1, <3>2
  <2>2. o.tree.nodes = kept.nodes /\ Replay(o.log).nodes = again.nodes
    BY <1>3 DEF Takes
  <2> HIDE DEF kept, again
  <2> QED
    BY <2>1, <2>2, StillResolve
<1> QED
  BY <1>2, <1>3

-----------------------------------------------------------------------------
(* Every step keeps the types of the history variables.                     *)
LEMMA HistoryStep ==
    ASSUME HistoryTypes, [Next]_vars
    PROVE  HistoryTypes'
<1> DEFINE Kept == UNCHANGED <<mine, astray>>
           Told == \E s, m, a : /\ mine' = [mine EXCEPT ![s] = m]
                                /\ astray' = [astray EXCEPT ![s] = a] /\ a \in {"no", "moved", "forked"}
           Turned == \E s, a : /\ UNCHANGED mine
                               /\ astray' = [astray EXCEPT ![s] = a] /\ a \in {"no", "moved", "forked"}
           Added == \E s, m : mine' = [mine EXCEPT ![s] = m] /\ UNCHANGED astray
<1>1. CASE Kept
  BY <1>1 DEF HistoryTypes
<1>2. CASE Told
  <2>1. PICK s, m, a : /\ mine' = [mine EXCEPT ![s] = m]
                       /\ astray' = [astray EXCEPT ![s] = a] /\ a \in {"no", "moved", "forked"}
    BY <1>2
  <2> QED
    BY <2>1 DEF HistoryTypes
<1>3. CASE Turned
  <2>1. PICK s, a : UNCHANGED mine /\ astray' = [astray EXCEPT ![s] = a] /\ a \in {"no", "moved", "forked"}
    BY <1>3
  <2> QED
    BY <2>1 DEF HistoryTypes
<1>4. CASE Added
  <2>1. PICK s, m : mine' = [mine EXCEPT ![s] = m] /\ UNCHANGED astray
    BY <1>4
  <2> QED
    BY <2>1 DEF HistoryTypes
<1> HIDE DEF Kept, Told, Turned, Added
<1>5. ASSUME NEW s, NEW moved, Strays(s, moved), UNCHANGED mine PROVE HistoryTypes'
  <2>1. CASE astray[s] = "forked"
    <3>1. astray' = [astray EXCEPT ![s] = "forked"]
      BY <1>5, <2>1 DEF Strays
    <3> QED
      BY <1>3, <1>5, <3>1 DEF Turned
  <2>2. CASE astray[s] # "forked"
    <3>1. astray' = [astray EXCEPT ![s] = IF moved THEN "moved" ELSE "no"]
      BY <1>5, <2>2 DEF Strays
    <3> QED
      BY <1>3, <1>5, <3>1 DEF Turned
  <2> QED
    BY <2>1, <2>2
<1>6. ASSUME NEW s, NEW c, NEW event, NEW o, Folded(s, c, event, o) PROVE HistoryTypes'
  <2>1. mine' = [mine EXCEPT ![s] = mine'[s]] /\ mine' = [t \in Sessions |-> mine'[t]]
    BY <1>6 DEF Folded, HistoryTypes
  <2>2. astray' \in [Sessions -> {"no", "moved", "forked"}]
    BY <1>6 DEF Folded, Strays, HistoryTypes
  <2> QED
    BY <2>1, <2>2 DEF HistoryTypes
<1>7. CASE UNCHANGED vars
  BY <1>1, <1>7 DEF vars, Kept
<1> SUFFICES ASSUME NEW h \in Harnesses,
                    \/ \E s \in Sessions : Start(h, s) \/ Sweep(h, s)
                    \/ Lock(h)
                    \/ Exit(h)
                    \/ \E c \in Convs : Say(h, c)
                    \/ \E c \in Convs, x \in Contents : ToolResult(h, c, x)
                    \/ \E q \in Sides : Ask(h, q)
                    \/ \E q \in Sides, has_text \in BOOLEAN : AnswerQuery(h, q, has_text)
                    \/ \E node \in 1..MaxEvents : Navigate(h, node)
                    \/ \E s \in Sessions, reason \in {"new", "resume"} : Switch(h, s, reason)
                    \/ \E c \in Convs, whole \in {"yes", "cut"} : KilledWriting(h, c, whole)
             PROVE  HistoryTypes'
  BY <1>7 DEF Next
<1>8. ASSUME NEW s \in Sessions, Start(h, s) PROVE HistoryTypes'
  BY <1>1, <1>8 DEF Start, Kept
<1>9. ASSUME NEW s \in Sessions, Sweep(h, s) PROVE HistoryTypes'
  BY <1>2, <1>9 DEF Sweep, Told
<1>10. CASE Lock(h)
  <2>1. \/ Kept
        \/ /\ mine' = [mine EXCEPT ![current[h]] = Branch(TreeOf(h, current[h]), head[h][Default])]
           /\ astray' = [astray EXCEPT ![current[h]] = "no"]
    BY <1>10 DEF Lock, Kept
  <2> QED
    BY <1>1, <1>2, <2>1 DEF Told
<1>11. CASE Exit(h)
  BY <1>1, <1>11 DEF Exit, Kept
<1>12. ASSUME NEW c \in Convs, Say(h, c) PROVE HistoryTypes'
  BY <1>6, <1>12 DEF Say, PublishFor
<1>13. ASSUME NEW c \in Convs, NEW x \in Contents, ToolResult(h, c, x) PROVE HistoryTypes'
  BY <1>6, <1>13 DEF ToolResult, PublishFor
<1>14. ASSUME NEW q \in Sides, Ask(h, q) PROVE HistoryTypes'
  BY <1>6, <1>14 DEF Ask
<1>15. ASSUME NEW q \in Sides, NEW has_text \in BOOLEAN, AnswerQuery(h, q, has_text) PROVE HistoryTypes'
  <2>1. UNCHANGED mine /\ \E moved : Strays(current[h], moved)
    BY <1>15 DEF AnswerQuery
  <2> QED
    BY <1>5, <2>1
<1>16. ASSUME NEW node \in 1..MaxEvents, Navigate(h, node) PROVE HistoryTypes'
  <2>1. UNCHANGED mine /\ (UNCHANGED astray \/ \E moved : Strays(current[h], moved))
    BY <1>16 DEF Navigate
  <2> QED
    BY <1>1, <1>5, <2>1 DEF Kept
<1>17. ASSUME NEW s \in Sessions, NEW reason \in {"new", "resume"}, Switch(h, s, reason) PROVE HistoryTypes'
  <2>1. \/ Kept
        \/ mine' = [mine EXCEPT ![s] = <<>>] /\ astray' = [astray EXCEPT ![s] = "no"]
        \/ \E p : /\ mine' = [mine EXCEPT ![s] = IF reason = "new" THEN <<>> ELSE Branch(p.tree, p.tree.head)]
                  /\ astray' = [astray EXCEPT ![s] = IF reason = "resume" /\ Forked(s, p.tree) THEN "forked" ELSE "no"]
    BY <1>17 DEF Switch, Kept
  <2>2. ASSUME NEW p, mine' = [mine EXCEPT ![s] = IF reason = "new" THEN <<>> ELSE Branch(p.tree, p.tree.head)],
               astray' = [astray EXCEPT ![s] = IF reason = "resume" /\ Forked(s, p.tree) THEN "forked" ELSE "no"]
        PROVE  HistoryTypes'
    <3>1. (IF reason = "resume" /\ Forked(s, p.tree) THEN "forked" ELSE "no") \in {"no", "moved", "forked"}
      OBVIOUS
    <3> QED
      BY <1>2, <2>2, <3>1 DEF Told
  <2> QED
    BY <1>1, <1>2, <2>1, <2>2 DEF Told
<1>18. ASSUME NEW c \in Convs, NEW whole \in {"yes", "cut"}, KilledWriting(h, c, whole) PROVE HistoryTypes'
  BY <1>6, <1>18 DEF KilledWriting
<1> QED
  BY <1>8, <1>9, <1>10, <1>11, <1>12, <1>13, <1>14, <1>15, <1>16, <1>17, <1>18

-----------------------------------------------------------------------------
(* The map of a conversation is to be rebuilt, or up to date with its branch. *)
MapFits(tree, d, map) ==
    map.built_for \in {0, d} /\ (map.built_for = d => Current(Branch(tree, d), map.first))

(* What a daemon knows of pointers: they resolve in its trees, and its maps *)
(* fit its branches.                                                        *)
HarnessResolves(h) ==
    /\ \A s \in DOMAIN trees[h] : AllResolve(trees[h][s])
    /\ pc[h] # "off" =>
          \A c \in open[h] : MapFits(TreeOf(h, current[h]), head[h][c], dedup[h][c])

(* The inductive invariant of PointersResolve, beside TruthInv.             *)
ResolveInv ==
    /\ HistoryTypes
    /\ \A s \in Sessions : AllResolve(Replay(log[s]))
    /\ \A h \in Harnesses : HarnessResolves(h)

(* The invariants give the types.                                           *)
LEMMA TypesAreKept == TruthInv /\ HistoryTypes => TypeOK
<1> SUFFICES ASSUME TruthInv, HistoryTypes PROVE TypeOK
  OBVIOUS
<1>1. StoreTypes /\ DiskInv /\ LockTypes /\ (\A h \in Harnesses : HarnessInv(h)) /\ HistoryTypes
  BY DEF TruthInv, LockInv
<1>2. log \in [Sessions -> Seq(Record)]
  BY <1>1 DEF StoreTypes, DiskInv, Ordered
<1>3. ASSUME NEW h \in Harnesses
      PROVE  /\ DOMAIN trees[h] \subseteq Sessions
             /\ open[h] \subseteq Convs
             /\ \A c \in Convs : head[h][c] \in Nat /\ DOMAIN dedup[h][c].first \subseteq Contents \ Small
  <2>1. \A c \in Convs : dedup[h][c] \in Maps /\ head[h][c] \in Nat
    BY <1>1 DEF StoreTypes
  <2> QED
    BY <1>1, <2>1, MapIs DEF StoreTypes, HarnessInv
<1> QED
  BY <1>1, <1>2, <1>3 DEF TypeOK, StoreTypes, LockTypes, HistoryTypes

(* The invariants give the property.                                        *)
LEMMA PointersAreResolved == TruthInv /\ ResolveInv => PointersResolve
<1> SUFFICES ASSUME TruthInv, ResolveInv PROVE PointersResolve
  OBVIOUS
<1>1. TypeOK
  BY TypesAreKept DEF ResolveInv
<1> SUFFICES ASSUME NEW h \in Harnesses, pc[h] = "running", current[h] \in DOMAIN trees[h], NEW c \in open[h]
             PROVE  LET branch == Branch(trees[h][current[h]], head[h][c])
                        map == dedup[h][c]
                    IN /\ \A i \in DOMAIN branch : branch[i].what = "pointer" =>
                            \E j \in 1..i - 1 : /\ branch[j].what = "result"
                                                /\ branch[j].of = branch[i].same_as
                                                /\ branch[j].content = branch[i].content
                       /\ map.built_for = head[h][c] /\ head[h][c] # 0 =>
                            map = Rebuilt(branch, head[h][c])
  BY <1>1 DEF PointersResolve
<1> DEFINE tree == trees[h][current[h]]
           d == head[h][c]
           branch == Branch(tree, d)
<1>2. tree = TreeOf(h, current[h])
  BY DEF TreeOf
<1>3. c \in Convs /\ dedup[h][c] \in Maps
  BY DEF TruthInv, StoreTypes
<1>4. Grown(tree) /\ d \in 0..Len(tree.nodes) /\ d \in Nat
  <2>1. pc[h] # "off"
    OBVIOUS
  <2>2. Grown(TreeOf(h, current[h])) /\ head[h][c] \in 0..Len(TreeOf(h, current[h]).nodes)
    BY <1>3, <2>1, AtWork
  <2> QED
    BY <1>2, <2>2
<1>5. branch \in Seq(Event) /\ Resolves(branch)
  <2>1. AllResolve(tree)
    BY DEF ResolveInv, HarnessResolves
  <2> QED
    BY <1>4, <2>1, BranchType DEF AllResolve
<1>6. MapFits(tree, d, dedup[h][c])
  <2>1. MapFits(TreeOf(h, current[h]), head[h][c], dedup[h][c])
    BY DEF ResolveInv, HarnessResolves
  <2> QED
    BY <1>2, <2>1
<1>7. dedup[h][c].built_for = d => dedup[h][c] = Rebuilt(branch, d)
  <2>1. dedup[h][c].built_for = d => Current(branch, dedup[h][c].first)
    BY <1>6 DEF MapFits
  <2> HIDE DEF branch, d, tree
  <2> QED
    BY <1>3, <1>4, <1>5, <2>1, CurrentIsRebuilt
<1>8. DOMAIN branch = 1..Len(branch)
  <2> HIDE DEF branch
  <2> QED
    BY <1>5
<1> HIDE DEF branch, d, tree
<1>9. \A i \in DOMAIN branch : branch[i].what = "pointer" =>
         \E j \in 1..i - 1 : /\ branch[j].what = "result"
                             /\ branch[j].of = branch[i].same_as
                             /\ branch[j].content = branch[i].content
  BY <1>5, <1>8 DEF Resolves, Names
<1> QED
  BY <1>7, <1>9 DEF branch, d, tree

-----------------------------------------------------------------------------
(* A session without records has no pointer.                                *)
LEMMA NothingResolves == AllResolve(Replay(<<>>))
<1>1. Replay(<<>>) = EmptyTree /\ Len(EmptyTree.nodes) = 0 /\ Grown(EmptyTree)
  BY EmptyIsSound
<1>2. Branch(EmptyTree, 0) = <<>> /\ Len(<<>>) = 0
  BY <1>1, BranchOf
<1>3. Resolves(Branch(EmptyTree, 0))
  <2>1. Len(Branch(EmptyTree, 0)) = 0
    BY <1>2
  <2> QED
    BY <2>1 DEF Resolves
<1>4. \A n \in 0..Len(EmptyTree.nodes) : n = 0
  BY <1>1
<1> QED
  BY <1>1, <1>3, <1>4 DEF AllResolve

(* A map that was not built yet fits every conversation.                    *)
LEMMA NoMapFits ==
    ASSUME NEW tree, Grown(tree), NEW d \in 0..Len(tree.nodes)
    PROVE  MapFits(tree, d, NoMap)
<1>1. NoMap.built_for = 0 /\ NoMap.first = <<>>
  BY DEF NoMap
<1>2. CASE d = 0
  <2>1. Branch(tree, d) = <<>> /\ Len(<<>>) = 0
    BY <1>2, BranchOf
  <2>2. Len(Branch(tree, d)) = 0
    BY <2>1
  <2>3. FullOn(Branch(tree, d)) = {}
    BY <2>2 DEF FullOn
  <2>4. DOMAIN <<>> = {}
    OBVIOUS
  <2>5. Current(Branch(tree, d), <<>>)
    BY <2>3, <2>4 DEF Current
  <2> QED
    BY <1>1, <2>5 DEF MapFits
<1>3. CASE d # 0
  BY <1>1, <1>3 DEF MapFits
<1> QED
  BY <1>2, <1>3

(* A map still fits when the tree has more nodes.                           *)
LEMMA FitsOn ==
    ASSUME NEW t, NEW u, Grown(t), Grown(u), Longer(t.nodes, u.nodes), NEW d \in 0..Len(t.nodes), NEW map,
           MapFits(t, d, map)
    PROVE  MapFits(u, d, map)
<1>1. Branch(t, d) = Branch(u, d)
  BY BranchKept
<1> QED
  BY <1>1 DEF MapFits

(* The invariant holds at the start.                                        *)
LEMMA ResolveInvInit == Init => ResolveInv
<1> SUFFICES ASSUME Init PROVE ResolveInv
  OBVIOUS
<1>1. HistoryTypes
  BY DEF Init, HistoryTypes
<1>2. \A s \in Sessions : AllResolve(Replay(log[s]))
  BY NothingResolves DEF Init
<1>3. ASSUME NEW h \in Harnesses PROVE HarnessResolves(h)
  <2>1. trees[h] = <<>> /\ pc[h] = "off"
    BY DEF Init
  <2>2. DOMAIN <<>> = {}
    OBVIOUS
  <2> QED
    BY <2>1, <2>2 DEF HarnessResolves
<1> QED
  BY <1>1, <1>2, <1>3 DEF ResolveInv

(* A daemon whose sessions no other step changes.                           *)
LEMMA OthersResolve ==
    ASSUME TruthInv, ResolveInv, NEW g \in Harnesses, Unmoved(g),
           pc[g] = "loaded" => log'[current[g]] = log[current[g]]
    PROVE  HarnessResolves(g)'
<1>1. /\ pc'[g] = pc[g] /\ current'[g] = current[g] /\ trees'[g] = trees[g]
      /\ open'[g] = open[g] /\ head'[g] = head[g] /\ dedup'[g] = dedup[g]
  BY DEF Unmoved
<1>2. HarnessResolves(g)
  BY DEF ResolveInv
<1>3. pc[g] # "off" => TreeOf(g, current[g])' = TreeOf(g, current[g])
  <2>1. CASE current[g] \in DOMAIN trees[g]
    BY <1>1, <2>1 DEF TreeOf
  <2>2. CASE current[g] \notin DOMAIN trees[g] /\ pc[g] = "loaded"
    BY <1>1, <2>2 DEF TreeOf
  <2> QED
    BY <2>1, <2>2, PcIs
<1>4. pc'[g] # "off" =>
          \A c \in open'[g] : MapFits(TreeOf(g, current[g])', head'[g][c], dedup'[g][c])
  BY <1>1, <1>2, <1>3 DEF HarnessResolves
<1>5. \A s \in DOMAIN trees'[g] : AllResolve(trees'[g][s])
  BY <1>1, <1>2 DEF HarnessResolves
<1> QED
  BY <1>4, <1>5 DEF HarnessResolves

(* A daemon that appends to its session and whose maps fit afterwards.      *)
LEMMA PublishResolves ==
    ASSUME TruthInv, ResolveInv, HistoryTypes', ~Races,
           NEW h \in Harnesses, Alone(h), pc[h] # "off", MayLock(h, current[h]),
           NEW o, NEW tags, Stored(h, o, tags), AllResolve(o.tree), AllResolve(Replay(o.log)),
           pc'[h] = "running", current'[h] = current[h],
           \A g \in Harnesses \ {h} : Unmoved(g),
           \A c \in open'[h] : MapFits(o.tree, head'[h][c], dedup'[h][c])
    PROVE  ResolveInv'
<1> DEFINE s == current[h]
<1>1. /\ log' = [log EXCEPT ![s] = o.log]
      /\ trees' = [trees EXCEPT ![h] = Insert(@, s, o.tree)]
  BY DEF Stored
<1>2. /\ s \in Sessions /\ StoreTypes
      /\ \A g \in Harnesses : HarnessInv(g) /\ HarnessResolves(g)
      /\ \A t \in Sessions : AllResolve(Replay(log[t]))
  BY PcIs DEF TruthInv, ResolveInv
<1>3. /\ log'[s] = o.log
      /\ \A t \in Sessions : t # s => log'[t] = log[t]
  BY <1>1, <1>2 DEF StoreTypes
<1>4. /\ DOMAIN trees'[h] = DOMAIN trees[h] \cup {s} /\ trees'[h][s] = o.tree
      /\ \A t \in DOMAIN trees[h] : t # s => trees'[h][t] = trees[h][t]
  BY <1>1, <1>2 DEF Insert, StoreTypes
<1>5. \A t \in Sessions : AllResolve(Replay(log'[t]))
  <2> HIDE DEF s
  <2> QED
    BY <1>2, <1>3
<1>6. ASSUME NEW g \in Harnesses \ {h} PROVE HarnessResolves(g)'
  <2>1. Unmoved(g) /\ pc[g] # "loaded"
    BY DEF Alone
  <2> QED
    BY <2>1, OthersResolve
<1>7. HarnessResolves(h)'
  <2>1. ASSUME NEW t \in DOMAIN trees'[h] PROVE AllResolve(trees'[h][t])
    <3> HIDE DEF s
    <3> QED
      BY <1>2, <1>4, <2>1 DEF HarnessResolves
  <2>2. TreeOf(h, current[h])' = o.tree
    BY <1>4 DEF TreeOf
  <2> QED
    BY <2>1, <2>2 DEF HarnessResolves
<1> QED
  BY <1>5, <1>6, <1>7 DEF ResolveInv

(* A daemon that stops.                                                     *)
LEMMA StopResolves ==
    ASSUME TruthInv, ResolveInv, HistoryTypes', NEW h \in Harnesses, Stopped(h),
           \A t \in Sessions : AllResolve(Replay(log'[t])),
           \A g \in Harnesses \ {h} : pc[g] # "loaded"
    PROVE  ResolveInv'
<1>1. /\ pc' = [pc EXCEPT ![h] = "off"]
      /\ holds' = [holds EXCEPT ![h] = {}]
      /\ trees' = [trees EXCEPT ![h] = <<>>]
      /\ open' = [open EXCEPT ![h] = {}]
      /\ head' = [head EXCEPT ![h] = [c \in Convs |-> 0]]
      /\ dedup' = [dedup EXCEPT ![h] = [c \in Convs |-> NoMap]]
      /\ current' = [current EXCEPT ![h] = None]
  BY DEF Stopped
<1>2. ASSUME NEW g \in Harnesses \ {h} PROVE HarnessResolves(g)'
  <2>1. Unmoved(g)
    BY <1>1 DEF Unmoved
  <2> QED
    BY <2>1, OthersResolve
<1>3. HarnessResolves(h)'
  <2>1. pc'[h] = "off" /\ trees'[h] = <<>>
    BY <1>1 DEF TruthInv, StoreTypes, LockInv, LockTypes
  <2>2. DOMAIN <<>> = {}
    OBVIOUS
  <2> QED
    BY <2>1, <2>2 DEF HarnessResolves
<1> QED
  BY <1>2, <1>3 DEF ResolveInv

(* A conversation map of a daemon that is bound to a session.               *)
LEMMA BoundFits ==
    ASSUME TruthInv, NEW h \in Harnesses, NEW s, NEW d, NEW tree, Grown(tree), d \in 0..Len(tree.nodes), Bound(h, s, d)
    PROVE  \A c \in open'[h] : MapFits(tree, head'[h][c], dedup'[h][c])
<1>1. open' = [open EXCEPT ![h] = {Default}]
      /\ head' = [head EXCEPT ![h] = [c \in Convs |-> IF c = Default THEN d ELSE 0]]
      /\ dedup' = [dedup EXCEPT ![h] = [c \in Convs |-> NoMap]]
  BY DEF Bound
<1>2. Default \in Convs /\ StoreTypes
  BY DEF Convs, TruthInv
<1>3. open'[h] = {Default} /\ head'[h][Default] = d /\ dedup'[h][Default] = NoMap
  BY <1>1, <1>2 DEF StoreTypes
<1> QED
  BY <1>3, NoMapFits

(* Start keeps the invariant: the maps are to be rebuilt.                   *)
LEMMA StartResolves ==
    ASSUME TruthInv, ResolveInv, HistoryTypes', ~Races, NEW h \in Harnesses, NEW s \in Sessions, Start(h, s)
    PROVE  ResolveInv'
<1> DEFINE read == Replay(log[s])
<1>1. /\ pc[h] = "off" /\ Alone(h)
      /\ pc' = [pc EXCEPT ![h] = "loaded"]
      /\ trees' = [trees EXCEPT ![h] = IF log[s] = <<>> THEN <<>> ELSE Insert(<<>>, s, read)]
      /\ Bound(h, s, read.head)
      /\ UNCHANGED <<log, holds>>
  BY DEF Start
<1>2. current' = [current EXCEPT ![h] = s] /\ AllResolve(read) /\ Grown(read)
  BY <1>1 DEF Bound, ResolveInv, TruthInv, DiskInv, Ordered
<1>3. read.head \in 0..Len(read.nodes)
  BY <1>2, NodesOfGrown
<1>4. ASSUME NEW g \in Harnesses \ {h} PROVE HarnessResolves(g)'
  <2>1. Unmoved(g) /\ pc[g] # "loaded"
    BY <1>1 DEF Unmoved, Alone, Bound
  <2> QED
    BY <2>1, OthersResolve
<1>5. HarnessResolves(h)'
  <2>1. /\ pc'[h] = "loaded" /\ current'[h] = s /\ log' = log
        /\ trees'[h] = IF log[s] = <<>> THEN <<>> ELSE Insert(<<>>, s, read)
    BY <1>1, <1>2 DEF TruthInv, LockInv, LockTypes, StoreTypes
  <2>2. DOMAIN trees'[h] \subseteq {s} /\ (s \in DOMAIN trees'[h] => trees'[h][s] = read)
    <3>1. DOMAIN <<>> = {}
      OBVIOUS
    <3> QED
      BY <2>1, <3>1 DEF Insert
  <2>3. TreeOf(h, current[h])' = read
    BY <2>1, <2>2 DEF TreeOf
  <2>4. \A c \in open'[h] : MapFits(read, head'[h][c], dedup'[h][c])
    <3> HIDE DEF read
    <3> QED
      BY <1>1, <1>2, <1>3, BoundFits
  <2>5. \A t \in DOMAIN trees'[h] : AllResolve(trees'[h][t])
    BY <1>2, <2>2
  <2> HIDE DEF read
  <2> QED
    BY <2>3, <2>4, <2>5 DEF HarnessResolves
<1>6. \A t \in Sessions : AllResolve(Replay(log'[t]))
  BY <1>1 DEF ResolveInv
<1> QED
  BY <1>4, <1>5, <1>6 DEF ResolveInv

(* Sweep keeps the invariant: there is nothing left to resolve.             *)
LEMMA SweepResolves ==
    ASSUME TruthInv, ResolveInv, HistoryTypes', ~Races, NEW h \in Harnesses, NEW s \in Sessions, Sweep(h, s)
    PROVE  ResolveInv'
<1>1. /\ Alone(h) /\ current[h] # s
      /\ log' = [log EXCEPT ![s] = <<>>]
      /\ UNCHANGED <<pc, current, holds, trees, open, head, dedup>>
  BY DEF Sweep, memory
<1>2. log'[s] = <<>> /\ \A t \in Sessions : t # s => log'[t] = log[t]
  BY <1>1 DEF TruthInv, StoreTypes
<1>3. ASSUME NEW t \in Sessions PROVE AllResolve(Replay(log'[t]))
  <2>1. CASE t = s
    BY <1>2, <2>1, NothingResolves
  <2>2. CASE t # s
    BY <1>2, <2>2 DEF ResolveInv
  <2> QED
    BY <2>1, <2>2
<1>4. ASSUME NEW g \in Harnesses PROVE HarnessResolves(g)'
  <2>1. pc[g] = "loaded" => current[g] # s
    BY <1>1 DEF Alone
  <2>2. Unmoved(g)
    BY <1>1 DEF Unmoved
  <2>3. pc[g] = "loaded" => log'[current[g]] = log[current[g]]
    BY <1>2, <2>1, PcIs
  <2> QED
    BY <2>2, <2>3, OthersResolve
<1> QED
  BY <1>3, <1>4 DEF ResolveInv

(* Exit keeps the invariant.                                                *)
LEMMA ExitResolves ==
    ASSUME TruthInv, ResolveInv, HistoryTypes', ~Races, NEW h \in Harnesses, Exit(h)
    PROVE  ResolveInv'
<1>1. Stopped(h) /\ Alone(h) /\ UNCHANGED log
  BY DEF Exit
<1>2. \A t \in Sessions : AllResolve(Replay(log'[t]))
  BY <1>1 DEF ResolveInv
<1>3. \A g \in Harnesses \ {h} : pc[g] # "loaded"
  BY <1>1 DEF Alone
<1> QED
  BY <1>1, <1>2, <1>3, StopResolves

(* What an append of a daemon that is alone does to the log of its session. *)
LEMMA LogResolves ==
    ASSUME TruthInv, ResolveInv, NEW s \in Sessions, NEW r, AllResolve(Replay(r)), log' = [log EXCEPT ![s] = r]
    PROVE  \A t \in Sessions : AllResolve(Replay(log'[t]))
<1>1. log'[s] = r /\ \A t \in Sessions : t # s => log'[t] = log[t]
  BY DEF TruthInv, StoreTypes
<1> QED
  BY <1>1 DEF ResolveInv

(* KilledWriting keeps the invariant: what it writes is no pointer.         *)
LEMMA KilledWritingResolves ==
    ASSUME TruthInv, ResolveInv, HistoryTypes', ~Races, NEW h \in Harnesses, NEW c \in Convs,
           NEW whole \in {"yes", "cut"}, KilledWriting(h, c, whole)
    PROVE  ResolveInv'
<1> DEFINE s == current[h]
           tree == TreeOf(h, s)
           parent == <<head[h][c]>>
           event == Message(said + 1)
           r == RecordOf(tree, parent, event, whole)
           o == [log |-> Append(log[s], r), ok |-> whole = "yes",
                 tree |-> IF whole = "yes" THEN [Apply(tree, parent, event) EXCEPT !.next = @ + 1] ELSE tree]
<1>1. pc[h] = "running" /\ pc[h] # "off" /\ Alone(h)
  BY DEF KilledWriting, Acts
<1>2. /\ s \in Sessions /\ Sound(log[s], tree, said) /\ said \in Nat /\ MaxEvents \in Nat
      /\ \A e \in Convs : ParentIn(tree, <<head[h][e]>>)
  BY <1>1, AtWork
<1>3. Stopped(h) /\ said < MaxEvents /\ log' = [log EXCEPT ![s] = Append(@, r)]
  BY DEF KilledWriting
<1>4. event \in Event /\ event.of = said + 1 /\ event.what # "pointer"
  BY <1>2, EventsAre
<1>5. o.log = Append(log[s], r) /\ Outcome(log[s], tree, parent, event, o)
  BY DEF Outcome
<1> HIDE DEF event
<1>6. AllResolve(tree) /\ AllResolve(Replay(log[s]))
  BY <1>2 DEF ResolveInv, HarnessResolves, TreeOf
<1>7. Takes(log[s], tree, parent, event, o)
  <2>1. said + 1 \in Nat /\ said < said + 1 /\ said + 1 <= MaxEvents /\ ParentIn(tree, parent)
    BY <1>2, <1>3
  <2> HIDE DEF s, tree, o, parent
  <2> QED
    BY <1>2, <1>4, <1>5, <2>1, OutcomeKeeps
<1>8. ParentIn(tree, parent)
  BY <1>2
<1> HIDE DEF o, r, parent
<1>9. AllResolve(Replay(o.log))
  <2> HIDE DEF s, tree
  <2> QED
    BY <1>2, <1>4, <1>6, <1>7, <1>8, AppendResolves
<1>10. \A t \in Sessions : AllResolve(Replay(log'[t]))
  <2>1. log' = [log EXCEPT ![s] = o.log]
    BY <1>3, <1>5
  <2> HIDE DEF s
  <2> QED
    BY <1>2, <1>9, <2>1, LogResolves
<1>11. \A g \in Harnesses \ {h} : pc[g] # "loaded"
  BY <1>1 DEF Alone
<1> QED
  BY <1>3, <1>10, <1>11, StopResolves

-----------------------------------------------------------------------------
(* What a daemon at work knows of its branches; appends that do not fail.   *)
LEMMA AtWorkResolves ==
    ASSUME TruthInv, ResolveInv, NEW h \in Harnesses, pc[h] # "off"
    PROVE  LET s == current[h] IN
           /\ AllResolve(TreeOf(h, s)) /\ AllResolve(Replay(log[s]))
           /\ \A c \in open[h] : c \in Convs /\ MapFits(TreeOf(h, s), head[h][c], dedup[h][c])
<1>1. current[h] \in Sessions
  BY PcIs
<1>2. HarnessResolves(h) /\ AllResolve(Replay(log[current[h]]))
  BY <1>1 DEF ResolveInv
<1>3. AllResolve(TreeOf(h, current[h]))
  BY <1>2 DEF HarnessResolves, TreeOf
<1> QED
  BY <1>2, <1>3 DEF HarnessResolves, TruthInv, StoreTypes

(* Where no append fails, every outcome is a success.                       *)
LEMMA AppendSucceeds ==
    ASSUME Failures = {}, NEW records, NEW tree, NEW parent, NEW event, NEW o \in Appends(records, tree, parent, event)
    PROVE  o.ok /\ "meta" \notin Failures
BY DEF Appends

(* The maps of all conversations still fit after an append.                 *)
LEMMA AppendFits ==
    ASSUME TruthInv, ResolveInv, NEW h \in Harnesses, pc[h] # "off",
           NEW o, NEW n, Grows(log[current[h]], TreeOf(h, current[h]), o, n)
    PROVE  \A c \in open[h] : MapFits(o.tree, head[h][c], dedup[h][c])
<1> DEFINE tree == TreeOf(h, current[h])
<1>1. Grown(tree) /\ \A c \in Convs : head[h][c] \in 0..Len(tree.nodes)
  BY AtWork
<1>2. \A c \in open[h] : c \in Convs /\ MapFits(tree, head[h][c], dedup[h][c])
  BY AtWorkResolves
<1>3. Grown(o.tree) /\ Longer(tree.nodes, o.tree.nodes)
  BY DEF Grows, Sound
<1> HIDE DEF tree
<1> QED
  BY <1>1, <1>2, <1>3, FitsOn

(* publish_for_conversation_from of an event that is no pointer or one to   *)
(* what is on the branch, with a map that is up to date with the branch it  *)
(* makes.                                                                   *)
LEMMA PublishForResolves ==
    ASSUME TruthInv, ResolveInv, HistoryTypes', ~Races, Failures = {}, NEW h \in Harnesses, NEW c \in open[h],
           Acts(h), said < MaxEvents, NEW map \in Maps, NEW event \in Event, event.of = said + 1,
           event.what \in Folding, PublishFor(h, c, map, event), UNCHANGED open,
           event.what = "pointer" => Known(Branch(TreeOf(h, current[h]), head[h][c]), event),
           map.built_for # 0 => Current(Append(Branch(TreeOf(h, current[h]), head[h][c]), event), map.first)
    PROVE  ResolveInv'
<1> DEFINE s == current[h]
           tree == TreeOf(h, s)
           d == head[h][c]
<1>1. pc[h] = "running" /\ pc[h] # "off" /\ Alone(h) /\ MayLock(h, s) /\ s \in holds[h]
  BY PcIs DEF Acts
<1>2. c \in Convs
  BY <1>1, AtWorkResolves
<1>3. /\ s \in Sessions /\ Sound(log[s], tree, said) /\ Grown(tree) /\ Len(tree.nodes) \in Nat
      /\ said \in Nat /\ MaxEvents \in Nat
      /\ ParentIn(tree, <<d>>) /\ d \in 0..Len(tree.nodes)
  BY <1>1, <1>2, AtWork
<1>4. PICK o \in Appends(log[s], tree, <<d>>, event) :
          /\ Committed(h, c, map, event, o)
          /\ Stored(h, o, Tags(o, event.of))
          /\ UNCHANGED <<lock, pc, current, holds>>
  BY DEF PublishFor
<1>5. o.ok /\ "meta" \notin Failures
  BY AppendSucceeds
<1>6. Grows(log[s], tree, o, said + 1) /\ Takes(log[s], tree, <<d>>, event, o)
  <2>1. said + 1 \in Nat /\ said < said + 1 /\ said + 1 <= MaxEvents
    BY <1>3
  <2> HIDE DEF s, tree, d
  <2> QED
    BY <1>3, <1>5, <2>1, AppendKeeps
<1>7. <<d>> # <<>> /\ <<d>>[1] = d
  OBVIOUS
<1>8. AllResolve(o.tree) /\ AllResolve(Replay(o.log))
  <2>1. AllResolve(tree) /\ AllResolve(Replay(log[s]))
    BY <1>1, AtWorkResolves
  <2>2. event.what = "pointer" => <<d>> # <<>> /\ Known(Branch(tree, <<d>>[1]), event)
    BY <1>7
  <2> HIDE DEF s, tree, d
  <2> QED
    BY <1>3, <1>6, <2>1, <2>2, AppendResolves
<1> DEFINE n == Len(o.tree.nodes)
           kept == Apply(tree, <<d>>, event)
<1>9. Branch(o.tree, n) = Append(Branch(tree, d), event) /\ n \in Nat /\ n # 0
  <2>1. /\ Grown(kept) /\ Len(kept.nodes) = Len(tree.nodes) + 1
    BY <1>3, ApplyFolds
  <2>2. o.tree.nodes = kept.nodes
    BY <1>5, <1>6 DEF Takes
  <2>3. Branch(o.tree, n) = Branch(kept, n)
    <3> HIDE DEF kept, n
    <3> QED
      BY <2>2, BranchOfNodes
  <2>4. Under(tree, <<d>>) = d
    BY <1>7 DEF Under
  <2>5. Branch(kept, Len(tree.nodes) + 1) = Append(Branch(tree, d), event)
    <3> HIDE DEF tree, d
    <3> QED
      BY <1>3, <2>4, BranchGrows
  <2>6. n = Len(tree.nodes) + 1
    BY <2>1, <2>2
  <2> HIDE DEF kept, n, tree, d
  <2> QED
    BY <1>3, <2>3, <2>5, <2>6
<1>10. /\ head' = [head EXCEPT ![h][c] = n]
       /\ dedup' = [dedup EXCEPT ![h][c] = Advanced(map, n)]
       /\ StoreTypes
  BY <1>4, <1>5 DEF Committed, TruthInv
<1>11. MapFits(o.tree, n, Advanced(map, n))
  <2>1. /\ Advanced(map, n).first = map.first
        /\ Advanced(map, n).built_for = IF map.built_for = 0 THEN 0 ELSE n
    BY <1>9, AdvancedIs
  <2>2. map.built_for # 0 => Current(Branch(o.tree, n), map.first)
    BY <1>9
  <2> HIDE DEF n
  <2> QED
    BY <1>9, <2>1, <2>2 DEF MapFits
<1>12. ASSUME NEW e \in open'[h] PROVE MapFits(o.tree, head'[h][e], dedup'[h][e])
  <2>1. e \in open[h] /\ e \in Convs
    BY <1>1, AtWorkResolves
  <2>2. CASE e = c
    <3>1. head'[h][e] = n /\ dedup'[h][e] = Advanced(map, n)
      BY <1>2, <1>10, <2>2 DEF StoreTypes
    <3> HIDE DEF n
    <3> QED
      BY <1>11, <3>1
  <2>3. CASE e # c
    <3>1. head'[h][e] = head[h][e] /\ dedup'[h][e] = dedup[h][e]
      BY <1>2, <1>10, <2>1, <2>3 DEF StoreTypes
    <3>2. MapFits(o.tree, head[h][e], dedup[h][e])
      BY <1>1, <1>6, <2>1, AppendFits
    <3> QED
      BY <3>1, <3>2
  <2> QED
    BY <2>2, <2>3
<1>13. \A g \in Harnesses \ {h} : Unmoved(g)
  BY <1>4, <1>10 DEF Unmoved, Stored
<1>14. pc'[h] = "running" /\ current'[h] = s
  BY <1>1, <1>4
<1> DEFINE tags == Tags(o, event.of)
<1>15. Stored(h, o, tags)
  BY <1>4
<1> HIDE DEF s, tree, d, n, kept, tags
<1> QED
  BY <1>1, <1>8, <1>12, <1>13, <1>14, <1>15, PublishResolves DEF s

(* Say keeps the invariant: a message enters no map.                        *)
LEMMA SayResolves ==
    ASSUME TruthInv, ResolveInv, HistoryTypes', ~Races, Failures = {}, NEW h \in Harnesses, NEW c \in Convs, Say(h, c)
    PROVE  ResolveInv'
<1> DEFINE event == Message(said + 1)
           b == Branch(TreeOf(h, current[h]), head[h][c])
           map == dedup[h][c]
<1>1. /\ Acts(h) /\ pc[h] # "off" /\ c \in open[h] /\ said < MaxEvents
      /\ PublishFor(h, c, map, event) /\ UNCHANGED open
  BY DEF Say, Acts
<1>2. said + 1 \in Nat /\ map \in Maps
  BY SessionStoreAssumption DEF TruthInv, StoreTypes
<1>3. event \in Event /\ event.of = said + 1 /\ event.what = "message"
  BY <1>2, EventsAre
<1>4. event.what \in Folding /\ event.what # "pointer" /\ ~IsFull(event)
  BY <1>3 DEF Folding, IsFull
<1>5. map.built_for # 0 => Current(Append(b, event), map.first)
  <2>1. MapFits(TreeOf(h, current[h]), head[h][c], map)
    BY <1>1, AtWorkResolves
  <2>2. map.built_for # 0 => Current(b, map.first)
    BY <2>1 DEF MapFits
  <2>3. b \in Seq(Event)
    <3>1. Grown(TreeOf(h, current[h])) /\ head[h][c] \in 0..Len(TreeOf(h, current[h]).nodes)
      BY <1>1, AtWork
    <3> QED
      BY <3>1, BranchType
  <2> HIDE DEF b, event, map
  <2> QED
    BY <1>3, <1>4, <2>2, <2>3, CurrentOn
<1> HIDE DEF event, map
<1> QED
  BY <1>1, <1>2, <1>3, <1>4, <1>5, PublishForResolves

(* ToolResult keeps the invariant: the map it takes the result against is   *)
(* up to date, by a rebuild if need be, and what it makes of the result     *)
(* fits.                                                                    *)
LEMMA ToolResultResolves ==
    ASSUME TruthInv, ResolveInv, HistoryTypes', ~Races, Failures = {}, NEW h \in Harnesses, NEW c \in Convs,
           NEW x \in Contents, ToolResult(h, c, x)
    PROVE  ResolveInv'
<1> DEFINE taken == Intake(Built(h, c), said + 1, x)
           tree == TreeOf(h, current[h])
           d == head[h][c]
           b == Branch(tree, d)
           built == Built(h, c)
<1>1. /\ Acts(h) /\ pc[h] = "running" /\ pc[h] # "off" /\ c \in open[h] /\ said < MaxEvents
      /\ PublishFor(h, c, taken.map, taken.event) /\ UNCHANGED open
  BY DEF ToolResult, Acts
<1>2. said + 1 \in Nat /\ dedup[h][c] \in Maps /\ built \in Maps
  BY <1>1, BuiltIsAMap, SessionStoreAssumption DEF TruthInv, StoreTypes
<1>3. /\ taken.map \in Maps
      /\ taken.event \in Event /\ taken.event.of = said + 1 /\ taken.event.what \in {"result", "pointer"}
  BY <1>2, IntakeIs
<1>4. taken.event.what \in Folding
  BY <1>3 DEF Folding
<1>5. b \in Seq(Event) /\ d \in Nat
  <2>1. Grown(tree) /\ d \in 0..Len(tree.nodes)
    BY <1>1, AtWork
  <2> QED
    BY <2>1, BranchType
<1>6. Current(b, built.first)
  <2>1. MapFits(tree, d, dedup[h][c])
    BY <1>1, AtWorkResolves
  <2>2. CASE dedup[h][c].built_for = d
    <3>1. built = dedup[h][c]
      BY <2>2 DEF Built
    <3> QED
      BY <2>1, <2>2, <3>1 DEF MapFits
  <2>3. CASE dedup[h][c].built_for # d
    <3>1. built = Rebuilt(b, d)
      <4>1. tree = trees[h][current[h]]
        BY <1>1, PcIs DEF TreeOf
      <4> QED
        BY <2>3, <4>1 DEF Built
    <3> HIDE DEF b, d, built
    <3> QED
      BY <1>5, <3>1, CurrentIsRebuilt
  <2> QED
    BY <2>2, <2>3
<1>7. /\ Current(Append(b, taken.event), taken.map.first)
      /\ taken.event.what = "pointer" => Known(b, taken.event)
  <2> HIDE DEF b, built
  <2>1. LET t == Intake(built, said + 1, x) IN
        /\ Current(Append(b, t.event), t.map.first)
        /\ t.event.what = "pointer" => Known(b, t.event)
    BY <1>2, <1>5, <1>6, IntakeResolves
  <2> QED
    BY <2>1 DEF built
<1> HIDE DEF taken
<1> DEFINE event == taken.event
           map == taken.map
<1>8. /\ PublishFor(h, c, map, event) /\ map \in Maps /\ event \in Event /\ event.of = said + 1
      /\ event.what \in Folding
      /\ event.what = "pointer" => Known(Branch(TreeOf(h, current[h]), head[h][c]), event)
      /\ map.built_for # 0 => Current(Append(Branch(TreeOf(h, current[h]), head[h][c]), event), map.first)
  BY <1>1, <1>3, <1>4, <1>7
<1> HIDE DEF event, map
<1> QED
  BY <1>1, <1>8, PublishForResolves

(* Ask keeps the invariant: the map of a new conversation is to be rebuilt. *)
LEMMA AskResolves ==
    ASSUME TruthInv, ResolveInv, HistoryTypes', ~Races, Failures = {}, NEW h \in Harnesses, NEW q \in Sides, Ask(h, q)
    PROVE  ResolveInv'
<1> DEFINE s == current[h]
           tree == TreeOf(h, s)
           event == Message(said + 1)
           from == IF q \in Delegates THEN 0 ELSE head[h][Default]
<1>1. pc[h] = "running" /\ pc[h] # "off" /\ Alone(h) /\ MayLock(h, s) /\ said < MaxEvents
  BY PcIs DEF Ask, Acts
<1>2. Default \in Convs /\ q \in Convs
  BY DEF Convs, Sides
<1>3. /\ s \in Sessions /\ Sound(log[s], tree, said) /\ Grown(tree)
      /\ said \in Nat /\ MaxEvents \in Nat /\ ParentIn(tree, <<from>>)
  BY <1>1, <1>2, AtWork
<1>4. PICK o \in Appends(log[s], tree, <<from>>, event) :
          /\ head' = [head EXCEPT ![h][q] = IF o.ok THEN Len(o.tree.nodes) ELSE from]
          /\ dedup' = [dedup EXCEPT ![h][q] = NoMap]
          /\ Stored(h, o, Tags(o, event.of))
  BY DEF Ask
<1>5. open' = [open EXCEPT ![h] = @ \cup {q}] /\ UNCHANGED <<lock, pc, current, holds>>
  BY DEF Ask
<1>6. o.ok /\ "meta" \notin Failures
  BY AppendSucceeds
<1>7. event \in Event /\ event.of = said + 1 /\ event.what # "pointer"
  BY <1>3, EventsAre
<1> HIDE DEF event
<1>8. Grows(log[s], tree, o, said + 1) /\ Takes(log[s], tree, <<from>>, event, o)
  <2>1. said + 1 \in Nat /\ said < said + 1 /\ said + 1 <= MaxEvents
    BY <1>1, <1>3
  <2> HIDE DEF s, tree, from
  <2> QED
    BY <1>3, <1>6, <1>7, <2>1, AppendKeeps
<1>9. AllResolve(o.tree) /\ AllResolve(Replay(o.log))
  <2>1. AllResolve(tree) /\ AllResolve(Replay(log[s]))
    BY <1>1, AtWorkResolves
  <2> HIDE DEF s, tree, from
  <2> QED
    BY <1>3, <1>7, <1>8, <2>1, AppendResolves
<1> DEFINE n == Len(o.tree.nodes)
<1>10. StoreTypes /\ Grown(o.tree) /\ n \in 0..n
  BY <1>8, NodesOfGrown DEF TruthInv, Grows, Sound
<1>11. ASSUME NEW e \in open'[h] PROVE MapFits(o.tree, head'[h][e], dedup'[h][e])
  <2>1. CASE e = q
    <3>1. head'[h][e] = n /\ dedup'[h][e] = NoMap
      BY <1>2, <1>4, <1>6, <1>10, <2>1 DEF StoreTypes
    <3>2. MapFits(o.tree, n, NoMap)
      BY <1>10, NoMapFits
    <3> QED
      BY <3>1, <3>2
  <2>2. CASE e # q
    <3>1. e \in open[h] /\ e \in Convs
      BY <1>5, <1>10, <2>2 DEF StoreTypes
    <3>2. head'[h][e] = head[h][e] /\ dedup'[h][e] = dedup[h][e]
      BY <1>2, <1>4, <1>10, <2>2, <3>1 DEF StoreTypes
    <3>3. MapFits(o.tree, head[h][e], dedup[h][e])
      BY <1>1, <1>8, <3>1, AppendFits
    <3> QED
      BY <3>2, <3>3
  <2> QED
    BY <2>1, <2>2
<1>12. \A g \in Harnesses \ {h} : Unmoved(g)
  BY <1>4, <1>5 DEF Unmoved, Stored
<1>13. pc'[h] = "running" /\ current'[h] = s
  BY <1>1, <1>5
<1> DEFINE tags == Tags(o, event.of)
<1>14. Stored(h, o, tags)
  BY <1>4
<1> HIDE DEF s, tree, from, n, tags
<1> QED
  BY <1>1, <1>9, <1>11, <1>12, <1>13, <1>14, PublishResolves DEF s

(* Navigate keeps the invariant: no conversation moves.                     *)
LEMMA NavigateResolves ==
    ASSUME TruthInv, ResolveInv, HistoryTypes', ~Races, Failures = {}, NEW h \in Harnesses,
           NEW node \in 1..MaxEvents, Navigate(h, node)
    PROVE  ResolveInv'
<1> DEFINE s == current[h]
           tree == TreeOf(h, s)
           event == NavigateTo(said + 1, node)
<1>1. pc[h] = "running" /\ pc[h] # "off" /\ Alone(h) /\ MayLock(h, s) /\ said < MaxEvents
  BY PcIs DEF Navigate, Acts
<1>2. /\ s \in Sessions /\ Sound(log[s], tree, said) /\ Grown(tree)
      /\ said \in Nat /\ MaxEvents \in Nat /\ ParentIn(tree, <<>>)
  BY <1>1, AtWork
<1>3. PICK o \in Appends(log[s], tree, <<>>, event) : Stored(h, o, Tags(o, event.of))
  BY DEF Navigate
<1>4. UNCHANGED <<lock, pc, current, holds, open, head, dedup>>
  BY DEF Navigate
<1>5. "meta" \notin Failures
  OBVIOUS
<1>6. event \in Event /\ event.of = said + 1 /\ event.what # "pointer"
  <2>1. said + 1 \in Nat /\ node \in Nat
    BY <1>2
  <2> QED
    BY <2>1, EventsAre
<1> HIDE DEF event
<1>7. Grows(log[s], tree, o, said + 1) /\ Takes(log[s], tree, <<>>, event, o)
  <2>1. said + 1 \in Nat /\ said < said + 1 /\ said + 1 <= MaxEvents
    BY <1>1, <1>2
  <2> HIDE DEF s, tree
  <2> QED
    BY <1>2, <1>5, <1>6, <2>1, AppendKeeps
<1>8. AllResolve(o.tree) /\ AllResolve(Replay(o.log))
  <2>1. AllResolve(tree) /\ AllResolve(Replay(log[s]))
    BY <1>1, AtWorkResolves
  <2> HIDE DEF s, tree
  <2> QED
    BY <1>2, <1>6, <1>7, <2>1, AppendResolves
<1>9. \A c \in open'[h] : MapFits(o.tree, head'[h][c], dedup'[h][c])
  <2>1. \A c \in open[h] : MapFits(o.tree, head[h][c], dedup[h][c])
    BY <1>1, <1>7, AppendFits
  <2> QED
    BY <1>4, <2>1
<1>10. \A g \in Harnesses \ {h} : Unmoved(g)
  BY <1>3, <1>4 DEF Unmoved, Stored
<1>11. pc'[h] = "running" /\ current'[h] = s
  BY <1>1, <1>4
<1> DEFINE tags == Tags(o, event.of)
<1>12. Stored(h, o, tags)
  BY <1>3
<1> HIDE DEF s, tree, tags
<1> QED
  BY <1>1, <1>8, <1>9, <1>10, <1>11, <1>12, PublishResolves DEF s

-----------------------------------------------------------------------------
(* A longer log under the same conversations.                               *)
LEMMA AnswerQueryResolves ==
    ASSUME TruthInv, ResolveInv, HistoryTypes', ~Races, Failures = {}, NEW h \in Harnesses, NEW q \in Sides,
           NEW has_text \in BOOLEAN, AnswerQuery(h, q, has_text)
    PROVE  ResolveInv'
<1> DEFINE s == current[h]
           tree == TreeOf(h, s)
           answer == IF has_text THEN Message(said + 1) ELSE Note(said + 1)
           snap == NavigateTo(said + 2, head[h][Default])
<1>1. pc[h] = "running" /\ pc[h] # "off" /\ Alone(h) /\ MayLock(h, s) /\ "meta" \notin Failures
  BY PcIs DEF AnswerQuery, Acts
<1>2. /\ s \in Sessions /\ Sound(log[s], tree, said) /\ Grown(tree)
      /\ said \in Nat /\ MaxEvents \in Nat /\ Default \in Convs
      /\ \A e \in Convs : ParentIn(tree, <<head[h][e]>>) /\ head[h][e] \in 0..Len(tree.nodes)
  BY <1>1, AtWork DEF Convs
<1>3. PICK o \in Appends(log[s], tree, <<head[h][q]>>, answer) :
          IF Snaps(h, o.tree)
          THEN \E p \in Appends(o.log, o.tree, <<>>, snap) :
                  Stored(h, p, Tags(o, answer.of) \cup Tags(p, snap.of))
          ELSE Stored(h, o, Tags(o, answer.of))
  BY DEF AnswerQuery
<1>4. /\ said + 1 < MaxEvents /\ q \in Convs
      /\ open' = [open EXCEPT ![h] = @ \ {q}]
      /\ head' = [head EXCEPT ![h][q] = 0]
      /\ dedup' = [dedup EXCEPT ![h][q] = NoMap]
      /\ UNCHANGED <<lock, pc, current, holds>>
  BY DEF AnswerQuery, Convs, Sides
<1>5. /\ answer \in Event /\ answer.of = said + 1 /\ answer.what # "pointer"
      /\ snap \in Event /\ snap.of = said + 2 /\ snap.what = "navigate"
      /\ said + 1 \in Nat /\ said + 2 \in Nat /\ said < said + 1 /\ said + 1 < said + 2
      /\ said + 1 <= MaxEvents /\ said + 2 <= MaxEvents
  <2>1. said + 1 \in Nat /\ said + 2 \in Nat
    BY <1>2
  <2>2. head[h][Default] \in Nat
    BY <1>2 DEF TruthInv, StoreTypes
  <2> QED
    BY <1>2, <1>4, <2>1, <2>2, EventsAre
<1> HIDE DEF answer, snap
<1>6. Grows(log[s], tree, o, said + 1) /\ Takes(log[s], tree, <<head[h][q]>>, answer, o)
  <2>1. ParentIn(tree, <<head[h][q]>>)
    BY <1>2, <1>4
  <2> HIDE DEF s, tree
  <2> QED
    BY <1>1, <1>2, <1>5, <2>1, AppendKeeps
<1>7. AllResolve(o.tree) /\ AllResolve(Replay(o.log))
  <2>1. AllResolve(tree) /\ AllResolve(Replay(log[s]))
    BY <1>1, AtWorkResolves
  <2>2. ParentIn(tree, <<head[h][q]>>)
    BY <1>2, <1>4
  <2> HIDE DEF s, tree
  <2> QED
    BY <1>2, <1>5, <1>6, <2>1, <2>2, AppendResolves
<1>8. ASSUME NEW r, NEW tags, Stored(h, r, tags), Grows(log[s], tree, r, said + 1) \/ Grows(log[s], tree, r, said + 2),
             AllResolve(r.tree), AllResolve(Replay(r.log))
      PROVE  ResolveInv'
  <2>1. ASSUME NEW e \in open'[h] PROVE MapFits(r.tree, head'[h][e], dedup'[h][e])
    <3>1. e \in open[h] /\ e # q /\ e \in Convs
      BY <1>4 DEF TruthInv, StoreTypes
    <3>2. head'[h][e] = head[h][e] /\ dedup'[h][e] = dedup[h][e]
      BY <1>4, <3>1 DEF TruthInv, StoreTypes
    <3>3. MapFits(r.tree, head[h][e], dedup[h][e])
      BY <1>1, <1>8, <3>1, AppendFits
    <3> QED
      BY <3>2, <3>3
  <2>2. \A g \in Harnesses \ {h} : Unmoved(g)
    BY <1>4, <1>8 DEF Unmoved, Stored
  <2>3. pc'[h] = "running" /\ current'[h] = current[h]
    BY <1>1, <1>4
  <2> HIDE DEF tree
  <2> QED
    BY <1>1, <1>8, <2>1, <2>2, <2>3, PublishResolves DEF s
<1>9. CASE ~Snaps(h, o.tree)
  <2> DEFINE tags == Tags(o, answer.of)
  <2>1. Stored(h, o, tags)
    BY <1>3, <1>9
  <2> HIDE DEF tags, s, tree
  <2> QED
    BY <1>6, <1>7, <1>8, <2>1
<1>10. CASE Snaps(h, o.tree)
  <2>1. PICK p \in Appends(o.log, o.tree, <<>>, snap) :
            Stored(h, p, Tags(o, answer.of) \cup Tags(p, snap.of))
    BY <1>3, <1>10
  <2> DEFINE tags == Tags(o, answer.of) \cup Tags(p, snap.of)
  <2>2. Sound(o.log, o.tree, said + 1) /\ ParentIn(o.tree, <<>>)
    BY <1>6 DEF Grows, ParentIn
  <2>3. Grows(o.log, o.tree, p, said + 2) /\ Takes(o.log, o.tree, <<>>, snap, p)
    BY <1>1, <1>5, <2>2, AppendKeeps
  <2>4. AllResolve(p.tree) /\ AllResolve(Replay(p.log))
    BY <1>5, <1>7, <2>2, <2>3, AppendResolves
  <2>5. Grows(log[s], tree, p, said + 2)
    <3>1. Len(log[s]) \in Nat /\ Len(tree.nodes) \in Nat
      BY <1>2, NodesOfGrown DEF Sound, Ordered
    <3> HIDE DEF s, tree
    <3> QED
      BY <1>6, <2>3, <3>1, GrowsOn
  <2>6. Stored(h, p, tags)
    BY <2>1
  <2> HIDE DEF tags, s, tree
  <2> QED
    BY <1>8, <2>4, <2>5, <2>6
<1> QED
  BY <1>9, <1>10

(* Lock keeps the invariant.                                                *)
LEMMA LockResolves ==
    ASSUME TruthInv, ResolveInv, HistoryTypes', ~Races, Failures = {}, NEW h \in Harnesses, Lock(h)
    PROVE  ResolveInv'
<1> DEFINE s == current[h]
           tree == TreeOf(h, s)
           started == Note(said + 1)
<1>1. pc[h] = "loaded" /\ pc[h] # "off" /\ Alone(h) /\ said < MaxEvents /\ "meta" \notin Failures
  BY DEF Lock
<1>2. /\ s \in Sessions /\ Sound(log[s], tree, said) /\ Grown(tree)
      /\ said \in Nat /\ MaxEvents \in Nat /\ ParentIn(tree, <<>>)
  BY <1>1, AtWork
<1>3. CASE MayLock(h, s)
  <2>1. PICK o \in Appends(log[s], tree, <<>>, started) : Stored(h, o, Tags(o, started.of))
    BY <1>3 DEF Lock
  <2>2. /\ TakeLock(h, s) /\ pc' = [pc EXCEPT ![h] = "running"]
        /\ UNCHANGED <<current, open, head, dedup>>
    BY <1>3 DEF Lock
  <2>3. started \in Event /\ started.of = said + 1 /\ started.what # "pointer"
    BY <1>2, EventsAre
  <2> HIDE DEF started
  <2>4. Grows(log[s], tree, o, said + 1) /\ Takes(log[s], tree, <<>>, started, o)
    <3>1. said + 1 \in Nat /\ said < said + 1 /\ said + 1 <= MaxEvents
      BY <1>1, <1>2
    <3> HIDE DEF s, tree
    <3> QED
      BY <1>1, <1>2, <2>3, <3>1, AppendKeeps
  <2>5. AllResolve(o.tree) /\ AllResolve(Replay(o.log))
    <3>1. AllResolve(tree) /\ AllResolve(Replay(log[s]))
      BY <1>1, AtWorkResolves
    <3> HIDE DEF s, tree
    <3> QED
      BY <1>2, <2>3, <2>4, <3>1, AppendResolves
  <2>6. \A c \in open'[h] : MapFits(o.tree, head'[h][c], dedup'[h][c])
    <3>1. \A c \in open[h] : MapFits(o.tree, head[h][c], dedup[h][c])
      BY <1>1, <2>4, AppendFits
    <3> QED
      BY <2>2, <3>1
  <2>7. pc'[h] = "running" /\ current'[h] = s
    BY <2>2 DEF TruthInv, LockInv, LockTypes
  <2>8. \A g \in Harnesses \ {h} : Unmoved(g)
    BY <2>1, <2>2 DEF Unmoved, Stored, TakeLock
  <2> DEFINE tags == Tags(o, started.of)
  <2>9. Stored(h, o, tags)
    BY <2>1
  <2> HIDE DEF s, tree, tags
  <2> QED
    BY <1>1, <1>3, <2>5, <2>6, <2>7, <2>8, <2>9, PublishResolves DEF s
<1>4. CASE ~MayLock(h, s)
  <2>1. Stopped(h) /\ UNCHANGED log
    BY <1>4 DEF Lock
  <2>2. \A t \in Sessions : AllResolve(Replay(log'[t]))
    BY <2>1 DEF ResolveInv
  <2>3. \A g \in Harnesses \ {h} : pc[g] # "loaded"
    BY <1>1 DEF Alone
  <2> QED
    BY <2>1, <2>2, <2>3, StopResolves
<1> QED
  BY <1>3, <1>4

-----------------------------------------------------------------------------
(* A session that a daemon leaves and the one it goes to, where it is told    *)
(* nothing but that it ends and starts.                                     *)
LEMMA SwitchAwayResolves ==
    ASSUME TruthInv, ResolveInv, HistoryTypes', ~Races, NEW h \in Harnesses, Acts(h),
           NEW s \in Sessions, s # current[h], MayLock(h, s), TakeLock(h, s), UNCHANGED pc,
           NEW o, Same(log[current[h]], TreeOf(h, current[h]), o.log, o.tree),
           NEW q, Same(log[s], TreeOf(h, s), q.log, q.tree), Grown(q.tree),
           log' = [log EXCEPT ![s] = q.log, ![current[h]] = o.log],
           trees' = [trees EXCEPT ![h] = Insert(Insert(@, s, q.tree), current[h], o.tree)],
           NEW d \in 0..Len(q.tree.nodes), Bound(h, s, d)
    PROVE  ResolveInv'
<1> DEFINE old == current[h]
<1>1. /\ pc[h] = "running" /\ pc[h] # "off" /\ Alone(h) /\ old \in Sessions
      /\ old \in DOMAIN trees[h] /\ TreeOf(h, old) = trees[h][old]
  BY PcIs DEF Acts, TreeOf
<1>2. /\ StoreTypes /\ LockTypes
      /\ \A g \in Harnesses : HarnessResolves(g)
      /\ \A t \in Sessions : AllResolve(Replay(log[t]))
  BY DEF TruthInv, ResolveInv, LockInv
<1>3. current' = [current EXCEPT ![h] = s] /\ pc' = pc
  BY DEF Bound
<1>4. /\ log'[s] = q.log /\ log'[old] = o.log
      /\ \A t \in Sessions : t # s /\ t # old => log'[t] = log[t]
  BY <1>1, <1>2 DEF StoreTypes
<1>5. /\ q.tree.nodes = TreeOf(h, s).nodes /\ Replay(q.log).nodes = Replay(log[s]).nodes
      /\ o.tree.nodes = TreeOf(h, old).nodes /\ Replay(o.log).nodes = Replay(log[old]).nodes
  BY DEF Same
<1>6. AllResolve(TreeOf(h, s)) /\ AllResolve(TreeOf(h, old))
  BY <1>1, <1>2 DEF HarnessResolves, TreeOf
<1>7. AllResolve(q.tree) /\ AllResolve(o.tree)
  <2> HIDE DEF old
  <2> QED
    BY <1>5, <1>6, StillResolve
<1>8. ASSUME NEW t \in Sessions PROVE AllResolve(Replay(log'[t]))
  <2>1. CASE t = s
    <3>1. AllResolve(Replay(log[s]))
      BY <1>2
    <3>2. AllResolve(Replay(q.log))
      BY <1>5, <3>1, StillResolve
    <3> QED
      BY <1>4, <2>1, <3>2
  <2>2. CASE t = old
    <3>1. AllResolve(Replay(log[old]))
      BY <1>1, <1>2
    <3> HIDE DEF old
    <3>2. AllResolve(Replay(o.log))
      BY <1>5, <3>1, StillResolve
    <3> QED
      BY <1>4, <2>2, <3>2
  <2>3. CASE t # s /\ t # old
    BY <1>2, <1>4, <2>3
  <2> QED
    BY <2>1, <2>2, <2>3
<1>9. ASSUME NEW g \in Harnesses \ {h} PROVE HarnessResolves(g)'
  <2>1. Unmoved(g) /\ pc[g] # "loaded"
    BY <1>1 DEF Unmoved, TakeLock, Bound, Alone
  <2> QED
    BY <2>1, OthersResolve
<1>10. HarnessResolves(h)'
  <2>1. pc'[h] = "running" /\ current'[h] = s
    BY <1>1, <1>2, <1>3 DEF LockTypes, StoreTypes
  <2>2. /\ DOMAIN trees'[h] = DOMAIN trees[h] \cup {s} \cup {old}
        /\ trees'[h][s] = q.tree /\ trees'[h][old] = o.tree
        /\ \A t \in DOMAIN trees[h] : t # s /\ t # old => trees'[h][t] = trees[h][t]
    <3>1. trees'[h] = Insert(Insert(trees[h], s, q.tree), old, o.tree)
      BY <1>2 DEF StoreTypes
    <3> QED
      BY <3>1 DEF Insert
  <2>3. ASSUME NEW t \in DOMAIN trees'[h] PROVE AllResolve(trees'[h][t])
    <3> HIDE DEF old
    <3>1. CASE t = s
      BY <1>7, <2>2, <3>1
    <3>2. CASE t = old
      BY <1>7, <2>2, <3>2
    <3>3. CASE t # s /\ t # old
      BY <1>2, <2>2, <2>3, <3>3 DEF HarnessResolves
    <3> QED
      BY <3>1, <3>2, <3>3
  <2>4. TreeOf(h, current[h])' = q.tree
    BY <2>1, <2>2 DEF TreeOf
  <2>5. \A c \in open'[h] : MapFits(q.tree, head'[h][c], dedup'[h][c])
    BY BoundFits
  <2> QED
    BY <2>3, <2>4, <2>5 DEF HarnessResolves
<1> QED
  BY <1>8, <1>9, <1>10 DEF ResolveInv

(* A daemon that stays in its session.                                      *)
LEMMA SwitchBackResolves ==
    ASSUME TruthInv, ResolveInv, HistoryTypes', ~Races, NEW h \in Harnesses, Acts(h),
           NEW o, NEW tags, Same(log[current[h]], TreeOf(h, current[h]), o.log, o.tree), Grown(o.tree),
           Stored(h, o, tags), UNCHANGED <<pc, holds>>,
           \/ UNCHANGED <<current, open, head, dedup>>
           \/ Bound(h, current[h], 0)
    PROVE  ResolveInv'
<1> DEFINE s == current[h]
           tree == TreeOf(h, s)
<1>1. pc[h] = "running" /\ pc[h] # "off" /\ Alone(h) /\ MayLock(h, s) /\ s \in Sessions
  BY PcIs DEF Acts
<1>2. AllResolve(o.tree) /\ AllResolve(Replay(o.log))
  <2>1. AllResolve(tree) /\ AllResolve(Replay(log[s]))
    BY <1>1, AtWorkResolves
  <2>2. o.tree.nodes = tree.nodes /\ Replay(o.log).nodes = Replay(log[s]).nodes
    BY DEF Same
  <2> HIDE DEF s, tree
  <2> QED
    BY <2>1, <2>2, StillResolve
<1>3. \A c \in open'[h] : MapFits(o.tree, head'[h][c], dedup'[h][c])
  <2>1. CASE UNCHANGED <<current, open, head, dedup>>
    <3>1. \A n : Branch(tree, n) = Branch(o.tree, n)
      <4>1. o.tree.nodes = tree.nodes
        BY DEF Same
      <4> HIDE DEF tree
      <4> QED
        BY <4>1, BranchOfNodes
    <3>2. \A c \in open[h] : MapFits(tree, head[h][c], dedup[h][c])
      BY <1>1, AtWorkResolves
    <3> HIDE DEF tree
    <3> QED
      BY <2>1, <3>1, <3>2 DEF MapFits
  <2>2. CASE Bound(h, s, 0)
    <3>1. 0 \in 0..Len(o.tree.nodes)
      BY NodesOfGrown
    <3> QED
      BY <2>2, <3>1, BoundFits
  <2> QED
    BY <2>1, <2>2
<1>4. pc'[h] = "running" /\ current'[h] = s
  BY <1>1 DEF Bound, TruthInv, StoreTypes, LockInv, LockTypes
<1>5. ASSUME NEW g \in Harnesses \ {h} PROVE Unmoved(g)
  <2>1. pc'[g] = pc[g] /\ holds'[g] = holds[g]
    OBVIOUS
  <2>2. trees'[g] = trees[g]
    BY DEF Stored
  <2>3. current'[g] = current[g] /\ open'[g] = open[g] /\ head'[g] = head[g] /\ dedup'[g] = dedup[g]
    <3>1. CASE UNCHANGED <<current, open, head, dedup>>
      BY <3>1
    <3>2. CASE Bound(h, s, 0)
      BY <3>2 DEF Bound
    <3> QED
      BY <3>1, <3>2
  <2> QED
    BY <2>1, <2>2, <2>3 DEF Unmoved
<1> QED
  BY <1>1, <1>2, <1>3, <1>4, <1>5, PublishResolves

(* Switch keeps the invariant, whichever of its four ways it goes: where    *)
(* the daemon goes to another branch the map is to be rebuilt.              *)
LEMMA SwitchResolves ==
    ASSUME TruthInv, ResolveInv, HistoryTypes', ~Races, Failures = {},
           NEW h \in Harnesses, NEW s \in Sessions,
           NEW reason \in {"new", "resume"}, Switch(h, s, reason)
    PROVE  ResolveInv'
<1> DEFINE old == current[h]
           begins == reason = "new" \/ s # old
           before(t) == {[log |-> log[t], tree |-> TreeOf(h, t), ok |-> TRUE]}
<1>1. /\ Acts(h) /\ pc[h] = "running" /\ pc[h] # "off" /\ Alone(h) /\ old \in Sessions
      /\ MayLock(h, old) /\ "meta" \notin Failures
  BY PcIs DEF Acts, Switch
<1>2. said \in Nat /\ MaxEvents \in Nat /\ said < MaxEvents /\ (begins => said + 2 < MaxEvents)
  <2>1. said \in Nat /\ MaxEvents \in Nat
    BY SessionStoreAssumption DEF TruthInv, StoreTypes
  <2>2. (IF begins THEN said + 2 ELSE said) < MaxEvents
    BY DEF Switch
  <2> HIDE DEF begins
  <2> QED
    BY <2>1, <2>2
<1>3. \A t \in Sessions : Sound(log[t], TreeOf(h, t), said)
  BY TreeIsSound
<1>4. ASSUME NEW t \in Sessions, NEW n \in Nat, said < n, n <= MaxEvents, NEW p \in Notes(before(t), n)
      PROVE  Sound(p.log, p.tree, n) /\ Same(log[t], TreeOf(h, t), p.log, p.tree)
  <2> DEFINE first == [log |-> log[t], tree |-> TreeOf(h, t), ok |-> TRUE]
  <2>1. first.log = log[t] /\ first.tree = TreeOf(h, t) /\ p \in Notes({first}, n)
    BY <1>4
  <2> HIDE DEF first
  <2>2. Sound(first.log, first.tree, said)
    BY <1>3, <2>1
  <2>3. Sound(p.log, p.tree, n) /\ Same(first.log, first.tree, p.log, p.tree)
    BY <1>1, <1>2, <1>4, <2>1, <2>2, NotesTake
  <2> QED
    BY <2>1, <2>3
<1>5. /\ said + 1 \in Nat /\ said + 2 \in Nat /\ said + 3 \in Nat /\ said < said + 1 /\ said + 1 <= MaxEvents
      /\ said + 1 < said + 2 /\ said + 2 < said + 3 /\ said + 1 < said + 3 /\ said < said + 2
      /\ begins => said + 2 <= MaxEvents /\ said + 3 <= MaxEvents
  <2> HIDE DEF begins
  <2> QED
    BY <1>2
<1>6. CASE ~MayLock(h, s) \/ ~Readable(log[s])
  <2>1. PICK o \in Notes(before(old), said + 1) : log' = [log EXCEPT ![old] = o.log] /\ Stopped(h)
    BY <1>6 DEF Switch
  <2>2. Same(log[old], TreeOf(h, old), o.log, o.tree)
    <3> HIDE DEF old, before
    <3> QED
      BY <1>1, <1>4, <1>5, <2>1
  <2>3. AllResolve(Replay(o.log))
    <3>1. AllResolve(Replay(log[old])) /\ Replay(o.log).nodes = Replay(log[old]).nodes
      BY <1>1, <2>2 DEF ResolveInv, Same
    <3> HIDE DEF old
    <3> QED
      BY <3>1, StillResolve
  <2>4. \A t \in Sessions : AllResolve(Replay(log'[t]))
    <3> HIDE DEF old, before
    <3> QED
      BY <1>1, <2>1, <2>3, LogResolves
  <2>5. \A g \in Harnesses \ {h} : pc[g] # "loaded"
    BY <1>1 DEF Alone
  <2> QED
    BY <2>1, <2>4, <2>5, StopResolves
<1>7. CASE MayLock(h, s) /\ Readable(log[s]) /\ ~begins
  <2>1. PICK o \in Notes(before(s), said + 1) : Stored(h, o, Tags(o, said + 1))
    BY <1>7 DEF Switch
  <2>2. UNCHANGED <<pc, current, holds, open, head, dedup>> /\ s = old
    BY <1>7 DEF Switch
  <2>3. Sound(o.log, o.tree, said + 1) /\ Same(log[s], TreeOf(h, s), o.log, o.tree)
    <3> HIDE DEF before
    <3> QED
      BY <1>4, <1>5, <2>1
  <2> DEFINE tags == Tags(o, said + 1)
  <2>4. /\ Stored(h, o, tags) /\ Same(log[current[h]], TreeOf(h, current[h]), o.log, o.tree)
        /\ Grown(o.tree) /\ UNCHANGED <<current, open, head, dedup>> /\ UNCHANGED <<pc, holds>>
    BY <2>1, <2>2, <2>3 DEF Sound
  <2> HIDE DEF tags, old, before, begins
  <2> QED
    BY <1>1, <2>4, SwitchBackResolves
<1>8. CASE MayLock(h, s) /\ Readable(log[s]) /\ s = old /\ begins
  <2>1. PICK o \in Notes(before(s), said + 1) :
            \E p \in Notes({o}, said + 2) : \E q \in Notes({p}, said + 3) :
                Stored(h, q, Tags(o, said + 1) \cup Tags(p, said + 2) \cup Tags(q, said + 3))
    BY <1>8 DEF Switch
  <2>2. PICK p \in Notes({o}, said + 2) : \E q \in Notes({p}, said + 3) :
            Stored(h, q, Tags(o, said + 1) \cup Tags(p, said + 2) \cup Tags(q, said + 3))
    BY <2>1
  <2>3. PICK q \in Notes({p}, said + 3) :
            Stored(h, q, Tags(o, said + 1) \cup Tags(p, said + 2) \cup Tags(q, said + 3))
    BY <2>2
  <2>4. Sound(o.log, o.tree, said + 1) /\ Same(log[s], TreeOf(h, s), o.log, o.tree)
    <3> HIDE DEF before
    <3> QED
      BY <1>4, <1>5, <2>1
  <2>5. Sound(p.log, p.tree, said + 2) /\ Same(o.log, o.tree, p.log, p.tree)
    <3>1. said + 2 <= MaxEvents
      BY <1>5, <1>8
    <3> QED
      BY <1>1, <1>5, <2>2, <2>4, <3>1, NotesTake
  <2>6. Sound(q.log, q.tree, said + 3) /\ Same(p.log, p.tree, q.log, q.tree)
    <3>1. said + 3 <= MaxEvents
      BY <1>5, <1>8
    <3> QED
      BY <1>1, <1>5, <2>3, <2>5, <3>1, NotesTake
  <2>7. Same(log[s], TreeOf(h, s), q.log, q.tree)
    <3>1. Same(log[s], TreeOf(h, s), p.log, p.tree)
      BY <2>4, <2>5, SameOn
    <3> QED
      BY <2>6, <3>1, SameOn
  <2> DEFINE tags == Tags(o, said + 1) \cup Tags(p, said + 2) \cup Tags(q, said + 3)
  <2>8. Bound(h, s, 0) /\ UNCHANGED <<pc, holds>>
    BY <1>8 DEF Switch
  <2>9. /\ Stored(h, q, tags) /\ Same(log[current[h]], TreeOf(h, current[h]), q.log, q.tree)
        /\ Grown(q.tree) /\ Bound(h, current[h], 0) /\ UNCHANGED <<pc, holds>>
    BY <1>8, <2>3, <2>6, <2>7, <2>8 DEF Sound
  <2> HIDE DEF tags, old, before, begins
  <2> QED
    BY <1>1, <2>9, SwitchBackResolves
<1>9. CASE MayLock(h, s) /\ Readable(log[s]) /\ s # old
  <2> DEFINE node(p) == IF reason = "new" THEN 0 ELSE p.tree.head
             Moved(o, p, q) ==
                 /\ log' = [log EXCEPT ![s] = q.log, ![old] = o.log]
                 /\ trees' = [trees EXCEPT ![h] = Insert(Insert(@, s, q.tree), old, o.tree)]
                 /\ Bound(h, s, node(p))
                 /\ TakeLock(h, s) /\ UNCHANGED pc
  <2>1. \E o \in Notes(before(old), said + 2), p \in Notes(before(s), said + 1) :
            \E q \in Notes({p}, said + 3) : Moved(o, p, q)
    BY <1>9 DEF Switch
  <2>2. PICK o \in Notes(before(old), said + 2), p \in Notes(before(s), said + 1) :
            \E q \in Notes({p}, said + 3) : Moved(o, p, q)
    BY <2>1
  <2>3. PICK q \in Notes({p}, said + 3) : Moved(o, p, q)
    BY <2>2
  <2>4. said + 2 <= MaxEvents /\ said + 3 <= MaxEvents
    BY <1>5, <1>9
  <2>5. Same(log[old], TreeOf(h, old), o.log, o.tree)
    <3> HIDE DEF before, old, Moved
    <3> QED
      BY <1>1, <1>4, <1>5, <2>2, <2>4
  <2>6. Sound(p.log, p.tree, said + 1) /\ Same(log[s], TreeOf(h, s), p.log, p.tree)
    <3> HIDE DEF before, Moved
    <3> QED
      BY <1>4, <1>5, <2>2
  <2>7. Sound(q.log, q.tree, said + 3) /\ Same(p.log, p.tree, q.log, q.tree)
    <3> HIDE DEF before, Moved
    <3> QED
      BY <1>1, <1>5, <2>3, <2>4, <2>6, NotesTake
  <2>8. Same(log[s], TreeOf(h, s), q.log, q.tree)
    BY <2>6, <2>7, SameOn
  <2> DEFINE d == node(p)
  <2>9. Grown(q.tree) /\ d \in 0..Len(q.tree.nodes)
    <3>1. Grown(q.tree) /\ q.tree.head = p.tree.head
      BY <2>7 DEF Sound, Same
    <3>2. Len(q.tree.nodes) \in Nat /\ q.tree.head \in 0..Len(q.tree.nodes)
      BY <3>1, NodesOfGrown
    <3>3. d \in {0, q.tree.head}
      BY <3>1
    <3> HIDE DEF d, Moved, before
    <3> QED
      BY <3>1, <3>2, <3>3
  <2>10. /\ log' = [log EXCEPT ![s] = q.log, ![old] = o.log]
         /\ trees' = [trees EXCEPT ![h] = Insert(Insert(@, s, q.tree), old, o.tree)]
         /\ Bound(h, s, d) /\ TakeLock(h, s) /\ UNCHANGED pc
    BY <2>3
  <2> HIDE DEF d, Moved, before
  <2> QED
    BY <1>1, <1>9, <2>5, <2>8, <2>9, <2>10, SwitchAwayResolves
<1> QED
  BY <1>6, <1>7, <1>8, <1>9

(* Every step keeps the invariant.                                          *)
LEMMA ResolveInvStep ==
    ASSUME ~Races, Failures = {}, TruthInv, ResolveInv, [Next]_vars
    PROVE  ResolveInv'
<1>0. HistoryTypes'
  BY HistoryStep DEF ResolveInv
<1>1. CASE UNCHANGED vars
  <2>1. UNCHANGED <<log, pc, current, trees, open, head, dedup>>
    BY <1>1 DEF vars
  <2>2. ASSUME NEW h \in Harnesses PROVE HarnessResolves(h)'
    <3>1. Unmoved(h) /\ (pc[h] = "loaded" => log'[current[h]] = log[current[h]])
      BY <1>1, <2>1 DEF vars, Unmoved
    <3> QED
      BY <3>1, OthersResolve
  <2>3. \A s \in Sessions : AllResolve(Replay(log'[s]))
    BY <2>1 DEF ResolveInv
  <2> QED
    BY <1>0, <2>2, <2>3 DEF ResolveInv
<1> SUFFICES ASSUME NEW h \in Harnesses,
                    \/ \E s \in Sessions : Start(h, s) \/ Sweep(h, s)
                    \/ Lock(h)
                    \/ Exit(h)
                    \/ \E c \in Convs : Say(h, c)
                    \/ \E c \in Convs, x \in Contents : ToolResult(h, c, x)
                    \/ \E q \in Sides : Ask(h, q)
                    \/ \E q \in Sides, has_text \in BOOLEAN : AnswerQuery(h, q, has_text)
                    \/ \E node \in 1..MaxEvents : Navigate(h, node)
                    \/ \E s \in Sessions, reason \in {"new", "resume"} : Switch(h, s, reason)
                    \/ \E c \in Convs, whole \in {"yes", "cut"} : KilledWriting(h, c, whole)
             PROVE  ResolveInv'
  BY <1>1 DEF Next
<1>2. ASSUME NEW s \in Sessions, Start(h, s) PROVE ResolveInv'
  BY <1>0, <1>2, StartResolves
<1>3. ASSUME NEW s \in Sessions, Sweep(h, s) PROVE ResolveInv'
  BY <1>0, <1>3, SweepResolves
<1>4. CASE Lock(h)
  BY <1>0, <1>4, LockResolves
<1>5. CASE Exit(h)
  BY <1>0, <1>5, ExitResolves
<1>6. ASSUME NEW c \in Convs, Say(h, c) PROVE ResolveInv'
  BY <1>0, <1>6, SayResolves
<1>7. ASSUME NEW c \in Convs, NEW x \in Contents, ToolResult(h, c, x) PROVE ResolveInv'
  BY <1>0, <1>7, ToolResultResolves
<1>8. ASSUME NEW q \in Sides, Ask(h, q) PROVE ResolveInv'
  BY <1>0, <1>8, AskResolves
<1>9. ASSUME NEW q \in Sides, NEW has_text \in BOOLEAN, AnswerQuery(h, q, has_text) PROVE ResolveInv'
  BY <1>0, <1>9, AnswerQueryResolves
<1>10. ASSUME NEW node \in 1..MaxEvents, Navigate(h, node) PROVE ResolveInv'
  BY <1>0, <1>10, NavigateResolves
<1>11. ASSUME NEW s \in Sessions, NEW reason \in {"new", "resume"}, Switch(h, s, reason) PROVE ResolveInv'
  BY <1>0, <1>11, SwitchResolves
<1>12. ASSUME NEW c \in Convs, NEW whole \in {"yes", "cut"}, KilledWriting(h, c, whole) PROVE ResolveInv'
  BY <1>0, <1>12, KilledWritingResolves
<1> QED
  BY <1>2, <1>3, <1>4, <1>5, <1>6, <1>7, <1>8, <1>9, <1>10, <1>11, <1>12

(* A pointer names an earlier result of its branch that returned the same    *)
(* and is there in full, and a map that is used without a rebuild is the one *)
(* a rebuild would give (dedup_tool_result, ensure_dedup_built_for_branch),  *)
(* across navigations, side conversations, switches and restarts, under the  *)
(* hypotheses of TheLogIsTheTruth and when no append fails: a map keeps the  *)
(* result whose append failed.                                              *)
THEOREM PointersNameWhatTheyStandFor ==
    ASSUME ~Races, ~LongIdle, Failures = {}
    PROVE  Spec => []PointersResolve
<1>0. "meta" \notin Failures
  OBVIOUS
<1>1. Init => TruthInv /\ ResolveInv
  BY TruthInvInit, ResolveInvInit
<1>2. TruthInv /\ ResolveInv /\ [Next]_vars => (TruthInv /\ ResolveInv)'
  BY <1>0, TruthInvStep, ResolveInvStep
<1>3. TruthInv /\ ResolveInv => PointersResolve
  BY PointersAreResolved
<1> QED
  BY <1>1, <1>2, <1>3, PTL DEF Spec
=============================================================================
