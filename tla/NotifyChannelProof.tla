-------------------------- MODULE NotifyChannelProof --------------------------
(***************************************************************************)
(* Machine-checked proofs about NotifyChannel, for every finite set of     *)
(* senders: type correctness, no lost wake-up, an exact disconnect, and    *)
(* that every step implements a step of the abstract CoalescingFlag.       *)
(***************************************************************************)
EXTENDS NotifyChannel, FiniteSetTheorems, TLAPS

(* The count equals the number of live handles; with the two invariants it *)
(* is inductive.                                                           *)
CountIsAlive == sender_count = Cardinality(Alive)

IInv == TypeOK /\ NoLostWakeup /\ DisconnectIsExact /\ CountIsAlive

(* The live handles are a finite set. *)
LEMMA AliveIsFinite == IsFiniteSet(Alive)
  BY SendersAssumption, FS_Subset DEF Alive

(* channel() establishes the inductive invariant. *)
LEMMA InitIInv == Init => IInv
<1> SUFFICES ASSUME Init PROVE IInv
  OBVIOUS
<1> PICK s \in Senders : handle = [t \in Senders |-> IF t = s THEN "alive" ELSE "unborn"]
  BY DEF Init
<1>1. Alive = {s}
  BY DEF Alive
<1>2. Cardinality(Alive) = 1
  BY <1>1, FS_Singleton
<1> QED
  BY <1>1, <1>2 DEF Init, IInv, TypeOK, NoLostWakeup, DisconnectIsExact, CountIsAlive, Answers

(* What one decrement does to the set of live handles. *)
LEMMA DropShrinksAlive ==
  ASSUME IInv, NEW s \in Senders, DropDecrement(s)
  PROVE  /\ s \in Alive
         /\ Alive' = Alive \ {s}
         /\ sender_count' = Cardinality(Alive')
         /\ sender_count = 1 <=> Alive' = {}
<1>1. s \in Alive /\ Alive' = Alive \ {s}
  BY DEF DropDecrement, Alive, IInv, TypeOK
<1>2. Cardinality(Alive') = Cardinality(Alive) - 1
  BY <1>1, AliveIsFinite, FS_RemoveElement
<1>3. sender_count' = Cardinality(Alive')
  BY <1>2 DEF DropDecrement, IInv, CountIsAlive
<1>4. IsFiniteSet(Alive')
  BY <1>1, AliveIsFinite, FS_RemoveElement
<1>5. Cardinality(Alive') = 0 <=> Alive' = {}
  BY <1>4, FS_EmptySet
<1>6. sender_count \in Nat /\ sender_count' = sender_count - 1
  BY DEF DropDecrement, IInv, TypeOK
<1>7. Cardinality(Alive') \in Nat
  BY <1>4, FS_CardinalityType
<1>8. sender_count = 1 <=> Cardinality(Alive') = 0
  BY <1>3, <1>6, <1>7
<1> QED
  BY <1>1, <1>3, <1>5, <1>8

(* Every step preserves the inductive invariant. *)
LEMMA NextIInv == IInv /\ [Next]_vars => IInv'
<1> SUFFICES ASSUME IInv, [Next]_vars PROVE IInv'
  OBVIOUS
<1>1. ASSUME NEW s \in Senders, NEW t \in Senders, Clone(s, t) PROVE IInv'
  <2>1. s \in Alive /\ t \notin Alive /\ Alive' = Alive \cup {t}
    BY <1>1 DEF Clone, Alive, IInv, TypeOK
  <2>2. Cardinality(Alive') = Cardinality(Alive) + 1
    BY <2>1, AliveIsFinite, FS_AddElement
  <2>3. CountIsAlive'
    BY <1>1, <2>2 DEF Clone, IInv, CountIsAlive
  <2>4. ~disconnected /\ \A c \in Senders : handle[c] # "closing"
    BY <1>1, <2>1 DEF Clone, IInv, DisconnectIsExact
  <2>5. DisconnectIsExact'
    BY <1>1, <2>1, <2>4 DEF Clone, IInv, TypeOK, DisconnectIsExact
  <2> QED
    BY <1>1, <2>3, <2>5 DEF Clone, IInv, TypeOK, NoLostWakeup
<1>2. ASSUME NEW s \in Senders, Notify(s) PROVE IInv'
  <2>1. Alive' = Alive
    BY <1>2 DEF Notify, Alive
  <2> QED
    BY <1>2, <2>1 DEF Notify, NotifyOne, IInv, TypeOK, NoLostWakeup, DisconnectIsExact, CountIsAlive
<1>3. ASSUME NEW s \in Senders, DropDecrement(s) PROVE IInv'
  <2>1. /\ s \in Alive
        /\ Alive' = Alive \ {s}
        /\ sender_count' = Cardinality(Alive')
        /\ sender_count = 1 <=> Alive' = {}
    BY <1>3, DropShrinksAlive
  <2>2. CountIsAlive'
    BY <2>1 DEF CountIsAlive
  <2>3. sender_count' \in Nat
    <3>1. IsFiniteSet(Alive')
      BY <2>1, AliveIsFinite, FS_RemoveElement
    <3> QED
      BY <2>1, <3>1, FS_CardinalityType
  <2>4. ~disconnected /\ \A c \in Senders : handle[c] # "closing"
    BY <1>3, <2>1 DEF DropDecrement, IInv, DisconnectIsExact
  <2>5. DisconnectIsExact'
    <3>1. disconnected' = FALSE /\ \A t \in Senders : t # s => handle'[t] = handle[t]
      BY <1>3, <2>4 DEF DropDecrement, IInv, TypeOK
    <3>2. CASE sender_count = 1
      <4>1. Alive' = {} /\ handle'[s] = "closing"
        BY <1>3, <2>1, <3>2 DEF DropDecrement, IInv, TypeOK
      <4>2. \A t \in Senders : handle'[t] # "alive"
        BY <4>1 DEF Alive
      <4> QED
        BY <2>4, <3>1, <4>1, <4>2 DEF DisconnectIsExact
    <3>3. CASE sender_count # 1
      <4>1. Alive' # {} /\ handle'[s] = "dropped"
        BY <1>3, <2>1, <3>3 DEF DropDecrement, IInv, TypeOK
      <4> QED
        BY <2>4, <3>1, <4>1 DEF DisconnectIsExact
    <3> QED
      BY <3>2, <3>3
  <2> QED
    BY <1>3, <2>2, <2>3, <2>5 DEF DropDecrement, IInv, TypeOK, NoLostWakeup
<1>4. ASSUME NEW s \in Senders, DropDisconnect(s) PROVE IInv'
  <2>1. Alive = {} /\ Alive' = Alive
    BY <1>4 DEF DropDisconnect, Alive, IInv, TypeOK, DisconnectIsExact
  <2>2. DisconnectIsExact'
    BY <1>4, <2>1 DEF DropDisconnect, IInv, TypeOK, DisconnectIsExact
  <2> QED
    BY <1>4, <2>1, <2>2 DEF DropDisconnect, NotifyOne, IInv, TypeOK, NoLostWakeup, CountIsAlive
<1>5. ASSUME RecvEnter \/ RecvRecheck \/ SpuriousWakeup \/ TryRecv PROVE IInv'
  <2>1. Alive' = Alive
    BY <1>5 DEF RecvEnter, RecvRecheck, SpuriousWakeup, TryRecv, Alive
  <2>2. UNCHANGED <<handle, sender_count, disconnected>>
    BY <1>5 DEF RecvEnter, RecvRecheck, SpuriousWakeup, TryRecv
  <2>3. DisconnectIsExact' /\ CountIsAlive'
    BY <2>1, <2>2 DEF IInv, DisconnectIsExact, CountIsAlive
  <2>4. CASE RecvEnter \/ RecvRecheck
    <3>1. RecvCheck
      BY <2>4 DEF RecvEnter, RecvRecheck
    <3>2. notified' \in BOOLEAN /\ receiver' \in {"idle", "parked"} /\ answer' \in Answers
      BY <3>1 DEF RecvCheck, Answers, IInv, TypeOK
    <3>3. receiver' = "parked" => ~notified' /\ ~disconnected
      BY <3>1 DEF RecvCheck
    <3>4. TypeOK'
      BY <2>2, <3>2 DEF IInv, TypeOK
    <3> QED
      BY <2>2, <2>3, <3>3, <3>4 DEF IInv, NoLostWakeup
  <2>5. CASE SpuriousWakeup
    BY <2>2, <2>3, <2>5 DEF SpuriousWakeup, Answers, IInv, TypeOK, NoLostWakeup
  <2>6. CASE TryRecv
    <3>1. receiver' = "idle" /\ notified' = FALSE /\ answer' \in Answers
      BY <2>6 DEF TryRecv, Answers
    <3> QED
      BY <2>2, <2>3, <3>1 DEF IInv, TypeOK, NoLostWakeup
  <2> QED
    BY <1>5, <2>4, <2>5, <2>6
<1>6. CASE UNCHANGED vars
  BY <1>6 DEF vars, IInv, TypeOK, NoLostWakeup, DisconnectIsExact, CountIsAlive, Alive, Answers
<1> QED
  BY <1>1, <1>2, <1>3, <1>4, <1>5, <1>6 DEF Next

LEMMA Inductive == Spec => []IInv
  BY InitIInv, NextIInv, PTL DEF Spec

(* Type correctness of the channel. *)
THEOREM TypeCorrect == Spec => []TypeOK
<1>1. IInv => TypeOK
  BY DEF IInv
<1> QED
  BY <1>1, Inductive, PTL

(* No notification and no disconnect is ever left behind a sleeping        *)
(* receiver, however many senders there are and however they interleave.   *)
THEOREM WakeupsAreKept == Spec => []NoLostWakeup
<1>1. IInv => NoLostWakeup
  BY DEF IInv
<1> QED
  BY <1>1, Inductive, PTL

(* The channel disconnects when, and only when, its last sender is gone,   *)
(* and exactly one drop does it.                                           *)
THEOREM DisconnectCorrect == Spec => []DisconnectIsExact
<1>1. IInv => DisconnectIsExact
  BY DEF IInv
<1> QED
  BY <1>1, Inductive, PTL

(* Both together: the receiver sees exactly what the senders did.           *)
THEOREM WakeupsCorrect == Spec => []WakeupsAreExact
<1>1. NoLostWakeup /\ DisconnectIsExact => WakeupsAreExact
  BY DEF WakeupsAreExact
<1> QED
  BY <1>1, WakeupsAreKept, DisconnectCorrect, PTL

(* Every step of the channel is a step of its contract, or changes nothing *)
(* the contract speaks of: the safety half of ContractSpec.                *)
THEOREM ImplementsContract == Spec => Contract!CInit /\ [][Contract!CNext]_(Contract!cvars)
<1>1. Init => Contract!CInit
  BY DEF Init, Contract!CInit
<1>2. IInv /\ [Next]_vars => [Contract!CNext]_(Contract!cvars)
  <2> SUFFICES ASSUME IInv, [Next]_vars PROVE [Contract!CNext]_(Contract!cvars)
    OBVIOUS
  <2> USE DEF Contract!CNext, Contract!cvars
  <2>1. ASSUME NEW s \in Senders, NEW t \in Senders, Clone(s, t) PROVE UNCHANGED Contract!cvars
    BY <2>1 DEF Clone
  <2>2. ASSUME NEW s \in Senders, Notify(s) PROVE [Contract!CNext]_(Contract!cvars)
    <3>1. ~disconnected
      BY <2>2 DEF Notify, IInv, DisconnectIsExact, Alive
    <3> QED
      BY <2>2, <3>1 DEF Notify, NotifyOne, IInv, TypeOK, Contract!Send
  <2>3. ASSUME NEW s \in Senders, DropDecrement(s) PROVE UNCHANGED Contract!cvars
    BY <2>3 DEF DropDecrement
  <2>4. ASSUME NEW s \in Senders, DropDisconnect(s) PROVE Contract!Close
    BY <2>4 DEF DropDisconnect, NotifyOne, IInv, TypeOK, Contract!Close
  <2>5. ASSUME RecvEnter \/ RecvRecheck PROVE Contract!Begin \/ Contract!Take \/ Contract!Hangup
                                              \/ UNCHANGED Contract!cvars
    BY <2>5 DEF RecvEnter, RecvRecheck, RecvCheck, IInv, TypeOK,
       Contract!Begin, Contract!Take, Contract!Hangup
  <2>6. ASSUME SpuriousWakeup PROVE UNCHANGED Contract!cvars
    BY <2>6 DEF SpuriousWakeup
  <2>7. ASSUME TryRecv PROVE Contract!Take \/ Contract!Hangup \/ Contract!Poll
    BY <2>7 DEF TryRecv, IInv, TypeOK, Contract!Take, Contract!Hangup, Contract!Poll
  <2>8. CASE UNCHANGED vars
    BY <2>8 DEF vars
  <2> QED
    BY <2>1, <2>2, <2>3, <2>4, <2>5, <2>6, <2>7, <2>8 DEF Next
<1> QED
  BY <1>1, <1>2, Inductive, PTL DEF Spec

=============================================================================
