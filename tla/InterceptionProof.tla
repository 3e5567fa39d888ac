-------------------------- MODULE InterceptionProof --------------------------
(***************************************************************************)
(* Proofs about Interception, for any connections, names, registrations,   *)
(* reactions and any bound on the publishes.  The inductive invariant IInv  *)
(* adds to the properties what they rest on: which events keep their name   *)
(* while they wait, that a connection that is gone has no registration, and *)
(* that the cursor of the waiting event is ahead of all it was asked of.    *)
(***************************************************************************)
EXTENDS Interception, TLAPS

Named(names, e) == e.id \in DOMAIN names /\ e.name = names[e.id]

NamesAreKept ==
    /\ \A k \in DOMAIN log : Named(published, log[k])
    /\ \A k \in DOMAIN deferred : Named(published, deferred[k])
    /\ pending # NoIntercept => Named(published, pending.event)
    /\ \A e \in dropped : Named(published, e) /\ e.name \notin MustPass

GoneHasNoRegistration ==
    \A c \in Conns \ connected : registry[c].exact = {} /\ registry[c].prefix = {}

DeferredWaits == deferred # <<>> => pending # NoIntercept \/ draining

(* A request comes before, or is, the one made at priority p of c. *)
NotAfter(request, p, c) ==
    \/ request.priority < p
    \/ request.priority = p /\ ConnRank[request.conn] <= ConnRank[c]

(* The requests about one event are made in the order of the cursor. *)
AskedInOrder ==
    \A k, l \in DOMAIN asked : k < l /\ asked[k].id = asked[l].id =>
        \/ asked[k].priority < asked[l].priority
        \/ /\ asked[k].priority = asked[l].priority
           /\ ConnRank[asked[k].conn] < ConnRank[asked[l].conn]

CursorIsAhead ==
    /\ \A k \in DOMAIN asked : asked[k].id \in DOMAIN published \ Ids(deferred)
    /\ pending # NoIntercept =>
          \A k \in DOMAIN asked : asked[k].id = pending.event.id =>
              NotAfter(asked[k], pending.priority, pending.conn)

IInv ==
    /\ TypeOK
    /\ NothingLost
    /\ NothingRepeated
    /\ NamesAreKept
    /\ NobodyWaitsForTheGone
    /\ GoneHasNoRegistration
    /\ DeferredWaits
    /\ CursorIsAhead
    /\ AskedInOrder

-----------------------------------------------------------------------------
(* Facts about sequences of events. *)

LEMMA AppendEvent ==
    ASSUME NEW s \in Seq(Event), NEW e \in Event
    PROVE  /\ Append(s, e) \in Seq(Event)
           /\ Ids(Append(s, e)) = Ids(s) \cup {e.id}
           /\ Distinct(s) /\ e.id \notin Ids(s) => Distinct(Append(s, e))
<1>1. /\ Append(s, e) \in Seq(Event)
      /\ Len(Append(s, e)) = Len(s) + 1
      /\ DOMAIN Append(s, e) = DOMAIN s \cup {Len(s) + 1}
      /\ \A k \in DOMAIN s : Append(s, e)[k] = s[k]
      /\ Append(s, e)[Len(s) + 1] = e
  OBVIOUS
<1>2. Ids(Append(s, e)) = Ids(s) \cup {e.id}
  BY <1>1, Zenon DEF Ids
<1>3. ASSUME Distinct(s), e.id \notin Ids(s)
      PROVE  Distinct(Append(s, e))
  BY <1>1, <1>3 DEF Distinct, Ids
<1> QED
  BY <1>1, <1>2, <1>3

LEMMA PopEvent ==
    ASSUME NEW s \in Seq(Event), s # <<>>
    PROVE  /\ Head(s) \in Event
           /\ Tail(s) \in Seq(Event)
           /\ Ids(s) = Ids(Tail(s)) \cup {Head(s).id}
           /\ Distinct(s) => Distinct(Tail(s)) /\ Head(s).id \notin Ids(Tail(s))
<1>1. /\ Head(s) \in Event
      /\ Tail(s) \in Seq(Event)
      /\ Head(s) = s[1]
      /\ 1 \in DOMAIN s
      /\ \A k \in DOMAIN Tail(s) : k + 1 \in DOMAIN s /\ Tail(s)[k] = s[k + 1] /\ k \in Nat \ {0}
      /\ \A k \in DOMAIN s : k = 1 \/ (k - 1 \in DOMAIN Tail(s) /\ Tail(s)[k - 1] = s[k])
  <2>1. /\ Tail(s) \in Seq(Event)
        /\ Len(s) \in Nat \ {0}
        /\ DOMAIN s = 1..Len(s)
        /\ DOMAIN Tail(s) = 1..(Len(s) - 1)
        /\ \A k \in 1..(Len(s) - 1) : Tail(s)[k] = s[k + 1]
    OBVIOUS
  <2>2. Head(s) \in Event /\ Head(s) = s[1]
    OBVIOUS
  <2>3. \A k \in 1..Len(s) : k = 1 \/ k - 1 \in 1..(Len(s) - 1)
    BY <2>1
  <2>4. \A k \in 1..Len(s) : k = 1 \/ Tail(s)[k - 1] = s[k]
    BY <2>1, <2>3
  <2> QED
    BY <2>1, <2>2, <2>3, <2>4
<1>2. Ids(s) = Ids(Tail(s)) \cup {Head(s).id}
  <2>1. ASSUME NEW k \in DOMAIN s
        PROVE  s[k].id \in Ids(Tail(s)) \cup {Head(s).id}
    <3>1. CASE k = 1
      BY <1>1, <3>1
    <3>2. CASE k - 1 \in DOMAIN Tail(s) /\ Tail(s)[k - 1] = s[k]
      BY <3>2 DEF Ids
    <3> QED
      BY <1>1, <2>1, <3>1, <3>2
  <2>2. Ids(Tail(s)) \cup {Head(s).id} \subseteq Ids(s)
    BY <1>1 DEF Ids
  <2> QED
    BY <2>1, <2>2 DEF Ids
<1>3. ASSUME Distinct(s)
      PROVE  Distinct(Tail(s)) /\ Head(s).id \notin Ids(Tail(s))
  <2>1. Distinct(Tail(s))
    <3>1. SUFFICES ASSUME NEW k \in DOMAIN Tail(s), NEW l \in DOMAIN Tail(s),
                          Tail(s)[k].id = Tail(s)[l].id
                   PROVE  k = l
      BY DEF Distinct
    <3>2. k + 1 = l + 1
      BY <1>1, <1>3, <3>1 DEF Distinct
    <3> QED
      BY <1>1, <3>2
  <2>2. ASSUME NEW k \in DOMAIN Tail(s), Tail(s)[k].id = Head(s).id
        PROVE  FALSE
    <3>1. k + 1 = 1
      BY <1>1, <1>3, <2>2 DEF Distinct
    <3> QED
      BY <1>1, <3>1
  <2> QED
    BY <2>1, <2>2 DEF Ids
<1> QED
  BY <1>1, <1>2, <1>3

-----------------------------------------------------------------------------
(* What dispatch_publish_step does to the event it is given. *)

Parked(reg, e, cursor) ==
    \E c \in Conns :
        /\ Past(reg, cursor, c)
        /\ e.name \in reg[c].exact \cup reg[c].prefix
        /\ pending' = [conn |-> c, event |-> e, priority |-> reg[c].priority]
        /\ asked' = Append(asked, [id |-> e.id, conn |-> c, priority |-> reg[c].priority])
        /\ log' = log

Committed(e) == pending' = NoIntercept /\ log' = Append(log, e) /\ asked' = asked

LEMMA DispatchEffect ==
    ASSUME NEW reg, NEW e \in Event, NEW cursor, NEW rest \in Seq(Names),
           DispatchStep(reg, e, cursor, rest)
    PROVE  /\ todo' \in Seq(Names)
           /\ Parked(reg, e, cursor) \/ Committed(e)
<1>1. CASE Park(reg, e, cursor, rest)
  <2>1. PICK c \in FirstOf(reg, Candidates(reg, e.name, cursor)) :
            /\ pending' = [conn |-> c, event |-> e, priority |-> reg[c].priority]
            /\ asked' = Append(asked, [id |-> e.id, conn |-> c, priority |-> reg[c].priority])
            /\ todo' = rest
            /\ log' = log
    BY <1>1 DEF Park
  <2>2. c \in Candidates(reg, e.name, cursor)
    BY DEF FirstOf
  <2>3. c \in Conns /\ Past(reg, cursor, c) /\ e.name \in reg[c].exact \cup reg[c].prefix
    BY <2>2, Zenon DEF Candidates
  <2> QED
    BY <2>1, <2>3 DEF Parked
<1>2. CASE Commit(reg, e, cursor, rest)
  <2>1. PICK reaction \in Reactions[e.name] : todo' = reaction \o rest
    BY <1>2 DEF Commit
  <2>2. reaction \in Seq(Names)
    BY InterceptionAssumption DEF Event
  <2>3. todo' \in Seq(Names)
    BY <2>1, <2>2
  <2> QED
    BY <1>2, <2>3 DEF Commit, Committed
<1> QED
  BY <1>1, <1>2 DEF DispatchStep

(* An event that a handler holds, taken from where it was and not yet put   *)
(* anywhere: the state after the step is consistent once it is placed.     *)
InHand(e, cursor) ==
    /\ connected' \subseteq Conns
    /\ registry' \in [Conns -> Registration]
    /\ deferred' \in Seq(Event)
    /\ draining' \in BOOLEAN
    /\ published' \in Seq(Names)
    /\ dropped' = dropped
    /\ GoneHasNoRegistration'
    /\ deferred' # <<>> => draining'

Unplaced(e) ==
    /\ DOMAIN published' = Ids(log) \cup Ids(deferred') \cup {e.id} \cup DroppedIds
    /\ Distinct(log)
    /\ Distinct(deferred')
    /\ Ids(log) \cap Ids(deferred') = {}
    /\ {e.id} \cap (Ids(log) \cup Ids(deferred')) = {}
    /\ DroppedIds \cap (Ids(log) \cup Ids(deferred') \cup {e.id}) = {}

NamedAfter(e) ==
    /\ \A k \in DOMAIN log : Named(published', log[k])
    /\ \A k \in DOMAIN deferred' : Named(published', deferred'[k])
    /\ Named(published', e)
    /\ \A d \in dropped : Named(published', d) /\ d.name \notin MustPass

AskedBefore(e, cursor) ==
    /\ AskedInOrder
    /\ \A k \in DOMAIN asked : asked[k].id \in DOMAIN published' \ Ids(deferred')
    /\ \A k \in DOMAIN asked : asked[k].id = e.id =>
          cursor # NoIntercept /\ NotAfter(asked[k], cursor.priority, cursor.conn)

(* Parking or committing such an event restores the invariant. *)
LEMMA PlacedTypes ==
    ASSUME TypeOK, NEW e \in Event, NEW cursor, NEW rest \in Seq(Names),
           InHand(e, cursor), DispatchStep(registry', e, cursor, rest)
    PROVE  TypeOK'
<1>1. /\ todo' \in Seq(Names)
      /\ Parked(registry', e, cursor) \/ Committed(e)
  BY DispatchEffect
<1>2. CASE Parked(registry', e, cursor)
  <2>1. PICK c \in Conns :
        /\ pending' = [conn |-> c, event |-> e, priority |-> registry'[c].priority]
        /\ asked' = Append(asked, [id |-> e.id, conn |-> c, priority |-> registry'[c].priority])
        /\ log' = log
    BY <1>2 DEF Parked
  <2>2. registry'[c].priority \in Nat /\ e.id \in Nat
    BY DEF InHand, Registration, Event
  <2>3. pending' \in PendingIntercept
    BY <2>1, <2>2 DEF PendingIntercept
  <2>4. [id |-> e.id, conn |-> c, priority |-> registry'[c].priority] \in Request
    BY <2>2 DEF Request
  <2>5. asked' \in Seq(Request)
    BY <2>1, <2>4 DEF TypeOK
  <2> QED
    BY <1>1, <2>1, <2>3, <2>5 DEF TypeOK, InHand
<1>3. CASE Committed(e)
  <2>1. log' \in Seq(Event)
    BY <1>3, AppendEvent DEF Committed, TypeOK
  <2> QED
    BY <1>1, <1>3, <2>1 DEF TypeOK, InHand, Committed
<1> QED
  BY <1>1, <1>2, <1>3

LEMMA PlacedOnce ==
    ASSUME TypeOK, NEW e \in Event, NEW cursor, NEW rest \in Seq(Names),
           InHand(e, cursor), DispatchStep(registry', e, cursor, rest), Unplaced(e)
    PROVE  NothingLost' /\ NothingRepeated'
<1>1. /\ Parked(registry', e, cursor) \/ Committed(e)
      /\ TypeOK'
  BY DispatchEffect, PlacedTypes
<1>2. DroppedIds' = DroppedIds
  BY DEF InHand, DroppedIds
<1>3. Ids(deferred)' = Ids(deferred') /\ (Distinct(deferred)' <=> Distinct(deferred'))
  BY DEF Ids, Distinct
<1>4. CASE Parked(registry', e, cursor)
  <2>1. pending' # NoIntercept /\ pending'.event = e /\ log' = log
    <3>1. PICK c \in Conns :
          /\ pending' = [conn |-> c, event |-> e, priority |-> registry'[c].priority]
          /\ log' = log
      BY <1>4 DEF Parked
    <3>2. pending' \in PendingIntercept
      BY <3>1 DEF PendingIntercept, InHand, Registration
    <3> QED
      BY <3>1, <3>2, InterceptionAssumption
  <2>2. PendingIds' = {e.id} /\ Ids(log)' = Ids(log) /\ (Distinct(log)' <=> Distinct(log))
    BY <2>1 DEF PendingIds, Ids, Distinct
  <2> QED
    BY <1>2, <1>3, <2>2 DEF Unplaced, NothingLost, NothingRepeated
<1>5. CASE Committed(e)
  <2>1. PendingIds' = {}
    BY <1>5 DEF Committed, PendingIds
  <2>2. Ids(log)' = Ids(log) \cup {e.id} /\ Distinct(log)'
    <3>1. log \in Seq(Event) /\ log' = Append(log, e) /\ e.id \notin Ids(log) /\ Distinct(log)
      BY <1>5 DEF Committed, TypeOK, Unplaced
    <3>2. Ids(log') = Ids(log) \cup {e.id} /\ Distinct(log')
      BY <3>1, AppendEvent
    <3> QED
      BY <3>2 DEF Ids, Distinct
  <2> QED
    BY <1>2, <1>3, <2>1, <2>2 DEF Unplaced, NothingLost, NothingRepeated
<1> QED
  BY <1>1, <1>4, <1>5

LEMMA PlacedNamed ==
    ASSUME TypeOK, NEW e \in Event, NEW cursor, NEW rest \in Seq(Names),
           InHand(e, cursor), DispatchStep(registry', e, cursor, rest), NamedAfter(e)
    PROVE  NamesAreKept'
<1>1. Parked(registry', e, cursor) \/ Committed(e)
  BY DispatchEffect
<1>2. \A d \in dropped' : Named(published', d) /\ d.name \notin MustPass
  BY DEF InHand, NamedAfter
<1>3. CASE Parked(registry', e, cursor)
  <2>1. pending'.event = e /\ log' = log
    BY <1>3 DEF Parked
  <2> QED
    BY <1>2, <2>1 DEF NamesAreKept, NamedAfter, Named
<1>4. CASE Committed(e)
  <2>1. /\ log' = Append(log, e)
        /\ pending' = NoIntercept
    BY <1>4 DEF Committed
  <2>2. \A k \in DOMAIN log' : (k \in DOMAIN log /\ log'[k] = log[k]) \/ log'[k] = e
    BY <2>1 DEF TypeOK
  <2>3. \A k \in DOMAIN log' : Named(published', log'[k])
    BY <2>2 DEF NamedAfter
  <2> QED
    BY <1>2, <2>1, <2>3 DEF NamesAreKept, NamedAfter, Named
<1> QED
  BY <1>1, <1>3, <1>4

LEMMA PlacedChain ==
    ASSUME TypeOK, NEW e \in Event, NEW cursor, NEW rest \in Seq(Names),
           InHand(e, cursor), DispatchStep(registry', e, cursor, rest), Unplaced(e),
           AskedBefore(e, cursor),
           cursor = NoIntercept \/ cursor \in PendingIntercept
    PROVE  CursorIsAhead' /\ AskedInOrder'
<1>1. /\ Parked(registry', e, cursor) \/ Committed(e)
      /\ TypeOK'
  BY DispatchEffect, PlacedTypes
<1>2. CASE Committed(e)
  BY <1>2 DEF Committed, CursorIsAhead, AskedInOrder, AskedBefore, Ids
<1>3. CASE Parked(registry', e, cursor)
  <2>1. PICK c \in Conns :
        /\ Past(registry', cursor, c)
        /\ pending' = [conn |-> c, event |-> e, priority |-> registry'[c].priority]
        /\ asked' = Append(asked, [id |-> e.id, conn |-> c, priority |-> registry'[c].priority])
    BY <1>3 DEF Parked
  <2> DEFINE n == Len(asked) + 1
             p == registry'[c].priority
  <2>2. /\ p \in Nat
        /\ asked \in Seq(Request)
        /\ n \in Nat
        /\ DOMAIN asked = 1..(n - 1)
        /\ DOMAIN asked' = 1..n
        /\ \A k \in DOMAIN asked : asked'[k] = asked[k]
        /\ asked'[n] = [id |-> e.id, conn |-> c, priority |-> p]
    BY <2>1 DEF TypeOK, InHand, Registration
  <2>3. \A k \in DOMAIN asked : asked[k].priority \in Nat /\ asked[k].conn \in Conns
                                /\ ConnRank[asked[k].conn] \in Nat
    <3>1. \A k \in DOMAIN asked : asked[k] \in Request
      BY <2>2
    <3>2. \A r \in Request : r.priority \in Nat /\ r.conn \in Conns
      BY DEF Request
    <3>3. \A d \in Conns : ConnRank[d] \in Nat
      BY InterceptionAssumption
    <3> QED
      BY <3>1, <3>2, <3>3
  <2>4. ConnRank[c] \in Nat
    BY InterceptionAssumption
  (* Everything this event was offered to before is strictly before c. *)
  <2>5. ASSUME NEW k \in DOMAIN asked, asked[k].id = e.id
        PROVE  \/ asked[k].priority < p
               \/ asked[k].priority = p /\ ConnRank[asked[k].conn] < ConnRank[c]
    <3>1. cursor \in PendingIntercept /\ NotAfter(asked[k], cursor.priority, cursor.conn)
      BY <2>5 DEF AskedBefore
    <3>2. cursor # NoIntercept
      BY <3>1, InterceptionAssumption
    <3>3. cursor.priority \in Nat /\ ConnRank[cursor.conn] \in Nat
      BY <3>1, InterceptionAssumption DEF PendingIntercept
    <3>4. \/ cursor.priority < p
          \/ cursor.priority = p /\ ConnRank[cursor.conn] < ConnRank[c]
      BY <2>1, <3>2 DEF Past
    <3> QED
      BY <2>2, <2>3, <2>4, <3>1, <3>3, <3>4 DEF NotAfter
  <2>6. AskedInOrder'
    <3>1. SUFFICES ASSUME NEW k \in 1..n, NEW l \in 1..n, k < l, asked'[k].id = asked'[l].id
                   PROVE  \/ asked'[k].priority < asked'[l].priority
                          \/ /\ asked'[k].priority = asked'[l].priority
                             /\ ConnRank[asked'[k].conn] < ConnRank[asked'[l].conn]
      BY <2>2 DEF AskedInOrder
    <3>2. k \in DOMAIN asked /\ (l \in DOMAIN asked \/ l = n)
      <4>1. n \in Nat /\ DOMAIN asked = 1..(n - 1)
        BY <2>2
      <4> HIDE DEF n
      <4>2. k \in 1..(n - 1) /\ (l \in 1..(n - 1) \/ l = n)
        BY <3>1, <4>1
      <4> QED
        BY <4>1, <4>2
    <3>3. CASE l \in DOMAIN asked
      BY <2>2, <3>1, <3>2, <3>3 DEF AskedInOrder, AskedBefore
    <3>4. CASE l = n
      BY <2>2, <2>5, <3>1, <3>2, <3>4
    <3> QED
      BY <3>2, <3>3, <3>4
  <2>7. CursorIsAhead'
    <3>1. ASSUME NEW k \in 1..n
          PROVE  asked'[k].id \in DOMAIN published' \ Ids(deferred')
      <4>1. CASE k = n
        BY <2>2, <4>1 DEF Unplaced
      <4>2. CASE k \in DOMAIN asked
        BY <2>2, <4>2 DEF AskedBefore
      <4> QED
        BY <2>2, <4>1, <4>2
    <3>2. pending'.event = e /\ pending'.priority = p /\ pending'.conn = c
      BY <2>1
    <3>3. ASSUME NEW k \in 1..n, asked'[k].id = e.id
          PROVE  NotAfter(asked'[k], p, c)
      <4>1. CASE k = n
        BY <2>2, <2>4, <4>1 DEF NotAfter
      <4>2. CASE k \in DOMAIN asked
        BY <2>2, <2>3, <2>4, <2>5, <3>3, <4>2 DEF NotAfter
      <4> QED
        BY <2>2, <4>1, <4>2
    <3>4. Ids(deferred)' = Ids(deferred')
      BY DEF Ids
    <3> QED
      BY <2>2, <3>1, <3>2, <3>3, <3>4 DEF CursorIsAhead, NotAfter
  <2> QED
    BY <2>6, <2>7
<1> QED
  BY <1>1, <1>2, <1>3

LEMMA Placed ==
    ASSUME IInv, NEW e \in Event, NEW cursor, NEW rest \in Seq(Names),
           InHand(e, cursor), DispatchStep(registry', e, cursor, rest), Unplaced(e),
           NamedAfter(e), AskedBefore(e, cursor),
           cursor = NoIntercept \/ cursor \in PendingIntercept
    PROVE  IInv'
<1>1. TypeOK
  BY DEF IInv
<1>2. TypeOK' /\ NothingLost' /\ NothingRepeated' /\ NamesAreKept' /\ CursorIsAhead' /\ AskedInOrder'
  BY <1>1, PlacedTypes, PlacedOnce, PlacedNamed, PlacedChain
<1>3. GoneHasNoRegistration' /\ DeferredWaits'
  BY DEF InHand, DeferredWaits
<1>4. NobodyWaitsForTheGone'
  <2>1. CASE Committed(e)
    BY <2>1 DEF Committed, NobodyWaitsForTheGone
  <2>2. CASE Parked(registry', e, cursor)
    <3>1. PICK c \in Conns : /\ pending'.conn = c
                             /\ e.name \in registry'[c].exact \cup registry'[c].prefix
      BY <2>2 DEF Parked
    <3>2. c \in connected'
      BY <1>3, <3>1 DEF GoneHasNoRegistration
    <3> QED
      BY <3>1, <3>2 DEF NobodyWaitsForTheGone
  <2> QED
    BY <2>1, <2>2, DispatchEffect
<1> QED
  BY <1>2, <1>3, <1>4 DEF IInv

-----------------------------------------------------------------------------
(* Nothing has been published. *)
LEMMA InitIInv == Init => IInv
<1> SUFFICES ASSUME Init PROVE IInv
  OBVIOUS
<1>1. TypeOK
  <2>1. NoRegistration \in Registration
    BY DEF NoRegistration, Registration
  <2>2. registry \in [Conns -> Registration]
    BY <2>1 DEF Init
  <2>3. connected = Conns /\ draining = FALSE /\ pending = NoIntercept /\ dropped = {}
    BY DEF Init
  <2>4. /\ deferred \in Seq(Event) /\ log \in Seq(Event) /\ todo \in Seq(Names)
        /\ published \in Seq(Names) /\ asked \in Seq(Request)
    BY DEF Init
  <2> QED
    BY <2>2, <2>3, <2>4 DEF TypeOK
<1>2. Ids(log) = {} /\ Ids(deferred) = {} /\ PendingIds = {} /\ DroppedIds = {}
  BY DEF Init, Ids, PendingIds, DroppedIds
<1>3. NothingLost /\ NothingRepeated
  BY <1>2 DEF Init, NothingLost, NothingRepeated, Distinct
<1>4. NamesAreKept /\ NobodyWaitsForTheGone /\ DeferredWaits
  BY DEF Init, NamesAreKept, NobodyWaitsForTheGone, DeferredWaits
<1>5. GoneHasNoRegistration
  BY DEF Init, GoneHasNoRegistration
<1>6. CursorIsAhead /\ AskedInOrder
  BY DEF Init, CursorIsAhead, AskedInOrder
<1> QED
  BY <1>1, <1>3, <1>4, <1>5, <1>6 DEF IInv

(* A step that moves no event. *)
LEMMA QuietIInv ==
    ASSUME IInv, TypeOK', GoneHasNoRegistration', NobodyWaitsForTheGone', DeferredWaits',
           UNCHANGED <<pending, deferred, log, published, dropped, asked>>
    PROVE  IInv'
<1>1. /\ Ids(log)' = Ids(log) /\ Ids(deferred)' = Ids(deferred)
      /\ PendingIds' = PendingIds /\ DroppedIds' = DroppedIds
      /\ (Distinct(log)' <=> Distinct(log)) /\ (Distinct(deferred)' <=> Distinct(deferred))
  BY DEF Ids, PendingIds, DroppedIds, Distinct
<1>2. NothingLost' /\ NothingRepeated'
  BY <1>1 DEF IInv, NothingLost, NothingRepeated
<1>3. NamesAreKept'
  BY DEF IInv, NamesAreKept, Named
<1>4. CursorIsAhead' /\ AskedInOrder'
  BY <1>1 DEF IInv, CursorIsAhead, NotAfter, AskedInOrder
<1> QED
  BY <1>2, <1>3, <1>4 DEF IInv

(* The waiting event, taken from the interceptor it was offered to. *)
LEMMA WaitingInHand ==
    ASSUME IInv, pending # NoIntercept,
           connected' \subseteq Conns, registry' \in [Conns -> Registration],
           GoneHasNoRegistration', draining' = TRUE,
           UNCHANGED <<deferred, published, dropped>>,
           NEW e \in Event, e.id = pending.event.id, e.name = pending.event.name
    PROVE  /\ pending \in PendingIntercept
           /\ InHand(e, pending)
           /\ Unplaced(e)
           /\ NamedAfter(e)
           /\ AskedBefore(e, pending)
<1>1. pending \in PendingIntercept
  BY DEF IInv, TypeOK
<1>2. InHand(e, pending)
  BY DEF IInv, TypeOK, InHand
<1>3. PendingIds = {e.id}
  BY DEF PendingIds
<1>4. Unplaced(e)
  BY <1>3 DEF IInv, NothingLost, NothingRepeated, Unplaced
<1>5. NamedAfter(e)
  BY DEF IInv, NamesAreKept, NamedAfter, Named
<1>6. AskedBefore(e, pending)
  BY DEF IInv, CursorIsAhead, AskedBefore
<1> QED
  BY <1>1, <1>2, <1>4, <1>5, <1>6

LEMMA ReplyIInv ==
    ASSUME IInv, NEW c \in Conns, NEW action \in Actions, Reply(c, action)
    PROVE  IInv'
<1>1. /\ pending # NoIntercept
      /\ pending.conn = c
      /\ draining' = TRUE
      /\ UNCHANGED <<connected, registry, deferred, published>>
  BY DEF Reply, Owes
<1>2. /\ pending \in PendingIntercept
      /\ pending.event \in Event
      /\ connected' \subseteq Conns
      /\ registry' \in [Conns -> Registration]
      /\ GoneHasNoRegistration'
  BY <1>1 DEF IInv, TypeOK, PendingIntercept, GoneHasNoRegistration
<1>3. CASE action # "drop" \/ pending.event.name \in MustPass
  <2> DEFINE e == Replied(pending, action)
  <2>1. e \in Event /\ e.id = pending.event.id /\ e.name = pending.event.name
    BY <1>1, <1>2 DEF Replied, Event
  <2>2. dropped' = dropped /\ DispatchStep(registry, e, pending, <<>>)
    BY <1>3 DEF Reply
  <2>3. DispatchStep(registry', e, pending, <<>>)
    BY <1>1, <2>2
  <2>4. InHand(e, pending) /\ Unplaced(e) /\ NamedAfter(e) /\ AskedBefore(e, pending)
    <3> HIDE DEF e
    <3> QED
      BY <1>1, <1>2, <2>1, <2>2, WaitingInHand
  <2>5. <<>> \in Seq(Names)
    OBVIOUS
  <2> HIDE DEF e
  <2> QED
    BY <1>2, <2>1, <2>3, <2>4, <2>5, Placed
<1>4. CASE action = "drop" /\ pending.event.name \notin MustPass
  <2>1. /\ dropped' = dropped \cup {pending.event}
        /\ pending' = NoIntercept
        /\ UNCHANGED <<log, todo, asked>>
    BY <1>4 DEF Reply
  <2>2. DroppedIds' = DroppedIds \cup PendingIds /\ PendingIds' = {}
    BY <1>1, <2>1 DEF DroppedIds, PendingIds
  <2>3. /\ Ids(log)' = Ids(log) /\ Ids(deferred)' = Ids(deferred)
        /\ (Distinct(log)' <=> Distinct(log)) /\ (Distinct(deferred)' <=> Distinct(deferred))
    BY <1>1, <2>1 DEF Ids, Distinct
  <2>4. TypeOK'
    BY <1>1, <1>2, <2>1 DEF IInv, TypeOK
  <2>5. NothingLost' /\ NothingRepeated'
    BY <1>1, <2>2, <2>3 DEF IInv, NothingLost, NothingRepeated
  <2>6. NamesAreKept'
    BY <1>1, <1>4, <2>1 DEF IInv, NamesAreKept, Named
  <2>7. NobodyWaitsForTheGone' /\ DeferredWaits'
    BY <1>1, <2>1 DEF NobodyWaitsForTheGone, DeferredWaits
  <2>8. CursorIsAhead' /\ AskedInOrder'
    BY <1>1, <2>1 DEF IInv, CursorIsAhead, AskedInOrder, Ids
  <2> QED
    BY <1>2, <2>4, <2>5, <2>6, <2>7, <2>8 DEF IInv
<1> QED
  BY <1>3, <1>4

LEMMA DisconnectIInv ==
    ASSUME IInv, NEW c \in Conns, Disconnect(c)
    PROVE  IInv'
<1>1. /\ connected' = connected \ {c}
      /\ registry' = [registry EXCEPT ![c] = NoRegistration]
      /\ UNCHANGED <<deferred, published, dropped>>
  BY DEF Disconnect
<1>2. connected' \subseteq Conns /\ registry' \in [Conns -> Registration]
  BY <1>1 DEF IInv, TypeOK, NoRegistration, Registration
<1>3. GoneHasNoRegistration'
  BY <1>1 DEF IInv, TypeOK, GoneHasNoRegistration, NoRegistration
<1>4. CASE Owes(c)
  <2>1. /\ pending # NoIntercept
        /\ draining' = TRUE
        /\ DispatchStep(registry', pending.event, pending, <<>>)
    BY <1>4 DEF Disconnect, Owes
  <2>2. pending.event \in Event /\ <<>> \in Seq(Names)
    BY <2>1 DEF IInv, TypeOK, PendingIntercept
  <2>3. /\ pending \in PendingIntercept
        /\ InHand(pending.event, pending)
        /\ Unplaced(pending.event)
        /\ NamedAfter(pending.event)
        /\ AskedBefore(pending.event, pending)
    BY <1>1, <1>2, <1>3, <2>1, <2>2, WaitingInHand
  <2> QED
    BY <2>1, <2>2, <2>3, Placed
<1>5. CASE ~Owes(c)
  <2>1. UNCHANGED <<pending, log, todo, draining, asked>>
    BY <1>5 DEF Disconnect
  <2>2. NobodyWaitsForTheGone'
    BY <1>1, <1>5, <2>1 DEF IInv, NobodyWaitsForTheGone, Owes
  <2>3. TypeOK' /\ DeferredWaits'
    BY <1>1, <1>2, <2>1 DEF IInv, TypeOK, DeferredWaits
  <2> QED
    BY <1>1, <1>3, <2>1, <2>2, <2>3, QuietIInv
<1> QED
  BY <1>4, <1>5

LEMMA EnqueueIInv ==
    ASSUME IInv, EnqueuePublish
    PROVE  IInv'
<1> DEFINE e == [id |-> Len(published) + 1, name |-> Head(todo), author |-> "publisher"]
           i == Len(published) + 1
<1>1. /\ todo # <<>>
      /\ published' = Append(published, Head(todo))
      /\ UNCHANGED <<connected, registry, draining, dropped>>
  BY DEF EnqueuePublish
<1>2. /\ todo \in Seq(Names) /\ Head(todo) \in Names /\ Tail(todo) \in Seq(Names)
      /\ published \in Seq(Names) /\ published' \in Seq(Names)
      /\ i \in Nat /\ i \notin DOMAIN published
      /\ DOMAIN published' = DOMAIN published \cup {i}
      /\ \A k \in DOMAIN published : published'[k] = published[k]
      /\ published'[i] = Head(todo)
  BY <1>1 DEF IInv, TypeOK
<1>3. e \in Event /\ e.id = i /\ e.name = Head(todo)
  BY <1>2 DEF Event
<1> HIDE DEF e
<1>4. i \notin Ids(log) \cup Ids(deferred) \cup PendingIds \cup DroppedIds
  BY <1>2 DEF IInv, NothingLost
<1>5. \A d \in Event : Named(published, d) => Named(published', d)
  BY <1>2 DEF Named
<1>6. /\ \A k \in DOMAIN log : log[k] \in Event
      /\ \A k \in DOMAIN deferred : deferred[k] \in Event
      /\ dropped \subseteq Event
      /\ pending # NoIntercept => pending.event \in Event
  BY DEF IInv, TypeOK, PendingIntercept
<1>7. \A k \in DOMAIN asked : asked[k].id # i
  BY <1>2 DEF IInv, CursorIsAhead
<1>8. CASE pending # NoIntercept
  <2>1. /\ deferred' = Append(deferred, e)
        /\ todo' = Tail(todo)
        /\ UNCHANGED <<pending, log, asked>>
    BY <1>8 DEF EnqueuePublish, e
  <2>2. /\ deferred' \in Seq(Event)
        /\ Ids(deferred') = Ids(deferred) \cup {i}
        /\ Distinct(deferred')
    BY <1>3, <1>4, <2>1, AppendEvent DEF IInv, TypeOK, NothingRepeated
  <2>3. TypeOK'
    BY <1>1, <1>2, <2>1, <2>2 DEF IInv, TypeOK
  <2>4. NothingLost' /\ NothingRepeated'
    <3>1. Ids(deferred)' = Ids(deferred) \cup {i} /\ Distinct(deferred)'
      BY <2>2 DEF Ids, Distinct
    <3>2. /\ Ids(log)' = Ids(log) /\ PendingIds' = PendingIds /\ DroppedIds' = DroppedIds
          /\ (Distinct(log)' <=> Distinct(log))
      BY <1>1, <2>1 DEF Ids, PendingIds, DroppedIds, Distinct
    <3> QED
      BY <1>2, <1>4, <3>1, <3>2 DEF IInv, NothingLost, NothingRepeated
  <2>5. NamesAreKept'
    <3>1. Named(published', e)
      BY <1>2, <1>3 DEF Named
    <3>2. \A k \in DOMAIN deferred' : (k \in DOMAIN deferred /\ deferred'[k] = deferred[k]) \/ deferred'[k] = e
      BY <2>1 DEF IInv, TypeOK
    <3>3. \A k \in DOMAIN deferred' : Named(published', deferred'[k])
      BY <1>5, <1>6, <3>1, <3>2 DEF IInv, NamesAreKept
    <3>4. /\ \A k \in DOMAIN log : Named(published', log[k])
          /\ Named(published', pending.event)
          /\ \A d \in dropped : Named(published', d) /\ d.name \notin MustPass
      BY <1>5, <1>6, <1>8 DEF IInv, NamesAreKept
    <3> QED
      BY <1>1, <2>1, <3>3, <3>4 DEF NamesAreKept, Named
  <2>6. NobodyWaitsForTheGone' /\ GoneHasNoRegistration' /\ DeferredWaits' /\ AskedInOrder'
    BY <1>1, <1>8, <2>1 DEF IInv, NobodyWaitsForTheGone, GoneHasNoRegistration, DeferredWaits,
                            AskedInOrder
  <2>7. CursorIsAhead'
    <3>1. Ids(deferred)' = Ids(deferred) \cup {i}
      BY <2>2 DEF Ids
    <3>2. \A k \in DOMAIN asked : asked[k].id \in DOMAIN published' \ (Ids(deferred) \cup {i})
      BY <1>2, <1>7 DEF IInv, CursorIsAhead
    <3> QED
      BY <1>8, <2>1, <3>1, <3>2 DEF IInv, CursorIsAhead, NotAfter
  <2> QED
    BY <2>3, <2>4, <2>5, <2>6, <2>7 DEF IInv
<1>9. CASE pending = NoIntercept
  <2>1. deferred' = deferred /\ DispatchStep(registry, e, NoIntercept, Tail(todo))
    BY <1>9 DEF EnqueuePublish, e
  <2>2. DispatchStep(registry', e, NoIntercept, Tail(todo))
    BY <1>1, <2>1
  <2>3. InHand(e, NoIntercept)
    BY <1>1, <1>2, <1>9, <2>1 DEF IInv, TypeOK, InHand, GoneHasNoRegistration, DeferredWaits
  <2>4. PendingIds = {}
    BY <1>9 DEF PendingIds
  <2>5. Unplaced(e)
    BY <1>2, <1>3, <1>4, <2>1, <2>4 DEF IInv, NothingLost, NothingRepeated, Unplaced
  <2>6. NamedAfter(e)
    <3>1. Named(published', e)
      BY <1>2, <1>3 DEF Named
    <3> QED
      BY <1>5, <1>6, <2>1, <3>1 DEF IInv, NamesAreKept, NamedAfter
  <2>7. AskedBefore(e, NoIntercept)
    BY <1>2, <1>3, <1>7, <2>1 DEF IInv, CursorIsAhead, AskedBefore
  <2> QED
    BY <1>2, <1>3, <2>2, <2>3, <2>5, <2>6, <2>7, Placed
<1> QED
  BY <1>8, <1>9

LEMMA DrainNextIInv ==
    ASSUME IInv, DrainNext
    PROVE  IInv'
<1> DEFINE e == Head(deferred)
<1>1. /\ draining /\ pending = NoIntercept /\ deferred # <<>>
      /\ deferred' = Tail(deferred)
      /\ DispatchStep(registry, e, NoIntercept, <<>>)
      /\ UNCHANGED <<connected, registry, draining, published, dropped>>
  BY DEF DrainNext
<1>2. /\ e \in Event
      /\ deferred' \in Seq(Event)
      /\ Ids(deferred) = Ids(deferred') \cup {e.id}
      /\ Distinct(deferred')
      /\ e.id \notin Ids(deferred')
  BY <1>1, PopEvent DEF IInv, TypeOK, NothingRepeated
<1>3. \A k \in DOMAIN deferred' : k + 1 \in DOMAIN deferred /\ deferred'[k] = deferred[k + 1]
  BY <1>1 DEF IInv, TypeOK
<1>4. 1 \in DOMAIN deferred /\ e = deferred[1]
  BY <1>1 DEF IInv, TypeOK
<1>5. DispatchStep(registry', e, NoIntercept, <<>>) /\ <<>> \in Seq(Names)
  BY <1>1
<1> HIDE DEF e
<1>6. InHand(e, NoIntercept)
  BY <1>1, <1>2 DEF IInv, TypeOK, InHand, GoneHasNoRegistration
<1>7. PendingIds = {}
  BY <1>1 DEF PendingIds
<1>8. Unplaced(e)
  BY <1>1, <1>2, <1>7 DEF IInv, NothingLost, NothingRepeated, Unplaced
<1>9. NamedAfter(e)
  BY <1>1, <1>3, <1>4 DEF IInv, NamesAreKept, NamedAfter
<1>10. AskedBefore(e, NoIntercept)
  BY <1>1, <1>2 DEF IInv, CursorIsAhead, AskedBefore
<1> QED
  BY <1>2, <1>5, <1>6, <1>8, <1>9, <1>10, Placed

(* Every step preserves the inductive invariant. *)
LEMMA NextIInv == IInv /\ [Next]_vars => IInv'
<1> SUFFICES ASSUME IInv, [Next]_vars PROVE IInv'
  OBVIOUS
<1>1. ASSUME NEW batch \in Batches, Handle(batch) PROVE IInv'
  <2>1. TypeOK'
    BY <1>1, InterceptionAssumption DEF Handle, IInv, TypeOK
  <2>2. NobodyWaitsForTheGone' /\ GoneHasNoRegistration' /\ DeferredWaits'
    BY <1>1 DEF Handle, IInv, NobodyWaitsForTheGone, GoneHasNoRegistration, DeferredWaits
  <2> QED
    BY <1>1, <2>1, <2>2, QuietIInv DEF Handle
<1>2. ASSUME NEW c \in Conns, NEW r \in Registrations, Register(c, r) PROVE IInv'
  <2>1. TypeOK'
    BY <1>2, InterceptionAssumption DEF Register, IInv, TypeOK
  <2>2. GoneHasNoRegistration'
    BY <1>2 DEF Register, IInv, TypeOK, GoneHasNoRegistration
  <2>3. NobodyWaitsForTheGone' /\ DeferredWaits'
    BY <1>2 DEF Register, IInv, NobodyWaitsForTheGone, DeferredWaits
  <2> QED
    BY <1>2, <2>1, <2>2, <2>3, QuietIInv DEF Register
<1>3. ASSUME NEW c \in Conns, Answer(c) PROVE IInv'
  BY <1>3, ReplyIInv, DisconnectIInv DEF Answer
<1>4. CASE EnqueuePublish
  BY <1>4, EnqueueIInv
<1>5. CASE DrainNext
  BY <1>5, DrainNextIInv
<1>6. CASE DrainEnd
  <2>1. TypeOK'
    BY <1>6 DEF DrainEnd, IInv, TypeOK
  <2>2. NobodyWaitsForTheGone' /\ GoneHasNoRegistration' /\ DeferredWaits'
    BY <1>6 DEF DrainEnd, IInv, NobodyWaitsForTheGone, GoneHasNoRegistration, DeferredWaits
  <2> QED
    BY <1>6, <2>1, <2>2, QuietIInv DEF DrainEnd
<1>7. CASE UNCHANGED vars
  <2>1. TypeOK'
    BY <1>7 DEF vars, IInv, TypeOK
  <2>2. NobodyWaitsForTheGone' /\ GoneHasNoRegistration' /\ DeferredWaits'
    BY <1>7 DEF vars, IInv, NobodyWaitsForTheGone, GoneHasNoRegistration, DeferredWaits
  <2> QED
    BY <1>7, <2>1, <2>2, QuietIInv DEF vars
<1> QED
  BY <1>1, <1>2, <1>3, <1>4, <1>5, <1>6, <1>7 DEF Next, StrayReply

LEMMA Inductive == Spec => []IInv
  BY InitIInv, NextIInv, PTL DEF Spec

-----------------------------------------------------------------------------
(* Whose words an event carries.  What is deferred has not been offered to  *)
(* anybody yet, and who is waited for has been asked about what waits.      *)

AskedAbout(requests, i, c) == \E k \in DOMAIN requests : requests[k].id = i /\ requests[k].conn = c

Authorised(requests, e) == e.author # "publisher" => AskedAbout(requests, e.id, e.author)

AuthorInv ==
    /\ \A k \in DOMAIN log : Authorised(asked, log[k])
    /\ \A k \in DOMAIN deferred : deferred[k].author = "publisher"
    /\ pending # NoIntercept =>
          Authorised(asked, pending.event) /\ AskedAbout(asked, pending.event.id, pending.conn)

(* An authorised event stays so when it is parked or committed.             *)
LEMMA PlacedAuthor ==
    ASSUME TypeOK, NEW e \in Event, NEW cursor, NEW rest \in Seq(Names),
           InHand(e, cursor), DispatchStep(registry', e, cursor, rest),
           \A k \in DOMAIN log : Authorised(asked, log[k]),
           \A k \in DOMAIN deferred' : deferred'[k].author = "publisher",
           Authorised(asked, e)
    PROVE  AuthorInv'
<1>1. Parked(registry', e, cursor) \/ Committed(e)
  BY DispatchEffect
<1>2. CASE Committed(e)
  <2>1. log' = Append(log, e) /\ pending' = NoIntercept /\ asked' = asked
    BY <1>2 DEF Committed
  <2>2. \A k \in DOMAIN log' : (k \in DOMAIN log /\ log'[k] = log[k]) \/ log'[k] = e
    <3>1. log \in Seq(Event)
      BY DEF TypeOK
    <3>2. /\ DOMAIN log' = DOMAIN log \cup {Len(log) + 1}
          /\ \A k \in DOMAIN log : log'[k] = log[k]
          /\ log'[Len(log) + 1] = e
      BY <2>1, <3>1
    <3> QED
      BY <3>2
  <2>3. \A k \in DOMAIN log' : Authorised(asked', log'[k])
    BY <2>1, <2>2
  <2> QED
    BY <2>1, <2>3 DEF AuthorInv
<1>3. CASE Parked(registry', e, cursor)
  <2>1. PICK c \in Conns :
        /\ pending' = [conn |-> c, event |-> e, priority |-> registry'[c].priority]
        /\ asked' = Append(asked, [id |-> e.id, conn |-> c, priority |-> registry'[c].priority])
        /\ log' = log
    BY <1>3 DEF Parked
  <2> DEFINE n == Len(asked) + 1
  <2>2. /\ DOMAIN asked \subseteq DOMAIN asked'
        /\ \A k \in DOMAIN asked : asked'[k] = asked[k]
        /\ n \in DOMAIN asked'
        /\ asked'[n] = [id |-> e.id, conn |-> c, priority |-> registry'[c].priority]
    BY <2>1 DEF TypeOK
  <2>3. asked'[n].id = e.id /\ asked'[n].conn = c
    BY <2>2
  <2> HIDE DEF n
  <2>4. \A d : Authorised(asked, d) => Authorised(asked', d)
    BY <2>2 DEF Authorised, AskedAbout
  <2>5. AskedAbout(asked', e.id, c)
    BY <2>2, <2>3 DEF AskedAbout
  <2>6. pending'.event = e /\ pending'.conn = c
    BY <2>1
  <2> QED
    BY <2>1, <2>4, <2>5, <2>6 DEF AuthorInv
<1> QED
  BY <1>1, <1>2, <1>3

(* What a step that moves no event leaves as it was.                        *)
LEMMA QuietAuthor ==
    ASSUME AuthorInv, UNCHANGED <<pending, deferred, log, asked>>
    PROVE  AuthorInv'
BY DEF AuthorInv

(* Every step keeps the authors right.                                      *)
LEMMA NextAuthor == IInv /\ AuthorInv /\ [Next]_vars => AuthorInv'
<1> SUFFICES ASSUME IInv, AuthorInv, [Next]_vars PROVE AuthorInv'
  OBVIOUS
<1>t. TypeOK /\ <<>> \in Seq(Names)
  BY DEF IInv
<1>1. ASSUME NEW batch \in Batches, Handle(batch) PROVE AuthorInv'
  BY <1>1, QuietAuthor DEF Handle
<1>2. ASSUME NEW c \in Conns, NEW r \in Registrations, Register(c, r) PROVE AuthorInv'
  BY <1>2, QuietAuthor DEF Register
<1>3. ASSUME NEW c \in Conns, NEW action \in Actions, Reply(c, action) PROVE AuthorInv'
  <2>1. /\ pending # NoIntercept /\ pending.conn = c /\ draining' = TRUE
        /\ UNCHANGED <<connected, registry, deferred, published>>
    BY <1>3 DEF Reply, Owes
  <2>2. CASE action = "drop" /\ pending.event.name \notin MustPass
    BY <1>3, <2>1, <2>2 DEF Reply, AuthorInv
  <2>3. CASE action # "drop" \/ pending.event.name \in MustPass
    <3> DEFINE e == Replied(pending, action)
    <3>1. dropped' = dropped /\ DispatchStep(registry, e, pending, <<>>)
      BY <1>3, <2>3 DEF Reply
    <3>2. DispatchStep(registry', e, pending, <<>>)
      BY <2>1, <3>1
    <3>3. pending \in PendingIntercept /\ pending.event \in Event
      BY <1>t, <2>1 DEF TypeOK, PendingIntercept
    <3>4. e \in Event /\ e.id = pending.event.id /\ e.author \in {c, pending.event.author}
          /\ e.name = pending.event.name
      BY <2>1, <3>3 DEF Replied, Event
    <3>5. Authorised(asked, e)
      BY <2>1, <3>4 DEF AuthorInv, Authorised
    <3>6. GoneHasNoRegistration' /\ connected' \subseteq Conns /\ registry' \in [Conns -> Registration]
      BY <1>t, <2>1 DEF IInv, GoneHasNoRegistration, TypeOK
    <3> HIDE DEF e
    <3>7. InHand(e, pending)
      BY <2>1, <3>1, <3>4, <3>6, WaitingInHand
    <3>8. /\ \A k \in DOMAIN log : Authorised(asked, log[k])
          /\ \A k \in DOMAIN deferred' : deferred'[k].author = "publisher"
      BY <2>1 DEF AuthorInv
    <3> QED
      BY <1>t, <3>2, <3>4, <3>5, <3>7, <3>8, PlacedAuthor
  <2> QED
    BY <2>2, <2>3
<1>4. ASSUME NEW c \in Conns, Disconnect(c) PROVE AuthorInv'
  <2>1. /\ connected' = connected \ {c}
        /\ registry' = [registry EXCEPT ![c] = NoRegistration]
        /\ UNCHANGED <<deferred, published, dropped>>
    BY <1>4 DEF Disconnect
  <2>2. CASE ~Owes(c)
    BY <1>4, <2>1, <2>2, QuietAuthor DEF Disconnect
  <2>3. CASE Owes(c)
    <3>1. /\ pending # NoIntercept
          /\ draining' = TRUE
          /\ DispatchStep(registry', pending.event, pending, <<>>)
      BY <1>4, <2>3 DEF Disconnect, Owes
    <3>2. connected' \subseteq Conns /\ registry' \in [Conns -> Registration]
      BY <1>t, <2>1 DEF TypeOK, NoRegistration, Registration
    <3>3. GoneHasNoRegistration'
      BY <1>t, <2>1 DEF IInv, TypeOK, GoneHasNoRegistration, NoRegistration
    <3>4. pending.event \in Event
      BY <1>t, <3>1 DEF TypeOK, PendingIntercept
    <3>5. InHand(pending.event, pending)
      BY <2>1, <3>1, <3>2, <3>3, <3>4, WaitingInHand
    <3>6. /\ \A k \in DOMAIN log : Authorised(asked, log[k])
          /\ \A k \in DOMAIN deferred' : deferred'[k].author = "publisher"
          /\ Authorised(asked, pending.event)
      BY <2>1, <3>1 DEF AuthorInv
    <3> QED
      BY <1>t, <3>1, <3>4, <3>5, <3>6, PlacedAuthor
  <2> QED
    BY <2>2, <2>3
<1>5. CASE EnqueuePublish
  <2> DEFINE e == [id |-> Len(published) + 1, name |-> Head(todo), author |-> "publisher"]
  <2>1. /\ todo # <<>>
        /\ published' = Append(published, Head(todo))
        /\ UNCHANGED <<connected, registry, draining, dropped>>
    BY <1>5 DEF EnqueuePublish
  <2>2. Head(todo) \in Names /\ Tail(todo) \in Seq(Names) /\ published' \in Seq(Names)
    BY <1>t, <2>1 DEF TypeOK
  <2>3. e \in Event /\ e.author = "publisher"
    BY <1>t, <2>2 DEF TypeOK, Event
  <2>4. CASE pending # NoIntercept
    <3>1. deferred' = Append(deferred, e) /\ UNCHANGED <<pending, log, asked>>
      BY <1>5, <2>4 DEF EnqueuePublish
    <3> HIDE DEF e
    <3>2. \A k \in DOMAIN deferred' : (k \in DOMAIN deferred /\ deferred'[k] = deferred[k]) \/ deferred'[k] = e
      BY <1>t, <3>1 DEF TypeOK
    <3>3. \A k \in DOMAIN deferred' : deferred'[k].author = "publisher"
      BY <2>3, <3>2 DEF AuthorInv
    <3> QED
      BY <3>1, <3>3 DEF AuthorInv
  <2>5. CASE pending = NoIntercept
    <3>1. deferred' = deferred /\ DispatchStep(registry, e, NoIntercept, Tail(todo))
      BY <1>5, <2>5 DEF EnqueuePublish
    <3> HIDE DEF e
    <3>2. DispatchStep(registry', e, NoIntercept, Tail(todo))
      BY <2>1, <3>1
    <3>3. InHand(e, NoIntercept)
      BY <1>t, <2>1, <2>2, <2>5, <3>1 DEF IInv, TypeOK, InHand, GoneHasNoRegistration, DeferredWaits
    <3>4. /\ \A k \in DOMAIN log : Authorised(asked, log[k])
          /\ \A k \in DOMAIN deferred' : deferred'[k].author = "publisher"
          /\ Authorised(asked, e)
      BY <2>3, <3>1 DEF AuthorInv, Authorised
    <3> QED
      BY <1>t, <2>2, <2>3, <3>2, <3>3, <3>4, PlacedAuthor
  <2> QED
    BY <2>4, <2>5
<1>6. CASE DrainNext
  <2> DEFINE e == Head(deferred)
  <2>1. /\ draining /\ pending = NoIntercept /\ deferred # <<>>
        /\ deferred' = Tail(deferred)
        /\ DispatchStep(registry, e, NoIntercept, <<>>)
        /\ UNCHANGED <<connected, registry, draining, published, dropped>>
    BY <1>6 DEF DrainNext
  <2>2. /\ \A k \in DOMAIN deferred' : k + 1 \in DOMAIN deferred /\ deferred'[k] = deferred[k + 1]
        /\ 1 \in DOMAIN deferred /\ e = deferred[1]
        /\ e \in Event /\ deferred' \in Seq(Event)
    BY <1>t, <2>1 DEF TypeOK
  <2>3. DispatchStep(registry', e, NoIntercept, <<>>)
    BY <2>1
  <2> HIDE DEF e
  <2>4. InHand(e, NoIntercept)
    BY <1>t, <2>1, <2>2 DEF IInv, TypeOK, InHand, GoneHasNoRegistration
  <2>5. /\ \A k \in DOMAIN log : Authorised(asked, log[k])
        /\ \A k \in DOMAIN deferred' : deferred'[k].author = "publisher"
        /\ Authorised(asked, e)
    BY <2>2 DEF AuthorInv, Authorised
  <2> QED
    BY <1>t, <2>2, <2>3, <2>4, <2>5, PlacedAuthor
<1>7. CASE DrainEnd \/ UNCHANGED vars
  BY <1>7, QuietAuthor DEF DrainEnd, vars
<1> QED
  BY <1>1, <1>2, <1>3, <1>4, <1>5, <1>6, <1>7 DEF Next, Answer, StrayReply

-----------------------------------------------------------------------------
(* The chain of an event is walked once and to its end.                     *)

(* What waits was asked about at the cursor. *)
CursorWasAsked ==
    pending # NoIntercept =>
        \E k \in DOMAIN asked : asked[k].id = pending.event.id /\ asked[k].priority = pending.priority

(* Requests in the order of the cursor repeat nobody. *)
LEMMA InOrderIsOnce == TypeOK /\ AskedInOrder => \A k \in DOMAIN asked : IsAskedOnce(k)
<1> SUFFICES ASSUME TypeOK, AskedInOrder, NEW k \in DOMAIN asked, NEW l \in DOMAIN asked,
                    asked[l] = asked[k], l # k
             PROVE  FALSE
  BY DEF IsAskedOnce
<1>1. k \in Nat /\ l \in Nat /\ asked[k] \in Request
  BY DEF TypeOK
<1>2. asked[k].priority \in Nat /\ ConnRank[asked[k].conn] \in Nat
  BY <1>1, InterceptionAssumption DEF Request
<1>3. k < l \/ l < k
  BY <1>1
<1> QED
  BY <1>2, <1>3 DEF AskedInOrder

(* A request that is made is the cursor of the next lookup. *)
LEMMA DispatchCursor ==
    ASSUME TypeOK, NEW reg \in [Conns -> Registration], NEW e \in Event, NEW cursor,
           NEW rest \in Seq(Names), DispatchStep(reg, e, cursor, rest)
    PROVE  CursorWasAsked'
<1>1. Parked(reg, e, cursor) \/ Committed(e)
  BY DispatchEffect
<1>2. CASE Committed(e)
  BY <1>2 DEF Committed, CursorWasAsked
<1>3. CASE Parked(reg, e, cursor)
  <2>1. PICK c \in Conns :
        /\ pending' = [conn |-> c, event |-> e, priority |-> reg[c].priority]
        /\ asked' = Append(asked, [id |-> e.id, conn |-> c, priority |-> reg[c].priority])
    BY <1>3 DEF Parked
  <2>2. asked \in Seq(Request)
    BY DEF TypeOK
  <2> DEFINE n == Len(asked) + 1
  <2>3. n \in DOMAIN asked' /\ asked'[n] = [id |-> e.id, conn |-> c, priority |-> reg[c].priority]
    BY <2>1, <2>2
  <2>4. asked'[n].id = e.id /\ asked'[n].priority = reg[c].priority
    BY <2>3
  <2>5. pending'.event = e /\ pending'.priority = reg[c].priority
    BY <2>1
  <2> HIDE DEF n
  <2>6. asked'[n].id = pending'.event.id /\ asked'[n].priority = pending'.priority
    BY <2>4, <2>5
  <2> QED
    BY <2>3, <2>6 DEF CursorWasAsked
<1> QED
  BY <1>1, <1>2, <1>3

(* Whoever is registered for an event that is committed was reached. *)
LEMMA CommitReaches ==
    ASSUME TypeOK, registry' \in [Conns -> Registration], NEW e \in Event, NEW cursor,
           NEW rest \in Seq(Names), DispatchStep(registry', e, cursor, rest),
           cursor # NoIntercept =>
               /\ cursor \in PendingIntercept
               /\ \E i \in DOMAIN asked : asked[i].id = e.id /\ asked[i].priority = cursor.priority
    PROVE  \A k \in DOMAIN log' \ DOMAIN log : EveryoneIsReached(k)'
<1> SUFFICES ASSUME NEW k \in DOMAIN log' \ DOMAIN log, NEW c \in Conns,
                    log'[k].name \in registry'[c].exact \cup registry'[c].prefix
             PROVE  \E i \in DOMAIN asked' : /\ asked'[i].id = log'[k].id
                                             /\ asked'[i].priority >= registry'[c].priority
  BY DEF EveryoneIsReached
<1>1. Commit(registry', e, cursor, rest)
  <2>1. ~Park(registry', e, cursor, rest)
    BY DEF Park
  <2> QED
    BY <2>1 DEF DispatchStep
<1>2. Candidates(registry', e.name, cursor) = {} /\ log' = Append(log, e) /\ asked' = asked
  BY <1>1 DEF Commit
<1>3. log'[k] = e
  <2>1. log \in Seq(Event)
    BY DEF TypeOK
  <2> QED
    BY <1>2, <2>1
<1>4. ~Past(registry', cursor, c)
  BY <1>2, <1>3, Zenon DEF Candidates
<1>5. cursor # NoIntercept /\ ~(cursor.priority < registry'[c].priority)
  BY <1>4 DEF Past
<1>6. PICK i \in DOMAIN asked : asked[i].id = e.id /\ asked[i].priority = cursor.priority
  BY <1>5
<1>7. cursor.priority \in Nat /\ registry'[c].priority \in Nat
  BY <1>5 DEF PendingIntercept, Registration
<1>8. asked'[i].priority >= registry'[c].priority
  BY <1>2, <1>5, <1>6, <1>7
<1> QED
  BY <1>2, <1>3, <1>6, <1>8

(* What the steps of a handler do to the event in hand: it is asked about or *)
(* committed, behind the cursor it waited at.                              *)
Walks ==
    \E e \in Event, cursor \in PendingIntercept \cup {NoIntercept}, rest \in Seq(Names) :
        /\ registry' \in [Conns -> Registration]
        /\ DispatchStep(registry', e, cursor, rest)
        /\ cursor # NoIntercept => cursor = pending /\ e.id = pending.event.id

(* Every other step leaves the log and the cursor, or forgets the latter. *)
Rests == log' = log /\ asked' = asked /\ pending' \in {pending, NoIntercept}

LEMMA NextWalks == TypeOK /\ [Next]_vars => Walks \/ Rests
<1> SUFFICES ASSUME TypeOK, [Next]_vars PROVE Walks \/ Rests
  OBVIOUS
<1>t. <<>> \in Seq(Names) /\ registry \in [Conns -> Registration]
  BY DEF TypeOK
<1>1. ASSUME NEW batch \in Batches, Handle(batch) PROVE Rests
  BY <1>1 DEF Handle, Rests
<1>2. ASSUME NEW c \in Conns, NEW r \in Registrations, Register(c, r) PROVE Rests
  BY <1>2 DEF Register, Rests
<1>3. ASSUME NEW c \in Conns, NEW action \in Actions, Reply(c, action) PROVE Walks \/ Rests
  <2>1. pending # NoIntercept /\ pending.conn = c /\ registry' = registry
    BY <1>3 DEF Reply, Owes
  <2>2. CASE action = "drop" /\ pending.event.name \notin MustPass
    BY <1>3, <2>2 DEF Reply, Rests
  <2>3. CASE action # "drop" \/ pending.event.name \in MustPass
    <3> DEFINE e == Replied(pending, action)
    <3>1. DispatchStep(registry', e, pending, <<>>)
      BY <1>3, <2>1, <2>3 DEF Reply
    <3>2. pending \in PendingIntercept /\ pending.event \in Event
      BY <2>1 DEF TypeOK, PendingIntercept
    <3>3. e \in Event /\ e.id = pending.event.id
      BY <2>1, <3>2 DEF Replied, Event
    <3> HIDE DEF e
    <3> QED
      BY <1>t, <2>1, <3>1, <3>2, <3>3 DEF Walks
  <2> QED
    BY <2>2, <2>3
<1>4. ASSUME NEW c \in Conns, Disconnect(c) PROVE Walks \/ Rests
  <2>1. registry' = [registry EXCEPT ![c] = NoRegistration]
    BY <1>4 DEF Disconnect
  <2>2. CASE ~Owes(c)
    BY <1>4, <2>2 DEF Disconnect, Rests
  <2>3. CASE Owes(c)
    <3>1. pending # NoIntercept /\ DispatchStep(registry', pending.event, pending, <<>>)
      BY <1>4, <2>3 DEF Disconnect, Owes
    <3>2. registry' \in [Conns -> Registration]
      BY <1>t, <2>1 DEF NoRegistration, Registration
    <3>3. pending \in PendingIntercept /\ pending.event \in Event
      BY <3>1 DEF TypeOK, PendingIntercept
    <3> QED
      BY <1>t, <3>1, <3>2, <3>3 DEF Walks
  <2> QED
    BY <2>2, <2>3
<1>5. CASE EnqueuePublish
  <2> DEFINE e == [id |-> Len(published) + 1, name |-> Head(todo), author |-> "publisher"]
  <2>1. todo # <<>> /\ registry' = registry
    BY <1>5 DEF EnqueuePublish
  <2>2. e \in Event /\ Tail(todo) \in Seq(Names)
    BY <2>1 DEF TypeOK, Event
  <2>3. CASE pending # NoIntercept
    BY <1>5, <2>3 DEF EnqueuePublish, Rests
  <2>4. CASE pending = NoIntercept
    <3>1. DispatchStep(registry', e, NoIntercept, Tail(todo))
      BY <1>5, <2>1, <2>4 DEF EnqueuePublish
    <3> HIDE DEF e
    <3> QED
      BY <1>t, <2>1, <2>2, <3>1 DEF Walks
  <2> QED
    BY <2>3, <2>4
<1>6. CASE DrainNext
  <2>1. deferred # <<>> /\ registry' = registry /\ DispatchStep(registry', Head(deferred), NoIntercept, <<>>)
    BY <1>6 DEF DrainNext
  <2>2. Head(deferred) \in Event
    BY <2>1 DEF TypeOK
  <2> QED
    BY <1>t, <2>1, <2>2 DEF Walks
<1>7. CASE DrainEnd \/ UNCHANGED vars
  BY <1>7 DEF DrainEnd, vars, Rests
<1> QED
  BY <1>1, <1>2, <1>3, <1>4, <1>5, <1>6, <1>7 DEF Next, Answer, StrayReply

LEMMA NextCursor == IInv /\ CursorWasAsked /\ [Next]_vars => CursorWasAsked'
<1> SUFFICES ASSUME IInv, CursorWasAsked, [Next]_vars PROVE CursorWasAsked'
  OBVIOUS
<1>1. TypeOK /\ (Walks \/ Rests)
  BY NextWalks DEF IInv
<1>2. CASE Walks
  BY <1>1, <1>2, DispatchCursor DEF Walks
<1>3. CASE Rests
  BY <1>3 DEF Rests, CursorWasAsked
<1> QED
  BY <1>1, <1>2, <1>3

LEMMA NextReaches ==
    ASSUME IInv, CursorWasAsked, [Next]_vars
    PROVE  \A k \in DOMAIN log' \ DOMAIN log : EveryoneIsReached(k)'
<1>1. TypeOK /\ (Walks \/ Rests)
  BY NextWalks DEF IInv
<1>2. CASE Walks
  <2>1. PICK e \in Event, cursor \in PendingIntercept \cup {NoIntercept}, rest \in Seq(Names) :
        /\ registry' \in [Conns -> Registration]
        /\ DispatchStep(registry', e, cursor, rest)
        /\ cursor # NoIntercept => cursor = pending /\ e.id = pending.event.id
    BY <1>2 DEF Walks
  <2>2. cursor # NoIntercept =>
            /\ cursor \in PendingIntercept
            /\ \E i \in DOMAIN asked : asked[i].id = e.id /\ asked[i].priority = cursor.priority
    BY <2>1 DEF CursorWasAsked
  <2> QED
    BY <1>1, <2>1, <2>2, CommitReaches
<1>3. CASE Rests
  BY <1>3 DEF Rests
<1> QED
  BY <1>1, <1>2, <1>3

-----------------------------------------------------------------------------
(* The order of the log.  Outside reactions, ids grow along the log, then   *)
(* the waiting event, then the deferred queue; and while the queue is being *)
(* drained only reactions are published.                                   *)

Earlier(d, e) == {d.name, e.name} \cap ReactionNames = {} => d.id < e.id

InOrder(s) == \A k, l \in DOMAIN s : k < l => Earlier(s[k], s[l])

Between(front, e, back) ==
    /\ \A k \in DOMAIN front : Earlier(front[k], e)
    /\ \A l \in DOMAIN back : Earlier(e, back[l])

Ahead(front, back) == \A k \in DOMAIN front, l \in DOMAIN back : Earlier(front[k], back[l])

OnlyReactions(names) == \A k \in DOMAIN names : names[k] \in ReactionNames

OrderInv ==
    /\ InOrder(log)
    /\ InOrder(deferred)
    /\ Ahead(log, deferred)
    /\ pending # NoIntercept => Between(log, pending.event, deferred)
    /\ draining => OnlyReactions(todo)

(* An event that belongs between the log and the queue keeps the order      *)
(* wherever it is put.                                                     *)
LEMMA PlacedOrder ==
    ASSUME TypeOK, NEW e \in Event, NEW cursor, NEW rest \in Seq(Names),
           InHand(e, cursor), DispatchStep(registry', e, cursor, rest),
           InOrder(log), InOrder(deferred'), Ahead(log, deferred'), Between(log, e, deferred'),
           draining' => OnlyReactions(rest)
    PROVE  OrderInv'
<1>1. Parked(registry', e, cursor) \/ Committed(e)
  BY DispatchEffect
<1>2. draining' => OnlyReactions(todo')
  <2>1. CASE Park(registry', e, cursor, rest)
    <3>1. todo' = rest
      BY <2>1 DEF Park
    <3> QED
      BY <3>1
  <2>2. CASE Commit(registry', e, cursor, rest)
    <3>1. PICK reaction \in Reactions[e.name] : todo' = reaction \o rest
      BY <2>2 DEF Commit
    <3>2. reaction \in Seq(Names) /\ e.name \in Names
      BY InterceptionAssumption DEF Event
    <3>3. OnlyReactions(reaction)
      <4>1. reaction \in UNION {Reactions[n] : n \in Names}
        BY <3>2
      <4> QED
        BY <4>1 DEF OnlyReactions, ReactionNames
    <3>4. \A k \in DOMAIN todo' : \/ k \in DOMAIN reaction /\ todo'[k] = reaction[k]
                                  \/ \E l \in DOMAIN rest : todo'[k] = rest[l]
      <4>1. /\ DOMAIN reaction = 1..Len(reaction) /\ DOMAIN rest = 1..Len(rest)
            /\ DOMAIN todo' = 1..(Len(reaction) + Len(rest))
            /\ \A k \in 1..(Len(reaction) + Len(rest)) :
                  todo'[k] = IF k <= Len(reaction) THEN reaction[k] ELSE rest[k - Len(reaction)]
            /\ Len(reaction) \in Nat /\ Len(rest) \in Nat
        BY <3>1, <3>2
      <4> DEFINE m == Len(reaction)
                 n == Len(rest)
      <4> HIDE DEF m, n
      <4>2. \A k \in 1..(m + n) : k \in 1..m \/ (~(k <= m) /\ k - m \in 1..n)
        BY <4>1 DEF m, n
      <4>3. \A k \in 1..m : k <= m
        BY <4>1 DEF m
      <4> QED
        BY <4>1, <4>2, <4>3 DEF m, n
    <3> QED
      BY <3>3, <3>4 DEF OnlyReactions
  <2> QED
    BY <2>1, <2>2 DEF DispatchStep
<1>3. CASE Committed(e)
  <2>1. log' = Append(log, e) /\ pending' = NoIntercept
    BY <1>3 DEF Committed
  <2> DEFINE n == Len(log)
  <2>2. /\ n \in Nat
        /\ DOMAIN log = 1..n
        /\ DOMAIN log' = 1..(n + 1)
        /\ \A k \in 1..n : log'[k] = log[k]
        /\ log'[n + 1] = e
    BY <2>1 DEF TypeOK
  <2> HIDE DEF n
  <2>3. \A k \in 1..(n + 1) : k \in 1..n \/ k = n + 1
    BY <2>2
  <2>4. \A k \in 1..n : ~(n + 1 < k) /\ ~(n + 1 < n + 1)
    BY <2>2
  <2>5. InOrder(log')
    <3>1. SUFFICES ASSUME NEW k \in 1..(n + 1), NEW l \in 1..(n + 1), k < l
                   PROVE  Earlier(log'[k], log'[l])
      BY <2>2 DEF InOrder
    <3>2. k \in 1..n
      BY <2>3, <2>4, <3>1
    <3>3. CASE l \in 1..n
      BY <2>2, <3>1, <3>2, <3>3 DEF InOrder
    <3>4. CASE l = n + 1
      BY <2>2, <3>2, <3>4 DEF Between
    <3> QED
      BY <2>3, <3>3, <3>4
  <2>6. Ahead(log', deferred')
    BY <2>2, <2>3 DEF Ahead, Between
  <2> QED
    BY <1>2, <2>1, <2>5, <2>6 DEF OrderInv
<1>4. CASE Parked(registry', e, cursor)
  <2>1. pending'.event = e /\ log' = log
    BY <1>4 DEF Parked
  <2> QED
    BY <1>2, <2>1 DEF OrderInv
<1> QED
  BY <1>1, <1>3, <1>4

(* Every step keeps the order.                                              *)
LEMMA NextOrder == IInv /\ OrderInv /\ [Next]_vars => OrderInv'
<1> SUFFICES ASSUME IInv, OrderInv, [Next]_vars PROVE OrderInv'
  OBVIOUS
<1>t. TypeOK /\ <<>> \in Seq(Names) /\ OnlyReactions(<<>>)
  BY DEF IInv, OnlyReactions
<1>1. ASSUME NEW batch \in Batches, Handle(batch) PROVE OrderInv'
  BY <1>1 DEF Handle, Idle, OrderInv
<1>2. ASSUME NEW c \in Conns, NEW r \in Registrations, Register(c, r) PROVE OrderInv'
  BY <1>2 DEF Register, OrderInv
<1>3. ASSUME NEW c \in Conns, NEW action \in Actions, Reply(c, action) PROVE OrderInv'
  <2>1. /\ pending # NoIntercept /\ draining' = TRUE /\ todo = <<>>
        /\ UNCHANGED <<connected, registry, deferred, published>>
    BY <1>3 DEF Reply, Owes, Idle
  <2>2. CASE action = "drop" /\ pending.event.name \notin MustPass
    BY <1>t, <1>3, <2>1, <2>2 DEF Reply, OrderInv
  <2>3. CASE action # "drop" \/ pending.event.name \in MustPass
    <3> DEFINE e == Replied(pending, action)
    <3>1. dropped' = dropped /\ DispatchStep(registry, e, pending, <<>>)
      BY <1>3, <2>3 DEF Reply
    <3>2. DispatchStep(registry', e, pending, <<>>)
      BY <2>1, <3>1
    <3>3. pending \in PendingIntercept /\ pending.event \in Event
      BY <1>t, <2>1 DEF TypeOK, PendingIntercept
    <3>4. e \in Event /\ e.id = pending.event.id /\ e.name = pending.event.name
      BY <3>3 DEF Replied, Event, PendingIntercept
    <3>6. GoneHasNoRegistration' /\ connected' \subseteq Conns /\ registry' \in [Conns -> Registration]
      BY <1>t, <2>1 DEF IInv, GoneHasNoRegistration, TypeOK
    <3> HIDE DEF e
    <3>7. InHand(e, pending)
      BY <2>1, <3>1, <3>4, <3>6, WaitingInHand
    <3>8. InOrder(log) /\ InOrder(deferred') /\ Ahead(log, deferred') /\ Between(log, e, deferred')
      BY <2>1, <3>4 DEF OrderInv, Between, Earlier
    <3> QED
      BY <1>t, <3>2, <3>4, <3>7, <3>8, PlacedOrder
  <2> QED
    BY <2>2, <2>3
<1>4. ASSUME NEW c \in Conns, Disconnect(c) PROVE OrderInv'
  <2>1. /\ connected' = connected \ {c}
        /\ registry' = [registry EXCEPT ![c] = NoRegistration]
        /\ UNCHANGED <<deferred, published, dropped>>
    BY <1>4 DEF Disconnect
  <2>2. CASE ~Owes(c)
    BY <1>4, <2>1, <2>2 DEF Disconnect, OrderInv
  <2>3. CASE Owes(c)
    <3>1. /\ pending # NoIntercept
          /\ draining' = TRUE
          /\ DispatchStep(registry', pending.event, pending, <<>>)
      BY <1>4, <2>3 DEF Disconnect, Owes
    <3>2. connected' \subseteq Conns /\ registry' \in [Conns -> Registration]
      BY <1>t, <2>1 DEF TypeOK, NoRegistration, Registration
    <3>3. GoneHasNoRegistration'
      BY <1>t, <2>1 DEF IInv, TypeOK, GoneHasNoRegistration, NoRegistration
    <3>4. pending.event \in Event
      BY <1>t, <3>1 DEF TypeOK, PendingIntercept
    <3>5. InHand(pending.event, pending)
      BY <2>1, <3>1, <3>2, <3>3, <3>4, WaitingInHand
    <3>6. InOrder(log) /\ InOrder(deferred') /\ Ahead(log, deferred')
          /\ Between(log, pending.event, deferred')
      BY <2>1, <3>1 DEF OrderInv
    <3> QED
      BY <1>t, <3>1, <3>4, <3>5, <3>6, PlacedOrder
  <2> QED
    BY <2>2, <2>3
<1>5. CASE EnqueuePublish
  <2> DEFINE e == [id |-> Len(published) + 1, name |-> Head(todo), author |-> "publisher"]
             i == Len(published) + 1
  <2>1. /\ todo # <<>>
        /\ published' = Append(published, Head(todo))
        /\ UNCHANGED <<connected, registry, draining, dropped>>
    BY <1>5 DEF EnqueuePublish
  <2>2. Head(todo) \in Names /\ Tail(todo) \in Seq(Names) /\ published' \in Seq(Names)
    BY <1>t, <2>1 DEF TypeOK
  <2>3. e \in Event /\ e.id = i /\ e.name = Head(todo)
    BY <1>t, <2>2 DEF TypeOK, Event
  <2>4. draining => OnlyReactions(Tail(todo)) /\ Head(todo) \in ReactionNames
    <3>1. /\ Head(todo) = todo[1] /\ 1 \in DOMAIN todo
          /\ \A k \in DOMAIN Tail(todo) : k + 1 \in DOMAIN todo /\ Tail(todo)[k] = todo[k + 1]
      BY <1>t, <2>1 DEF TypeOK
    <3> QED
      BY <3>1 DEF OrderInv, OnlyReactions
  (* The ids in use are below the new one. *)
  <2>5. /\ \A k \in DOMAIN log : log[k].id < i
        /\ \A k \in DOMAIN deferred : deferred[k].id < i
        /\ pending # NoIntercept => pending.event.id < i
    <3>1. \A j \in DOMAIN published : j < i
      BY <1>t DEF TypeOK
    <3>2. Ids(log) \cup Ids(deferred) \cup PendingIds \subseteq DOMAIN published
      BY DEF IInv, NothingLost
    <3> HIDE DEF i
    <3> QED
      BY <3>1, <3>2 DEF Ids, PendingIds
  <2> HIDE DEF e, i
  <2>6. CASE pending # NoIntercept
    <3>1. deferred' = Append(deferred, e) /\ todo' = Tail(todo) /\ UNCHANGED <<pending, log, asked>>
      BY <1>5, <2>6 DEF EnqueuePublish, e
    <3> DEFINE n == Len(deferred)
    <3>2. /\ n \in Nat
          /\ DOMAIN deferred = 1..n
          /\ DOMAIN deferred' = 1..(n + 1)
          /\ \A k \in 1..n : deferred'[k] = deferred[k]
          /\ deferred'[n + 1] = e
      BY <1>t, <3>1 DEF TypeOK
    <3> HIDE DEF n
    <3>3. \A k \in 1..(n + 1) : k \in 1..n \/ k = n + 1
      BY <3>2
    <3>4. \A k \in 1..n : ~(n + 1 < k) /\ ~(n + 1 < n + 1)
      BY <3>2
    <3>5. InOrder(deferred')
      <4>1. SUFFICES ASSUME NEW k \in 1..(n + 1), NEW l \in 1..(n + 1), k < l
                     PROVE  Earlier(deferred'[k], deferred'[l])
        BY <3>2 DEF InOrder
      <4>2. k \in 1..n
        BY <3>3, <3>4, <4>1
      <4>3. CASE l \in 1..n
        BY <3>2, <4>1, <4>2, <4>3 DEF OrderInv, InOrder
      <4>4. CASE l = n + 1
        BY <2>3, <2>5, <3>2, <4>2, <4>4 DEF Earlier
      <4> QED
        BY <3>3, <4>3, <4>4
    <3>6. \A k \in DOMAIN log : Earlier(log[k], e)
      BY <2>3, <2>5 DEF Earlier
    <3>7. Earlier(pending.event, e)
      BY <2>3, <2>5, <2>6 DEF Earlier
    <3>8. Ahead(log, deferred') /\ Between(log, pending.event, deferred')
      BY <2>6, <3>2, <3>3, <3>6, <3>7 DEF OrderInv, Ahead, Between
    <3> QED
      BY <2>1, <2>4, <3>1, <3>5, <3>8 DEF OrderInv
  <2>7. CASE pending = NoIntercept
    <3>1. deferred' = deferred /\ DispatchStep(registry, e, NoIntercept, Tail(todo))
      BY <1>5, <2>7 DEF EnqueuePublish, e
    <3>2. DispatchStep(registry', e, NoIntercept, Tail(todo))
      BY <2>1, <3>1
    <3>3. InHand(e, NoIntercept)
      BY <1>t, <2>1, <2>2, <2>7, <3>1 DEF IInv, TypeOK, InHand, GoneHasNoRegistration, DeferredWaits
    (* Either nothing is deferred, or this is a reaction. *)
    <3>4. \A l \in DOMAIN deferred : Earlier(e, deferred[l])
      <4>1. CASE draining
        BY <2>3, <2>4, <4>1 DEF Earlier
      <4>2. CASE ~draining
        BY <2>7, <4>2 DEF IInv, DeferredWaits
      <4> QED
        BY <4>1, <4>2
    <3>5. InOrder(log) /\ InOrder(deferred') /\ Ahead(log, deferred') /\ Between(log, e, deferred')
      BY <2>3, <2>5, <3>1, <3>4 DEF OrderInv, Between, Earlier
    <3>6. draining' => OnlyReactions(Tail(todo))
      BY <2>1, <2>4
    <3> QED
      BY <1>t, <2>2, <2>3, <3>2, <3>3, <3>5, <3>6, PlacedOrder
  <2> QED
    BY <2>6, <2>7
<1>6. CASE DrainNext
  <2> DEFINE e == Head(deferred)
  <2>1. /\ draining /\ pending = NoIntercept /\ deferred # <<>>
        /\ deferred' = Tail(deferred)
        /\ DispatchStep(registry, e, NoIntercept, <<>>)
        /\ UNCHANGED <<connected, registry, draining, published, dropped>>
    BY <1>6 DEF DrainNext
  <2>2. /\ \A k \in DOMAIN deferred' : k + 1 \in DOMAIN deferred /\ deferred'[k] = deferred[k + 1]
        /\ \A k \in DOMAIN deferred' : 1 < k + 1
        /\ \A k, l \in DOMAIN deferred' : k < l => k + 1 < l + 1
        /\ 1 \in DOMAIN deferred /\ e = deferred[1]
        /\ e \in Event /\ deferred' \in Seq(Event)
    BY <1>t, <2>1 DEF TypeOK
  <2>3. DispatchStep(registry', e, NoIntercept, <<>>)
    BY <2>1
  <2> HIDE DEF e
  <2>4. InHand(e, NoIntercept)
    BY <1>t, <2>1, <2>2 DEF IInv, TypeOK, InHand, GoneHasNoRegistration
  <2>5. InOrder(log) /\ InOrder(deferred') /\ Ahead(log, deferred')
    BY <2>2 DEF OrderInv, InOrder, Ahead
  <2>6. Between(log, e, deferred')
    BY <2>2 DEF OrderInv, InOrder, Ahead, Between
  <2> QED
    BY <1>t, <2>2, <2>3, <2>4, <2>5, <2>6, PlacedOrder
<1>7. CASE DrainEnd \/ UNCHANGED vars
  BY <1>7 DEF DrainEnd, vars, OrderInv
<1> QED
  BY <1>1, <1>2, <1>3, <1>4, <1>5, <1>6, <1>7 DEF Next, Answer, StrayReply

(* Nobody has written and nothing is in order yet when the harness starts.  *)
LEMMA InitAuthorAndOrder == Init => AuthorInv /\ OrderInv
BY DEF Init, AuthorInv, OrderInv, InOrder, Ahead

-----------------------------------------------------------------------------
(* Type correctness of the publish pipeline. *)
THEOREM TypeCorrect == Spec => []TypeOK
  BY Inductive, PTL DEF IInv

(* No publish is ever lost: enqueue_publish, the replies, the disconnects   *)
(* and the drain keep each one in exactly one place.                       *)
THEOREM PublishesAreConserved == Spec => []EachPublishOnce
<1>1. IInv => EachPublishOnce
  BY DEF IInv, EachPublishOnce
<1> QED
  BY <1>1, Inductive, PTL

(* What is committed has the name it was published with, and a must-pass    *)
(* event is never dropped.                                                 *)
THEOREM KindsAreKept == Spec => []KindIsKept
<1>1. IInv => KindIsKept
  BY DEF IInv, NamesAreKept, Named, KindIsKept, DroppedIds
<1> QED
  BY <1>1, Inductive, PTL

(* A publish never waits for a connection that is gone (handle_disconnect). *)
THEOREM NobodyIsWedgedByTheGone == Spec => []NobodyWaitsForTheGone
  BY Inductive, PTL DEF IInv

(* Between two frames, deferred publishes are there only because one waits. *)
THEOREM DeferredIsDrained == Spec => []DeferredIsHeldUp
<1>1. IInv => DeferredIsHeldUp
  BY DEF IInv, DeferredWaits, DeferredIsHeldUp, Idle
<1> QED
  BY <1>1, Inductive, PTL

(* No interceptor is asked about one event twice at one priority, and none   *)
(* that is registered when an event is committed is left at a later one,    *)
(* whatever registrations come and go while it waits (next_for).            *)
THEOREM ChainsAreWalked == Spec => ChainIsWalked
<1>1. Spec => []CursorWasAsked
  <2>1. Init => CursorWasAsked
    BY DEF Init, CursorWasAsked
  <2> QED
    BY <2>1, NextCursor, Inductive, PTL DEF Spec
<1>2. IInv /\ CursorWasAsked /\ [Next]_vars
          => [/\ \A k \in DOMAIN asked' \ DOMAIN asked : IsAskedOnce(k)'
              /\ \A k \in DOMAIN log' \ DOMAIN log : EveryoneIsReached(k)']_vars
  <2> SUFFICES ASSUME IInv, CursorWasAsked, [Next]_vars
               PROVE  /\ \A k \in DOMAIN asked' \ DOMAIN asked : IsAskedOnce(k)'
                      /\ \A k \in DOMAIN log' \ DOMAIN log : EveryoneIsReached(k)'
    OBVIOUS
  <2>1. (TypeOK /\ AskedInOrder)'
    BY NextIInv DEF IInv
  <2>2. (\A k \in DOMAIN asked : IsAskedOnce(k))'
    BY <2>1, InOrderIsOnce, PTL
  <2>3. \A k \in DOMAIN asked' \ DOMAIN asked : IsAskedOnce(k)'
    BY <2>2
  <2> QED
    BY <2>3, NextReaches
<1> QED
  BY <1>1, <1>2, Inductive, PTL DEF Spec, ChainIsWalked

(* Both together: the pipeline is never wedged.                             *)
THEOREM PipelineIsNeverWedged == Spec => []NobodyIsWedged
<1>1. NobodyWaitsForTheGone /\ DeferredIsHeldUp => NobodyIsWedged
  BY DEF NobodyIsWedged
<1> QED
  BY <1>1, NobodyIsWedgedByTheGone, DeferredIsDrained, PTL

(* An interceptor changes only what it was asked about and what it may      *)
(* change (handle_intercept_reply): names stay, must-pass events are never  *)
(* dropped, and every word in the log or in the waiting event is the        *)
(* publisher's or of an interceptor that was asked about that event.        *)
THEOREM RepliesMeetTheirEvents == Spec => []RepliesAreMatched
<1>1. Spec => []AuthorInv
  <2>1. Init => AuthorInv
    BY InitAuthorAndOrder
  <2> QED
    BY <2>1, NextAuthor, Inductive, PTL DEF Spec
<1>2. IInv /\ AuthorInv => RepliesAreMatched
  <2> SUFFICES ASSUME IInv, AuthorInv PROVE RepliesAreMatched
    OBVIOUS
  <2>1. KindIsKept
    BY DEF IInv, NamesAreKept, Named, KindIsKept, DroppedIds
  <2>2. AuthorWasAsked
    BY DEF AuthorInv, Authorised, AskedAbout, AuthorWasAsked
  <2> QED
    BY <2>1, <2>2 DEF RepliesAreMatched
<1> QED
  BY <1>1, <1>2, Inductive, PTL

(* What handlers publish is logged in the order of the publish calls, however *)
(* long any of it waited for an interceptor (enqueue_publish,               *)
(* drain_deferred_publishes); only reactions to commits may overtake.       *)
THEOREM PublishesKeepTheirOrder == Spec => []HandlerOrderIsKept
<1>1. Spec => []OrderInv
  <2>1. Init => OrderInv
    BY InitAuthorAndOrder
  <2> QED
    BY <2>1, NextOrder, Inductive, PTL DEF Spec
<1>2. OrderInv => HandlerOrderIsKept
  BY DEF OrderInv, InOrder, Earlier, HandlerOrderIsKept
<1> QED
  BY <1>1, <1>2, PTL

=============================================================================
