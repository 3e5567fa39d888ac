---------------------------- MODULE NotifyChannel ----------------------------
(***************************************************************************)
(* The notify channel of src/crates/tau-blocking-notify-channel/src/lib.rs *)
(* as its threads run it: a mutex around two booleans, a condition         *)
(* variable, and a count of senders that is decremented OUTSIDE the mutex. *)
(*                                                                         *)
(* A critical section that neither blocks nor releases the mutex half way  *)
(* is one action.  Dropping the last sender is two: the atomic decrement,  *)
(* and the locked section that marks the channel disconnected.  recv is    *)
(* one action per time it holds the mutex: entering (which may park it on  *)
(* the condition variable) and re-checking after a wake-up.                *)
(***************************************************************************)
EXTENDS Naturals, FiniteSets

CONSTANT Senders      \* the Sender handles that may ever exist

ASSUME SendersAssumption == IsFiniteSet(Senders) /\ Senders # {}

VARIABLES
    handle,         \* life of each Sender: "unborn", "alive", "closing", "dropped"
    sender_count,   \* Shared::sender_count
    notified,       \* State::notified
    disconnected,   \* State::disconnected
    receiver,       \* "idle", "parked" on the condvar, or "woken" and wanting the mutex
    answer          \* how the last finished recv or try_recv ended

vars == <<handle, sender_count, notified, disconnected, receiver, answer>>

Answers == {"none", "ok", "empty", "disconnected"}

TypeOK ==
    /\ handle \in [Senders -> {"unborn", "alive", "closing", "dropped"}]
    /\ sender_count \in Nat
    /\ notified \in BOOLEAN
    /\ disconnected \in BOOLEAN
    /\ receiver \in {"idle", "parked", "woken"}
    /\ answer \in Answers

Alive == {s \in Senders : handle[s] = "alive"}

(* channel() returns one sender, counted, and the receiver. *)
Init ==
    /\ \E s \in Senders : handle = [t \in Senders |-> IF t = s THEN "alive" ELSE "unborn"]
    /\ sender_count = 1
    /\ notified = FALSE
    /\ disconnected = FALSE
    /\ receiver = "idle"
    /\ answer = "none"

(* Condvar::notify_one: wakes the receiver if it is parked, else is lost. *)
NotifyOne == receiver' = IF receiver = "parked" THEN "woken" ELSE receiver

-----------------------------------------------------------------------------
(* Sender *)

(* Fault: a clone is not counted. *)
CloneUncounted(s, t) ==
    /\ handle[s] = "alive"
    /\ handle[t] = "unborn"
    /\ handle' = [handle EXCEPT ![t] = "alive"]
    /\ UNCHANGED <<sender_count, notified, disconnected, receiver, answer>>

Clone(s, t) ==
    /\ handle[s] = "alive"
    /\ handle[t] = "unborn"
    /\ handle' = [handle EXCEPT ![t] = "alive"]
    /\ sender_count' = sender_count + 1
    /\ UNCHANGED <<notified, disconnected, receiver, answer>>

(* Fault: the flag is set and nobody is woken. *)
NotifyQuietly(s) ==
    /\ handle[s] = "alive"
    /\ notified' = TRUE
    /\ UNCHANGED <<handle, sender_count, disconnected, receiver, answer>>

Notify(s) ==
    /\ handle[s] = "alive"
    /\ IF notified
       THEN UNCHANGED <<notified, receiver>>
       ELSE notified' = TRUE /\ NotifyOne
    /\ UNCHANGED <<handle, sender_count, disconnected, answer>>

(* Drop, first half: fetch_sub.  Only the drop that takes the count to zero *)
(* goes on to lock the state.                                              *)
DropDecrement(s) ==
    /\ handle[s] = "alive"
    /\ sender_count' = sender_count - 1
    /\ handle' = [handle EXCEPT ![s] = IF sender_count = 1 THEN "closing" ELSE "dropped"]
    /\ UNCHANGED <<notified, disconnected, receiver, answer>>

(* Fault: the last drop marks the channel without waking the receiver. *)
DropDisconnectQuietly(s) ==
    /\ handle[s] = "closing"
    /\ handle' = [handle EXCEPT ![s] = "dropped"]
    /\ disconnected' = TRUE
    /\ UNCHANGED <<sender_count, notified, receiver, answer>>

DropDisconnect(s) ==
    /\ handle[s] = "closing"
    /\ handle' = [handle EXCEPT ![s] = "dropped"]
    /\ disconnected' = TRUE
    /\ NotifyOne
    /\ UNCHANGED <<sender_count, notified, answer>>

-----------------------------------------------------------------------------
(* Receiver *)

(* Fault: the disconnection is reported before a pending notification. *)
RecvCheckDisconnectedFirst ==
    \/ /\ disconnected
       /\ receiver' = "idle"
       /\ answer' = "disconnected"
       /\ UNCHANGED notified
    \/ /\ notified
       /\ ~disconnected
       /\ notified' = FALSE
       /\ receiver' = "idle"
       /\ answer' = "ok"
    \/ /\ ~notified
       /\ ~disconnected
       /\ receiver' = "parked"
       /\ UNCHANGED <<notified, answer>>

(* What recv does each time it holds the mutex. *)
RecvCheck ==
    \/ /\ notified
       /\ notified' = FALSE
       /\ receiver' = "idle"
       /\ answer' = "ok"
    \/ /\ ~notified
       /\ disconnected
       /\ receiver' = "idle"
       /\ answer' = "disconnected"
       /\ UNCHANGED notified
    \/ /\ ~notified
       /\ ~disconnected
       /\ receiver' = "parked"
       /\ UNCHANGED <<notified, answer>>

RecvEnter ==
    /\ receiver = "idle"
    /\ RecvCheck
    /\ UNCHANGED <<handle, sender_count, disconnected>>

RecvRecheck ==
    /\ receiver = "woken"
    /\ RecvCheck
    /\ UNCHANGED <<handle, sender_count, disconnected>>

(* A condition variable may wake its waiter for no reason. *)
SpuriousWakeup ==
    /\ receiver = "parked"
    /\ receiver' = "woken"
    /\ UNCHANGED <<handle, sender_count, notified, disconnected, answer>>

TryRecv ==
    /\ receiver = "idle"
    /\ notified' = FALSE
    /\ answer' = IF notified THEN "ok"
                 ELSE IF disconnected THEN "disconnected" ELSE "empty"
    /\ UNCHANGED <<handle, sender_count, disconnected, receiver>>

Next ==
    \/ \E s, t \in Senders : Clone(s, t)
    \/ \E s \in Senders : Notify(s) \/ DropDecrement(s) \/ DropDisconnect(s)
    \/ RecvEnter \/ RecvRecheck \/ SpuriousWakeup \/ TryRecv

(* A thread that holds or wants the mutex, or is inside Drop, is scheduled. *)
(* No sender has to notify, be dropped or be cloned, and nobody has to call *)
(* recv; a spurious wake-up is never owed.                                  *)
Fairness ==
    /\ WF_vars(RecvRecheck)
    /\ \A s \in Senders : WF_vars(DropDisconnect(s))

Spec == Init /\ [][Next]_vars /\ Fairness

-----------------------------------------------------------------------------
(* No lost wake-up: a parked receiver has nothing to wait for any more only *)
(* if it was already woken.  This is what holding the mutex around both the *)
(* flag changes and notify_one buys (Sender::notify, Drop for Sender).      *)
NoLostWakeup == receiver = "parked" => ~notified /\ ~disconnected

(* The counter, kept outside the mutex, agrees with the handles: nobody can *)
(* notify or clone once the channel is disconnected, at most one drop ever  *)
(* closes it, and with no sender left either it is closed or one drop is    *)
(* about to close it.                                                      *)
DisconnectIsExact ==
    /\ disconnected => Alive = {}
    /\ Alive = {} => disconnected \/ \E s \in Senders : handle[s] = "closing"
    /\ \A s, t \in Senders :
          handle[s] = "closing" /\ handle[t] \in {"closing", "alive"} => s = t

(* What the receiver sees is what the senders did: no notification and no   *)
(* hang-up is lost, and no hang-up is reported early (Sender, Drop, recv).   *)
WakeupsAreExact == NoLostWakeup /\ DisconnectIsExact

(* A receive that has something to report returns: a notification wakes it, *)
(* and so does the drop of the last sender even though the count reaches    *)
(* zero before the flag says so.                                           *)
RecvReturns ==
    (receiver # "idle" /\ (notified \/ sender_count = 0)) ~> receiver = "idle"

Contract == INSTANCE CoalescingFlag WITH
    flag <- notified,
    closed <- disconnected,
    waiting <- receiver # "idle"

(* The channel implements its contract, and a receive returns.              *)
ContractSpec == Contract!CSpec /\ RecvReturns

=============================================================================
