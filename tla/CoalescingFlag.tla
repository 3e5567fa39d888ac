--------------------------- MODULE CoalescingFlag ---------------------------
(***************************************************************************)
(* What the notify channel of tau-blocking-notify-channel promises to its  *)
(* callers (the crate's contract, src/lib.rs:1-10): one bit that a send    *)
(* sets and a receive takes, a close that is final, and a receive that     *)
(* reports the close only when the bit is clear.  Locks, condition         *)
(* variables and the count of senders do not appear here; NotifyChannel    *)
(* implements this module.                                                 *)
(***************************************************************************)

VARIABLES
    flag,       \* a notification is pending
    closed,     \* every sender is gone for good
    waiting,    \* a receive is in progress
    answer      \* how the last finished receive ended: "none", "ok", "empty", "disconnected"

cvars == <<flag, closed, waiting, answer>>

CInit ==
    /\ flag = FALSE
    /\ closed = FALSE
    /\ waiting = FALSE
    /\ answer = "none"

(* A send: several sends before a receive leave one notification. *)
Send ==
    /\ ~closed
    /\ flag' = TRUE
    /\ UNCHANGED <<closed, waiting, answer>>

Close ==
    /\ closed' = TRUE
    /\ UNCHANGED <<flag, waiting, answer>>

Begin ==
    /\ ~waiting
    /\ waiting' = TRUE
    /\ UNCHANGED <<flag, closed, answer>>

(* The receive takes the notification; a pending one comes before the close. *)
Take ==
    /\ flag
    /\ flag' = FALSE
    /\ waiting' = FALSE
    /\ answer' = "ok"
    /\ UNCHANGED closed

Hangup ==
    /\ ~flag
    /\ closed
    /\ waiting' = FALSE
    /\ answer' = "disconnected"
    /\ UNCHANGED <<flag, closed>>

(* A poll that finds neither. *)
Poll ==
    /\ ~waiting
    /\ ~flag
    /\ ~closed
    /\ answer' = "empty"
    /\ UNCHANGED <<flag, closed, waiting>>

CNext == Send \/ Close \/ Begin \/ Take \/ Hangup \/ Poll

(* A receive in progress ends once there is something to report. *)
CSpec ==
    /\ CInit
    /\ [][CNext]_cvars
    /\ WF_cvars(waiting /\ (Take \/ Hangup))

=============================================================================
