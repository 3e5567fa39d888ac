--------------------------- MODULE MCToolScheduler ---------------------------
(***************************************************************************)
(* TLC instances of ToolScheduler: a provider of a pure and a mutating      *)
(* tool, a provider of delegate, and the harness's own skill.              *)
(***************************************************************************)
EXTENDS ToolScheduler

CONSTANTS main, side, side2, shell, agents, read1, write1, ask1, ask2, skill1

MCTools == {"read", "write", "delegate", "skill"}
MCSideEffects ==
    [t \in MCTools |-> IF t \in {"read", "skill"} THEN "pure" ELSE "mutating"]
MCInline == {"skill"}
MCDelegates == {"delegate"}
MCConns == {shell, agents}
MCOffers == [c \in MCConns |-> IF c = shell THEN {"read", "write"} ELSE {"delegate"}]
MCToolOf(calls) ==
    [x \in calls |-> CASE x = read1 -> "read"
                       [] x = write1 -> "write"
                       [] x \in {ask1, ask2} -> "delegate"
                       [] x = skill1 -> "skill"]

(* Two conversations, a provider that may die, a session that may be left. *)
SafetyCalls == {read1, write1, ask1, skill1}
SafetyToolOf == MCToolOf(SafetyCalls)
SafetyConvs == {main, side}
SafetyReadOnly == {}

(* A delegate of a delegate, one of them read-only. *)
LivenessCalls == {read1, write1, ask1, ask2}
LivenessToolOf == MCToolOf(LivenessCalls)
LivenessConvs == {main, side, side2}
LivenessReadOnly == {ask2}

=============================================================================
