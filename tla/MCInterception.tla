--------------------------- MODULE MCInterception ---------------------------
(***************************************************************************)
(* TLC instance of Interception.  Three names: a prompt (must-pass), what   *)
(* the harness publishes in reaction to its commit (must-pass), and a note  *)
(* that may be dropped.  The connections' component names are in the        *)
(* opposite order of their ids.                                            *)
(***************************************************************************)
EXTENDS Interception, TLC

CONSTANTS c1, c2

MCConns == {c1, c2}
MCNames == {"prompt", "created", "note"}
MCMustPass == {"prompt", "created"}

MCRegistrations ==
    {[priority |-> 0, exact |-> {"prompt"}, prefix |-> {}],
     [priority |-> 1, exact |-> {}, prefix |-> {"prompt", "created", "note"}]}

MCBatches == {<<"prompt", "note", "note">>}

(* A dispatch was parked behind the prompt: its commit publishes the        *)
(* session.prompt_created (send_prompt_to_agent_for).                      *)
MCReactions == [n \in MCNames |-> IF n = "prompt" THEN {<<"created">>} ELSE {<<>>}]

MCCompRank == (c1 :> 2) @@ (c2 :> 1)
MCConnRank == (c1 :> 1) @@ (c2 :> 2)

=============================================================================
