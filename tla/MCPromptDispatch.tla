--------------------------- MODULE MCPromptDispatch ---------------------------
(***************************************************************************)
(* TLC instances of PromptDispatch.                                        *)
(***************************************************************************)
EXTENDS PromptDispatch

CONSTANTS main, summary, delegate, ext

MCQueries == {summary, delegate}
MCDelegated == {delegate}
MCProviders == {ext}
Nobody == {}
HoldsAll == Kinds \ {"session_started"}

=============================================================================
