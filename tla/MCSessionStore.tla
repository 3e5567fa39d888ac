--------------------------- MODULE MCSessionStore ---------------------------
(***************************************************************************)
(* TLC instances of SessionStore.                                          *)
(***************************************************************************)
EXTENDS SessionStore

CONSTANTS d1, d2, s1, s2, main, delegate, summary

MCHarnesses == {d1, d2}
MCSessions == {s1, s2}

MCDelegates == {delegate}
MCSummaries == {summary}
MCContents == {"long", "short"}
MCSmall == {"short"}
Reliable == {}
MCSymmetry == Permutations(MCHarnesses) \cup Permutations(MCSessions)

=============================================================================
