----------------------------- MODULE MCTerminal -----------------------------
(* TLC instances of Terminal: few cells, few keys. *)
EXTENDS Terminal

MCPrompt == << ">" >>
MCColsOf ==
    [c \in {">", " ", "x", "/", "a", "-", "m", "*", "W", "l", "."} |-> IF c = "W" THEN 2 ELSE 1]
MCCommands == << << "/", "a" >>, << "/", "m" >> >>
MCArgItems == (<< "/", "a" >> :> << << "m", "x" >>, << "x" >> >>)
MCPaths == << << ".", "/", ".", "l" >>, << ".", "/", "x" >> >>
MCDrafts == {<< "W", "x" >>}
MCOutputs == {<< "a" >>}
MCLives == << << "l" >>, << "l", NL, "l" >> >>

Typing(keys, presses, calls) ==
    [sizes |-> << << 4, 3 >> >>, status |-> TRUE, keys |-> keys, pastes |-> {}, bindings |-> {},
     presses |-> presses, calls |-> calls]

(* Output while a line grows; earlier lines; the motions and cuts; the menu; *)
(* another program and the end; a terminal that changes size.               *)
MCSessions ==
    {Typing({"x", "S-Enter"}, 2, 3),
     Typing({"x", "S-Enter", "Enter", "Up", "Down", "C-j", "C-k"}, 4, 0),
     [Typing({"C-u", "C-w", "C-a", "C-e", "Left", "Right", "Backspace", "Delete", "C-c"}, 3, 0)
         EXCEPT !.pastes = {<< "W", " ", "x", "x" >>}],
     Typing({"/", "Tab", "BackTab", "Esc", "Enter", "Up", "C-d"}, 4, 0),
     [Typing({"x", "Tab", "Enter", "Up"}, 3, 0)
         EXCEPT !.pastes = {<< "/", "a", " " >>, << ".", "/" >>}],
     [Typing({"C-g", "C-d", "x"}, 2, 1)
         EXCEPT !.bindings = {"insert", "prompt-next", "prompt-previous", "fast-toggle"}],
     [Typing({"x", "S-Enter"}, 2, 2) EXCEPT !.sizes = << << 4, 3 >>, << 6, 4 >> >>],
     [Typing({"x", "S-Enter"}, 3, 1) EXCEPT !.status = FALSE]}
=============================================================================
