----------------------------- MODULE MCClients -----------------------------
(* TLC instances of Clients: two terminals, two models, three roles. *)
EXTENDS Clients

CONSTANTS U1, U2

MCUis == {U1, U2}

MCRegistry ==
    [m1 |-> [custom |-> << >>, reasoning |-> TRUE, xhigh |-> TRUE, verbosity |-> TRUE,
             summary |-> TRUE],
     m2 |-> [custom |-> << "low", "high" >>, reasoning |-> TRUE, xhigh |-> FALSE,
             verbosity |-> FALSE, summary |-> FALSE]]
MCAvailable == << "m1", "m2" >>
MCRoleOrder == << "deep", "extra", "smart" >>
MCDefaultRoles ==
    [smart |-> [NoRole EXCEPT !.verbosity = "high"],
     deep  |-> [NoRole EXCEPT !.model = "m2", !.effort = "xhigh"]]
MCDefaultParams == [m \in {} |-> NoRole]

Request(t) == [t |-> t]
Level(t, level) == [t |-> t, level |-> level]
Prompt(text) == [t |-> "prompt", text |-> text]
Types(text) == [t |-> "type", text |-> text]
SetTo(name, value) == [t |-> "Set", name |-> name, value |-> value]
RoleSet(role, setting, value) ==
    [t |-> "UiRoleUpdate", action |-> "set", role |-> role, setting |-> setting, value |-> value]

RoleDelete(role) == [t |-> "UiRoleUpdate", action |-> "delete", role |-> role]
Picks(model) == [t |-> "UiModelSelect", model |-> model]

Quiet == [owners |-> {U1}, guests |-> {}, keys |-> {}, presses |-> 0, calls |-> {}, retro |-> FALSE]

Attended == [Quiet EXCEPT !.guests = {U2}]

(* What users and agent are up to, a scenario each. *)
MCScenarios ==
    {\* a turn while settings change
     [Quiet EXCEPT !.keys = {Prompt("a"), SetTo("thinking", FALSE), SetTo("tools", "compact"),
                             SetTo("diff", TRUE)},
          !.presses = 2, !.calls = {<< "edit" >>}, !.retro = TRUE],
     \* a turn that is joined; a turn that is steered; a turn with a sub-agent
     [Attended EXCEPT !.keys = {Prompt("a")}, !.presses = 1, !.calls = {<< "edit" >>}],
     [Quiet EXCEPT !.keys = {Prompt("a")}, !.presses = 2, !.calls = {<< "run" >>}],
     [Quiet EXCEPT !.keys = {Prompt("a")}, !.presses = 1, !.calls = {<< "delegate" >>}],
     [Attended EXCEPT !.keys = {Prompt("a"), Request("/new"), Request("/cancel")}, !.presses = 2],
     \* prompts that wait, are canceled, are left behind; commands of the user
     [Quiet EXCEPT !.keys = {Prompt("a"), Request("/new"), Request("/cancel")}, !.presses = 3],
     [Quiet EXCEPT !.keys = {Prompt("a"), Request("/new"), Request("!")}, !.presses = 2],
     \* the selection, on two screens and over a restart
     [Attended EXCEPT !.keys = {Request("back-tab"), Request("fast-toggle"),
                                Request("role-cycle"), Level("UiSetVerbosity", "low"),
                                Level("UiSetThinkingSummary", "concise"),
                                Picks("m1"), RoleSet("smart", "effort", "high"),
                                RoleSet("extra", "model", "m2"), RoleDelete("smart"), Picks("m3")},
          !.presses = 2],
     [Quiet EXCEPT !.owners = {U1, U2}, !.keys = {Request("back-tab"), Picks("m2"),
                                                  Request("/quit")}, !.presses = 3],
     \* who leaves, and how; a draft
     [Attended EXCEPT !.keys = {Request("/quit"), Request("/detach"), Request("hangup")},
          !.presses = 3],
     [Quiet EXCEPT !.keys = {Types("d"), Prompt("a"), Request("/quit")}, !.presses = 3]}

(* A level is changed in a role that has others. *)
MCRoleScenarios ==
    {[Quiet EXCEPT !.keys = {Request("role-cycle"), Level("UiSetVerbosity", "low")},
          !.presses = 2]}
=============================================================================
