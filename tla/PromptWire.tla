----------------------------- MODULE PromptWire -----------------------------
(* What goes over the wire between the harness, the agent and the provider *)
(* for one prompt.  The harness sends a prompt as a difference to an       *)
(* earlier one (send_prompt_to_agent_for), the agent rebuilds it from its  *)
(* own snapshots (materialize_prompt), and a backend that keeps its own    *)
(* state is sent only the messages after the response it is chained to     *)
(* (build_request).  Pure operators; Agent.tla has the state.              *)
EXTENDS Integers, Sequences, SequencesExt

(* A branch is a sequence of entries <<kind, id>>: "user" and "result"     *)
(* (what the user or a tool says), "agent" (a reply with text), "call".    *)
(* A message is a role and the entries it is assembled from.               *)
Role(entry) == IF entry[1] \in {"agent", "call"} THEN "assistant" ELSE "user"

MessageOf(entry) == [role |-> Role(entry), content |-> <<entry>>]

(* A call goes into the assistant message before it, if there is one.      *)
AddEntry(messages, entry) ==
  IF /\ entry[1] = "call"
     /\ messages # <<>>
     /\ Last(messages).role = "assistant"
  THEN [messages EXCEPT ![Len(messages)].content = Append(@, entry)]
  ELSE Append(messages, MessageOf(entry))

Assemble(branch) == FoldLeft(AddEntry, <<>>, branch)

-----------------------------------------------------------------------------
(* The body of a prompt: what the model is to see and under which settings.*)
(* A reference is the id of an earlier prompt of the conversation, 0 for   *)
(* none.                                                                   *)
Body(system, tools, messages) ==
  [system |-> system, tools |-> tools, messages |-> messages]

WholeBody(body) ==
  [system |-> body.system, tools |-> body.tools, messages |-> body.messages,
   systemRef |-> 0, toolsRef |-> 0, prefixRef |-> 0, prefixCount |-> 0]

IsBase(base, snapshots) == base # 0 /\ base \in DOMAIN snapshots

(* Each of the three parts is left out when it is what the base has; of    *)
(* the messages, those the base has as well.                               *)
Compress(body, base, snapshots) ==
  IF ~IsBase(base, snapshots)
  THEN WholeBody(body)
  ELSE LET old       == snapshots[base]
           sameSys   == old.system = body.system
           sameTools == old.tools = body.tools
           continues == IsPrefix(old.messages, body.messages)
           known     == IF continues THEN Len(old.messages) ELSE 0
       IN [system |-> IF sameSys THEN "" ELSE body.system,
           tools |-> IF sameTools THEN "" ELSE body.tools,
           messages |-> SubSeq(body.messages, known + 1, Len(body.messages)),
           systemRef |-> IF sameSys THEN base ELSE 0,
           toolsRef |-> IF sameTools THEN base ELSE 0,
           prefixRef |-> IF continues THEN base ELSE 0,
           prefixCount |-> known]

CanMaterialize(sent, snapshots) ==
  /\ {sent.systemRef, sent.toolsRef, sent.prefixRef} \subseteq DOMAIN snapshots \cup {0}
  /\ sent.prefixRef # 0 => sent.prefixCount <= Len(snapshots[sent.prefixRef].messages)

Materialize(sent, snapshots) ==
  Body(IF sent.systemRef = 0 THEN sent.system ELSE snapshots[sent.systemRef].system,
       IF sent.toolsRef = 0 THEN sent.tools ELSE snapshots[sent.toolsRef].tools,
       IF sent.prefixRef = 0
       THEN sent.messages
       ELSE SubSeq(snapshots[sent.prefixRef].messages, 1, sent.prefixCount) \o sent.messages)

-----------------------------------------------------------------------------
(* A link to an earlier response: its id and the index in the messages     *)
(* where the new ones begin.                                               *)
NoLink == [id |-> 0, index |-> 0]

(* A chained request carries the messages after the index.                 *)
BuildRequest(body, settings, link) ==
  LET chained == link # NoLink /\ link.index <= Len(body.messages)
  IN [chain |-> IF chained THEN link.id ELSE 0,
      messages |-> IF chained
                   THEN SubSeq(body.messages, link.index + 1, Len(body.messages))
                   ELSE body.messages,
      system |-> body.system, tools |-> body.tools, settings |-> settings]

(* What a warm-up of a connection and a turn must agree in for the turn to *)
(* be chained to it: everything but the messages.                          *)
SameButMessages(a, b) ==
  /\ a.system = b.system
  /\ a.tools = b.tools
  /\ a.settings = b.settings
=============================================================================
