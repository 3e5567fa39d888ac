------------------------------- MODULE Zones -------------------------------
(***************************************************************************)
(* The blocks of the prompt engine and the zones they are shown in, top to  *)
(* bottom: history, above_active, above_sticky, the input, suggestions and  *)
(* below.  A zone is a list of block ids; what an id shows is kept once, in *)
(* `blocks`.  TermHandle's calls are operators on that record, each of them *)
(* one critical section of the code.                                        *)
(***************************************************************************)
EXTENDS Integers, Sequences, SequencesExt, TLC

NoBlocks == [id \in {} |-> << >>]

EmptyZones ==
    [blocks |-> NoBlocks, next_id |-> 0, history |-> << >>, above_active |-> << >>,
     above_sticky |-> << >>, suggestions |-> << >>, below |-> << >>]

(* The id new_block and print_output return. *)
Allocated(z) == z.next_id

NewBlock(z, block) ==
    [z EXCEPT !.blocks = (z.next_id :> block) @@ @, !.next_id = @ + 1]

SetBlock(z, id, block) == [z EXCEPT !.blocks = (id :> block) @@ @]

Out(ids, id) == SelectSeq(ids, LAMBDA x : x # id)

RemoveFrom(z, zone, id) == [z EXCEPT ![zone] = Out(@, id)]

RemoveBlock(z, id) ==
    [blocks |-> [x \in DOMAIN z.blocks \ {id} |-> z.blocks[x]],
     next_id |-> z.next_id,
     history |-> Out(z.history, id),
     above_active |-> Out(z.above_active, id),
     above_sticky |-> Out(z.above_sticky, id),
     suggestions |-> Out(z.suggestions, id),
     below |-> Out(z.below, id)]

PushHistory(z, id) == [z EXCEPT !.history = Append(@, id)]

PushZone(z, zone, id) ==
    IF Contains(z[zone], id) THEN z ELSE [z EXCEPT ![zone] = Append(@, id)]

PrintOutput(z, block) == PushHistory(NewBlock(z, block), Allocated(z))

ClearOutput(z) == [EmptyZones EXCEPT !.next_id = z.next_id]

(* What a zone shows: missing and empty blocks are skipped. *)
Shown(z, zone) ==
    LET there == SelectSeq(z[zone], LAMBDA id : id \in DOMAIN z.blocks /\ z.blocks[id] # << >>)
    IN  [i \in DOMAIN there |-> z.blocks[there[i]]]

=============================================================================
