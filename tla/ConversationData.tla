---------------------------- MODULE ConversationData ----------------------------
(***************************************************************************)
(* Image conversations: the values the store keeps and what each request    *)
(* makes of one (api/services/image_conversation_service.py). Titles, prompts *)
(* and times are left out; of a turn remain its id, the status of its images  *)
(* and one of its flags, of an image its status.                              *)
(***************************************************************************)
EXTENDS Naturals, Sequences, Filtered

CONSTANTS
  Conversations,  \* the keys "owner:conversation id"
  Turns,          \* the turn ids clients choose
  Images,         \* the image ids clients choose
  Statuses        \* what clients and threads report of an image; any text

ASSUME StatusesOK == "none" \notin Statuses

-----------------------------------------------------------------------------
(* Values *)

\* The status of each image of a turn, none for an image the turn has not got.
Results == Statuses \union {"none"}

Turn == [id : Turns, images : [Images -> Results], resultsDeleted : BOOLEAN]

\* A conversation that was never created, one deleted (deletedAt is set), or one
\* in use, with its turns in the order in which they were posted.
Absent == [status |-> "absent", turns |-> << >>]

\* No two turns of a conversation have one id; one never created has no turns.
Conversation ==
  {c \in [status : {"absent", "deleted", "live"}, turns : Seq(Turn)] :
     /\ \A m, n \in DOMAIN c.turns : c.turns[m].id = c.turns[n].id => m = n
     /\ c.status = "absent" => c = Absent}

TurnIds(c) == {c.turns[n].id : n \in DOMAIN c.turns}

-----------------------------------------------------------------------------
(* Requests *)

Request ==
  [kind : {"upsert", "delete"}, key : Conversations]
    \union [kind : {"createTurn"}, key : Conversations, id : Turns, images : [Images -> Results]]
    \union [kind : {"updateTurn"}, key : Conversations, id : Turns, resultsDeleted : BOOLEAN]
    \union [kind : {"updateResult"}, key : Conversations, image : Images,
            result : Statuses]

HasImage(c, image) == \E n \in DOMAIN c.turns : c.turns[n].images[image] # "none"

\* Mutant of Accepts: a deleted conversation takes requests as one in use.
AcceptsDeleted(req, c) == req.kind = "upsert" \/ c.status # "absent"

\* The requests the service does not refuse with "not found".
Accepts(req, c) ==
  CASE req.kind = "upsert" -> TRUE
    [] req.kind = "delete" -> c.status # "absent"
    [] req.kind = "createTurn" -> c.status = "live"
    [] req.kind = "updateTurn" -> c.status = "live" /\ req.id \in TurnIds(c)
    [] req.kind = "updateResult" -> c.status = "live" /\ HasImage(c, req.image)

\* upsert_conversation: creates, renames, or takes up a deleted conversation
\* again, with the turns it had.
Upserted(c) == [c EXCEPT !.status = "live"]

\* delete_conversation keeps the turns.
Deleted(c) == [c EXCEPT !.status = "deleted"]

Posted(id, images) == [id |-> id, images |-> images, resultsDeleted |-> FALSE]

\* Mutant of WithTurn: the posted turn takes the place of all others.
WithTurnAlone(c, id, images) == [c EXCEPT !.turns = <<Posted(id, images)>>]

\* Mutant of WithTurn: a turn posted again stays in its old place as well.
WithTurnTwice(c, id, images) == [c EXCEPT !.turns = Append(@, Posted(id, images))]

\* create_turn: a turn of that id is replaced, the new one comes last.
WithTurn(c, id, images) ==
  [c EXCEPT !.turns = Append(Among(@, {t \in Turn : t.id # id}), Posted(id, images))]

\* update_turn
WithFlag(c, id, flag) ==
  [c EXCEPT !.turns = [n \in DOMAIN @ |->
     IF @[n].id = id THEN [@[n] EXCEPT !.resultsDeleted = flag] ELSE @[n]]]

\* update_result: the image in every turn that has it.
WithResult(c, image, result) ==
  [c EXCEPT !.turns = [n \in DOMAIN @ |->
     IF @[n].images[image] # "none" THEN [@[n] EXCEPT !.images[image] = result] ELSE @[n]]]

\* What an accepted request makes of its conversation.
Applied(req, c) ==
  CASE req.kind = "upsert" -> Upserted(c)
    [] req.kind = "delete" -> Deleted(c)
    [] req.kind = "createTurn" -> WithTurn(c, req.id, req.images)
    [] req.kind = "updateTurn" -> WithFlag(c, req.id, req.resultsDeleted)
    [] req.kind = "updateResult" -> WithResult(c, req.image, req.result)

=============================================================================
