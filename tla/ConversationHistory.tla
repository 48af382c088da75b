-------------------------- MODULE ConversationHistory --------------------------
(***************************************************************************)
(* What the store of image conversations promises, whichever process serves *)
(* a request: a request takes effect at one moment and as a whole, or not   *)
(* at all.                                                                  *)
(***************************************************************************)
EXTENDS ConversationData

VARIABLE stored  \* the conversation of each key

Init == stored = [k \in Conversations |-> Absent]

Take(req) ==
  /\ Accepts(req, stored[req.key])
  /\ stored' = [stored EXCEPT ![req.key] = Applied(req, @)]

Next == \E req \in Request : Take(req)

HistorySpec == Init /\ [][Next]_stored

=============================================================================
