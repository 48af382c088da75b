---------------------------- MODULE MCConversations ----------------------------
(* Instances of Conversations for TLC. *)
EXTENDS Conversations, TLC

Symmetric == Permutations(Instances) \union Permutations(Conversations)
                \union Permutations(Turns)

=============================================================================
