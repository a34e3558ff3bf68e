--------------------------- MODULE MCConversation ---------------------------
(* Conversation on small instances: requests are interchangeable, and so are *)
(* the ids that clients supply.                                              *)
EXTENDS ConversationSlots, TLC

Interchangeable == Permutations(Requests) \cup Permutations(ClientIds)
=============================================================================
