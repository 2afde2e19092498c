-------------------------------- MODULE MCPath --------------------------------
(***************************************************************************)
(* The path of a message: how it is stored (Inbound), then what becomes of *)
(* the conversation it is in (Conversation).  The two share no variable; a *)
(* behaviour is about one of them, its subject, and the other rests.       *)
(***************************************************************************)
EXTENDS MCInbound, Conversation

VARIABLE subject

PathInit == subject \in {"message", "conversation"} /\ Init /\ ConversationInit

PathNext ==
  \/ subject = "message" /\ Next /\ UNCHANGED <<subject, conversationVars>>
  \/ subject = "conversation" /\ ConversationNext /\ UNCHANGED <<subject, vars>>

PathSymmetry == Permutations(Tasks) \union Permutations(Questions)

PathSpec == PathInit /\ [][PathNext]_<<subject, vars, conversationVars>>
==============================================================================
