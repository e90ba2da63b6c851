--------------------------- MODULE MCConversation -----------------------------
(***************************************************************************)
(* Values for Conversation.cfg and ConversationNew.cfg: a chat, a topic    *)
(* and another that is forked from it.                                     *)
(***************************************************************************)
EXTENDS Conversation

CONSTANTS chat, topic, fork
===============================================================================
