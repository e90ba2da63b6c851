----------------------------- MODULE TelegramCalls -----------------------------
(***************************************************************************)
(* What the calls of TelegramClient (telegram/client.py) put into the      *)
(* outbox: an operation's key decides which pending one it replaces, its   *)
(* priority when it is its turn, its chat how long the next one waits.     *)
(* id is the number of the call, which tells operations apart.             *)
(***************************************************************************)
EXTENDS Naturals

CONSTANTS
  GroupChat,        \* the chats whose id is negative
  PrivateInterval,  \* 1 / private_chat_rps, in ticks
  GroupInterval,    \* 1 / group_chat_rps
  NoChat, NoMessage

SEND_PRIORITY == 0
DELETE_PRIORITY == 1
EDIT_PRIORITY == 2

Call(key, priority, chat, wait, id) ==
  [key |-> key, priority |-> priority, chat |-> chat, wait |-> wait, id |-> id]

unique_key(prefix, id) == <<prefix, id>>

\* A message that takes the place of another has that one's key.
send_message(chat, replaces, id) ==
  Call(IF replaces = NoMessage THEN unique_key("send", id) ELSE <<"send", chat, replaces>>,
       SEND_PRIORITY, chat, TRUE, id)

\* send_document, send_photo and send_photo_url.
send_file(method, chat, id) == Call(unique_key(method, id), SEND_PRIORITY, chat, TRUE, id)

edit_message_text(chat, message, wait, id) ==
  Call(<<"edit", chat, message>>, EDIT_PRIORITY, chat, wait, id)

delete_message(chat, message, id) ==
  Call(<<"delete", chat, message>>, DELETE_PRIORITY, chat, TRUE, id)

\* set_my_commands, get_me and answer_callback_query.
ask_bot(method, id) == Call(unique_key(method, id), SEND_PRIORITY, NoChat, TRUE, id)

\* get_chat, get_chat_member, create_forum_topic and edit_forum_topic.
ask_chat(method, chat, id) == Call(unique_key(method, id), SEND_PRIORITY, chat, TRUE, id)

interval_for_chat(chat) == IF chat \in GroupChat THEN GroupInterval ELSE PrivateInterval
================================================================================
