------------------------------- MODULE MCOutbox -------------------------------
(* Values for Outbox.cfg: two edits of one message, of which one is waited *)
(* for, and a message to a group, which is paced more slowly.              *)
EXTENDS Outbox, TelegramCalls

CONSTANTS e1, e2, s1, private, group, message

EditsAndSend == {e1, e2, s1}
CallOf(o) ==
  CASE o = e1 -> edit_message_text(private, message, FALSE, 1)
    [] o = e2 -> edit_message_text(private, message, TRUE, 2)
    [] o = s1 -> send_message(group, NoMessage, 3)

KeyOfOps      == [o \in EditsAndSend |-> CallOf(o).key]
KeysOfOps     == {CallOf(o).key : o \in EditsAndSend}
PriorityOfOps == [o \in EditsAndSend |-> CallOf(o).priority]
IntervalOfOps == [o \in EditsAndSend |-> interval_for_chat(CallOf(o).chat)]
WaitedOps     == {o \in EditsAndSend : CallOf(o).wait}

\* Only an edit of the same message, a removal of it, or a message in its place can
\* replace a pending call.
Calls(id) ==
  { send_message(group, NoMessage, id), send_message(group, message, id),
    send_file("send_photo", group, id), edit_message_text(group, message, TRUE, id),
    delete_message(group, message, id), ask_bot("get_me", id), ask_chat("get_chat", group, id) }

ASSUME ReplacesItsLike ==
  \A a \in Calls(1), b \in Calls(2) :
    a.key = b.key => a.key[1] \in {"send", "edit", "delete"} /\ a.key = <<a.key[1], group, message>>
===============================================================================
