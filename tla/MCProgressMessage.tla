-------------------------- MODULE MCProgressMessage ---------------------------
(***************************************************************************)
(* Values for ProgressMessage.cfg: two events in a private chat.           *)
(***************************************************************************)
EXTENDS ProgressMessage

CONSTANTS final_edit, final_send, removal, edit, send, delete

ProgressOps == Events \cup {final_edit, final_send, removal}
KeyOfOps == [o \in ProgressOps |-> CASE o = final_send -> send
                                     [] o = removal -> delete
                                     [] OTHER -> edit]
PriorityOfOps == [o \in ProgressOps |-> CASE o = final_send -> 0
                                          [] o = removal -> 1
                                          [] OTHER -> 2]
IntervalOfOps == [o \in ProgressOps |-> 1]
===============================================================================
