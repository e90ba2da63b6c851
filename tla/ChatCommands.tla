----------------------------- MODULE ChatCommands ------------------------------
(***************************************************************************)
(* All the commands that change what is remembered of a chat, at once: the *)
(* main loop gives each a task of its own (telegram/loop.py:               *)
(* _dispatch_builtin_command), and `yee88 topic` and `yee88 handoff` are   *)
(* other processes.                                                        *)
(***************************************************************************)
EXTENDS ChatSettings, Handoff

commandVars == <<chatVars, topicVars>>

CommandsInit == ChatInit /\ TopicInit

\* A command comes from outside the topics, from a topic, or from the command line.
Dispatch(r) ==
  /\ r.place = 0 \/ (r.place \in DOMAIN forum /\ forum[r.place] # Gone)
  /\ Ask(r)

CommandsNext ==
  \/ /\ \/ \E r \in Requests : Dispatch(r)
        \/ \E i \in Asked : Refuse(i)
        \/ SettingsNext
     /\ UNCHANGED topicVars
  \/ TopicNext
  \/ HandoffNext

CommandsSpec == CommandsInit /\ [][CommandsNext]_commandVars

------------------------------------------------------------------------------
(* Properties. *)

\* A setting has the value that the last command gave it that was alone with it, or
\* one that commands which met on it since may have given it; a command never
\* changes a setting, or a field of an override, that it is not about
\* (commands/overrides.py:128-159, topics.py:127-166, commands/topics.py:276-424).
LastCommandHolds ==
  \A p \in Place \ muddled : \A s \in Setting : stored[p][s] \in said[p][s]

\* The name of a topic on Telegram tells the context that it is bound to, once no
\* handler is about to bind it, whatever order the renamings came back in
\* (topics.py:127-166: the context is written again with the title).
NamesTellContexts ==
  \A t \in DOMAIN forum \ misnamed :
    LET topic == stored[t] IN
    ( /\ topic.context # None /\ topic.topic_title \notin {None, OtherTitle}
      /\ forum[t] # Gone
      /\ \A i \in Asked : Claim(i) # <<t, "context">>
      /\ t \notin muddled )
    => topic.topic_title = topic.context /\ forum[t] = _topic_title(topic.context)

================================================================================
