----------------------------- MODULE TopicCommands -----------------------------
(***************************************************************************)
(* Topics and the contexts that they are bound to: /ctx, /topic, /fork, a  *)
(* prompt with directives (telegram/topics.py, telegram/commands/topics.py *)
(* and telegram/context.py), and `yee88 topic` (cli/topic.py).             *)
(*                                                                         *)
(* A handler waits for Telegram between its accesses to the store.  What   *)
(* Telegram does to the forum, and what the handler then does first with   *)
(* the answer, is one step.                                                *)
(***************************************************************************)
EXTENDS ChatState

VARIABLES
  forum,     \* the names of the topics, in the order of their creation, on Telegram
  misnamed   \* history: the topics whose last renaming failed, or that were renamed,
             \* or bound, by a handler that was no longer up to date

topicVars == <<forum, misnamed>>

Gone       == "gone"        \* somebody deleted the topic
OtherTitle == "other title" \* not the title of a context: a person's, or a fork's

\* One topic is there already, made by a person.
TopicInit == forum = <<OtherTitle>> /\ misnamed = {}

_topic_title(c) == c

------------------------------------------------------------------------------
(* /ctx, and directives. *)

\* /ctx clear, in a topic or outside.
ClearContext(i) ==
  /\ Is(i, "unbind", "asked")
  /\ Stores(Asks(i).place, "context", None)
  /\ Meets(i, Asks(i).place, "context", Done)
  /\ Allows(i, Asks(i).place, "context", {None})
  /\ UNCHANGED <<muddled, topicVars>>

\* /ctx set, or the context of a prompt's directives, which a topic is bound to.
SetContext(i) ==
  LET p == Asks(i).place IN
  /\ Is(i, "bind", "asked")
  /\ Stores(p, "context", Asks(i).arg)
  /\ Meets(i, p, "context", IF p = 0 THEN Done ELSE [pc |-> "title"])
  /\ Allows(i, p, "context", {Asks(i).arg})
  /\ UNCHANGED <<muddled, topicVars>>

\* _maybe_rename_topic: nothing to do if the title is right.
CheckTitle(i) ==
  /\ Is(i, "bind", "title")
  /\ Goes(i, IF stored[Asks(i).place].topic_title = _topic_title(Asks(i).arg)
             THEN Done ELSE [pc |-> "edit"])
  /\ UNCHANGED <<stored, said, muddled, topicVars>>

\* editForumTopic succeeds.
Renamed(t, c) ==
  /\ forum[t] # Gone
  /\ forum' = [forum EXCEPT ![t] = _topic_title(c)]
  /\ misnamed' = misnamed \ {t}

\* It fails, as the topic is gone or for another reason.
NotRenamed(t) == misnamed' = misnamed \cup {t} /\ UNCHANGED forum

\* Mutant of RenameReturns: only the title is written back.
RenameReturnsTitle(i) ==
  LET t == Asks(i).place  c == Asks(i).arg IN
  /\ Is(i, "bind", "edit")
  /\ \/ /\ Renamed(t, c)
        /\ stored' = [stored EXCEPT ![t].topic_title = _topic_title(c)]
        /\ Meets(i, t, "context", Done)
     \/ NotRenamed(t) /\ Goes(i, Done) /\ UNCHANGED stored
  /\ UNCHANGED <<said, muddled>>

\* The rest of _maybe_rename_topic: the title is written, and the context again.
RenameReturns(i) ==
  LET t == Asks(i).place  c == Asks(i).arg IN
  /\ Is(i, "bind", "edit")
  /\ \/ /\ Renamed(t, c)
        /\ stored' = [stored EXCEPT ![t].topic_title = _topic_title(c), ![t].context = c]
        /\ Meets(i, t, "context", Done)
     \/ NotRenamed(t) /\ Goes(i, Done) /\ UNCHANGED stored
  /\ UNCHANGED <<said, muddled>>

------------------------------------------------------------------------------
(* /topic, /fork and `yee88 topic`. *)

\* find_thread_for_context: a topic that is bound to c, 0 if there is none.
Found(c) ==
  LET bound == {t \in Topic : stored[t].context = c} IN
  IF c = None \/ bound = {} THEN {0} ELSE bound

FindTopic(i) ==
  /\ Is(i, "topic", "asked")
  /\ \E t \in Found(Asks(i).arg) :
       Goes(i, [pc |-> IF t = 0 THEN "create" ELSE "try", seen |-> t])
  /\ UNCHANGED <<stored, said, muddled, topicVars>>

\* /topic renames the topic that it found, to see whether it is there.
TryTopic(i) ==
  LET t == commands[i].seen IN
  /\ Is(i, "topic", "try")
  /\ \/ /\ forum[t] # Gone /\ Goes(i, Done)
        /\ forum' = [forum EXCEPT ![t] = _topic_title(Asks(i).arg)]
        /\ misnamed' = IF stored[t].context = Asks(i).arg THEN misnamed ELSE misnamed \cup {t}
     \/ UNCHANGED topicVars /\ Goes(i, [pc |-> "create"])
  /\ UNCHANGED <<stored, said, muddled>>

\* /fork reads the topic it is in.
ReadForked(i) ==
  /\ Is(i, "fork", "asked")
  /\ Goes(i, [pc |-> "create", seen |-> stored[Asks(i).place].context])
  /\ UNCHANGED <<stored, said, muddled, topicVars>>

\* `yee88 topic` does not look for another.
BeginCreate(i) ==
  /\ Is(i, "create", "asked") /\ Goes(i, [pc |-> "create"])
  /\ UNCHANGED <<stored, said, muddled, topicVars>>

\* The context, and the title, of the topic that i makes.  The command line names
\* the branch in the title only if it was given one.
NewContext(i) == IF Asks(i).kind = "fork" THEN commands[i].seen ELSE Asks(i).arg
NewTitle(i) ==
  CASE Asks(i).kind = "topic"  -> {_topic_title(Asks(i).arg)}
    [] Asks(i).kind = "fork"   -> {OtherTitle}
    [] Asks(i).kind = "create" -> {_topic_title(Asks(i).arg), OtherTitle}

\* The topic that /topic found and could not rename: it is forgotten.
Stale(i) == IF Asks(i).kind = "topic" THEN commands[i].seen ELSE 0

CreateReturns(i) ==
  LET t == Len(forum) + 1 IN
  /\ commands[i].pc = "create"
  /\ \/ /\ t \in Topic
        /\ \E name \in NewTitle(i) :
             /\ forum' = Append(forum, name)
             /\ Goes(i, IF NewContext(i) = None THEN Done
                        ELSE [pc |-> IF Stale(i) # 0 THEN "drop" ELSE "set",
                              thread |-> t, title |-> name])
     \/ Goes(i, Done) /\ UNCHANGED forum
  /\ UNCHANGED <<stored, said, muddled, misnamed>>

\* delete_thread: whatever was set for t is lost.
Deletes(i, t) ==
  /\ stored' = [stored EXCEPT ![t] = Blank]
  /\ IF \E s \in Setting : Others(i, t, s) # {}
     THEN muddled' = muddled \cup {t} /\ UNCHANGED said
     ELSE /\ said' = [said EXCEPT ![t] = [s \in Setting |-> {Blank[s]}]]
          /\ UNCHANGED muddled

DropStale(i) ==
  /\ commands[i].pc = "drop" /\ Deletes(i, Stale(i))
  /\ Goes(i, [pc |-> "set"])
  /\ UNCHANGED topicVars

\* The new topic is bound.
BindNew(i) ==
  LET t == commands[i].thread  c == NewContext(i) IN
  /\ commands[i].pc = "set"
  /\ stored' = [stored EXCEPT ![t].context = c, ![t].topic_title = commands[i].title]
  /\ Allows(i, t, "context", {c})
  /\ Meets(i, t, "context", Done)
  /\ misnamed' = IF commands[i].alone THEN misnamed ELSE misnamed \cup {t}
  /\ UNCHANGED <<muddled, forum>>

\* `yee88 topic --delete`: find and delete, in one store.
FindDeleted(i) ==
  /\ Is(i, "delete", "asked")
  /\ \E t \in Found(Asks(i).arg) :
       Goes(i, IF t = 0 THEN Done ELSE [pc |-> "forget", seen |-> t])
  /\ UNCHANGED <<stored, said, muddled, topicVars>>

DeleteFound(i) ==
  /\ Is(i, "delete", "forget") /\ Deletes(i, commands[i].seen)
  /\ Goes(i, Done)
  /\ UNCHANGED topicVars

\* Somebody deletes a topic on Telegram, which tells nobody.
DeletedByUser ==
  /\ \E t \in DOMAIN forum : forum[t] # Gone /\ forum' = [forum EXCEPT ![t] = Gone]
  /\ UNCHANGED <<chatVars, misnamed>>

TopicNext ==
  \/ \E i \in Asked :
       \/ ClearContext(i) \/ SetContext(i) \/ CheckTitle(i) \/ RenameReturns(i)
       \/ FindTopic(i) \/ TryTopic(i) \/ ReadForked(i) \/ BeginCreate(i)
       \/ CreateReturns(i) \/ DropStale(i) \/ BindNew(i) \/ FindDeleted(i) \/ DeleteFound(i)
  \/ DeletedByUser
================================================================================
