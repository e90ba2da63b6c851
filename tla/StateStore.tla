------------------------------ MODULE StateStore -------------------------------
(***************************************************************************)
(* A JSON file of state that the bot and the command line both read and    *)
(* write (telegram/state_store.py, the base of the stores of topics, chat  *)
(* preferences and chat sessions; utils/json_state.py).                    *)
(*                                                                         *)
(* A process has one store for the file and a lock around each operation,  *)
(* so that it is in at most one of them.  Between processes there is no    *)
(* lock: the modification time says whether to read the file again, and a  *)
(* file is written next to the old one and then renamed.  What an update   *)
(* changes is left out: the content is the set of the updates it shows.    *)
(***************************************************************************)
EXTENDS Naturals, FiniteSets

CONSTANTS
  Process,  \* the bot and the commands that are ever run
  Update,   \* the updates that are ever made, each once
  Garbage,  \* marks a file that is no JSON: it was cut off, or written by two
  MaxFaults \* bound: crashes, failed reads and failed saves

ASSUME StoreAssumption == Garbage \notin Update /\ MaxFaults \in Nat

VARIABLES
  path, tmp_path, \* the file and its neighbour, as numbers of file objects
  content,   \* file object -> what it holds
  mtime,     \* file object -> when it was last written
  clock,     \* the last such time: no two writes have the same
  pc,        \* process -> the step of the operation it is in
  doing,     \* process -> the update it makes, none for an operation that reads
  loaded, mtime_ns, state, \* the fields of each process's store
  handle,    \* process -> the file object it writes
  completed, \* history: the updates whose operations have returned
  expected,  \* history: process -> what was completed as its operation began
  faults,    \* crashes, failed reads and failed saves so far
  disturbed  \* history: two processes were in an update at once, or a file that
             \* was there could not be read

\* There is no such file: file objects, and times, are numbered from 1.
NoFile == 0

Torn == {Garbage}

files   == <<path, tmp_path, content, mtime, clock>>
memory  == <<loaded, mtime_ns, state>>
history == <<completed, expected, disturbed>>
vars    == <<files, pc, doing, memory, handle, history, faults>>

Object  == DOMAIN content
Steps   == {"idle", "reload", "read", "ready", "write", "replace", "stat"}
Content == (SUBSET Update) \cup {Torn}

TypeOK ==
  /\ content \in [Object -> Content] /\ mtime \in [Object -> Nat]
  /\ path \in Object \cup {NoFile} /\ tmp_path \in Object \cup {NoFile}
  /\ clock \in Nat /\ faults \in 0..MaxFaults
  /\ pc \in [Process -> Steps] /\ doing \in [Process -> SUBSET Update]
  /\ loaded \in [Process -> BOOLEAN] /\ state \in [Process -> SUBSET Update]
  /\ mtime_ns \in [Process -> Nat]
  /\ handle \in [Process -> Nat]
  /\ completed \subseteq Update /\ expected \in [Process -> SUBSET Update]
  /\ disturbed \in BOOLEAN

Init ==
  /\ path = NoFile /\ tmp_path = NoFile
  /\ content = [i \in {} |-> Torn] /\ mtime = [i \in {} |-> 0] /\ clock = 0
  /\ pc = [p \in Process |-> "idle"] /\ doing = [p \in Process |-> {}]
  /\ loaded = [p \in Process |-> FALSE]
  /\ mtime_ns = [p \in Process |-> NoFile]
  /\ state = [p \in Process |-> {}]
  /\ handle = [p \in Process |-> NoFile]
  /\ completed = {} /\ expected = [p \in Process |-> {}]
  /\ faults = 0 /\ disturbed = FALSE

StepsTo(p, from, to) == pc[p] = from /\ pc' = [pc EXCEPT ![p] = to]

OneMoreFault == faults < MaxFaults /\ faults' = faults + 1

_stat_mtime_ns == IF path = NoFile THEN NoFile ELSE mtime[path]

------------------------------------------------------------------------------
(* Operations. *)

\* Somebody asks p for something, or to make update u.
Begin(p, u) ==
  /\ StepsTo(p, "idle", "reload")
  /\ u \cap (completed \cup UNION {doing[q] : q \in Process}) = {}
  /\ doing' = [doing EXCEPT ![p] = u]
  /\ expected' = [expected EXCEPT ![p] = completed]
  /\ disturbed' = (disturbed \/ (u # {} /\ \E q \in Process \ {p} : doing[q] # {}))
  /\ UNCHANGED <<files, memory, handle, completed, faults>>

\* Mutant of Reload: what was loaded once is not loaded again.
ReloadOnce(p) ==
  /\ pc[p] = "reload"
  /\ loaded' = [loaded EXCEPT ![p] = TRUE]
  /\ \/ loaded[p] /\ pc' = [pc EXCEPT ![p] = "ready"] /\ UNCHANGED <<mtime_ns, state>>
     \/ /\ ~loaded[p]
        /\ mtime_ns' = [mtime_ns EXCEPT ![p] = _stat_mtime_ns]
        /\ pc' = [pc EXCEPT ![p] = IF path = NoFile THEN "ready" ELSE "read"]
        /\ state' = [state EXCEPT ![p] = IF path = NoFile THEN {} ELSE @]
  /\ UNCHANGED <<files, doing, handle, history, faults>>

\* _reload_locked_if_needed, and the start of _load_locked: the time is noted before
\* the file is read.
Reload(p) ==
  /\ pc[p] = "reload"
  /\ loaded' = [loaded EXCEPT ![p] = TRUE]
  /\ mtime_ns' = [mtime_ns EXCEPT ![p] = _stat_mtime_ns]
  /\ \/ /\ loaded[p] /\ _stat_mtime_ns = mtime_ns[p]
        /\ pc' = [pc EXCEPT ![p] = "ready"] /\ UNCHANGED state
     \/ /\ ~(loaded[p] /\ _stat_mtime_ns = mtime_ns[p])
        /\ IF path = NoFile
           THEN /\ pc' = [pc EXCEPT ![p] = "ready"]
                /\ state' = [state EXCEPT ![p] = {}]
           ELSE pc' = [pc EXCEPT ![p] = "read"] /\ UNCHANGED state
  /\ UNCHANGED <<files, doing, handle, history, faults>>

\* The rest of _load_locked; what is no JSON counts as nothing.
Read(p) ==
  /\ StepsTo(p, "read", "ready")
  /\ state' = [state EXCEPT ![p] = IF content[path] = Torn THEN {} ELSE content[path]]
  /\ UNCHANGED <<files, doing, loaded, mtime_ns, handle, history, faults>>

\* A read that fails, for whatever reason, counts as nothing too.
ReadFails(p) ==
  /\ StepsTo(p, "read", "ready") /\ OneMoreFault
  /\ state' = [state EXCEPT ![p] = {}]
  /\ disturbed' = TRUE
  /\ UNCHANGED <<files, doing, loaded, mtime_ns, handle, completed, expected>>

\* The operation of p is over.
Over(p) ==
  /\ pc' = [pc EXCEPT ![p] = "idle"]
  /\ doing' = [doing EXCEPT ![p] = {}]
  /\ handle' = [handle EXCEPT ![p] = NoFile]

Return(p) ==
  /\ pc[p] = "ready" /\ doing[p] = {} /\ Over(p)
  /\ UNCHANGED <<files, memory, history, faults>>

------------------------------------------------------------------------------
(* atomic_write_json. *)

\* File object i holds c from now on.
Written(i, c) ==
  /\ clock' = clock + 1
  /\ content' = [j \in Object \cup {i} |-> IF j = i THEN c ELSE content[j]]
  /\ mtime' = [j \in Object \cup {i} |-> IF j = i THEN clock + 1 ELSE mtime[j]]

\* Mutant of Open: the file is written in place.
OpenInPlace(p) ==
  /\ StepsTo(p, "ready", "write") /\ doing[p] # {}
  /\ state' = [state EXCEPT ![p] = @ \cup doing[p]]
  /\ LET i == IF path = NoFile THEN Cardinality(Object) + 1 ELSE path IN
       /\ Written(i, Torn)
       /\ tmp_path' = i
       /\ handle' = [handle EXCEPT ![p] = i]
  /\ UNCHANGED <<path, doing, loaded, mtime_ns, history, faults>>

\* The state in memory is changed, and the neighbour opened, which empties it.
Open(p) ==
  /\ StepsTo(p, "ready", "write") /\ doing[p] # {}
  /\ state' = [state EXCEPT ![p] = @ \cup doing[p]]
  /\ LET i == IF tmp_path = NoFile THEN Cardinality(Object) + 1 ELSE tmp_path IN
       /\ Written(i, Torn)
       /\ tmp_path' = i
       /\ handle' = [handle EXCEPT ![p] = i]
  /\ UNCHANGED <<path, doing, loaded, mtime_ns, history, faults>>

\* Two that write one object may leave the end of the longer text.
Write(p) ==
  /\ StepsTo(p, "write", "replace")
  /\ \/ Written(handle[p], state[p])
     \/ /\ \E q \in Process \ {p} : handle[q] = handle[p]
        /\ Written(handle[p], Torn)
  /\ UNCHANGED <<path, tmp_path, doing, memory, handle, history, faults>>

\* os.replace moves the neighbour as it is now.
Replace(p) ==
  /\ StepsTo(p, "replace", "stat")
  /\ tmp_path # NoFile
  /\ path' = tmp_path /\ tmp_path' = NoFile
  /\ UNCHANGED <<content, mtime, clock, doing, memory, handle, history, faults>>

\* The end of _save_locked.
Saved(p) ==
  /\ pc[p] = "stat" /\ Over(p)
  /\ mtime_ns' = [mtime_ns EXCEPT ![p] = _stat_mtime_ns]
  /\ completed' = completed \cup doing[p]
  /\ UNCHANGED <<files, loaded, state, expected, disturbed, faults>>

\* The save raises: the neighbour was moved away by somebody else, or the disk is
\* full.  The store keeps the change in memory.
SaveFails(p) ==
  /\ \/ pc[p] = "replace" /\ tmp_path = NoFile /\ UNCHANGED faults
     \/ pc[p] \in {"write", "replace"} /\ OneMoreFault
  /\ Over(p)
  /\ UNCHANGED <<files, memory, history>>

\* The process ends, or is killed, and may be started anew.
Crash(p) ==
  /\ loaded[p] /\ OneMoreFault /\ Over(p)
  /\ loaded' = [loaded EXCEPT ![p] = FALSE]
  /\ mtime_ns' = [mtime_ns EXCEPT ![p] = NoFile]
  /\ state' = [state EXCEPT ![p] = {}]
  /\ UNCHANGED <<files, history>>

Next ==
  \E p \in Process :
    \/ \E u \in {{}} \cup {{x} : x \in Update} : Begin(p, u)
    \/ Reload(p) \/ Read(p) \/ ReadFails(p) \/ Return(p)
    \/ Open(p) \/ Write(p) \/ Replace(p) \/ Saved(p) \/ SaveFails(p) \/ Crash(p)

Spec == Init /\ [][Next]_vars

------------------------------------------------------------------------------
(* Properties. *)

\* Every update whose operation returned is in the file, which is whole, whatever
\* crashes and failed saves there were, unless two processes were in an update at
\* once, or a file that was there could not be read
\* (state_store.py:49-88, utils/json_state.py:9-21).
UpdatesSurvive ==
  ~disturbed /\ completed # {} =>
    /\ path # NoFile /\ content[path] # Torn
    /\ completed \subseteq content[path]

\* An operation works on all that was completed as it began, by whichever process,
\* under the same provisos: the cached state is never taken for current when it is
\* not (state_store.py:49-53, 57, 88).
OperationsAreFresh ==
  ~disturbed =>
    \A p \in Process : pc[p] = "ready" => expected[p] \subseteq state[p]
================================================================================
