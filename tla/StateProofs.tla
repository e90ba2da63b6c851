------------------------------ MODULE StateProofs ------------------------------
(***************************************************************************)
(* Proofs about what the bot remembers: StateStore, the files that         *)
(* processes share, for any processes, updates and faults; and             *)
(* ChatCommands, the settings of a chat and its topics, for any commands.  *)
(*                                                                         *)
(* StateStore: every write has a time of its own, and the neighbour of the *)
(* file is not the file: so a store whose time is the file's has read the  *)
(* file, or written it.                                                    *)
(*                                                                         *)
(* ChatCommands: what handlers are about to store again is among what the  *)
(* commands allow, and a topic that does not bear the name of its context  *)
(* has a handler that will put that right.                                 *)
(***************************************************************************)
EXTENDS StateStore, ChatCommands, FiniteSetTheorems, SequenceTheorems, TLAPS

----------------------------------------------------------------------------
(***************************************************************************)
(* Files and types.                                                        *)
(***************************************************************************)
Saving == {"write", "replace", "stat"}

Files ==
  /\ \E n \in Nat : Object = 1..n
  /\ path # NoFile => path # tmp_path
  /\ \A i \in Object : mtime[i] \in 1..clock
  /\ \A i, j \in Object : mtime[i] = mtime[j] => i = j
  /\ \A p \in Process : mtime_ns[p] \in 0..clock
  /\ tmp_path # NoFile => \A p \in Process : mtime_ns[p] # mtime[tmp_path]

\* Who writes has an update to make and a file to write it to.
Writers ==
  /\ \A p \in Process : pc[p] \in Saving => doing[p] # {} /\ handle[p] \in Object
  /\ \A p \in Process : handle[p] # NoFile => pc[p] \in Saving
  /\ \A p \in Process : pc[p] = "idle" => doing[p] = {}
  /\ \A p \in Process : pc[p] = "read" => path # NoFile
  /\ \A p \in Process : expected[p] \subseteq completed

Shape == TypeOK /\ Files /\ Writers

LEMMA Torns == Torn \in Content /\ (\A S \in SUBSET Update : S # Torn) /\ NoFile = 0
BY StoreAssumption DEF Torn, Content, NoFile

LEMMA WrittenTo ==
  ASSUME Shape, NEW i \in Nat \ {0}, NEW c \in Content, Written(i, c)
  PROVE  /\ Object' = Object \cup {i} /\ clock' = clock + 1
         /\ content'[i] = c /\ mtime'[i] = clock + 1
         /\ \A j \in Object \ {i} : content'[j] = content[j] /\ mtime'[j] = mtime[j]
         /\ content' \in [Object' -> Content] /\ mtime' \in [Object' -> Nat] /\ clock' \in Nat
BY DEF Written, Object, Shape, TypeOK

\* The object that an update opens: the neighbour, or a new one.
Opened == IF tmp_path = NoFile THEN Cardinality(Object) + 1 ELSE tmp_path

LEMMA OpenedIsNew ==
  ASSUME Shape
  PROVE  /\ Opened \in Nat \ {0} /\ Opened # path
         /\ \E n \in Nat : Object \cup {Opened} = 1..n
<1>1. PICK n \in Nat : Object = 1..n
  BY DEF Shape, Files
<1>2. Cardinality(Object) = n
  BY <1>1, FS_Interval, n - 1 + 1 = n
<1>3. path \in Object \cup {NoFile} /\ tmp_path \in Object \cup {NoFile} /\ NoFile = 0
  BY DEF Shape, TypeOK, NoFile
<1>4. CASE tmp_path = NoFile
  <2>1. Opened = n + 1
    BY <1>2, <1>4 DEF Opened
  <2>2. Object \cup {n + 1} = 1..(n + 1)
    BY <1>1
  <2> QED
    BY <1>1, <1>3, <2>1, <2>2
<1>5. CASE tmp_path # NoFile
  <2>1. Opened = tmp_path
    BY <1>5 DEF Opened
  <2> QED
    BY <1>1, <1>3, <1>5, <2>1 DEF Shape, Files
<1> QED
  BY <1>4, <1>5

\* A write to any object but the file leaves the files in order.
LEMMA FilesStay ==
  ASSUME Shape, NEW i \in Nat \ {0}, NEW c \in Content, Written(i, c),
         \E n \in Nat : Object \cup {i} = 1..n,
         tmp_path' \in {tmp_path, i}, path' = path, path # NoFile => path # tmp_path',
         mtime_ns' = mtime_ns
  PROVE  Files'
<1>1. /\ Object' = Object \cup {i} /\ clock' = clock + 1 /\ clock \in Nat
      /\ mtime'[i] = clock + 1
      /\ \A j \in Object \ {i} : mtime'[j] = mtime[j]
  BY WrittenTo DEF Shape, TypeOK
<1>2. \A j \in Object : mtime[j] \in 1..clock
  BY DEF Shape, Files
<1>3. \A j \in Object' : mtime'[j] \in 1..clock'
  BY <1>1, <1>2
<1>4. \A j, k \in Object' : mtime'[j] = mtime'[k] => j = k
  BY <1>1, <1>2 DEF Shape, Files
<1>5. \A p \in Process : mtime_ns[p] \in 0..clock
  BY DEF Shape, Files
<1>6. tmp_path' # NoFile => \A p \in Process : mtime_ns[p] # mtime'[tmp_path']
  <2>1. CASE tmp_path' = i
    BY <1>1, <1>5, <2>1
  <2>2. CASE tmp_path' = tmp_path /\ tmp_path # i
    BY <1>1, <2>2 DEF Shape, Files, TypeOK
  <2> QED
    BY <2>1, <2>2
<1> QED
  BY <1>1, <1>3, <1>4, <1>5, <1>6 DEF Files

LEMMA ShapeStep == Shape /\ [Next]_vars => Shape'
<1> SUFFICES ASSUME Shape, [Next]_vars PROVE Shape'
  OBVIOUS
<1> USE DEF Shape
<1>1. TypeOK /\ Files /\ Writers /\ clock \in Nat /\ NoFile = 0
  BY DEF TypeOK, NoFile
<1>2. _stat_mtime_ns \in 0..clock /\ _stat_mtime_ns \in Nat
  BY <1>1 DEF _stat_mtime_ns, Files, TypeOK
<1>3. tmp_path # NoFile => _stat_mtime_ns # mtime[tmp_path]
  BY <1>1 DEF _stat_mtime_ns, Files, TypeOK
<1>4. path # NoFile => content[path] \in SUBSET Update \/ content[path] = Torn
  BY <1>1 DEF TypeOK, Content
<1>5. ASSUME NEW p \in Process, NEW u \in {{}} \cup {{x} : x \in Update}, Begin(p, u) PROVE Shape'
  <2>1. u \in SUBSET Update
    OBVIOUS
  <2>2. TypeOK'
    BY <1>1, <1>5, <2>1 DEF Begin, StepsTo, TypeOK, Object, Steps, files, memory
  <2>3. Files'
    BY <1>1, <1>5 DEF Begin, Files, Object, files, memory
  <2>4. Writers'
    BY <1>1, <1>5 DEF Begin, StepsTo, Writers, Object, files, Saving, TypeOK
  <2> QED
    BY <2>2, <2>3, <2>4
<1>6. ASSUME NEW p \in Process, Reload(p) PROVE Shape'
  <2>1. TypeOK'
    BY <1>1, <1>2, <1>6 DEF Reload, TypeOK, Object, Steps, files, history
  <2>2. Files'
    BY <1>1, <1>2, <1>3, <1>6 DEF Reload, TypeOK, Files, Object, files
  <2>3. Writers'
    BY <1>1, <1>6 DEF Reload, TypeOK, Writers, Object, files, history, Saving
  <2> QED
    BY <2>1, <2>2, <2>3
<1>7. ASSUME NEW p \in Process, Read(p) \/ ReadFails(p) PROVE Shape'
  <2>1. /\ StepsTo(p, "read", "ready") /\ UNCHANGED <<files, doing, loaded, mtime_ns, handle, completed, expected>>
        /\ disturbed' \in BOOLEAN /\ faults' \in 0..MaxFaults
        /\ \/ state' = [state EXCEPT ![p] = {}]
           \/ content[path] # Torn /\ state' = [state EXCEPT ![p] = content[path]]
    <3>1. CASE Read(p)
      <4>1. StepsTo(p, "read", "ready") /\ UNCHANGED <<files, doing, loaded, mtime_ns, handle, history, faults>>
        BY <3>1 DEF Read
      <4>2. content[path] = Torn => state' = [state EXCEPT ![p] = {}]
        BY <3>1 DEF Read
      <4>3. content[path] # Torn => state' = [state EXCEPT ![p] = content[path]]
        BY <3>1 DEF Read
      <4>4. UNCHANGED <<completed, expected, disturbed, faults>> /\ disturbed \in BOOLEAN /\ faults \in 0..MaxFaults
        BY <1>1, <4>1 DEF history, TypeOK
      <4> QED
        BY <4>1, <4>2, <4>3, <4>4, Zenon
    <3>2. CASE ReadFails(p)
      <4>1. faults' \in 0..MaxFaults
        BY <1>1, <3>2, StoreAssumption DEF ReadFails, OneMoreFault, TypeOK
      <4>2. disturbed' \in BOOLEAN
        BY <3>2 DEF ReadFails
      <4>3. StepsTo(p, "read", "ready") /\ state' = [state EXCEPT ![p] = {}]
            /\ UNCHANGED <<files, doing, loaded, mtime_ns, handle, completed, expected>>
        BY <3>2 DEF ReadFails
      <4> QED
        BY <4>1, <4>2, <4>3, Zenon
    <3> QED
      BY <1>7, <3>1, <3>2
  <2>2. path # NoFile
    BY <1>1, <2>1 DEF StepsTo, Writers
  <2>3. state' \in [Process -> SUBSET Update]
    BY <1>1, <1>4, <2>1, <2>2 DEF TypeOK
  <2>4. TypeOK'
    BY <1>1, <2>1, <2>3 DEF StepsTo, TypeOK, Object, Steps, files
  <2>5. Files'
    BY <1>1, <2>1 DEF Files, Object, files
  <2>6. Writers'
    BY <1>1, <2>1 DEF StepsTo, TypeOK, Writers, Object, files, Saving
  <2> QED
    BY <2>4, <2>5, <2>6
<1>8. ASSUME NEW p \in Process, Return(p) \/ Saved(p) \/ SaveFails(p) \/ Crash(p) PROVE Shape'
  <2>1. /\ Over(p) /\ UNCHANGED <<files, expected, disturbed>>
        /\ completed' \in {completed, completed \cup doing[p]}
        /\ faults' \in 0..MaxFaults
        /\ \A q \in Process \ {p} : mtime_ns'[q] = mtime_ns[q]
        /\ mtime_ns'[p] \in {mtime_ns[p], _stat_mtime_ns, NoFile}
        /\ mtime_ns' \in [Process -> Nat] /\ state' \in [Process -> SUBSET Update]
        /\ loaded' \in [Process -> BOOLEAN]
    <3>1. CASE Return(p)
      BY <1>1, <3>1 DEF Return, memory, history, TypeOK
    <3>2. CASE Saved(p)
      BY <1>1, <1>2, <3>2 DEF Saved, TypeOK
    <3>3. CASE SaveFails(p)
      BY <1>1, <3>3, StoreAssumption DEF SaveFails, OneMoreFault, memory, history, TypeOK
    <3>4. CASE Crash(p)
      BY <1>1, <3>4, StoreAssumption DEF Crash, OneMoreFault, history, TypeOK
    <3> QED
      BY <1>8, <3>1, <3>2, <3>3, <3>4
  <2>2. TypeOK'
    <3>1. /\ pc' \in [Process -> Steps] /\ doing' \in [Process -> SUBSET Update] /\ handle' \in [Process -> Nat]
          /\ completed' \subseteq Update /\ expected' \in [Process -> SUBSET Update] /\ disturbed' \in BOOLEAN
      BY <1>1, <2>1 DEF Over, TypeOK, Steps
    <3> QED
      BY <1>1, <2>1, <3>1 DEF TypeOK, Object, files
  <2>3. Files'
    <3>1. \A q \in Process : mtime_ns'[q] \in 0..clock /\ (tmp_path # NoFile => mtime_ns'[q] # mtime[tmp_path])
      <4>1. tmp_path # NoFile => mtime[tmp_path] # 0
        BY <1>1 DEF Files, TypeOK
      <4> QED
        BY <1>1, <1>2, <1>3, <2>1, <4>1 DEF Files
    <3> QED
      BY <1>1, <2>1, <3>1 DEF Files, Object, files
  <2>4. Writers'
    BY <1>1, <2>1 DEF Over, TypeOK, Writers, Object, files, Saving
  <2> QED
    BY <2>2, <2>3, <2>4
<1>9. ASSUME NEW p \in Process, Open(p) PROVE Shape'
  <2>1. /\ Written(Opened, Torn) /\ tmp_path' = Opened /\ path' = path
        /\ handle' = [handle EXCEPT ![p] = Opened]
    BY <1>9 DEF Open, Opened
  <2>2. /\ Opened \in Nat \ {0} /\ Opened # path /\ \E n \in Nat : Object \cup {Opened} = 1..n
    BY OpenedIsNew
  <2>3. /\ Object' = Object \cup {Opened}
        /\ content' \in [Object' -> Content] /\ mtime' \in [Object' -> Nat] /\ clock' \in Nat
    BY <2>1, <2>2, Torns, WrittenTo
  <2>4. TypeOK'
    BY <1>1, <1>9, <2>1, <2>2, <2>3 DEF Open, StepsTo, TypeOK, Steps, history
  <2>5. Files'
    BY <1>9, <2>1, <2>2, Torns, FilesStay DEF Open
  <2>6. Writers'
    BY <1>1, <1>9, <2>1, <2>2, <2>3 DEF Open, StepsTo, TypeOK, Writers, Saving, history
  <2> QED
    BY <2>4, <2>5, <2>6
<1>10. ASSUME NEW p \in Process, Write(p) PROVE Shape'
  <2>1. handle[p] \in Object /\ handle[p] \in Nat \ {0}
    BY <1>1, <1>10 DEF Write, StepsTo, Writers, Saving, Files
  <2>2. PICK c \in Content : Written(handle[p], c)
    BY <1>1, <1>10, Torns DEF Write, Content, TypeOK
  <2>3. Object \cup {handle[p]} = Object
    BY <2>1
  <2>4. /\ Object' = Object
        /\ content' \in [Object' -> Content] /\ mtime' \in [Object' -> Nat] /\ clock' \in Nat
    BY <2>1, <2>2, <2>3, WrittenTo
  <2>5. TypeOK'
    BY <1>1, <1>10, <2>4 DEF Write, StepsTo, TypeOK, Steps, history, memory
  <2>6. Files'
    BY <1>1, <1>10, <2>1, <2>2, <2>3, FilesStay DEF Write, memory, Files
  <2>7. Writers'
    BY <1>1, <1>10, <2>4 DEF Write, StepsTo, TypeOK, Writers, Saving, history
  <2> QED
    BY <2>5, <2>6, <2>7
<1>11. ASSUME NEW p \in Process, Replace(p) PROVE Shape'
  <2>1. TypeOK'
    BY <1>1, <1>11 DEF Replace, StepsTo, TypeOK, Object, Steps, memory, history
  <2>2. Files'
    BY <1>1, <1>11 DEF Replace, Files, Object, memory
  <2>3. Writers'
    BY <1>1, <1>11 DEF Replace, StepsTo, TypeOK, Writers, Object, Saving, history
  <2> QED
    BY <2>1, <2>2, <2>3
<1>12. CASE UNCHANGED vars
  BY <1>1, <1>12 DEF vars, files, memory, history, TypeOK, Files, Writers, Object
<1> QED
  BY <1>5, <1>6, <1>7, <1>8, <1>9, <1>10, <1>11, <1>12 DEF Next

LEMMA ShapeStart == Init => Shape
<1> SUFFICES ASSUME Init PROVE Shape
  OBVIOUS
<1>1. Object = {} /\ 1..0 = {} /\ 0 \in Nat
  BY DEF Init, Object
<1>2. Files /\ Writers
  BY <1>1 DEF Init, Files, Writers, Saving, NoFile
<1>3. content \in [Object -> Content] /\ mtime \in [Object -> Nat]
  BY <1>1 DEF Init, Object
<1>4. /\ pc \in [Process -> Steps] /\ doing \in [Process -> SUBSET Update]
      /\ loaded \in [Process -> BOOLEAN] /\ state \in [Process -> SUBSET Update]
      /\ mtime_ns \in [Process -> Nat] /\ handle \in [Process -> Nat]
      /\ expected \in [Process -> SUBSET Update]
  BY DEF Init, Steps, NoFile
<1>5. /\ path \in Object \cup {NoFile} /\ tmp_path \in Object \cup {NoFile}
      /\ clock \in Nat /\ faults \in 0..MaxFaults /\ completed \subseteq Update
  BY StoreAssumption DEF Init
<1>6. disturbed \in BOOLEAN
  BY DEF Init
<1>7. TypeOK
  BY <1>3, <1>4, <1>5, <1>6 DEF TypeOK
<1> QED
  BY <1>2, <1>7 DEF Shape

\* The store's variables keep their types.
THEOREM TypeCorrect == Spec => []TypeOK
<1>1. Shape => TypeOK
  BY DEF Shape
<1> QED
  BY <1>1, ShapeStart, ShapeStep, PTL DEF Spec

----------------------------------------------------------------------------
(***************************************************************************)
(* What holds until two processes update at once, or a read fails.         *)
(***************************************************************************)
OneUpdates ==
  \A p, q \in Process : doing[p] # {} /\ doing[q] # {} => p = q

\* The update under way has all there was, and writes it next to the file.
UpdateBuildsOn ==
  \A p \in Process :
    /\ pc[p] \in {"write", "replace"} => handle[p] = tmp_path
    /\ pc[p] = "replace" => content[tmp_path] = state[p]
    /\ pc[p] = "stat" => path # NoFile /\ content[path] = state[p]
    /\ pc[p] \in Saving => doing[p] \subseteq state[p]
    /\ pc[p] \in Saving \cup {"ready"} /\ doing[p] # {} => completed \subseteq state[p]

FileHolds ==
  /\ completed # {} => path # NoFile
  /\ path # NoFile => content[path] # Torn /\ completed \subseteq content[path]

\* A store whose time is the file's has what is in the file; after a failed save,
\* more than that.
CacheHolds ==
  \A p \in Process :
    loaded[p] /\ pc[p] # "read" /\ path # NoFile /\ mtime_ns[p] = mtime[path]
      => content[path] \subseteq state[p]

Fresh == \A p \in Process : pc[p] = "ready" => expected[p] \subseteq state[p]

Calm == OneUpdates /\ UpdateBuildsOn /\ FileHolds /\ CacheHolds /\ Fresh

StoreInv == Shape /\ (~disturbed => Calm)

\* Steps that only end an operation, without completing it.
LEMMA EndKeepsCalm ==
  ASSUME Shape, Calm, NEW p \in Process, Over(p), UNCHANGED <<files, expected, completed>>,
         \A q \in Process \ {p} : loaded'[q] = loaded[q] /\ mtime_ns'[q] = mtime_ns[q] /\ state'[q] = state[q],
         \/ ~loaded'[p]
         \/ loaded'[p] = loaded[p] /\ mtime_ns'[p] = mtime_ns[p] /\ state'[p] = state[p] /\ pc[p] # "read"
  PROVE  Calm'
<1>1. \A q \in Process \ {p} : pc'[q] = pc[q] /\ doing'[q] = doing[q] /\ handle'[q] = handle[q]
  BY DEF Over, Shape, TypeOK
<1>2. pc'[p] = "idle" /\ doing'[p] = {}
  BY DEF Over, Shape, TypeOK
<1>3. OneUpdates'
  BY <1>1, <1>2 DEF OneUpdates, Calm
<1>4. UpdateBuildsOn'
  BY <1>1, <1>2 DEF UpdateBuildsOn, Calm, files, Saving
<1>5. FileHolds' /\ CacheHolds' /\ Fresh'
  BY <1>1, <1>2 DEF FileHolds, CacheHolds, Fresh, Calm, files
<1> QED
  BY <1>3, <1>4, <1>5 DEF Calm

\* While p updates, nobody else saves.
LEMMA SavesAlone ==
  ASSUME Shape, Calm, NEW p \in Process, doing[p] # {}, NEW q \in Process \ {p}
  PROVE  doing[q] = {} /\ pc[q] \notin Saving /\ handle[q] = NoFile
BY DEF Shape, Writers, Calm, OneUpdates

LEMMA BeginKeepsCalm ==
  ASSUME Shape, Calm, NEW p \in Process, NEW u, Begin(p, u), ~disturbed'
  PROVE  Calm'
<1>1. \A q \in Process \ {p} : pc'[q] = pc[q] /\ doing'[q] = doing[q] /\ expected'[q] = expected[q]
  BY DEF Begin, StepsTo, Shape, TypeOK
<1>2. pc'[p] = "reload" /\ pc[p] = "idle" /\ doing'[p] = u
  BY DEF Begin, StepsTo, Shape, TypeOK
<1>3. UNCHANGED <<files, memory, handle, completed>>
  BY DEF Begin
<1>4. OneUpdates'
  <2>1. u = {} \/ \A q \in Process \ {p} : doing[q] = {}
    BY DEF Begin
  <2> QED
    BY <1>1, <1>2, <2>1 DEF OneUpdates, Calm
<1>5. UpdateBuildsOn'
  BY <1>1, <1>2, <1>3 DEF UpdateBuildsOn, Calm, files, memory, Saving
<1>6. FileHolds' /\ CacheHolds' /\ Fresh'
  BY <1>1, <1>2, <1>3 DEF FileHolds, CacheHolds, Fresh, Calm, files, memory
<1> QED
  BY <1>4, <1>5, <1>6 DEF Calm

\* A store is ready with all that was completed: it found its time on the file, or
\* found no file, or has read it.
LEMMA ReadyKeepsCalm ==
  ASSUME Shape, Calm, NEW p \in Process, pc' = [pc EXCEPT ![p] = "ready"], pc[p] \in {"reload", "read"},
         UNCHANGED <<files, doing, handle, completed, expected>>, completed \subseteq state'[p],
         \A q \in Process \ {p} : loaded'[q] = loaded[q] /\ mtime_ns'[q] = mtime_ns[q] /\ state'[q] = state[q],
         path # NoFile => content[path] \subseteq state'[p]
  PROVE  Calm'
<1>1. \A q \in Process \ {p} : pc'[q] = pc[q]
  BY DEF Shape, TypeOK
<1>2. pc'[p] = "ready" /\ expected[p] \subseteq completed
  BY DEF Shape, TypeOK, Writers
<1>3. OneUpdates'
  BY DEF OneUpdates, Calm
<1>4. UpdateBuildsOn'
  BY <1>1, <1>2 DEF UpdateBuildsOn, Calm, files, Saving
<1>5. FileHolds' /\ CacheHolds' /\ Fresh'
  BY <1>1, <1>2 DEF FileHolds, CacheHolds, Fresh, Calm, files
<1> QED
  BY <1>3, <1>4, <1>5 DEF Calm

LEMMA ReloadKeepsCalm ==
  ASSUME Shape, Calm, NEW p \in Process, Reload(p)
  PROVE  Calm'
<1>1. /\ UNCHANGED <<files, doing, handle, completed, expected>> /\ pc[p] = "reload"
      /\ \A q \in Process \ {p} : loaded'[q] = loaded[q] /\ mtime_ns'[q] = mtime_ns[q] /\ state'[q] = state[q]
  BY DEF Reload, history, Shape, TypeOK
<1>2. CASE pc' = [pc EXCEPT ![p] = "ready"]
  <2>1. path = NoFile => completed = {}
    BY DEF Calm, FileHolds
  <2>2. CASE path = NoFile
    BY <1>1, <1>2, <2>1, <2>2, ReadyKeepsCalm
  <2>3. CASE path # NoFile
    <3>1. loaded[p] /\ mtime_ns[p] = mtime[path] /\ UNCHANGED state
      <4>1. pc'[p] = "ready"
        BY <1>2 DEF Shape, TypeOK
      <4> QED
        BY <2>3, <4>1 DEF Reload, _stat_mtime_ns, Shape, TypeOK
    <3>2. content[path] \subseteq state'[p] /\ completed \subseteq content[path]
      BY <1>1, <2>3, <3>1 DEF Calm, CacheHolds, FileHolds
    <3> QED
      BY <1>1, <1>2, <3>2, ReadyKeepsCalm
  <2> QED
    BY <2>2, <2>3
<1>3. CASE pc' = [pc EXCEPT ![p] = "read"]
  <2>1. (\A q \in Process \ {p} : pc'[q] = pc[q]) /\ pc'[p] = "read"
    BY <1>3 DEF Shape, TypeOK
  <2>2. OneUpdates' /\ FileHolds'
    BY <1>1 DEF OneUpdates, FileHolds, Calm, files
  <2>3. UpdateBuildsOn' /\ CacheHolds' /\ Fresh'
    BY <1>1, <2>1 DEF UpdateBuildsOn, CacheHolds, Fresh, Calm, files, Saving
  <2> QED
    BY <2>2, <2>3 DEF Calm
<1> QED
  BY <1>2, <1>3 DEF Reload

LEMMA ReadKeepsCalm ==
  ASSUME Shape, Calm, NEW p \in Process, Read(p)
  PROVE  Calm'
<1>1. pc[p] = "read" /\ path # NoFile /\ pc' = [pc EXCEPT ![p] = "ready"]
  BY DEF Read, StepsTo, Shape, Writers
<1>2. content[path] # Torn /\ completed \subseteq content[path]
  BY <1>1 DEF Calm, FileHolds
<1>3. state' = [state EXCEPT ![p] = content[path]]
  BY <1>2 DEF Read
<1>4. UNCHANGED <<files, doing, loaded, mtime_ns, handle, completed, expected>>
  BY DEF Read, history
<1>5. state'[p] = content[path] /\ \A q \in Process \ {p} : state'[q] = state[q]
  BY <1>3 DEF Shape, TypeOK
<1> QED
  BY <1>1, <1>2, <1>4, <1>5, ReadyKeepsCalm

LEMMA OpenKeepsCalm ==
  ASSUME Shape, Calm, NEW p \in Process, Open(p)
  PROVE  Calm'
<1>1. Written(Opened, Torn) /\ tmp_path' = Opened /\ path' = path
  BY DEF Open, Opened
<1>2. Opened \in Nat \ {0} /\ Opened # path /\ path \in Object \cup {NoFile}
  BY OpenedIsNew DEF Shape, TypeOK
<1>3. path # NoFile => content'[path] = content[path] /\ mtime'[path] = mtime[path]
  BY <1>1, <1>2, Torns, WrittenTo
<1>4. /\ doing[p] # {} /\ pc[p] = "ready" /\ pc'[p] = "write" /\ handle'[p] = Opened
      /\ state'[p] = state[p] \cup doing[p]
      /\ UNCHANGED <<doing, loaded, mtime_ns, completed, expected>>
  <2>1. handle' = [handle EXCEPT ![p] = Opened] /\ UNCHANGED <<doing, loaded, mtime_ns, completed, expected>>
    BY DEF Open, Opened, history
  <2> QED
    BY <2>1 DEF Open, StepsTo, Shape, TypeOK
<1>5. \A q \in Process \ {p} : pc'[q] = pc[q] /\ handle'[q] = handle[q] /\ state'[q] = state[q]
  BY DEF Open, StepsTo, Shape, TypeOK
<1>6. \A q \in Process \ {p} : doing[q] = {} /\ pc[q] \notin Saving
  BY <1>4, SavesAlone
<1>7. OneUpdates'
  BY <1>4 DEF OneUpdates, Calm
<1>8. UpdateBuildsOn'
  BY <1>1, <1>4, <1>5, <1>6 DEF UpdateBuildsOn, Calm, Saving
<1>9. FileHolds' /\ CacheHolds' /\ Fresh'
  BY <1>1, <1>3, <1>4, <1>5 DEF FileHolds, CacheHolds, Fresh, Calm
<1> QED
  BY <1>7, <1>8, <1>9 DEF Calm

LEMMA WriteKeepsCalm ==
  ASSUME Shape, Calm, NEW p \in Process, Write(p)
  PROVE  Calm'
<1>1. /\ doing[p] # {} /\ pc[p] = "write" /\ pc'[p] = "replace"
      /\ handle[p] = tmp_path /\ handle[p] \in Object /\ handle[p] \in Nat \ {0}
  BY DEF Write, StepsTo, Shape, TypeOK, Writers, Saving, Files, Calm, UpdateBuildsOn
<1>2. \A q \in Process \ {p} : doing[q] = {} /\ pc[q] \notin Saving /\ handle[q] = NoFile
  BY <1>1, SavesAlone
<1>3. Written(handle[p], state[p]) /\ state[p] \in Content
  BY <1>1, <1>2 DEF Write, Shape, TypeOK, Content, NoFile
<1>4. path \in Object \cup {NoFile} /\ (path # NoFile => path # tmp_path)
  BY DEF Shape, TypeOK, Files
<1>5. /\ content'[tmp_path] = state[p]
      /\ path # NoFile => content'[path] = content[path] /\ mtime'[path] = mtime[path]
  BY <1>1, <1>3, <1>4, WrittenTo
<1>6. UNCHANGED <<path, tmp_path, doing, memory, handle, completed, expected>>
  BY DEF Write, history
<1>7. \A q \in Process \ {p} : pc'[q] = pc[q]
  BY DEF Write, StepsTo, Shape, TypeOK
<1>8. OneUpdates'
  BY <1>6 DEF OneUpdates, Calm
<1>9. UpdateBuildsOn'
  BY <1>1, <1>2, <1>5, <1>6, <1>7 DEF UpdateBuildsOn, Calm, Saving, memory
<1>10. FileHolds' /\ CacheHolds' /\ Fresh'
  BY <1>1, <1>5, <1>6, <1>7 DEF FileHolds, CacheHolds, Fresh, Calm, memory
<1> QED
  BY <1>8, <1>9, <1>10 DEF Calm

LEMMA ReplaceKeepsCalm ==
  ASSUME Shape, Calm, NEW p \in Process, Replace(p)
  PROVE  Calm'
<1>1. /\ doing[p] # {} /\ pc[p] = "replace" /\ pc'[p] = "stat"
      /\ path' = tmp_path /\ tmp_path # NoFile
      /\ UNCHANGED <<content, mtime, doing, memory, handle, completed, expected>>
  BY DEF Replace, StepsTo, Shape, TypeOK, Writers, Saving, history
<1>2. \A q \in Process \ {p} : doing[q] = {} /\ pc[q] \notin Saving /\ pc'[q] = pc[q]
  BY <1>1, SavesAlone DEF Replace, StepsTo, Shape, TypeOK
<1>3. content[tmp_path] = state[p] /\ completed \subseteq state[p]
  BY <1>1 DEF Calm, UpdateBuildsOn, Saving
<1>4. state[p] # Torn
  BY Torns DEF Shape, TypeOK
<1>5. OneUpdates' /\ FileHolds'
  BY <1>1, <1>3, <1>4 DEF OneUpdates, FileHolds, Calm
<1>6. UpdateBuildsOn'
  BY <1>1, <1>2, <1>3 DEF UpdateBuildsOn, Calm, Saving, memory
<1>7. CacheHolds' /\ Fresh'
  BY <1>1, <1>2 DEF CacheHolds, Fresh, Calm, memory, Shape, Files
<1> QED
  BY <1>5, <1>6, <1>7 DEF Calm

LEMMA SavedKeepsCalm ==
  ASSUME Shape, Calm, NEW p \in Process, Saved(p)
  PROVE  Calm'
<1>1. /\ doing[p] # {} /\ pc[p] = "stat" /\ pc'[p] = "idle" /\ doing'[p] = {}
      /\ mtime_ns'[p] = _stat_mtime_ns /\ completed' = completed \cup doing[p]
      /\ UNCHANGED <<files, loaded, state, expected>>
  BY DEF Saved, Over, Shape, TypeOK, Writers, Saving
<1>2. \A q \in Process \ {p} :
        /\ doing[q] = {} /\ pc[q] \notin Saving /\ pc'[q] = pc[q] /\ doing'[q] = doing[q]
        /\ mtime_ns'[q] = mtime_ns[q]
  BY <1>1, SavesAlone DEF Saved, Over, Shape, TypeOK
<1>3. path # NoFile /\ content[path] = state[p] /\ doing[p] \subseteq state[p]
  BY <1>1 DEF Calm, UpdateBuildsOn, Saving
<1>4. OneUpdates' /\ FileHolds'
  BY <1>1, <1>2, <1>3 DEF OneUpdates, FileHolds, Calm, files
<1>5. UpdateBuildsOn'
  BY <1>1, <1>2 DEF UpdateBuildsOn, Calm, Saving, files
<1>6. CacheHolds' /\ Fresh'
  BY <1>1, <1>2, <1>3 DEF CacheHolds, Fresh, Calm, files
<1> QED
  BY <1>4, <1>5, <1>6 DEF Calm

LEMMA StoreStep == StoreInv /\ [Next]_vars => StoreInv'
<1> SUFFICES ASSUME StoreInv, [Next]_vars PROVE StoreInv'
  OBVIOUS
<1>1. Shape /\ Shape' /\ disturbed \in BOOLEAN /\ (~disturbed => Calm)
  BY ShapeStep DEF StoreInv, Shape, TypeOK
<1>2. SUFFICES ASSUME ~disturbed' PROVE Calm'
  BY <1>1 DEF StoreInv
<1>3. ASSUME NEW p \in Process, NEW u \in {{}} \cup {{x} : x \in Update}, Begin(p, u) PROVE Calm'
  <2>1. ~disturbed
    BY <1>2, <1>3 DEF Begin
  <2> QED
    BY <1>1, <1>2, <1>3, <2>1, BeginKeepsCalm
<1>4. ASSUME NEW p \in Process,
             Reload(p) \/ Read(p) \/ Open(p) \/ Write(p) \/ Replace(p) \/ Saved(p) PROVE Calm'
  <2>1. ~disturbed
    BY <1>2, <1>4 DEF Reload, Read, Open, Write, Replace, Saved, history
  <2> QED
    BY <1>1, <1>4, <2>1, ReloadKeepsCalm, ReadKeepsCalm, OpenKeepsCalm, WriteKeepsCalm, ReplaceKeepsCalm,
       SavedKeepsCalm
<1>5. ASSUME NEW p \in Process, Return(p) \/ SaveFails(p) \/ Crash(p) PROVE Calm'
  <2>1. ~disturbed /\ Over(p) /\ UNCHANGED <<files, expected, completed>>
    BY <1>2, <1>5 DEF Return, SaveFails, Crash, history
  <2>2. \A q \in Process \ {p} : loaded'[q] = loaded[q] /\ mtime_ns'[q] = mtime_ns[q] /\ state'[q] = state[q]
    BY <1>1, <1>5 DEF Return, SaveFails, Crash, memory, Shape, TypeOK
  <2>3. \/ ~loaded'[p]
        \/ loaded'[p] = loaded[p] /\ mtime_ns'[p] = mtime_ns[p] /\ state'[p] = state[p] /\ pc[p] # "read"
    BY <1>1, <1>5 DEF Return, SaveFails, Crash, memory, Shape, TypeOK
  <2> QED
    BY <1>1, <2>1, <2>2, <2>3, EndKeepsCalm
<1>6. ASSUME NEW p \in Process, ReadFails(p) PROVE FALSE
  BY <1>2, <1>6 DEF ReadFails
<1>7. CASE UNCHANGED vars
  BY <1>1, <1>2, <1>7 DEF vars, files, memory, history, Calm, OneUpdates, UpdateBuildsOn, FileHolds,
                          CacheHolds, Fresh
<1> QED
  BY <1>3, <1>4, <1>5, <1>6, <1>7 DEF Next

LEMMA StoreStart == Init => StoreInv
<1>1. Init => Calm
  BY DEF Init, Calm, OneUpdates, UpdateBuildsOn, FileHolds, CacheHolds, Fresh, Saving
<1> QED
  BY <1>1, ShapeStart DEF StoreInv

\* Completed updates stay in the file, and the file stays whole, until two processes
\* update at once or a read fails: whoever crashes, and whatever saves fail
\* (state_store.py, json_state.py).
THEOREM CompletedUpdatesSurvive == Spec => []UpdatesSurvive
<1>1. StoreInv => UpdatesSurvive
  BY DEF StoreInv, Calm, FileHolds, UpdatesSurvive
<1> QED
  BY <1>1, StoreStart, StoreStep, PTL DEF Spec

\* Every operation works on all that was completed before it: the time of the file is
\* proof enough that it need not be read again (state_store.py).
THEOREM StoresAreFresh == Spec => []OperationsAreFresh
<1>1. StoreInv => OperationsAreFresh
  BY DEF StoreInv, Calm, Fresh, OperationsAreFresh
<1> QED
  BY <1>1, StoreStart, StoreStep, PTL DEF Spec

----------------------------------------------------------------------------
(***************************************************************************)
(* The commands, and what they have read, made and been asked for.         *)
(***************************************************************************)
Override == [model : Model \cup {None}, reasoning : Level \cup {None}]
Title == Context \cup {None, OtherTitle}
Settings ==
  [context : Context \cup {None}, topic_title : Title, default_engine : Engine \cup {None},
   trigger_mode : {"mentions", None}, engine_overrides : [Engine -> Override]]

CommandField == {"asks", "pc", "engine", "todo", "seen", "thread", "title", "tries", "alone"}

\* NewContext, of a command.
BoundTo(c) == IF c.asks.kind = "fork" THEN c.seen ELSE c.asks.arg

ForumTopics == DOMAIN forum

CommandOK(c) ==
  /\ DOMAIN c = CommandField /\ c.asks \in Requests /\ c.alone \in BOOLEAN
  /\ c.asks.place \in ForumTopics \cup {0}
  /\ c.pc \in {"title", "edit"} => c.asks.place \in ForumTopics
  /\ c.pc \in {"create", "drop", "set"} => c.asks.kind \in {"topic", "fork", "create"}
  /\ c.pc \in {"drop", "set"} =>
       /\ c.thread \in ForumTopics
       /\ BoundTo(c) \in Context /\ c.title \in {OtherTitle, BoundTo(c)}
  /\ c.pc = "drop" => c.asks.kind = "topic"
  /\ c.asks.kind = "handoff" =>
       /\ c.pc \in {"bind", "engine", "model", "send"} => c.thread \in ForumTopics
       /\ c.pc \in {"make", "bind", "engine", "model", "send"} => c.seen \in Model \cup {None}
  /\ c.asks.kind = "topic" =>
       /\ c.pc = "try" => c.seen \in ForumTopics
       /\ c.pc \in {"create", "drop"} => c.seen \in ForumTopics \cup {0}
  /\ c.asks.kind = "delete" /\ c.pc = "forget" => c.seen \in ForumTopics
  /\ c.asks.kind = "fork" /\ c.pc = "create" => c.seen \in Context \cup {None}
  /\ c.asks.kind \in Overriding =>
       /\ c.pc = "asked" => c.seen \in Context \cup {None}
       /\ c.pc \in {"read", "write"} => c.todo \subseteq Engine
       /\ c.pc = "write" => c.engine \in Engine /\ c.seen \in Override

CommandsOK ==
  /\ \E S : commands \in Seq(S)
  /\ \A i \in Asked : CommandOK(commands[i])

StoresOK ==
  /\ stored \in [Place -> Settings]
  /\ \E S : said \in [Place -> [Setting -> S]]
  /\ forum \in Seq(Title \cup {Gone}) /\ Len(forum) <= MaxTopics

\* A topic that is not there yet is bound to nothing.
UnmadeAreBlank ==
  \A t \in Topic \ ForumTopics : stored[t].context = None /\ stored[t].topic_title = None

CommandsTypeOK == CommandsOK /\ StoresOK /\ UnmadeAreBlank

----------------------------------------------------------------------------
(* How commands change. *)

\* c has become d, as another command went on.
Like(c, d) ==
  /\ DOMAIN d = CommandField
  /\ d.asks = c.asks /\ d.pc = c.pc /\ d.engine = c.engine /\ d.todo = c.todo /\ d.seen = c.seen
  /\ d.thread = c.thread /\ d.title = c.title /\ d.tries = c.tries
  /\ d.alone \in BOOLEAN /\ (d.alone => c.alone)

\* i has gone on with the fields of f.
Moved(i, f) ==
  /\ \E S : commands' \in Seq(S)
  /\ Asked' = Asked
  /\ \A j \in Asked \ {i} : Like(commands[j], commands'[j])
  /\ DOMAIN commands'[i] = CommandField
  /\ \A x \in CommandField \ {"alone"} :
       commands'[i][x] = IF x \in DOMAIN f THEN f[x] ELSE commands[i][x]
  /\ commands'[i].alone \in BOOLEAN /\ (commands'[i].alone => commands[i].alone)

LEMMA SettingsNamed == Setting = {"context", "default_engine", "trigger_mode", "engine_overrides"}
BY DEF Setting, Blank

LEMMA GoesMoves ==
  ASSUME CommandsOK, NEW i \in Asked, NEW f, "alone" \notin DOMAIN f, Goes(i, f)
  PROVE  Moved(i, f)
<1> DEFINE c == commands[i]
           d == [x \in DOMAIN c |-> IF x \in DOMAIN f THEN f[x] ELSE c[x]]
<1>1. PICK S : commands \in Seq(S)
  BY DEF CommandsOK
<1>2. commands' = [commands EXCEPT ![i] = d] /\ Asked = 1..Len(commands) /\ Len(commands) \in Nat
  BY <1>1 DEF Goes, Asked
<1>3. DOMAIN c = CommandField /\ c.alone \in BOOLEAN
  BY DEF CommandsOK, CommandOK
<1>4. \A j \in Asked : Like(commands[j], commands[j])
  BY DEF CommandsOK, CommandOK, Like
<1>5. /\ DOMAIN d = CommandField /\ d.alone = c.alone
      /\ \A x \in CommandField : d[x] = IF x \in DOMAIN f THEN f[x] ELSE c[x]
  BY <1>3 DEF CommandField
<1> HIDE DEF c, d
<1>6. commands' \in Seq(S \cup {d}) /\ Asked' = Asked /\ commands'[i] = d
      /\ \A j \in Asked \ {i} : commands'[j] = commands[j]
  BY <1>1, <1>2 DEF Asked
<1>7. \A j \in Asked \ {i} : Like(commands[j], commands'[j])
  BY <1>4, <1>6
<1> QED
  BY <1>3, <1>5, <1>6, <1>7 DEF Moved, c

LEMMA MeetsMoves ==
  ASSUME CommandsOK, NEW i \in Asked, NEW f, "alone" \notin DOMAIN f, NEW p, NEW s, Meets(i, p, s, f)
  PROVE  /\ Moved(i, f)
         /\ \A j \in Others(i, p, s) : ~commands'[j].alone
<1> DEFINE met == Others(i, p, s)
           c == commands[i]
           d == [x \in DOMAIN c |-> IF x \in DOMAIN f THEN f[x]
                                    ELSE IF x = "alone" THEN c.alone /\ met = {} ELSE c[x]]
<1>1. PICK S : commands \in Seq(S)
  BY DEF CommandsOK
<1>2. commands' = [j \in Asked |-> IF j \in met THEN [commands[j] EXCEPT !.alone = FALSE]
                                   ELSE IF j = i THEN d ELSE commands[j]]
  BY DEF Meets
<1>3. met \subseteq Asked \ {i} /\ Asked = 1..Len(commands) /\ Len(commands) \in Nat
  BY <1>1 DEF Others, Asked
<1>4. \A j \in Asked : DOMAIN commands[j] = CommandField /\ commands[j].alone \in BOOLEAN
  BY DEF CommandsOK, CommandOK
<1>5. /\ DOMAIN d = CommandField /\ d.alone = (c.alone /\ met = {})
      /\ \A x \in CommandField \ {"alone"} : d[x] = IF x \in DOMAIN f THEN f[x] ELSE c[x]
  BY <1>4 DEF CommandField
<1> HIDE DEF met, d
<1>6. commands'[i] = d /\ Asked' = Asked
  BY <1>2, <1>3 DEF Asked
<1>7. ASSUME NEW j \in Asked \ {i} PROVE Like(commands[j], commands'[j]) /\ (j \in met => ~commands'[j].alone)
  <2>1. CASE j \in met
    <3>1. commands'[j] = [commands[j] EXCEPT !.alone = FALSE]
      BY <1>2, <2>1
    <3> QED
      BY <1>4, <3>1 DEF Like, CommandField
  <2>2. CASE j \notin met
    BY <1>2, <1>4, <2>2 DEF Like
  <2> QED
    BY <2>1, <2>2
<1>8. \E T : commands' \in Seq(T)
  <2>1. PICK T : T = {commands'[j] : j \in Asked}
    OBVIOUS
  <2>2. commands' \in [1..Len(commands) -> T]
    BY <1>2, <1>3, <2>1
  <2> QED
    BY <1>3, <2>2
<1>9. d.alone \in BOOLEAN /\ (d.alone => c.alone)
  BY <1>4, <1>5
<1> QED
  BY <1>3, <1>5, <1>6, <1>7, <1>8, <1>9 DEF Moved, met

\* What a command knows holds on, as others go on and topics are made.
LEMMA LikeIsOK ==
  ASSUME NEW c, NEW d, CommandOK(c), Like(c, d), ForumTopics \subseteq ForumTopics'
  PROVE  CommandOK(d)'
BY DEF CommandOK, Like, BoundTo

LEMMA CommandsFollow ==
  ASSUME CommandsOK, NEW i \in Asked, NEW f, Moved(i, f), ForumTopics \subseteq ForumTopics',
         \A d : d = commands'[i] => CommandOK(d)'
  PROVE  CommandsOK'
<1>1. ASSUME NEW j \in Asked, NEW d, d = commands'[j] PROVE CommandOK(d)'
  <2>1. CASE j = i
    BY <1>1, <2>1
  <2>2. CASE j # i
    <3>1. CommandOK(commands[j]) /\ Like(commands[j], d)
      BY <1>1, <2>2 DEF CommandsOK, Moved
    <3> QED
      BY <3>1, LikeIsOK
  <2> QED
    BY <2>1, <2>2
<1>2. Asked' = Asked /\ \E S : commands' \in Seq(S)
  BY DEF Moved
<1>3. \A j \in Asked' : CommandOK(commands[j])'
  <2> SUFFICES ASSUME NEW j \in Asked PROVE CommandOK(commands[j])'
    BY <1>2
  <2>1. PICK d : d = commands'[j]
    OBVIOUS
  <2>2. CommandOK(d)'
    BY <1>1, <2>1
  <2> QED
    BY <2>1, <2>2 DEF CommandOK, BoundTo
<1> QED
  BY <1>2, <1>3 DEF CommandsOK

\* The command that has gone on.
LEMMA MovedFields ==
  ASSUME NEW i \in Asked, NEW f, Moved(i, f), "asks" \notin DOMAIN f, NEW d, d = commands'[i]
  PROVE  /\ DOMAIN d = CommandField /\ d.asks = commands[i].asks
         /\ d.pc = IF "pc" \in DOMAIN f THEN f["pc"] ELSE commands[i].pc
         /\ d.engine = IF "engine" \in DOMAIN f THEN f["engine"] ELSE commands[i].engine
         /\ d.todo = IF "todo" \in DOMAIN f THEN f["todo"] ELSE commands[i].todo
         /\ d.seen = IF "seen" \in DOMAIN f THEN f["seen"] ELSE commands[i].seen
         /\ d.thread = IF "thread" \in DOMAIN f THEN f["thread"] ELSE commands[i].thread
         /\ d.title = IF "title" \in DOMAIN f THEN f["title"] ELSE commands[i].title
         /\ d.alone \in BOOLEAN /\ (d.alone => commands[i].alone)
BY DEF Moved, CommandField

\* A command that is done needs no more.
LEMMA DoneFollows ==
  ASSUME CommandsOK, NEW i \in Asked, Moved(i, Done), ForumTopics \subseteq ForumTopics'
  PROVE  CommandsOK'
<1>1. "asks" \notin DOMAIN Done /\ "pc" \in DOMAIN Done /\ Done["pc"] = "done"
  BY DEF Done
<1>2. CommandOK(commands[i])
  BY DEF CommandsOK
<1>3. ASSUME NEW d, d = commands'[i] PROVE CommandOK(d)'
  <2>1. /\ DOMAIN d = CommandField /\ d.asks = commands[i].asks /\ d.pc = "done" /\ d.alone \in BOOLEAN
    BY <1>1, <1>3, MovedFields
  <2> QED
    BY <1>2, <2>1 DEF CommandOK
<1> QED
  BY <1>3, CommandsFollow

LEMMA DoneMoves ==
  ASSUME CommandsOK, NEW i \in Asked
  PROVE  /\ Goes(i, Done) => Moved(i, Done)
         /\ \A p, s : Meets(i, p, s, Done) => Moved(i, Done)
<1>1. "alone" \notin DOMAIN Done
  BY DEF Done
<1> QED
  BY <1>1, GoesMoves, MeetsMoves

LEMMA ForumPlaces ==
  ASSUME CommandsTypeOK
  PROVE  /\ ForumTopics = 1..Len(forum) /\ Len(forum) \in Nat /\ Len(forum) <= MaxTopics
         /\ ForumTopics \subseteq Topic /\ Topic \subseteq Place /\ 0 \in Place /\ 0 \notin Topic
<1>1. ForumTopics = 1..Len(forum) /\ Len(forum) \in Nat /\ Len(forum) <= MaxTopics
  BY DEF CommandsTypeOK, StoresOK, ForumTopics
<1> QED
  BY <1>1, ChatAssumption DEF Topic, Place

\* What is asked, and where.
LEMMA CommandTyped ==
  ASSUME CommandsTypeOK, NEW i \in Asked
  PROVE  /\ CommandOK(commands[i]) /\ Asks(i) = commands[i].asks /\ Asks(i) \in Requests
         /\ Asks(i).kind \in CommandKind /\ Asks(i).place \in Place /\ Asks(i).arg \in Arguments(Asks(i).kind)
         /\ Asks(i).engine \in Engine \cup {None} /\ (Asks(i).kind = "handoff" => Asks(i).engine \in Engine)
         /\ ForumTopics \subseteq Topic /\ Topic \subseteq Place /\ ForumTopics = 1..Len(forum) /\ Len(forum) \in Nat
         /\ 0 \in Place /\ 0 \notin Topic
<1>1. CommandOK(commands[i]) /\ Asks(i) = commands[i].asks
  BY DEF CommandsTypeOK, CommandsOK, Asks
<1>2. Asks(i) \in Requests
  BY <1>1 DEF CommandOK
<1> QED
  BY <1>1, <1>2, ForumPlaces, RequestsAssumption DEF Place

LEMMA FoundIsThere ==
  ASSUME CommandsTypeOK, NEW c, NEW t \in Found(c)
  PROVE  t = 0 \/ (t \in ForumTopics /\ stored[t].context = c /\ c # None)
BY DEF Found, CommandsTypeOK, UnmadeAreBlank

LEMMA StoredTyped ==
  ASSUME CommandsTypeOK, NEW p \in Place
  PROVE  /\ stored[p] \in Settings /\ stored[p].context \in Context \cup {None}
         /\ stored[p].topic_title \in Title
         /\ stored[p].default_engine \in Engine \cup {None} /\ stored[p].trigger_mode \in {"mentions", None}
         /\ stored[p].engine_overrides \in [Engine -> Override]
<1>1. stored[p] \in Settings
  BY DEF CommandsTypeOK, StoresOK
<1>2. ASSUME NEW v \in Settings
      PROVE  /\ v.context \in Context \cup {None} /\ v.topic_title \in Title
             /\ v.default_engine \in Engine \cup {None} /\ v.trigger_mode \in {"mentions", None}
             /\ v.engine_overrides \in [Engine -> Override]
  BY DEF Settings
<1> QED
  BY <1>1, <1>2

\* The settings of one place change.
LEMMA StoredChanges ==
  ASSUME StoresOK, NEW p \in Place, NEW new \in Settings, stored' = [stored EXCEPT ![p] = new]
  PROVE  stored' \in [Place -> Settings] /\ stored'[p] = new /\ \A q \in Place \ {p} : stored'[q] = stored[q]
BY DEF StoresOK

LEMMA AllowsSaid ==
  ASSUME StoresOK, NEW i, NEW p \in Place, NEW s \in Setting, NEW effects, Allows(i, p, s, effects)
  PROVE  /\ \E S : said' \in [Place -> [Setting -> S]]
         /\ effects \subseteq said'[p][s]
         /\ said[p][s] \subseteq said'[p][s] \/ (Others(i, p, s) = {} /\ said'[p][s] = effects)
         /\ \A q \in Place, r \in Setting : q # p \/ r # s => said'[q][r] = said[q][r]
<1>1. PICK S : said \in [Place -> [Setting -> S]]
  BY DEF StoresOK
<1>2. PICK new : /\ said' = [said EXCEPT ![p][s] = new]
                 /\ effects \subseteq new
                 /\ said[p][s] \subseteq new \/ (Others(i, p, s) = {} /\ new = effects)
  <2> DEFINE new == IF commands[i].alone /\ Others(i, p, s) = {} THEN effects ELSE said[p][s] \cup effects
  <2>1. said' = [said EXCEPT ![p][s] = new]
    BY DEF Allows
  <2>2. effects \subseteq new /\ (said[p][s] \subseteq new \/ (Others(i, p, s) = {} /\ new = effects))
    OBVIOUS
  <2> QED
    BY <2>1, <2>2
<1>3. said \in [Place -> [Setting -> S \cup {new}]]
  BY <1>1
<1>4. said' \in [Place -> [Setting -> S \cup {new}]] /\ said'[p][s] = new
  BY <1>2, <1>3
<1>5. \A q \in Place, r \in Setting : q # p \/ r # s => said'[q][r] = said[q][r]
  BY <1>2, <1>3
<1> QED
  BY <1>2, <1>4, <1>5

LEMMA DeletesSaid ==
  ASSUME StoresOK, NEW i, NEW t \in Place, Deletes(i, t)
  PROVE  /\ \E S : said' \in [Place -> [Setting -> S]]
         /\ stored' \in [Place -> Settings] /\ stored'[t] = Blank
         /\ \A q \in Place \ {t} : stored'[q] = stored[q]
         /\ \A q \in Place \ {t} : said'[q] = said[q]
         /\ \/ muddled' = muddled \cup {t} /\ said' = said
            \/ /\ muddled' = muddled /\ \A s \in Setting : said'[t][s] = {Blank[s]} /\ Others(i, t, s) = {}
<1>1. Blank \in Settings
  BY DEF Blank, Settings, NoOverrides, Override, Title
<1>2. stored' \in [Place -> Settings] /\ stored'[t] = Blank /\ \A q \in Place \ {t} : stored'[q] = stored[q]
  BY <1>1, StoredChanges DEF Deletes
<1>3. PICK S : said \in [Place -> [Setting -> S]]
  BY DEF StoresOK
<1>4. CASE muddled' = muddled \cup {t} /\ said' = said
  BY <1>2, <1>3, <1>4
<1>5. CASE /\ said' = [said EXCEPT ![t] = [s \in Setting |-> {Blank[s]}]] /\ muddled' = muddled
           /\ \A s \in Setting : Others(i, t, s) = {}
  <2>1. PICK new : new = [s \in Setting |-> {Blank[s]}]
    OBVIOUS
  <2>2. PICK T : T = {{Blank[s]} : s \in Setting}
    OBVIOUS
  <2>3. new \in [Setting -> S \cup T] /\ said \in [Place -> [Setting -> S \cup T]]
    BY <1>3, <2>1, <2>2
  <2>4. said' = [said EXCEPT ![t] = new]
    BY <1>5, <2>1
  <2>5. said' \in [Place -> [Setting -> S \cup T]] /\ said'[t] = new /\ \A q \in Place \ {t} : said'[q] = said[q]
    BY <2>3, <2>4
  <2> QED
    BY <1>2, <1>5, <2>1, <2>5
<1> QED
  BY <1>4, <1>5 DEF Deletes

----------------------------------------------------------------------------
(* Every step keeps the types. *)

\* Nothing but the commands changes.
LEMMA OnlyCommands ==
  ASSUME CommandsTypeOK, CommandsOK', UNCHANGED <<stored, said, forum>>
  PROVE  CommandsTypeOK'
BY DEF CommandsTypeOK, StoresOK, UnmadeAreBlank, ForumTopics

\* The settings of a place change that is there.
LEMMA OnePlace ==
  ASSUME CommandsTypeOK, CommandsOK', NEW p \in ForumTopics \cup {0},
         stored' \in [Place -> Settings], \A q \in Place \ {p} : stored'[q] = stored[q],
         \E S : said' \in [Place -> [Setting -> S]], forum' = forum
  PROVE  CommandsTypeOK'
<1>1. ForumTopics' = ForumTopics /\ StoresOK'
  BY DEF CommandsTypeOK, StoresOK, ForumTopics
<1>2. \A t \in Topic : t \in Place /\ t # 0
  BY DEF Topic, Place
<1>3. UnmadeAreBlank'
  BY <1>1, <1>2 DEF CommandsTypeOK, UnmadeAreBlank
<1> QED
  BY <1>1, <1>3 DEF CommandsTypeOK

\* A setting is stored.
LEMMA StoresTyped ==
  ASSUME CommandsTypeOK, NEW p \in Place, NEW s, NEW v, Stores(p, s, v),
         \/ s = "context" /\ v \in Context \cup {None}
         \/ s = "default_engine" /\ v \in Engine \cup {None}
         \/ s = "trigger_mode" /\ v \in {"mentions", None}
         \/ s = "engine_overrides" /\ v \in [Engine -> Override]
  PROVE  /\ stored' \in [Place -> Settings] /\ stored'[p][s] = v
         /\ \A q \in Place \ {p} : stored'[q] = stored[q]
         /\ \A r \in Setting \ {s} : stored'[p][r] = stored[p][r]
         /\ stored'[p].topic_title = stored[p].topic_title
<1> DEFINE new == [stored[p] EXCEPT ![s] = v]
<1>1. stored[p] \in Settings
  BY StoredTyped
<1>2. stored' = [stored EXCEPT ![p] = new]
  BY DEF Stores, CommandsTypeOK, StoresOK
<1>3. new \in Settings
  BY <1>1 DEF Settings
<1>4. /\ new[s] = v /\ \A r \in Setting \ {s} : new[r] = stored[p][r]
      /\ new.topic_title = stored[p].topic_title
  BY <1>1, SettingsNamed DEF Settings
<1> HIDE DEF new
<1> QED
  BY <1>2, <1>3, <1>4, StoredChanges DEF CommandsTypeOK

LEMMA AskTyped ==
  ASSUME CommandsTypeOK, NEW r \in Requests, Dispatch(r), UNCHANGED topicVars
  PROVE  CommandsTypeOK'
<1>1. /\ commands' = Append(commands, Command(r)) /\ UNCHANGED <<stored, said, muddled>>
      /\ r.place \in ForumTopics \cup {0} /\ UNCHANGED <<forum, misnamed>>
  BY DEF Dispatch, Ask, topicVars, ForumTopics
<1>2. PICK c : c = Command(r)
  OBVIOUS
<1>3. ForumTopics = 1..Len(forum) /\ Len(forum) <= MaxTopics /\ Len(forum) \in Nat
  BY DEF CommandsTypeOK, StoresOK, ForumTopics
<1>4. r.place \in Place
  BY <1>1, <1>3, ChatAssumption DEF Place
<1>5. Ambient(r.place) \in Context \cup {None}
  BY <1>4, StoredTyped DEF Ambient
<1>6. /\ DOMAIN c = CommandField /\ c.asks = r /\ c.alone = TRUE /\ c.pc = "asked"
      /\ c.seen = IF r.kind \in Overriding THEN Ambient(r.place) ELSE None
  BY <1>2 DEF Command, CommandField
<1>7. CommandOK(c)
  BY <1>1, <1>5, <1>6 DEF CommandOK
<1>8. PICK S : commands \in Seq(S)
  BY DEF CommandsTypeOK, CommandsOK
<1>9. /\ commands' \in Seq(S \cup {c})
      /\ \A j \in DOMAIN commands' : (j \in DOMAIN commands /\ commands'[j] = commands[j]) \/ commands'[j] = c
  BY <1>1, <1>2, <1>8
<1>10. ForumTopics' = ForumTopics
  BY <1>1 DEF ForumTopics
<1>11. \A e : CommandOK(e) => CommandOK(e)'
  BY <1>10 DEF CommandOK, BoundTo
<1>12. \A j \in DOMAIN commands' : CommandOK(commands[j])'
  <2> SUFFICES ASSUME NEW j \in DOMAIN commands' PROVE CommandOK(commands[j])'
    OBVIOUS
  <2>1. PICK e : e = commands'[j]
    OBVIOUS
  <2>2. CommandOK(e)'
    BY <1>7, <1>9, <1>11, <2>1 DEF CommandsTypeOK, CommandsOK, Asked
  <2> QED
    BY <2>1, <2>2 DEF CommandOK, BoundTo
<1>13. CommandsOK'
  BY <1>9, <1>12 DEF CommandsOK, Asked
<1> QED
  BY <1>1, <1>13, OnlyCommands

\* /agent and /trigger.
LEMMA SetsTyped ==
  ASSUME CommandsTypeOK, NEW i \in Asked, UNCHANGED topicVars, SetAgent(i) \/ SetTrigger(i)
  PROVE  CommandsTypeOK'
<1>1. forum' = forum /\ ForumTopics' = ForumTopics
  BY DEF topicVars, ForumTopics
<1>2. /\ Asks(i).place \in Place /\ Asks(i).place \in ForumTopics \cup {0}
      /\ Asks(i).arg \in Arguments(Asks(i).kind)
  BY CommandTyped DEF CommandOK
<1>3. ASSUME NEW kind \in {"agent", "trigger"}, NEW s,
             s = IF kind = "agent" THEN "default_engine" ELSE "trigger_mode", Sets(i, kind, s)
      PROVE  CommandsTypeOK'
  <2>1. /\ Stores(Asks(i).place, s, Asks(i).arg) /\ Meets(i, Asks(i).place, s, Done)
        /\ Allows(i, Asks(i).place, s, {Asks(i).arg}) /\ Asks(i).kind = kind
    BY <1>3 DEF Sets, Is
  <2>2. Asks(i).arg \in (IF kind = "agent" THEN Engine \cup {None} ELSE {"mentions", None})
    BY <1>2, <1>3, <2>1 DEF Arguments
  <2>3. s \in Setting /\ (s = "default_engine" <=> kind = "agent") /\ (s = "trigger_mode" <=> kind = "trigger")
    BY <1>3, SettingsNamed
  <2>4. stored' \in [Place -> Settings] /\ \A q \in Place \ {Asks(i).place} : stored'[q] = stored[q]
    BY <1>2, <1>3, <2>1, <2>2, <2>3, StoresTyped
  <2>5. \E S : said' \in [Place -> [Setting -> S]]
    BY <1>2, <2>1, <2>3, AllowsSaid DEF CommandsTypeOK
  <2>6. CommandsOK'
    BY <1>1, <2>1, DoneMoves, DoneFollows DEF CommandsTypeOK
  <2> QED
    BY <1>1, <1>2, <2>4, <2>5, <2>6, OnePlace
<1> QED
  BY <1>3 DEF SetAgent, SetTrigger

LEMMA EngineTyped ==
  ASSUME CommandsTypeOK, NEW p \in Place, NEW ambient \in Context \cup {None}
  PROVE  EngineInUse(p, ambient) \in Engine
<1>1. stored[p].default_engine \in Engine \cup {None} /\ stored[0].default_engine \in Engine \cup {None}
  BY StoredTyped, ChatAssumption DEF Place
<1> DEFINE project == IF ambient = None THEN None ELSE ProjectEngine[ambient]
<1>2. project \in Engine \cup {None}
  BY ChatAssumption
<1> HIDE DEF project
<1>3. EngineInUse(p, ambient) =
        IF p # 0 /\ stored[p].default_engine # None THEN stored[p].default_engine
        ELSE IF stored[0].default_engine # None THEN stored[0].default_engine
        ELSE IF project # None THEN project ELSE DefaultEngine
  BY DEF EngineInUse, project
<1> QED
  BY <1>1, <1>2, <1>3, ChatAssumption

LEMMA UpdatedTyped ==
  ASSUME CommandsTypeOK, NEW i \in Asked, Asks(i).kind \in Overriding, NEW v \in Override
  PROVE  Updated(i, v) \in Override
<1>1. /\ Asks(i).kind = "reasoning" => Asks(i).arg \in Level \cup {None}
      /\ Asks(i).kind # "reasoning" => Asks(i).arg \in Model \cup {None}
  <2>1. Asks(i).arg \in Arguments(Asks(i).kind)
    BY CommandTyped
  <2> QED
    BY <2>1 DEF Arguments, Overriding
<1> QED
  BY <1>1 DEF Updated, Override

\* The commands on overrides, before they write.
LEMMA ReadingTyped ==
  ASSUME CommandsTypeOK, NEW i \in Asked, UNCHANGED topicVars, BeginOverride(i) \/ ReadOverride(i)
  PROVE  CommandsTypeOK'
<1>1. forum' = forum /\ ForumTopics' = ForumTopics /\ UNCHANGED <<stored, said>>
  BY DEF topicVars, ForumTopics, BeginOverride, ReadOverride
<1>2. CommandOK(commands[i]) /\ Asks(i) = commands[i].asks /\ Asks(i).place \in Place
      /\ Asks(i).engine \in Engine \cup {None}
  BY CommandTyped
<1>3. CASE BeginOverride(i)
  <2> DEFINE f == [pc |-> "read", todo |-> Engines(i)]
  <2>1. /\ Asks(i).kind \in Overriding /\ commands[i].pc = "asked"
        /\ Meets(i, Asks(i).place, "engine_overrides", f)
    BY <1>3 DEF BeginOverride
  <2>2. EngineInUse(Asks(i).place, commands[i].seen) \in Engine
    BY <1>2, <2>1, EngineTyped DEF CommandOK
  <2>3. Engines(i) \subseteq Engine
    BY <1>2, <2>2 DEF Engines
  <2>4. Moved(i, f)
    BY <2>1, MeetsMoves DEF CommandsTypeOK
  <2>5. ASSUME NEW d, d = commands'[i] PROVE CommandOK(d)'
    <3>1. /\ DOMAIN d = CommandField /\ d.asks = commands[i].asks /\ d.pc = "read" /\ d.todo = Engines(i)
          /\ d.alone \in BOOLEAN
      BY <2>4, <2>5, MovedFields
    <3> QED
      BY <1>1, <1>2, <2>1, <2>3, <3>1 DEF CommandOK, Overriding
  <2>6. CommandsOK'
    BY <1>1, <2>4, <2>5, CommandsFollow DEF CommandsTypeOK
  <2> QED
    BY <1>1, <2>6, OnlyCommands
<1>4. CASE ReadOverride(i)
  <2>1. PICK e \in commands[i].todo :
           Goes(i, [pc |-> "write", engine |-> e, seen |-> stored[Asks(i).place].engine_overrides[e]])
    BY <1>4 DEF ReadOverride
  <2> DEFINE f == [pc |-> "write", engine |-> e, seen |-> stored[Asks(i).place].engine_overrides[e]]
  <2>2. Asks(i).kind \in Overriding /\ commands[i].pc = "read"
    BY <1>4 DEF ReadOverride
  <2>3. e \in Engine /\ commands[i].todo \subseteq Engine
    BY <1>2, <2>2 DEF CommandOK
  <2>4. stored[Asks(i).place].engine_overrides[e] \in Override
    BY <1>2, <2>3, StoredTyped
  <2>5. Moved(i, f)
    BY <2>1, GoesMoves DEF CommandsTypeOK
  <2>6. ASSUME NEW d, d = commands'[i] PROVE CommandOK(d)'
    <3>1. /\ DOMAIN d = CommandField /\ d.asks = commands[i].asks /\ d.pc = "write" /\ d.engine = e
          /\ d.todo = commands[i].todo /\ d.seen = stored[Asks(i).place].engine_overrides[e] /\ d.alone \in BOOLEAN
      BY <2>5, <2>6, MovedFields
    <3> QED
      BY <1>1, <1>2, <2>2, <2>3, <2>4, <3>1 DEF CommandOK, Overriding
  <2>7. CommandsOK'
    BY <1>1, <2>5, <2>6, CommandsFollow DEF CommandsTypeOK
  <2> QED
    BY <1>1, <2>7, OnlyCommands
<1> QED
  BY <1>3, <1>4

LEMMA OverrideStored ==
  ASSUME CommandsTypeOK, NEW p \in Place, NEW e \in Engine, NEW x \in Override,
         stored' = [stored EXCEPT ![p].engine_overrides[e] = x]
  PROVE  /\ stored' \in [Place -> Settings]
         /\ stored'[p].engine_overrides = [stored[p].engine_overrides EXCEPT ![e] = x]
         /\ \A q \in Place \ {p} : stored'[q] = stored[q]
         /\ \A r \in Setting \ {"engine_overrides"} : stored'[p][r] = stored[p][r]
         /\ stored'[p].topic_title = stored[p].topic_title
<1> DEFINE new == [stored[p] EXCEPT !.engine_overrides = [stored[p].engine_overrides EXCEPT ![e] = x]]
<1>1. stored[p] \in Settings /\ stored[p].engine_overrides \in [Engine -> Override]
  BY StoredTyped
<1>2. stored' = [stored EXCEPT ![p] = new]
  BY DEF CommandsTypeOK, StoresOK
<1>3. [stored[p].engine_overrides EXCEPT ![e] = x] \in [Engine -> Override]
  BY <1>1
<1>4. new \in Settings
  BY <1>1, <1>3 DEF Settings
<1>5. /\ new.engine_overrides = [stored[p].engine_overrides EXCEPT ![e] = x]
      /\ \A r \in Setting \ {"engine_overrides"} : new[r] = stored[p][r]
      /\ new.topic_title = stored[p].topic_title
  BY <1>1, SettingsNamed DEF Settings
<1> HIDE DEF new
<1> QED
  BY <1>2, <1>4, <1>5, StoredChanges DEF CommandsTypeOK

LEMMA WriteTyped ==
  ASSUME CommandsTypeOK, NEW i \in Asked, UNCHANGED topicVars, WriteOverride(i)
  PROVE  CommandsTypeOK'
<1> DEFINE p == Asks(i).place
           e == commands[i].engine
           rest == commands[i].todo \ {e}
           f == [pc |-> IF rest = {} THEN "done" ELSE "read", todo |-> rest]
           effects == {Meant(i, v, e) : v \in said[p]["engine_overrides"]}
<1>1. forum' = forum /\ ForumTopics' = ForumTopics
  BY DEF topicVars, ForumTopics
<1>2. CommandOK(commands[i]) /\ Asks(i) = commands[i].asks /\ p \in Place /\ p \in ForumTopics \cup {0}
  BY CommandTyped DEF CommandOK
<1>3. /\ Asks(i).kind \in Overriding /\ commands[i].pc = "write"
      /\ stored' = [stored EXCEPT ![p].engine_overrides[e] = Updated(i, commands[i].seen)]
      /\ Allows(i, p, "engine_overrides", effects) /\ Meets(i, p, "engine_overrides", f)
  BY DEF WriteOverride
<1>4. e \in Engine /\ commands[i].seen \in Override /\ commands[i].todo \subseteq Engine
  BY <1>2, <1>3 DEF CommandOK
<1>5. Updated(i, commands[i].seen) \in Override
  BY <1>3, <1>4, UpdatedTyped, SMTT(30)
<1>6. stored' \in [Place -> Settings] /\ \A q \in Place \ {p} : stored'[q] = stored[q]
  BY <1>2, <1>3, <1>4, <1>5, OverrideStored
<1>7. Moved(i, f)
  BY <1>3, MeetsMoves DEF CommandsTypeOK
<1>8. \E S : said' \in [Place -> [Setting -> S]]
  <2>1. "engine_overrides" \in Setting
    BY SettingsNamed
  <2> HIDE DEF effects
  <2> QED
    BY <1>2, <1>3, <2>1, AllowsSaid DEF CommandsTypeOK
<1>9. ASSUME NEW d, d = commands'[i] PROVE CommandOK(d)'
  <2>1. /\ DOMAIN d = CommandField /\ d.asks = commands[i].asks /\ d.pc \in {"done", "read"} /\ d.todo = rest
        /\ d.alone \in BOOLEAN
    BY <1>7, <1>9, MovedFields
  <2> QED
    BY <1>1, <1>2, <1>3, <1>4, <2>1 DEF CommandOK, Overriding
<1>10. CommandsOK'
  BY <1>1, <1>7, <1>9, CommandsFollow DEF CommandsTypeOK
<1> QED
  BY <1>1, <1>2, <1>6, <1>8, <1>10, OnePlace

----------------------------------------------------------------------------
(* /ctx, and the commands on topics. *)

\* A context is stored where a command is, or in the topic it has made.
LEMMA ContextTyped ==
  ASSUME CommandsTypeOK, NEW i \in Asked, NEW p \in ForumTopics \cup {0}, NEW c \in Context \cup {None},
         Stores(p, "context", c), Allows(i, p, "context", {c})
  PROVE  /\ stored' \in [Place -> Settings] /\ \A q \in Place \ {p} : stored'[q] = stored[q]
         /\ \E S : said' \in [Place -> [Setting -> S]]
<1>1. p \in Place /\ "context" \in Setting
  BY CommandTyped, SettingsNamed
<1> QED
  BY <1>1, StoresTyped, AllowsSaid DEF CommandsTypeOK

LEMMA ContextCommandsTyped ==
  ASSUME CommandsTypeOK, NEW i \in Asked, ClearContext(i) \/ SetContext(i) \/ CheckTitle(i)
  PROVE  CommandsTypeOK'
<1>1. forum' = forum /\ ForumTopics' = ForumTopics
  BY DEF topicVars, ForumTopics, ClearContext, SetContext, CheckTitle
<1>2. /\ CommandOK(commands[i]) /\ Asks(i) = commands[i].asks /\ Asks(i).place \in ForumTopics \cup {0}
      /\ Asks(i).arg \in Arguments(Asks(i).kind)
  BY CommandTyped DEF CommandOK
<1>3. CASE ClearContext(i)
  <2>1. /\ Stores(Asks(i).place, "context", None) /\ Meets(i, Asks(i).place, "context", Done)
        /\ Allows(i, Asks(i).place, "context", {None})
    BY <1>3 DEF ClearContext
  <2>2. CommandsOK'
    BY <1>1, <2>1, DoneMoves, DoneFollows DEF CommandsTypeOK
  <2> QED
    BY <1>1, <1>2, <2>1, <2>2, ContextTyped, OnePlace
<1>4. CASE SetContext(i)
  <2>1. /\ Stores(Asks(i).place, "context", Asks(i).arg)
        /\ Allows(i, Asks(i).place, "context", {Asks(i).arg})
        /\ Meets(i, Asks(i).place, "context", IF Asks(i).place = 0 THEN Done ELSE [pc |-> "title"])
        /\ Asks(i).kind = "bind"
    BY <1>4 DEF SetContext, Is
  <2>2. Asks(i).arg \in Context
    BY <1>2, <2>1 DEF Arguments
  <2>3. ASSUME Asks(i).place = 0 PROVE CommandsOK'
    BY <1>1, <2>1, <2>3, DoneMoves, DoneFollows DEF CommandsTypeOK
  <2>4. ASSUME Asks(i).place # 0 PROVE CommandsOK'
    <3> DEFINE f == [pc |-> "title"]
    <3>1. Moved(i, f)
      BY <2>1, <2>4, MeetsMoves DEF CommandsTypeOK
    <3>2. ASSUME NEW d, d = commands'[i] PROVE CommandOK(d)'
      <4>1. DOMAIN d = CommandField /\ d.asks = commands[i].asks /\ d.pc = "title" /\ d.alone \in BOOLEAN
        BY <3>1, <3>2, MovedFields
      <4> QED
        BY <1>1, <1>2, <2>1, <2>4, <4>1 DEF CommandOK, Overriding
    <3> QED
      BY <1>1, <3>1, <3>2, CommandsFollow DEF CommandsTypeOK
  <2>5. CommandsOK'
    BY <2>3, <2>4
  <2> QED
    BY <1>1, <1>2, <2>1, <2>2, <2>5, ContextTyped, OnePlace
<1>5. CASE CheckTitle(i)
  <2>1. /\ Goes(i, Done) \/ Goes(i, [pc |-> "edit"])
        /\ UNCHANGED <<stored, said>> /\ Asks(i).kind = "bind" /\ commands[i].pc = "title"
    BY <1>5 DEF CheckTitle, Is
  <2>2. CASE Goes(i, Done)
    BY <1>1, <2>1, <2>2, DoneMoves, DoneFollows, OnlyCommands DEF CommandsTypeOK
  <2>3. CASE Goes(i, [pc |-> "edit"])
    <3> DEFINE f == [pc |-> "edit"]
    <3>1. Moved(i, f)
      BY <2>3, GoesMoves DEF CommandsTypeOK
    <3>2. ASSUME NEW d, d = commands'[i] PROVE CommandOK(d)'
      <4>1. DOMAIN d = CommandField /\ d.asks = commands[i].asks /\ d.pc = "edit" /\ d.alone \in BOOLEAN
        BY <3>1, <3>2, MovedFields
      <4> QED
        BY <1>1, <1>2, <2>1, <4>1 DEF CommandOK, Overriding
    <3>3. CommandsOK'
      BY <1>1, <3>1, <3>2, CommandsFollow DEF CommandsTypeOK
    <3> QED
      BY <1>1, <2>1, <3>3, OnlyCommands
  <2> QED
    BY <2>1, <2>2, <2>3
<1> QED
  BY <1>3, <1>4, <1>5

\* A topic is bound, and its title written.
LEMMA BindingTyped ==
  ASSUME CommandsTypeOK, NEW t \in ForumTopics, NEW c \in Context \cup {None}, NEW name \in Title,
         stored' = [stored EXCEPT ![t].context = c, ![t].topic_title = name]
  PROVE  /\ stored' \in [Place -> Settings] /\ t \in Place
         /\ stored'[t].context = c /\ stored'[t].topic_title = name
         /\ \A q \in Place \ {t} : stored'[q] = stored[q]
         /\ \A r \in Setting \ {"context"} : stored'[t][r] = stored[t][r]
<1> DEFINE new == [stored[t] EXCEPT !.context = c, !.topic_title = name]
<1>1. t \in Place
  BY ForumPlaces
<1>2. stored[t] \in Settings
  BY <1>1, StoredTyped
<1>3. stored' = [stored EXCEPT ![t] = new]
  BY <1>1 DEF CommandsTypeOK, StoresOK
<1>4. new \in Settings
  BY <1>2 DEF Settings
<1>5. /\ new.context = c /\ new.topic_title = name
      /\ \A r \in Setting \ {"context"} : new[r] = stored[t][r]
  BY <1>2, SettingsNamed DEF Settings
<1> HIDE DEF new
<1> QED
  BY <1>1, <1>3, <1>4, <1>5, StoredChanges DEF CommandsTypeOK

\* A topic gets another name.
LEMMA ForumRenamed ==
  ASSUME CommandsTypeOK, NEW t \in ForumTopics, NEW name \in Title \cup {Gone}, forum' = [forum EXCEPT ![t] = name]
  PROVE  /\ forum' \in Seq(Title \cup {Gone}) /\ Len(forum') = Len(forum) /\ ForumTopics' = ForumTopics
         /\ forum'[t] = name /\ \A q \in ForumTopics \ {t} : forum'[q] = forum[q]
BY DEF CommandsTypeOK, StoresOK, ForumTopics

\* Names, and the settings of a topic, change.
LEMMA ForumChanges ==
  ASSUME CommandsTypeOK, CommandsOK', NEW t \in ForumTopics,
         forum' \in Seq(Title \cup {Gone}), Len(forum') = Len(forum), ForumTopics' = ForumTopics,
         stored' \in [Place -> Settings], \A q \in Place \ {t} : stored'[q] = stored[q], said' = said
  PROVE  CommandsTypeOK'
<1>1. StoresOK'
  BY DEF CommandsTypeOK, StoresOK
<1>2. \A q \in Topic : q \in Place
  BY DEF Topic, Place
<1>3. UnmadeAreBlank'
  BY <1>2 DEF CommandsTypeOK, UnmadeAreBlank
<1> QED
  BY <1>1, <1>3 DEF CommandsTypeOK

LEMMA RenameTyped ==
  ASSUME CommandsTypeOK, NEW i \in Asked, RenameReturns(i)
  PROVE  CommandsTypeOK'
<1>1. /\ CommandOK(commands[i]) /\ Asks(i) = commands[i].asks
      /\ Asks(i).arg \in Arguments(Asks(i).kind)
  BY CommandTyped
<1>2. Asks(i).kind = "bind" /\ commands[i].pc = "edit" /\ UNCHANGED <<said, muddled>>
  BY DEF RenameReturns, Is
<1>3. Asks(i).place \in ForumTopics /\ Asks(i).arg \in Context
  BY <1>1, <1>2 DEF CommandOK, Arguments
<1>4. CASE NotRenamed(Asks(i).place) /\ Goes(i, Done) /\ UNCHANGED stored
  <2>1. UNCHANGED <<stored, said, forum>> /\ ForumTopics' = ForumTopics
    BY <1>2, <1>4 DEF NotRenamed, ForumTopics
  <2> QED
    BY <1>4, <2>1, DoneMoves, DoneFollows, OnlyCommands DEF CommandsTypeOK
<1>5. CASE /\ Renamed(Asks(i).place, Asks(i).arg)
           /\ stored' = [stored EXCEPT ![Asks(i).place].topic_title = _topic_title(Asks(i).arg),
                                       ![Asks(i).place].context = Asks(i).arg]
           /\ Meets(i, Asks(i).place, "context", Done)
  <2>1. forum' = [forum EXCEPT ![Asks(i).place] = Asks(i).arg]
    BY <1>5 DEF Renamed, _topic_title
  <2>2. /\ forum' \in Seq(Title \cup {Gone}) /\ Len(forum') = Len(forum) /\ ForumTopics' = ForumTopics
    BY <1>3, <2>1, ForumRenamed DEF Title
  <2>3. stored' = [stored EXCEPT ![Asks(i).place].context = Asks(i).arg,
                                 ![Asks(i).place].topic_title = Asks(i).arg]
    BY <1>3, <1>5, CommandTyped DEF _topic_title, CommandsTypeOK, StoresOK, Settings
  <2>4. stored' \in [Place -> Settings] /\ \A q \in Place \ {Asks(i).place} : stored'[q] = stored[q]
    BY <1>3, <2>3, BindingTyped DEF Title
  <2>5. CommandsOK'
    BY <1>5, <2>2, DoneMoves, DoneFollows DEF CommandsTypeOK
  <2> QED
    BY <1>2, <1>3, <2>2, <2>4, <2>5, ForumChanges
<1> QED
  BY <1>4, <1>5 DEF RenameReturns

\* A handler goes on, and has stored nothing.
LEMMA OnlyOneCommand ==
  ASSUME CommandsTypeOK, NEW i \in Asked, NEW f, "alone" \notin DOMAIN f, Goes(i, f),
         UNCHANGED <<stored, said, forum>>, \A d : Moved(i, f) /\ d = commands'[i] => CommandOK(d)
  PROVE  CommandsTypeOK'
<1>1. Moved(i, f)
  BY GoesMoves DEF CommandsTypeOK
<1>2. ForumTopics' = ForumTopics
  BY DEF ForumTopics
<1>3. ASSUME NEW d, d = commands'[i] PROVE CommandOK(d)'
  BY <1>1, <1>2, <1>3 DEF CommandOK, BoundTo
<1>4. CommandsOK'
  BY <1>1, <1>2, <1>3, CommandsFollow DEF CommandsTypeOK
<1> QED
  BY <1>4, OnlyCommands

LEMMA FindingTyped ==
  ASSUME CommandsTypeOK, NEW i \in Asked,
         \/ FindTopic(i) \/ TryTopic(i) \/ ReadForked(i) \/ BeginCreate(i) \/ FindDeleted(i)
  PROVE  CommandsTypeOK'
<1>1. CommandOK(commands[i]) /\ Asks(i) = commands[i].asks /\ Asks(i).place \in Place
      /\ Asks(i).arg \in Arguments(Asks(i).kind)
  BY CommandTyped
<1>2. CASE FindTopic(i)
  <2>1. PICK t \in Found(Asks(i).arg) : Goes(i, [pc |-> IF t = 0 THEN "create" ELSE "try", seen |-> t])
    BY <1>2 DEF FindTopic
  <2> DEFINE f == [pc |-> IF t = 0 THEN "create" ELSE "try", seen |-> t]
  <2>2. Asks(i).kind = "topic" /\ UNCHANGED <<stored, said, forum>>
    BY <1>2 DEF FindTopic, Is, topicVars
  <2>3. t = 0 \/ t \in ForumTopics
    BY FoundIsThere
  <2>4. ASSUME NEW d, Moved(i, f), d = commands'[i] PROVE CommandOK(d)
    <3>1. /\ DOMAIN d = CommandField /\ d.asks = commands[i].asks /\ d.seen = t /\ d.alone \in BOOLEAN
          /\ d.pc = IF t = 0 THEN "create" ELSE "try"
      BY <2>4, MovedFields
    <3> QED
      BY <1>1, <2>2, <2>3, <3>1 DEF CommandOK, Overriding
  <2> QED
    BY <2>1, <2>2, <2>4, OnlyOneCommand
<1>3. CASE TryTopic(i)
  <2>1. Asks(i).kind = "topic" /\ commands[i].pc = "try" /\ UNCHANGED <<stored, said>>
    BY <1>3 DEF TryTopic, Is
  <2>2. commands[i].seen \in ForumTopics /\ Asks(i).arg \in Context
    BY <1>1, <2>1 DEF CommandOK, Arguments
  <2>3. CASE Goes(i, Done) /\ forum' = [forum EXCEPT ![commands[i].seen] = _topic_title(Asks(i).arg)]
    <3>1. forum' \in Seq(Title \cup {Gone}) /\ Len(forum') = Len(forum) /\ ForumTopics' = ForumTopics
      BY <2>2, <2>3, ForumRenamed DEF Title, _topic_title
    <3>2. CommandsOK'
      BY <2>3, <3>1, DoneMoves, DoneFollows DEF CommandsTypeOK
    <3> QED
      BY <2>1, <2>2, <3>1, <3>2, ForumChanges DEF CommandsTypeOK, StoresOK
  <2>4. CASE UNCHANGED topicVars /\ Goes(i, [pc |-> "create"])
    <3> DEFINE f == [pc |-> "create"]
    <3>1. ASSUME NEW d, Moved(i, f), d = commands'[i] PROVE CommandOK(d)
      <4>1. /\ DOMAIN d = CommandField /\ d.asks = commands[i].asks /\ d.seen = commands[i].seen
            /\ d.alone \in BOOLEAN /\ d.pc = "create"
        BY <3>1, MovedFields
      <4> QED
        BY <1>1, <2>1, <2>2, <4>1 DEF CommandOK, Overriding
    <3> QED
      BY <2>1, <2>4, <3>1, OnlyOneCommand DEF topicVars
  <2> QED
    BY <1>3, <2>3, <2>4 DEF TryTopic
<1>4. CASE ReadForked(i)
  <2> DEFINE f == [pc |-> "create", seen |-> stored[Asks(i).place].context]
  <2>1. Asks(i).kind = "fork" /\ UNCHANGED <<stored, said, forum>> /\ Goes(i, f)
    BY <1>4 DEF ReadForked, Is, topicVars
  <2>2. stored[Asks(i).place].context \in Context \cup {None}
    BY <1>1, StoredTyped
  <2>3. ASSUME NEW d, Moved(i, f), d = commands'[i] PROVE CommandOK(d)
    <3>1. /\ DOMAIN d = CommandField /\ d.asks = commands[i].asks /\ d.seen = stored[Asks(i).place].context
          /\ d.alone \in BOOLEAN /\ d.pc = "create"
      BY <2>3, MovedFields
    <3> QED
      BY <1>1, <2>1, <2>2, <3>1 DEF CommandOK, Overriding
  <2> QED
    BY <2>1, <2>3, OnlyOneCommand
<1>5. CASE BeginCreate(i)
  <2> DEFINE f == [pc |-> "create"]
  <2>1. Asks(i).kind = "create" /\ UNCHANGED <<stored, said, forum>> /\ Goes(i, f)
    BY <1>5 DEF BeginCreate, Is, topicVars
  <2>2. ASSUME NEW d, Moved(i, f), d = commands'[i] PROVE CommandOK(d)
    <3>1. /\ DOMAIN d = CommandField /\ d.asks = commands[i].asks /\ d.alone \in BOOLEAN /\ d.pc = "create"
      BY <2>2, MovedFields
    <3> QED
      BY <1>1, <2>1, <3>1 DEF CommandOK, Overriding
  <2> QED
    BY <2>1, <2>2, OnlyOneCommand
<1>6. CASE FindDeleted(i)
  <2>1. PICK t \in Found(Asks(i).arg) : Goes(i, IF t = 0 THEN Done ELSE [pc |-> "forget", seen |-> t])
    BY <1>6 DEF FindDeleted
  <2>2. Asks(i).kind = "delete" /\ UNCHANGED <<stored, said, forum>> /\ ForumTopics' = ForumTopics
    BY <1>6 DEF FindDeleted, Is, topicVars, ForumTopics
  <2>3. t = 0 \/ t \in ForumTopics
    BY FoundIsThere
  <2>4. CASE t = 0
    BY <2>1, <2>2, <2>4, DoneMoves, DoneFollows, OnlyCommands DEF CommandsTypeOK
  <2>5. CASE t # 0
    <3> DEFINE f == [pc |-> "forget", seen |-> t]
    <3>1. Goes(i, f)
      BY <2>1, <2>5
    <3>2. ASSUME NEW d, Moved(i, f), d = commands'[i] PROVE CommandOK(d)
      <4>1. /\ DOMAIN d = CommandField /\ d.asks = commands[i].asks /\ d.seen = t /\ d.alone \in BOOLEAN
            /\ d.pc = "forget"
        BY <3>2, MovedFields
      <4> QED
        BY <1>1, <2>2, <2>3, <2>5, <4>1 DEF CommandOK, Overriding
    <3> QED
      BY <2>2, <3>1, <3>2, OnlyOneCommand
  <2> QED
    BY <2>4, <2>5
<1> QED
  BY <1>2, <1>3, <1>4, <1>5, <1>6

\* A topic is made.
LEMMA ForumGrows ==
  ASSUME CommandsTypeOK, NEW name \in Title, forum' = Append(forum, name), Len(forum) + 1 \in Topic
  PROVE  /\ forum' \in Seq(Title \cup {Gone}) /\ Len(forum') <= MaxTopics
         /\ ForumTopics' = ForumTopics \cup {Len(forum) + 1} /\ Len(forum) + 1 \notin ForumTopics
         /\ forum'[Len(forum) + 1] = name /\ \A q \in ForumTopics : forum'[q] = forum[q]
<1>1. ForumTopics = 1..Len(forum) /\ Len(forum) \in Nat /\ forum \in Seq(Title \cup {Gone})
  BY ForumPlaces DEF CommandsTypeOK, StoresOK
<1>2. Len(forum) + 1 <= MaxTopics
  BY <1>1, ChatAssumption DEF Topic
<1>3. /\ forum' \in Seq(Title \cup {Gone}) /\ Len(forum') = Len(forum) + 1
      /\ forum'[Len(forum) + 1] = name /\ \A q \in 1..Len(forum) : forum'[q] = forum[q]
  BY <1>1
<1>4. ForumTopics' = 1..(Len(forum) + 1)
  BY <1>3 DEF ForumTopics
<1> QED
  BY <1>1, <1>2, <1>3, <1>4

LEMMA GrownTyped ==
  ASSUME CommandsTypeOK, CommandsOK', UNCHANGED <<stored, said>>,
         forum' \in Seq(Title \cup {Gone}), Len(forum') <= MaxTopics, ForumTopics \subseteq ForumTopics'
  PROVE  CommandsTypeOK'
<1>1. StoresOK'
  BY DEF CommandsTypeOK, StoresOK
<1>2. UnmadeAreBlank'
  BY DEF CommandsTypeOK, UnmadeAreBlank
<1> QED
  BY <1>1, <1>2 DEF CommandsTypeOK

LEMMA CreateTyped ==
  ASSUME CommandsTypeOK, NEW i \in Asked, CreateReturns(i)
  PROVE  CommandsTypeOK'
<1> DEFINE t == Len(forum) + 1
<1>1. CommandOK(commands[i]) /\ Asks(i) = commands[i].asks /\ Asks(i).arg \in Arguments(Asks(i).kind)
  BY CommandTyped
<1>2. commands[i].pc = "create" /\ UNCHANGED <<stored, said>>
  BY DEF CreateReturns
<1>3. CASE Goes(i, Done) /\ UNCHANGED forum
  <2>1. ForumTopics' = ForumTopics
    BY <1>3 DEF ForumTopics
  <2> QED
    BY <1>2, <1>3, <2>1, DoneMoves, DoneFollows, OnlyCommands DEF CommandsTypeOK
<1>4. ASSUME t \in Topic, NEW name \in NewTitle(i), forum' = Append(forum, name),
             Goes(i, IF NewContext(i) = None THEN Done
                     ELSE [pc |-> IF Stale(i) # 0 THEN "drop" ELSE "set", thread |-> t, title |-> name])
      PROVE  CommandsTypeOK'
  <2>1. Asks(i).kind \in {"topic", "fork", "create"} /\ NewContext(i) = BoundTo(commands[i])
    BY <1>1, <1>2 DEF CommandOK, NewContext, BoundTo
  <2>2. BoundTo(commands[i]) \in Context \cup {None}
    BY <1>1, <1>2, <2>1 DEF CommandOK, BoundTo, Arguments
  <2>3. name \in {OtherTitle, BoundTo(commands[i])} /\ name \in Title
    BY <1>1, <1>4, <2>1, <2>2 DEF NewTitle, BoundTo, Title, _topic_title
  <2>4. /\ forum' \in Seq(Title \cup {Gone}) /\ Len(forum') <= MaxTopics
        /\ ForumTopics' = ForumTopics \cup {t}
    BY <1>4, <2>3, ForumGrows
  <2>5. CASE NewContext(i) = None
    BY <1>2, <1>4, <2>4, <2>5, DoneMoves, DoneFollows, GrownTyped DEF CommandsTypeOK
  <2>6. CASE NewContext(i) # None
    <3> DEFINE f == [pc |-> IF Stale(i) # 0 THEN "drop" ELSE "set", thread |-> t, title |-> name]
    <3>1. Moved(i, f)
      BY <1>4, <2>6, GoesMoves DEF CommandsTypeOK
    <3>2. ASSUME NEW d, d = commands'[i] PROVE CommandOK(d)'
      <4>1. /\ DOMAIN d = CommandField /\ d.asks = commands[i].asks /\ d.alone \in BOOLEAN
            /\ d.seen = commands[i].seen /\ d.thread = t /\ d.title = name
            /\ d.pc = IF Stale(i) # 0 THEN "drop" ELSE "set"
        BY <3>1, <3>2, MovedFields
      <4>2. BoundTo(d) = BoundTo(commands[i]) /\ BoundTo(d) \in Context
        BY <2>1, <2>2, <2>6, <4>1 DEF BoundTo
      <4>3. d.pc = "drop" => Asks(i).kind = "topic"
        BY <4>1 DEF Stale
      <4> QED
        BY <1>1, <1>2, <2>1, <2>3, <2>4, <4>1, <4>2, <4>3 DEF CommandOK, Overriding
    <3>3. CommandsOK'
      BY <2>4, <3>1, <3>2, CommandsFollow DEF CommandsTypeOK
    <3> QED
      BY <1>2, <2>4, <3>3, GrownTyped
  <2> QED
    BY <2>5, <2>6
<1> QED
  BY <1>3, <1>4 DEF CreateReturns

\* The settings of a topic are forgotten.
LEMMA DeletesTyped ==
  ASSUME CommandsTypeOK, CommandsOK', NEW i, NEW t \in ForumTopics \cup {0}, Deletes(i, t), forum' = forum
  PROVE  CommandsTypeOK'
<1>1. t \in Place
  BY ForumPlaces
<1> QED
  BY <1>1, DeletesSaid, OnePlace DEF CommandsTypeOK

LEMMA DroppingTyped ==
  ASSUME CommandsTypeOK, NEW i \in Asked, DropStale(i) \/ BindNew(i) \/ DeleteFound(i)
  PROVE  CommandsTypeOK'
<1>1. CommandOK(commands[i]) /\ Asks(i) = commands[i].asks
  BY CommandTyped
<1>2. forum' = forum /\ ForumTopics' = ForumTopics
  BY DEF DropStale, BindNew, DeleteFound, topicVars, ForumTopics
<1>3. CASE DropStale(i)
  <2> DEFINE f == [pc |-> "set"]
  <2>1. commands[i].pc = "drop" /\ Deletes(i, Stale(i)) /\ Goes(i, f)
    BY <1>3 DEF DropStale
  <2>2. Stale(i) \in ForumTopics \cup {0}
    BY <1>1, <2>1 DEF CommandOK, Stale
  <2>3. Moved(i, f)
    BY <2>1, GoesMoves DEF CommandsTypeOK
  <2>4. ASSUME NEW d, d = commands'[i] PROVE CommandOK(d)'
    <3>1. /\ DOMAIN d = CommandField /\ d.asks = commands[i].asks /\ d.alone \in BOOLEAN /\ d.pc = "set"
          /\ d.seen = commands[i].seen /\ d.thread = commands[i].thread /\ d.title = commands[i].title
      BY <2>3, <2>4, MovedFields
    <3> QED
      BY <1>1, <1>2, <2>1, <3>1 DEF CommandOK, Overriding, BoundTo
  <2>5. CommandsOK'
    BY <1>2, <2>3, <2>4, CommandsFollow DEF CommandsTypeOK
  <2> QED
    BY <1>2, <2>1, <2>2, <2>5, DeletesTyped
<1>4. CASE BindNew(i)
  <2> DEFINE t == commands[i].thread
             c == NewContext(i)
  <2>1. /\ commands[i].pc = "set" /\ Allows(i, t, "context", {c}) /\ Meets(i, t, "context", Done)
        /\ stored' = [stored EXCEPT ![t].context = c, ![t].topic_title = commands[i].title]
    BY <1>4 DEF BindNew
  <2>2. t \in ForumTopics /\ c \in Context /\ commands[i].title \in Title
    BY <1>1, <2>1 DEF CommandOK, NewContext, BoundTo, Title
  <2>3. t \in Place /\ stored' \in [Place -> Settings] /\ \A q \in Place \ {t} : stored'[q] = stored[q]
    BY <2>1, <2>2, BindingTyped, ZenonT(60)
  <2>4. \E S : said' \in [Place -> [Setting -> S]]
    BY <2>1, <2>3, AllowsSaid, SettingsNamed DEF CommandsTypeOK
  <2>5. CommandsOK'
    BY <1>2, <2>1, DoneMoves, DoneFollows DEF CommandsTypeOK
  <2> QED
    BY <1>2, <2>2, <2>3, <2>4, <2>5, OnePlace
<1>5. CASE DeleteFound(i)
  <2>1. /\ Asks(i).kind = "delete" /\ commands[i].pc = "forget" /\ Deletes(i, commands[i].seen) /\ Goes(i, Done)
    BY <1>5 DEF DeleteFound, Is
  <2>2. commands[i].seen \in ForumTopics
    BY <1>1, <2>1 DEF CommandOK
  <2>3. CommandsOK'
    BY <1>2, <2>1, DoneMoves, DoneFollows DEF CommandsTypeOK
  <2> QED
    BY <1>2, <2>1, <2>2, <2>3, DeletesTyped
<1> QED
  BY <1>3, <1>4, <1>5

LEMMA UserTyped ==
  ASSUME CommandsTypeOK, DeletedByUser
  PROVE  CommandsTypeOK'
<1>1. PICK t \in ForumTopics : forum' = [forum EXCEPT ![t] = Gone]
  BY DEF DeletedByUser, ForumTopics
<1>2. UNCHANGED <<stored, commands, said>>
  BY DEF DeletedByUser, chatVars
<1>3. forum' \in Seq(Title \cup {Gone}) /\ Len(forum') = Len(forum) /\ ForumTopics' = ForumTopics
  BY <1>1, ForumRenamed
<1>4. CommandsOK'
  BY <1>2, <1>3 DEF CommandsTypeOK, CommandsOK, CommandOK, Asked, BoundTo
<1> QED
  BY <1>1, <1>2, <1>3, <1>4, ForumChanges DEF CommandsTypeOK, StoresOK

----------------------------------------------------------------------------
(* `yee88 handoff`. *)

LEMMA HandoffTyped ==
  ASSUME CommandsTypeOK, NEW i \in Asked,
         \/ FindHandoff(i) \/ HandoffCreates(i) \/ HandoffBinds(i) \/ HandoffEngine(i)
         \/ HandoffModel(i) \/ HandoffEnds(i) \/ HandoffRetries(i)
  PROVE  CommandsTypeOK'
<1>1. /\ CommandOK(commands[i]) /\ Asks(i) = commands[i].asks /\ Asks(i).arg \in Arguments(Asks(i).kind)
      /\ (Asks(i).kind = "handoff" => Asks(i).engine \in Engine)
  BY CommandTyped
<1>2. Asks(i).kind = "handoff"
  BY DEF FindHandoff, HandoffCreates, HandoffBinds, HandoffEngine, HandoffModel, HandoffEnds, HandoffRetries, Is
<1>3. Asks(i).arg \in Context \cup {None} /\ Asks(i).engine \in Engine
  BY <1>1, <1>2 DEF Arguments
<1>4. ASSUME NEW d, DOMAIN d = CommandField, d.asks = commands[i].asks, d.alone \in BOOLEAN,
             ForumTopics \subseteq ForumTopics',
             d.pc \in {"make", "bind", "engine", "model", "send"}, d.seen \in Model \cup {None},
             d.pc # "make" => d.thread \in ForumTopics'
      PROVE  CommandOK(d)'
  BY <1>1, <1>2, <1>4 DEF CommandOK, Overriding
<1>5. CASE FindHandoff(i)
  <2>1. PICK t \in Found(Asks(i).arg), model \in Model \cup {None} :
           Goes(i, [pc |-> IF t = 0 THEN "make" ELSE "engine", thread |-> t, seen |-> model])
    BY <1>5 DEF FindHandoff
  <2> DEFINE f == [pc |-> IF t = 0 THEN "make" ELSE "engine", thread |-> t, seen |-> model]
  <2>2. UNCHANGED <<stored, said, forum>> /\ ForumTopics' = ForumTopics
    BY <1>5 DEF FindHandoff, topicVars, ForumTopics
  <2>3. t = 0 \/ t \in ForumTopics
    BY FoundIsThere
  <2>4. Moved(i, f)
    BY <2>1, GoesMoves DEF CommandsTypeOK
  <2>5. ASSUME NEW d, d = commands'[i] PROVE CommandOK(d)'
    <3>1. /\ DOMAIN d = CommandField /\ d.asks = commands[i].asks /\ d.thread = t /\ d.seen = model
          /\ d.pc = (IF t = 0 THEN "make" ELSE "engine") /\ d.alone \in BOOLEAN
      BY <2>4, <2>5, MovedFields
    <3> QED
      BY <1>4, <2>2, <2>3, <3>1
  <2>6. CommandsOK'
    BY <2>2, <2>4, <2>5, CommandsFollow DEF CommandsTypeOK
  <2> QED
    BY <2>2, <2>6, OnlyCommands
<1>6. CASE HandoffCreates(i)
  <2> DEFINE t == Len(forum) + 1
             f == [pc |-> "bind", thread |-> t]
  <2>1. commands[i].pc = "make" /\ UNCHANGED <<stored, said>>
    BY <1>6 DEF HandoffCreates, Is
  <2>2. CASE Goes(i, Done) /\ UNCHANGED forum
    <3>1. ForumTopics' = ForumTopics
      BY <2>2 DEF ForumTopics
    <3> QED
      BY <2>1, <2>2, <3>1, DoneMoves, DoneFollows, OnlyCommands DEF CommandsTypeOK
  <2>3. CASE t \in Topic /\ forum' = Append(forum, OtherTitle) /\ Goes(i, f)
    <3>1. /\ forum' \in Seq(Title \cup {Gone}) /\ Len(forum') <= MaxTopics
          /\ ForumTopics' = ForumTopics \cup {t}
      BY <2>3, ForumGrows DEF Title
    <3>2. Moved(i, f)
      BY <2>3, GoesMoves DEF CommandsTypeOK
    <3>3. ASSUME NEW d, d = commands'[i] PROVE CommandOK(d)'
      <4>1. /\ DOMAIN d = CommandField /\ d.asks = commands[i].asks /\ d.thread = t /\ d.seen = commands[i].seen
            /\ d.pc = "bind" /\ d.alone \in BOOLEAN
        BY <3>2, <3>3, MovedFields
      <4> QED
        BY <1>1, <1>2, <1>4, <2>1, <3>1, <4>1 DEF CommandOK
    <3>4. CommandsOK'
      BY <3>1, <3>2, <3>3, CommandsFollow DEF CommandsTypeOK
    <3> QED
      BY <2>1, <3>1, <3>4, GrownTyped
  <2> QED
    BY <1>6, <2>2, <2>3 DEF HandoffCreates
\* What the later steps leave of the command.
<1>7. ASSUME NEW f, Moved(i, f), "asks" \notin DOMAIN f, "thread" \notin DOMAIN f, "seen" \notin DOMAIN f,
             "pc" \in DOMAIN f, f["pc"] \in {"engine", "model", "send", "make"}, ForumTopics' = ForumTopics,
             commands[i].pc \in {"bind", "engine", "model", "send"}
      PROVE  CommandsOK'
  <2>1. ASSUME NEW d, d = commands'[i] PROVE CommandOK(d)'
    <3>1. /\ DOMAIN d = CommandField /\ d.asks = commands[i].asks /\ d.thread = commands[i].thread
          /\ d.seen = commands[i].seen /\ d.pc = f["pc"] /\ d.alone \in BOOLEAN
      BY <1>7, <2>1, MovedFields
    <3> QED
      BY <1>1, <1>2, <1>4, <1>7, <3>1 DEF CommandOK
  <2> QED
    BY <1>7, <2>1, CommandsFollow DEF CommandsTypeOK
<1>8. CASE HandoffBinds(i)
  <2> DEFINE t == commands[i].thread
  <2>1. /\ commands[i].pc = "bind" /\ Allows(i, t, "context", {Asks(i).arg})
        /\ Meets(i, t, "context", [pc |-> "engine"])
        /\ stored' = [stored EXCEPT ![t].context = Asks(i).arg, ![t].topic_title = OtherTitle]
        /\ forum' = forum /\ ForumTopics' = ForumTopics
    BY <1>8 DEF HandoffBinds, Is, topicVars, ForumTopics
  <2>2. t \in ForumTopics
    BY <1>1, <1>2, <2>1 DEF CommandOK
  <2>3. t \in Place /\ stored' \in [Place -> Settings] /\ \A q \in Place \ {t} : stored'[q] = stored[q]
    BY <1>3, <2>1, <2>2, BindingTyped DEF Title
  <2>4. \E S : said' \in [Place -> [Setting -> S]]
    BY <2>1, <2>3, AllowsSaid, SettingsNamed DEF CommandsTypeOK
  <2>5. Moved(i, [pc |-> "engine"])
    BY <2>1, MeetsMoves DEF CommandsTypeOK
  <2>6. CommandsOK'
    BY <1>7, <2>1, <2>5
  <2> QED
    BY <2>1, <2>2, <2>3, <2>4, <2>6, OnePlace
<1>9. CASE HandoffEngine(i)
  <2> DEFINE t == commands[i].thread
             f == [pc |-> IF commands[i].seen = None THEN "send" ELSE "model"]
  <2>1. /\ commands[i].pc = "engine" /\ Stores(t, "default_engine", Asks(i).engine)
        /\ Allows(i, t, "default_engine", {Asks(i).engine}) /\ Meets(i, t, "default_engine", f)
        /\ forum' = forum /\ ForumTopics' = ForumTopics
    BY <1>9 DEF HandoffEngine, Is, topicVars, ForumTopics
  <2>2. t \in ForumTopics /\ t \in Place
    BY <1>1, <1>2, <2>1, ForumPlaces DEF CommandOK
  <2>3. stored' \in [Place -> Settings] /\ \A q \in Place \ {t} : stored'[q] = stored[q]
    BY <1>3, <2>1, <2>2, StoresTyped
  <2>4. \E S : said' \in [Place -> [Setting -> S]]
    BY <2>1, <2>2, AllowsSaid, SettingsNamed DEF CommandsTypeOK
  <2>5. Moved(i, f)
    BY <2>1, MeetsMoves DEF CommandsTypeOK
  <2>6. CommandsOK'
    BY <1>7, <2>1, <2>5
  <2> QED
    BY <2>1, <2>2, <2>3, <2>4, <2>6, OnePlace
<1>10. CASE HandoffModel(i)
  <2> DEFINE t == commands[i].thread
             With(v) == [v EXCEPT ![Asks(i).engine] = [model |-> commands[i].seen, reasoning |-> None]]
             effects == {With(v) : v \in said[t]["engine_overrides"]}
  <2>1. /\ commands[i].pc = "model" /\ Stores(t, "engine_overrides", With(stored[t].engine_overrides))
        /\ Allows(i, t, "engine_overrides", effects) /\ Meets(i, t, "engine_overrides", [pc |-> "send"])
        /\ forum' = forum /\ ForumTopics' = ForumTopics
    BY <1>10 DEF HandoffModel, Is, topicVars, ForumTopics
  <2>2. t \in ForumTopics /\ t \in Place /\ commands[i].seen \in Model \cup {None}
    BY <1>1, <1>2, <2>1, ForumPlaces DEF CommandOK
  <2>3. With(stored[t].engine_overrides) \in [Engine -> Override]
    <3>1. stored[t].engine_overrides \in [Engine -> Override]
      BY <2>2, StoredTyped
    <3>2. [model |-> commands[i].seen, reasoning |-> None] \in Override
      BY <2>2 DEF Override
    <3> QED
      BY <3>1, <3>2
  <2> HIDE DEF With, effects
  <2>4. stored' \in [Place -> Settings] /\ \A q \in Place \ {t} : stored'[q] = stored[q]
    BY <2>1, <2>2, <2>3, StoresTyped
  <2>5. \E S : said' \in [Place -> [Setting -> S]]
    BY <2>1, <2>2, AllowsSaid, SettingsNamed DEF CommandsTypeOK
  <2>6. Moved(i, [pc |-> "send"])
    BY <2>1, MeetsMoves DEF CommandsTypeOK
  <2>7. CommandsOK'
    BY <1>7, <2>1, <2>6
  <2> QED
    BY <2>1, <2>2, <2>4, <2>5, <2>7, OnePlace
<1>11. CASE HandoffEnds(i)
  <2>1. Goes(i, Done) /\ UNCHANGED <<stored, said, forum>> /\ ForumTopics' = ForumTopics
    BY <1>11 DEF HandoffEnds, topicVars, ForumTopics
  <2> QED
    BY <2>1, DoneMoves, DoneFollows, OnlyCommands DEF CommandsTypeOK
<1>12. CASE HandoffRetries(i)
  <2> DEFINE f == [pc |-> "make", tries |-> 1]
  <2>1. /\ commands[i].pc = "send" /\ Deletes(i, commands[i].thread) /\ Goes(i, f)
        /\ forum' = forum /\ ForumTopics' = ForumTopics
    BY <1>12 DEF HandoffRetries, Is, topicVars, ForumTopics
  <2>2. commands[i].thread \in ForumTopics
    BY <1>1, <1>2, <2>1 DEF CommandOK
  <2>3. Moved(i, f)
    BY <2>1, GoesMoves DEF CommandsTypeOK
  <2>4. CommandsOK'
    BY <1>7, <2>1, <2>3
  <2> QED
    BY <2>1, <2>2, <2>4, DeletesTyped
<1> QED
  BY <1>5, <1>6, <1>8, <1>9, <1>10, <1>11, <1>12

LEMMA TypesHold == CommandsTypeOK /\ [CommandsNext]_commandVars => CommandsTypeOK'
<1> SUFFICES ASSUME CommandsTypeOK, [CommandsNext]_commandVars PROVE CommandsTypeOK'
  OBVIOUS
<1>1. ASSUME NEW i \in Asked, Refuse(i), UNCHANGED topicVars PROVE CommandsTypeOK'
  <2>1. Goes(i, Done) /\ UNCHANGED <<stored, said, forum>> /\ ForumTopics' = ForumTopics
    BY <1>1 DEF Refuse, topicVars, ForumTopics
  <2> QED
    BY <2>1, DoneMoves, DoneFollows, OnlyCommands DEF CommandsTypeOK
<1>2. CASE UNCHANGED commandVars
  BY <1>2 DEF commandVars, chatVars, topicVars, CommandsTypeOK, CommandsOK, CommandOK, StoresOK, UnmadeAreBlank,
              ForumTopics, Asked, BoundTo
<1>3. CASE TopicNext
  BY <1>3, ContextCommandsTyped, RenameTyped, FindingTyped, CreateTyped, DroppingTyped, UserTyped DEF TopicNext
<1>4. CASE HandoffNext
  BY <1>4, HandoffTyped DEF HandoffNext
<1>5. CASE SettingsNext /\ UNCHANGED topicVars
  BY <1>5, SetsTyped, ReadingTyped, WriteTyped DEF SettingsNext
<1> QED
  BY <1>1, <1>2, <1>3, <1>4, <1>5, AskTyped DEF CommandsNext

LEMMA TypesInitial == CommandsInit => CommandsTypeOK
<1> SUFFICES ASSUME CommandsInit PROVE CommandsTypeOK
  OBVIOUS
<1>1. /\ stored = [p \in Place |-> Blank] /\ commands = <<>> /\ forum = <<OtherTitle>>
      /\ said = [p \in Place |-> [s \in Setting |-> {Blank[s]}]]
  BY DEF CommandsInit, ChatInit, TopicInit
<1>2. Blank \in Settings
  BY DEF Blank, Settings, NoOverrides, Override, Title
<1>3. commands \in Seq({}) /\ Asked = {}
  BY <1>1 DEF Asked
<1>4. forum \in Seq(Title \cup {Gone}) /\ Len(forum) = 1
  BY <1>1 DEF Title
<1>5. PICK T : T = {{Blank[s]} : s \in Setting}
  OBVIOUS
<1>6. said \in [Place -> [Setting -> T]]
  BY <1>1, <1>5
<1>7. \A t \in Topic : stored[t].context = None /\ stored[t].topic_title = None
  BY <1>1 DEF Blank, Topic, Place
<1>8. CommandsOK
  BY <1>3 DEF CommandsOK
<1>9. StoresOK
  <2>1. stored \in [Place -> Settings]
    BY <1>1, <1>2
  <2>2. Len(forum) <= MaxTopics
    BY <1>4, ChatAssumption
  <2> QED
    BY <1>4, <1>6, <2>1, <2>2 DEF StoresOK
<1> QED
  BY <1>7, <1>8, <1>9 DEF CommandsTypeOK, UnmadeAreBlank

\* What the bot remembers of a chat and its topics, and what the handlers of its commands
\* know, is always as typed: a handler never works on a topic that was not made.
THEOREM CommandsTypeCorrect == CommandsSpec => []CommandsTypeOK
BY TypesInitial, TypesHold, PTL DEF CommandsSpec

----------------------------------------------------------------------------
(***************************************************************************)
(* What the commands allow.  LastCommandHolds is inductive once it speaks  *)
(* also of what handlers are about to store: a context that is written     *)
(* again with the title, and overrides that were read before others wrote  *)
(* theirs, in every combination of the engines.                            *)
(***************************************************************************)
BindHeld(c) ==
  c.asks.kind = "bind" /\ c.pc \in {"title", "edit"} =>
    c.asks.place \in muddled \/ c.asks.arg \in said[c.asks.place]["context"]

BindsHeld == \A i \in Asked : BindHeld(commands[i])

Pending(c, p, e) ==
  c.asks.kind \in Overriding /\ c.pc = "write" /\ c.asks.place = p /\ c.engine = e

\* v is, or may come back as, the override of e in p.
MightBe(p, e, v) ==
  \/ v = stored[p].engine_overrides[e]
  \/ \E i \in Asked : Pending(commands[i], p, e) /\ v = commands[i].seen

OverridesHeld ==
  \A p \in Place \ muddled : \A V \in [Engine -> Override] :
    (\A e \in Engine : MightBe(p, e, V[e])) => V \in said[p]["engine_overrides"]

PlainSetting == {"context", "default_engine", "trigger_mode"}

PlainHeld == \A p \in Place \ muddled : \A s \in PlainSetting : stored[p][s] \in said[p][s]

SaidInv == CommandsTypeOK /\ PlainHeld /\ BindsHeld /\ OverridesHeld

LEMMA SaidImpliesLast == SaidInv => LastCommandHolds
<1> SUFFICES ASSUME SaidInv, NEW p \in Place \ muddled, NEW s \in Setting PROVE stored[p][s] \in said[p][s]
  BY DEF LastCommandHolds
<1>1. CASE s \in PlainSetting
  BY <1>1 DEF SaidInv, PlainHeld
<1>2. CASE s = "engine_overrides"
  <2>1. PICK V \in [Engine -> Override] : V = stored[p].engine_overrides
    BY StoredTyped DEF SaidInv
  <2>2. \A e \in Engine : MightBe(p, e, V[e])
    BY <2>1 DEF MightBe
  <2> QED
    BY <1>2, <2>1, <2>2 DEF SaidInv, OverridesHeld
<1> QED
  BY <1>1, <1>2, SettingsNamed DEF PlainSetting

\* Who will store again is seen by the others.
LEMMA WritersClaim ==
  ASSUME NEW i, NEW j \in Asked \ {i}, NEW c, c = commands[j]
  PROVE  /\ c.asks.kind = "bind" /\ c.pc \in {"title", "edit"} => j \in Others(i, c.asks.place, "context")
         /\ \A p, e : Pending(c, p, e) => j \in Others(i, p, "engine_overrides")
<1>1. ASSUME c.asks.kind = "bind", c.pc \in {"title", "edit"} PROVE j \in Others(i, c.asks.place, "context")
  <2>1. Claim(j) = <<c.asks.place, "context">>
    BY <1>1 DEF Claim, Asks
  <2> QED
    BY <2>1 DEF Others
<1>2. ASSUME NEW p, NEW e, Pending(c, p, e) PROVE j \in Others(i, p, "engine_overrides")
  <2>1. c.asks.kind \in Overriding /\ c.asks.kind # "bind" /\ c.pc = "write" /\ c.asks.place = p
    BY <1>2 DEF Pending, Overriding
  <2>2. Claim(j) = <<p, "engine_overrides">>
    BY <2>1 DEF Claim, Asks
  <2> QED
    BY <2>2 DEF Others
<1> QED
  BY <1>1, <1>2

LEMMA BindsKept ==
  ASSUME CommandsTypeOK, BindsHeld, NEW i \in Asked, NEW f, Moved(i, f), muddled \subseteq muddled',
         \A j \in Asked \ {i} : \A c : c = commands[j] /\ c.asks.kind = "bind" /\ c.pc \in {"title", "edit"} =>
           c.asks.place \in muddled' \/ said[c.asks.place]["context"] \subseteq said'[c.asks.place]["context"],
         \A d : d = commands'[i] => BindHeld(d)'
  PROVE  BindsHeld'
<1>1. ASSUME NEW j \in Asked, NEW d, d = commands'[j] PROVE BindHeld(d)'
  <2>1. CASE j = i
    BY <1>1, <2>1
  <2>2. CASE j # i
    <3>1. PICK c : c = commands[j]
      OBVIOUS
    <3>2. BindHeld(c) /\ d.asks = c.asks /\ d.pc = c.pc
      BY <1>1, <2>2, <3>1 DEF BindsHeld, Moved, Like
    <3>3. c.asks.kind = "bind" /\ c.pc \in {"title", "edit"} =>
            c.asks.place \in muddled' \/ said[c.asks.place]["context"] \subseteq said'[c.asks.place]["context"]
      BY <2>2, <3>1
    <3> QED
      BY <3>2, <3>3 DEF BindHeld
  <2> QED
    BY <2>1, <2>2
<1>2. Asked' = Asked
  BY DEF Moved
<1> SUFFICES ASSUME NEW j \in Asked PROVE BindHeld(commands[j])'
  BY <1>2 DEF BindsHeld
<1>3. PICK d : d = commands'[j]
  OBVIOUS
<1>4. BindHeld(d)'
  BY <1>1, <1>3
<1> QED
  BY <1>3, <1>4 DEF BindHeld

\* Overrides that others are about to store.
LEMMA MightHaveBeen ==
  ASSUME NEW i \in Asked, NEW f, Moved(i, f), NEW p, NEW e, NEW v, MightBe(p, e, v)'
  PROVE  \/ v = stored'[p].engine_overrides[e]
         \/ \E j \in Asked \ {i} : Pending(commands[j], p, e) /\ v = commands[j].seen
         \/ \E d : d = commands'[i] /\ Pending(d, p, e) /\ v = d.seen
<1>1. CASE v = stored'[p].engine_overrides[e]
  BY <1>1
<1>2. ASSUME NEW j \in Asked, NEW d, d = commands'[j], Pending(d, p, e), v = d.seen
      PROVE  \/ \E k \in Asked \ {i} : Pending(commands[k], p, e) /\ v = commands[k].seen
             \/ \E c : c = commands'[i] /\ Pending(c, p, e) /\ v = c.seen
  <2>1. CASE j = i
    BY <1>2, <2>1
  <2>2. CASE j # i
    <3>1. Like(commands[j], d)
      BY <1>2, <2>2 DEF Moved
    <3>2. Pending(commands[j], p, e) /\ v = commands[j].seen
      BY <1>2, <3>1 DEF Like, Pending
    <3> QED
      BY <2>2, <3>2
  <2> QED
    BY <2>1, <2>2
<1>3. MightBe(p, e, v)' => v = stored'[p].engine_overrides[e]
                           \/ \E j \in Asked : \E d : d = commands'[j] /\ Pending(d, p, e) /\ v = d.seen
  BY DEF MightBe, Pending, Moved
<1> QED
  BY <1>1, <1>2, <1>3

LEMMA OverridesKept ==
  ASSUME OverridesHeld, NEW i \in Asked, NEW f, Moved(i, f), muddled \subseteq muddled',
         \A p \in Place \ muddled' : /\ stored'[p].engine_overrides = stored[p].engine_overrides
                                     /\ said[p]["engine_overrides"] \subseteq said'[p]["engine_overrides"],
         \A d, p, e : d = commands'[i] /\ Pending(d, p, e) => d.seen = stored[p].engine_overrides[e]
  PROVE  OverridesHeld'
<1>1. ASSUME NEW p \in Place \ muddled', NEW V \in [Engine -> Override],
             \A e \in Engine : MightBe(p, e, V[e])'
      PROVE  V \in said'[p]["engine_overrides"]
  <2>1. ASSUME NEW e \in Engine PROVE MightBe(p, e, V[e])
    <3>1. MightBe(p, e, V[e])'
      BY <1>1
    <3>2. PICK v : v = V[e]
      OBVIOUS
    <3>3. MightBe(p, e, v)'
      BY <3>1, <3>2 DEF MightBe
    <3>4. \/ v = stored'[p].engine_overrides[e]
          \/ \E j \in Asked \ {i} : Pending(commands[j], p, e) /\ v = commands[j].seen
          \/ \E d : d = commands'[i] /\ Pending(d, p, e) /\ v = d.seen
      BY <3>3, MightHaveBeen
    <3> QED
      BY <3>2, <3>4 DEF MightBe
  <2> QED
    BY <1>1, <2>1 DEF OverridesHeld
<1> QED
  BY <1>1 DEF OverridesHeld, Place, Override

LEMMA PlainKept ==
  ASSUME PlainHeld, muddled \subseteq muddled',
         \A p \in Place \ muddled' : \A s \in PlainSetting :
           \/ stored'[p][s] = stored[p][s] /\ said[p][s] \subseteq said'[p][s]
           \/ stored'[p][s] \in said'[p][s]
  PROVE  PlainHeld'
BY DEF PlainHeld, Place, PlainSetting

\* A handler that is about to store nothing again.
AboutToStoreNothing(d) ==
  /\ ~(d.asks.kind = "bind" /\ d.pc \in {"title", "edit"})
  /\ \A p, e : ~Pending(d, p, e)

\* Nothing is stored.
LEMMA QuietSaid ==
  ASSUME SaidInv, CommandsTypeOK', NEW i \in Asked, NEW f, Moved(i, f), "asks" \notin DOMAIN f,
         UNCHANGED <<stored, said, muddled>>,
         \A d : d = commands'[i] =>
           /\ d.asks.kind = "bind" /\ d.pc \in {"title", "edit"} => commands[i].pc \in {"title", "edit"}
           /\ \A p, e : Pending(d, p, e) => d.seen = stored[p].engine_overrides[e]
  PROVE  SaidInv'
<1>1. ASSUME NEW d, d = commands'[i] PROVE BindHeld(d)'
  <2>1. d.asks = commands[i].asks
    BY <1>1, MovedFields
  <2>2. BindHeld(commands[i])
    BY DEF SaidInv, BindsHeld
  <2> QED
    BY <1>1, <2>1, <2>2 DEF BindHeld
<1>2. BindsHeld'
  BY <1>1, BindsKept DEF SaidInv
<1>3. OverridesHeld'
  BY OverridesKept DEF SaidInv
<1>4. PlainHeld'
  BY PlainKept DEF SaidInv
<1> QED
  BY <1>2, <1>3, <1>4 DEF SaidInv

\* A setting other than the overrides is stored.
LEMMA PlainSaid ==
  ASSUME SaidInv, CommandsTypeOK', NEW i \in Asked, NEW f, Moved(i, f),
         NEW p \in Place, NEW s \in PlainSetting, NEW v, stored'[p][s] = v,
         \A q \in Place \ {p} : stored'[q] = stored[q],
         \A r \in Setting \ {s} : stored'[p][r] = stored[p][r],
         Allows(i, p, s, {v}), muddled' = muddled,
         \A d : d = commands'[i] =>
           /\ d.asks.kind = "bind" /\ d.pc \in {"title", "edit"} =>
                d.asks.place = p /\ s = "context" /\ d.asks.arg = v
           /\ \A q, e : ~Pending(d, q, e)
  PROVE  SaidInv'
<1>1. s \in Setting /\ "engine_overrides" \in Setting /\ "context" \in Setting
  BY SettingsNamed DEF PlainSetting
<1>2. /\ v \in said'[p][s]
      /\ said[p][s] \subseteq said'[p][s] \/ Others(i, p, s) = {}
      /\ \A q \in Place, r \in Setting : q # p \/ r # s => said'[q][r] = said[q][r]
  BY <1>1, AllowsSaid DEF SaidInv, CommandsTypeOK
<1>3. PlainHeld'
  <2>1. ASSUME NEW q \in Place \ muddled', NEW r \in PlainSetting
        PROVE  \/ stored'[q][r] = stored[q][r] /\ said[q][r] \subseteq said'[q][r]
               \/ stored'[q][r] \in said'[q][r]
    <3>1. r \in Setting
      BY SettingsNamed DEF PlainSetting
    <3> QED
      BY <1>2, <3>1
  <2> QED
    BY <2>1, PlainKept DEF SaidInv
<1>4. BindsHeld'
  <2>1. ASSUME NEW j \in Asked \ {i}, NEW c, c = commands[j], c.asks.kind = "bind", c.pc \in {"title", "edit"}
        PROVE  said[c.asks.place]["context"] \subseteq said'[c.asks.place]["context"]
    <3>1. c.asks.place \in Place
      BY <2>1, CommandTyped DEF SaidInv, Asks
    <3>2. j \in Others(i, c.asks.place, "context")
      BY <2>1, WritersClaim
    <3> QED
      BY <1>1, <1>2, <3>1, <3>2
  <2>2. ASSUME NEW d, d = commands'[i] PROVE BindHeld(d)'
    BY <1>2, <2>2 DEF BindHeld
  <2> QED
    BY <2>1, <2>2, BindsKept DEF SaidInv
<1>5. OverridesHeld'
  <2>1. ASSUME NEW q \in Place \ muddled'
        PROVE  /\ stored'[q].engine_overrides = stored[q].engine_overrides
               /\ said[q]["engine_overrides"] \subseteq said'[q]["engine_overrides"]
    <3>1. "engine_overrides" # s
      BY DEF PlainSetting
    <3> QED
      BY <1>1, <1>2, <3>1
  <2> QED
    BY <2>1, OverridesKept DEF SaidInv
<1> QED
  BY <1>3, <1>4, <1>5 DEF SaidInv

\* The override of one engine is stored: w, which it may have been, has become x.
LEMMA OverrideSaid ==
  ASSUME SaidInv, CommandsTypeOK', NEW i \in Asked, NEW f, Moved(i, f),
         NEW p \in Place, NEW e \in Engine, NEW x \in Override, NEW w \in Override, NEW effects,
         stored'[p].engine_overrides = [stored[p].engine_overrides EXCEPT ![e] = x],
         \A q \in Place \ {p} : stored'[q] = stored[q],
         \A r \in Setting \ {"engine_overrides"} : stored'[p][r] = stored[p][r],
         Allows(i, p, "engine_overrides", effects), muddled' = muddled, MightBe(p, e, w),
         \A V \in [Engine -> Override] :
           V[e] = x /\ [V EXCEPT ![e] = w] \in said[p]["engine_overrides"] => V \in effects,
         \A d : d = commands'[i] => AboutToStoreNothing(d)
  PROVE  SaidInv'
<1>1. "engine_overrides" \in Setting /\ "context" \in Setting
  BY SettingsNamed
<1>2. /\ effects \subseteq said'[p]["engine_overrides"]
      /\ \/ said[p]["engine_overrides"] \subseteq said'[p]["engine_overrides"]
         \/ Others(i, p, "engine_overrides") = {}
      /\ \A q \in Place, r \in Setting : q # p \/ r # "engine_overrides" => said'[q][r] = said[q][r]
  BY <1>1, AllowsSaid DEF SaidInv, CommandsTypeOK
<1>3. PlainHeld'
  <2>1. ASSUME NEW q \in Place \ muddled', NEW r \in PlainSetting
        PROVE  stored'[q][r] = stored[q][r] /\ said[q][r] \subseteq said'[q][r]
    <3>1. r \in Setting /\ r # "engine_overrides"
      BY SettingsNamed DEF PlainSetting
    <3> QED
      BY <1>2, <3>1
  <2> QED
    BY <2>1, PlainKept DEF SaidInv
<1>4. BindsHeld'
  <2>1. ASSUME NEW j \in Asked \ {i}, NEW c, c = commands[j], c.asks.kind = "bind", c.pc \in {"title", "edit"}
        PROVE  said[c.asks.place]["context"] \subseteq said'[c.asks.place]["context"]
    <3>1. c.asks.place \in Place
      BY <2>1, CommandTyped DEF SaidInv, Asks
    <3> QED
      BY <1>1, <1>2, <3>1
  <2>2. ASSUME NEW d, d = commands'[i] PROVE BindHeld(d)'
    BY <2>2 DEF BindHeld, AboutToStoreNothing
  <2> QED
    BY <2>1, <2>2, BindsKept DEF SaidInv
<1>5. stored[p].engine_overrides \in [Engine -> Override]
  BY StoredTyped DEF SaidInv
<1>6. ASSUME NEW q \in Place, NEW g \in Engine, NEW v, MightBe(q, g, v)', q # p \/ g # e
      PROVE  MightBe(q, g, v)
  <2>1. stored'[q].engine_overrides[g] = stored[q].engine_overrides[g]
    BY <1>5, <1>6
  <2>2. \/ v = stored'[q].engine_overrides[g]
        \/ \E j \in Asked \ {i} : Pending(commands[j], q, g) /\ v = commands[j].seen
    BY <1>6, MightHaveBeen DEF AboutToStoreNothing
  <2> QED
    BY <2>1, <2>2 DEF MightBe
<1>7. ASSUME NEW q \in Place \ muddled, NEW V \in [Engine -> Override],
             \A g \in Engine : \A v : v = V[g] => MightBe(q, g, v)'
      PROVE  V \in said'[q]["engine_overrides"]
  <2>1. ASSUME NEW g \in Engine, q # p \/ g # e PROVE MightBe(q, g, V[g])
    BY <1>6, <1>7, <2>1
  <2>2. ASSUME q # p PROVE V \in said'[q]["engine_overrides"]
    <3>1. V \in said[q]["engine_overrides"]
      BY <2>1, <2>2 DEF SaidInv, OverridesHeld
    <3> QED
      BY <1>1, <1>2, <2>2, <3>1
  <2>3. ASSUME q = p, V[e] = x PROVE V \in said'[q]["engine_overrides"]
    <3>1. PICK W \in [Engine -> Override] : W = [V EXCEPT ![e] = w]
      OBVIOUS
    <3>2. \A g \in Engine : MightBe(p, g, W[g])
      BY <2>1, <2>3, <3>1
    <3>3. W \in said[p]["engine_overrides"]
      BY <2>3, <3>2 DEF SaidInv, OverridesHeld
    <3> QED
      BY <1>2, <2>3, <3>1, <3>3
  <2>4. ASSUME q = p, V[e] # x PROVE V \in said'[q]["engine_overrides"]
    <3>1. PICK v : v = V[e]
      OBVIOUS
    <3>2. MightBe(p, e, v)'
      BY <1>7, <2>4, <3>1
    <3>3. stored'[p].engine_overrides[e] = x
      BY <1>5
    <3>4. \/ v = stored'[p].engine_overrides[e]
          \/ \E j \in Asked \ {i} : Pending(commands[j], p, e) /\ v = commands[j].seen
          \/ \E d : d = commands'[i] /\ Pending(d, p, e)
      BY <3>2, MightHaveBeen
    <3>5. v # x
      BY <2>4, <3>1
    <3>6. PICK j \in Asked \ {i} : Pending(commands[j], p, e) /\ v = commands[j].seen
      BY <3>3, <3>4, <3>5 DEF AboutToStoreNothing
    <3>7. j \in Others(i, p, "engine_overrides")
      BY <3>6, WritersClaim
    <3>8. MightBe(p, e, V[e])
      BY <3>1, <3>6 DEF MightBe
    <3>9. V \in said[p]["engine_overrides"]
      BY <2>1, <2>4, <3>8 DEF SaidInv, OverridesHeld
    <3> QED
      BY <1>2, <2>4, <3>7, <3>9
  <2> QED
    BY <2>2, <2>3, <2>4
<1>8. OverridesHeld'
  <2> SUFFICES ASSUME NEW q \in Place \ muddled', NEW V \in [Engine -> Override],
                      \A g \in Engine : MightBe(q, g, V[g])'
               PROVE  V \in said'[q]["engine_overrides"]
    BY DEF OverridesHeld, Place, Override
  <2>1. ASSUME NEW g \in Engine, NEW v, v = V[g] PROVE MightBe(q, g, v)'
    <3>1. MightBe(q, g, V[g])'
      OBVIOUS
    <3> QED
      BY <2>1, <3>1 DEF MightBe
  <2> QED
    BY <1>7, <2>1
<1> QED
  BY <1>3, <1>4, <1>8 DEF SaidInv

\* The settings of a topic are deleted.
LEMMA DeletedSaid ==
  ASSUME SaidInv, CommandsTypeOK', NEW i \in Asked, NEW f, Moved(i, f), NEW t \in Place, Deletes(i, t),
         \A d : d = commands'[i] => AboutToStoreNothing(d)
  PROVE  SaidInv'
<1>1. /\ stored'[t] = Blank /\ \A q \in Place \ {t} : stored'[q] = stored[q] /\ said'[q] = said[q]
      /\ \/ muddled' = muddled \cup {t} /\ said' = said
         \/ /\ muddled' = muddled /\ \A s \in Setting : said'[t][s] = {Blank[s]} /\ Others(i, t, s) = {}
  BY DeletesSaid DEF SaidInv, CommandsTypeOK
<1>2. muddled \subseteq muddled'
  BY <1>1
<1>3. PlainHeld'
  <2>1. ASSUME NEW q \in Place \ muddled', NEW r \in PlainSetting
        PROVE  \/ stored'[q][r] = stored[q][r] /\ said[q][r] \subseteq said'[q][r]
               \/ stored'[q][r] \in said'[q][r]
    <3>1. r \in Setting
      BY SettingsNamed DEF PlainSetting
    <3> QED
      BY <1>1, <3>1
  <2> QED
    BY <1>2, <2>1, PlainKept DEF SaidInv
<1>4. BindsHeld'
  <2>1. ASSUME NEW j \in Asked \ {i}, NEW c, c = commands[j], c.asks.kind = "bind", c.pc \in {"title", "edit"}
        PROVE  \/ c.asks.place \in muddled'
               \/ said[c.asks.place]["context"] \subseteq said'[c.asks.place]["context"]
    <3>1. c.asks.place \in Place
      BY <2>1, CommandTyped DEF SaidInv, Asks
    <3>2. j \in Others(i, c.asks.place, "context") /\ "context" \in Setting
      BY <2>1, WritersClaim, SettingsNamed
    <3> QED
      BY <1>1, <3>1, <3>2
  <2>2. ASSUME NEW d, d = commands'[i] PROVE BindHeld(d)'
    BY <2>2 DEF BindHeld, AboutToStoreNothing
  <2> QED
    BY <1>2, <2>1, <2>2, BindsKept DEF SaidInv
<1>5. ASSUME NEW q \in Place \ muddled', NEW V \in [Engine -> Override],
             \A g \in Engine : \A v : v = V[g] => MightBe(q, g, v)'
      PROVE  V \in said'[q]["engine_overrides"]
  <2>1. ASSUME NEW g \in Engine
        PROVE  \/ V[g] = stored'[q].engine_overrides[g]
               \/ \E j \in Asked \ {i} : Pending(commands[j], q, g) /\ V[g] = commands[j].seen
    BY <1>5, MightHaveBeen DEF AboutToStoreNothing
  <2>2. CASE q # t
    <3>1. \A g \in Engine : MightBe(q, g, V[g])
      BY <1>1, <2>1, <2>2 DEF MightBe
    <3>2. V \in said[q]["engine_overrides"] /\ said'[q] = said[q]
      BY <1>1, <1>2, <2>2, <3>1 DEF SaidInv, OverridesHeld
    <3> QED
      BY <3>2
  <2>3. CASE q = t
    <3>1. \A s \in Setting : said'[t][s] = {Blank[s]} /\ Others(i, t, s) = {}
      BY <1>1, <2>3
    <3>2. said'[t]["engine_overrides"] = {NoOverrides} /\ Others(i, t, "engine_overrides") = {}
      BY <3>1, SettingsNamed DEF Blank
    <3>3. stored'[t].engine_overrides = NoOverrides
      BY <1>1 DEF Blank
    <3>4. ASSUME NEW g \in Engine PROVE V[g] = NoOverrides[g]
      BY <2>1, <2>3, <3>2, <3>3, WritersClaim
    <3>5. V = NoOverrides
      BY <3>4 DEF NoOverrides
    <3> QED
      BY <2>3, <3>2, <3>5
  <2> QED
    BY <2>2, <2>3
<1>6. OverridesHeld'
  <2> SUFFICES ASSUME NEW q \in Place \ muddled', NEW V \in [Engine -> Override],
                      \A g \in Engine : MightBe(q, g, V[g])'
               PROVE  V \in said'[q]["engine_overrides"]
    BY DEF OverridesHeld, Place, Override
  <2>1. ASSUME NEW g \in Engine, NEW v, v = V[g] PROVE MightBe(q, g, v)'
    <3>1. MightBe(q, g, V[g])'
      OBVIOUS
    <3> QED
      BY <2>1, <3>1 DEF MightBe
  <2> QED
    BY <1>5, <2>1
<1> QED
  BY <1>3, <1>4, <1>6 DEF SaidInv

\* The context is stored once more, with the title of the topic.
LEMMA RenamedSaid ==
  ASSUME SaidInv, CommandsTypeOK', NEW i \in Asked, RenameReturns(i)
  PROVE  SaidInv'
<1> DEFINE t == Asks(i).place
<1>1. Asks(i).kind = "bind" /\ commands[i].pc = "edit" /\ UNCHANGED <<said, muddled>>
  BY DEF RenameReturns, Is
<1>2. CommandOK(commands[i]) /\ Asks(i) = commands[i].asks /\ Asks(i).arg \in Arguments(Asks(i).kind)
  BY CommandTyped DEF SaidInv
<1>3. t \in ForumTopics /\ Asks(i).arg \in Context
  BY <1>1, <1>2 DEF CommandOK, Arguments
<1>4. Moved(i, Done) /\ "asks" \notin DOMAIN Done
  BY DoneMoves DEF RenameReturns, SaidInv, CommandsTypeOK, Done
<1>5. ASSUME NEW d, d = commands'[i] PROVE d.pc = "done"
  BY <1>4, <1>5, MovedFields DEF Done
<1>6. CASE UNCHANGED stored
  BY <1>1, <1>4, <1>5, <1>6, QuietSaid DEF Pending
<1>7. CASE stored' = [stored EXCEPT ![t].topic_title = _topic_title(Asks(i).arg), ![t].context = Asks(i).arg]
  <2>1. Asks(i).arg \in Title
    BY <1>3 DEF Title
  <2>2. stored' = [stored EXCEPT ![t].context = Asks(i).arg, ![t].topic_title = Asks(i).arg]
    <3>1. t \in Place /\ stored \in [Place -> Settings]
      BY <1>3, ForumPlaces DEF SaidInv, CommandsTypeOK, StoresOK
    <3>2. stored[t] \in Settings
      BY <3>1
    <3>3. [[stored[t] EXCEPT !.topic_title = Asks(i).arg] EXCEPT !.context = Asks(i).arg]
            = [[stored[t] EXCEPT !.context = Asks(i).arg] EXCEPT !.topic_title = Asks(i).arg]
      BY <3>2 DEF Settings
    <3> QED
      BY <1>7, <3>1, <3>3 DEF _topic_title
  <2>3. /\ t \in Place /\ stored'[t].context = Asks(i).arg
        /\ \A q \in Place \ {t} : stored'[q] = stored[q]
        /\ \A r \in Setting \ {"context"} : stored'[t][r] = stored[t][r]
    BY <1>3, <2>1, <2>2, BindingTyped DEF SaidInv
  <2>4. t \in muddled \/ Asks(i).arg \in said[t]["context"]
    BY <1>1, <1>2 DEF SaidInv, BindsHeld, BindHeld
  <2>5. PlainHeld'
    <3>1. PlainSetting \subseteq Setting
      BY SettingsNamed DEF PlainSetting
    <3> QED
      BY <1>1, <2>3, <2>4, <3>1, PlainKept DEF SaidInv
  <2>6. BindsHeld'
    <3>1. ASSUME NEW d, d = commands'[i] PROVE BindHeld(d)'
      BY <1>5, <3>1 DEF BindHeld
    <3> QED
      BY <1>1, <1>4, <3>1, BindsKept DEF SaidInv
  <2>7. OverridesHeld'
    <3>1. \A q \in Place : stored'[q].engine_overrides = stored[q].engine_overrides
      BY <2>3, SettingsNamed
    <3> QED
      BY <1>1, <1>4, <1>5, <3>1, OverridesKept DEF SaidInv, Pending
  <2> QED
    BY <2>5, <2>6, <2>7 DEF SaidInv
<1> QED
  BY <1>6, <1>7 DEF RenameReturns

LEMMA IdleAfter ==
  ASSUME CommandsOK, NEW i \in Asked, NEW f, Goes(i, f) \/ \E p, s : Meets(i, p, s, f),
         "alone" \notin DOMAIN f, "asks" \notin DOMAIN f, "pc" \in DOMAIN f, f["pc"] \notin {"title", "edit", "write"}
  PROVE  Moved(i, f) /\ \A d : d = commands'[i] => AboutToStoreNothing(d)
<1>1. Moved(i, f)
  BY GoesMoves, MeetsMoves
<1>2. \A d : d = commands'[i] => d.pc = f["pc"]
  BY <1>1, MovedFields
<1> QED
  BY <1>1, <1>2 DEF AboutToStoreNothing, Pending

\* How a handler goes on that reads, or waits for Telegram.
Resting == {"done", "read", "create", "forget", "make", "engine"}

LEMMA QuietSteps ==
  ASSUME NEW i \in Asked,
         \/ Refuse(i) \/ BeginOverride(i) \/ ReadForked(i) \/ BeginCreate(i) \/ FindDeleted(i)
         \/ FindHandoff(i) \/ HandoffEnds(i)
  PROVE  \E f : /\ Goes(i, f) \/ \E p, s : Meets(i, p, s, f)
                /\ "alone" \notin DOMAIN f /\ "asks" \notin DOMAIN f /\ "pc" \in DOMAIN f /\ f["pc"] \in Resting
<1> DEFINE Rests(f) == "alone" \notin DOMAIN f /\ "asks" \notin DOMAIN f /\ "pc" \in DOMAIN f /\ f["pc"] \in Resting
<1>1. Rests(Done)
  BY DEF Done, Resting
<1>2. CASE BeginOverride(i)
  <2>1. PICK f : f = [pc |-> "read", todo |-> Engines(i)]
    OBVIOUS
  <2>2. Rests(f) /\ Meets(i, Asks(i).place, "engine_overrides", f)
    BY <1>2, <2>1 DEF BeginOverride, Resting
  <2> QED
    BY <2>2
<1>3. CASE ReadForked(i) \/ BeginCreate(i)
  <2>1. PICK f : f = [pc |-> "create", seen |-> stored[Asks(i).place].context]
    OBVIOUS
  <2>2. PICK g : g = [pc |-> "create"]
    OBVIOUS
  <2>3. Rests(f) /\ Rests(g) /\ (Goes(i, f) \/ Goes(i, g))
    BY <1>3, <2>1, <2>2 DEF ReadForked, BeginCreate, Resting
  <2> QED
    BY <2>3
<1>4. CASE FindDeleted(i)
  <2>1. PICK t : Goes(i, IF t = 0 THEN Done ELSE [pc |-> "forget", seen |-> t])
    BY <1>4 DEF FindDeleted
  <2>2. PICK f : f = [pc |-> "forget", seen |-> t]
    OBVIOUS
  <2>3. Rests(f) /\ (Goes(i, f) \/ Goes(i, Done))
    BY <2>1, <2>2 DEF Resting
  <2> QED
    BY <1>1, <2>3
<1>5. CASE FindHandoff(i)
  <2>1. PICK t, model : Goes(i, [pc |-> IF t = 0 THEN "make" ELSE "engine", thread |-> t, seen |-> model])
    BY <1>5 DEF FindHandoff
  <2>2. PICK f : f = [pc |-> IF t = 0 THEN "make" ELSE "engine", thread |-> t, seen |-> model]
    OBVIOUS
  <2>3. Rests(f) /\ Goes(i, f)
    BY <2>1, <2>2 DEF Resting
  <2> QED
    BY <2>3
<1>6. CASE Refuse(i) \/ HandoffEnds(i)
  BY <1>1, <1>6 DEF Refuse, HandoffEnds
<1> QED
  BY <1>2, <1>3, <1>4, <1>5, <1>6

\* Steps that read, or wait for Telegram.
LEMMA QuietActionsSaid ==
  ASSUME SaidInv, CommandsTypeOK', NEW i \in Asked, UNCHANGED <<stored, said, muddled>>,
         \/ Refuse(i) \/ BeginOverride(i) \/ FindTopic(i) \/ TryTopic(i) \/ ReadForked(i) \/ BeginCreate(i)
         \/ CreateReturns(i) \/ FindDeleted(i) \/ FindHandoff(i) \/ HandoffCreates(i) \/ HandoffEnds(i)
  PROVE  SaidInv'
<1> DEFINE Quiet(f) ==
      /\ "alone" \notin DOMAIN f /\ "asks" \notin DOMAIN f /\ "pc" \in DOMAIN f
      /\ f["pc"] \notin {"title", "edit", "write"}
<1>1. ASSUME NEW f, Quiet(f), Goes(i, f) \/ \E p, s : Meets(i, p, s, f) PROVE SaidInv'
  <2>1. Moved(i, f) /\ \A d : d = commands'[i] => AboutToStoreNothing(d)
    BY <1>1, IdleAfter DEF SaidInv, CommandsTypeOK
  <2> QED
    BY <1>1, <2>1, QuietSaid DEF AboutToStoreNothing
<1>2. CASE \/ Refuse(i) \/ BeginOverride(i) \/ ReadForked(i) \/ BeginCreate(i) \/ FindDeleted(i)
           \/ FindHandoff(i) \/ HandoffEnds(i)
  BY <1>1, <1>2, QuietSteps DEF Resting
<1>3. CASE Goes(i, Done)
  BY <1>1, <1>3 DEF Done
<1>4. CASE FindTopic(i)
  <2>1. PICK t : Goes(i, [pc |-> IF t = 0 THEN "create" ELSE "try", seen |-> t])
    BY <1>4 DEF FindTopic
  <2>2. PICK f : f = [pc |-> IF t = 0 THEN "create" ELSE "try", seen |-> t]
    OBVIOUS
  <2>3. Quiet(f) /\ Goes(i, f)
    BY <2>1, <2>2
  <2> QED
    BY <1>1, <2>3
<1>5. CASE TryTopic(i)
  <2>1. PICK f : f = [pc |-> "create"]
    OBVIOUS
  <2>2. Quiet(f) /\ (Goes(i, f) \/ Goes(i, Done))
    BY <1>5, <2>1 DEF TryTopic
  <2> QED
    BY <1>1, <1>3, <2>2
<1>6. CASE CreateReturns(i)
  <2>1. CASE Goes(i, Done)
    BY <1>3, <2>1
  <2>2. ASSUME NEW name, NEW t,
               Goes(i, [pc |-> IF Stale(i) # 0 THEN "drop" ELSE "set", thread |-> t, title |-> name])
        PROVE  SaidInv'
    <3>1. PICK f : f = [pc |-> IF Stale(i) # 0 THEN "drop" ELSE "set", thread |-> t, title |-> name]
      OBVIOUS
    <3>2. Quiet(f) /\ Goes(i, f)
      BY <2>2, <3>1
    <3> QED
      BY <1>1, <3>2
  <2>3. ASSUME ~Goes(i, Done)
        PROVE  \E name, t : Goes(i, [pc |-> IF Stale(i) # 0 THEN "drop" ELSE "set", thread |-> t, title |-> name])
    <3>1. PICK name : Goes(i, IF NewContext(i) = None THEN Done
                              ELSE [pc |-> IF Stale(i) # 0 THEN "drop" ELSE "set",
                                    thread |-> Len(forum) + 1, title |-> name])
      BY <1>6, <2>3 DEF CreateReturns
    <3> QED
      BY <2>3, <3>1
  <2> QED
    BY <2>1, <2>2, <2>3
<1>7. CASE HandoffCreates(i)
  <2>1. PICK f : f = [pc |-> "bind", thread |-> Len(forum) + 1]
    OBVIOUS
  <2>2. Quiet(f) /\ (Goes(i, f) \/ Goes(i, Done))
    BY <1>7, <2>1 DEF HandoffCreates
  <2> QED
    BY <1>1, <1>3, <2>2
<1> QED
  BY <1>2, <1>4, <1>5, <1>6, <1>7

\* The others that store nothing: a title is compared, an override read.
LEMMA ReadersSaid ==
  ASSUME SaidInv, CommandsTypeOK', NEW i \in Asked, CheckTitle(i) \/ ReadOverride(i)
  PROVE  SaidInv'
<1>1. UNCHANGED <<stored, said, muddled>>
  BY DEF CheckTitle, ReadOverride
<1>2. CASE CheckTitle(i)
  <2>1. commands[i].pc = "title" /\ commands[i].asks.kind = "bind" /\ Asks(i) = commands[i].asks
    BY <1>2 DEF CheckTitle, Is, Asks
  <2>2. PICK f \in {Done, [pc |-> "edit"]} : Goes(i, f)
    BY <1>2 DEF CheckTitle
  <2>3. "alone" \notin DOMAIN f /\ "asks" \notin DOMAIN f /\ "pc" \in DOMAIN f /\ f["pc"] \in {"done", "edit"}
    BY <2>2 DEF Done
  <2>4. Moved(i, f)
    BY <2>2, <2>3, GoesMoves DEF SaidInv, CommandsTypeOK
  <2>5. \A d : d = commands'[i] => d.pc \in {"done", "edit"}
    BY <2>3, <2>4, MovedFields
  <2> QED
    BY <1>1, <2>1, <2>3, <2>4, <2>5, QuietSaid DEF Pending
<1>3. CASE ReadOverride(i)
  <2>1. PICK e \in commands[i].todo :
           Goes(i, [pc |-> "write", engine |-> e, seen |-> stored[Asks(i).place].engine_overrides[e]])
    BY <1>3 DEF ReadOverride
  <2> DEFINE f == [pc |-> "write", engine |-> e, seen |-> stored[Asks(i).place].engine_overrides[e]]
  <2>2. Moved(i, f)
    BY <2>1, GoesMoves DEF SaidInv, CommandsTypeOK
  <2>3. ASSUME NEW d, d = commands'[i]
        PROVE  /\ d.asks = Asks(i) /\ d.pc = "write" /\ d.engine = e
               /\ d.seen = stored[Asks(i).place].engine_overrides[e]
    BY <2>2, <2>3, MovedFields DEF Asks
  <2> QED
    BY <1>1, <2>2, <2>3, QuietSaid DEF Pending
<1> QED
  BY <1>2, <1>3

\* A handler stores a setting, and goes on to what needs no context or override.
LEMMA StoredSaid ==
  ASSUME SaidInv, CommandsTypeOK', NEW i \in Asked, NEW p \in Place, NEW s \in PlainSetting, NEW v, NEW f,
         Meets(i, p, s, f), Allows(i, p, s, {v}), UNCHANGED muddled,
         "alone" \notin DOMAIN f, "asks" \notin DOMAIN f, "pc" \in DOMAIN f, f["pc"] \notin {"title", "edit", "write"},
         stored'[p][s] = v, \A q \in Place \ {p} : stored'[q] = stored[q],
         \A r \in Setting \ {s} : stored'[p][r] = stored[p][r]
  PROVE  SaidInv'
<1>1. Moved(i, f) /\ \A d : d = commands'[i] => AboutToStoreNothing(d)
  BY IdleAfter DEF SaidInv, CommandsTypeOK
<1> QED
  BY <1>1, PlainSaid DEF AboutToStoreNothing

LEMMA SettersSaid ==
  ASSUME SaidInv, CommandsTypeOK', NEW i \in Asked, SetAgent(i) \/ SetTrigger(i) \/ ClearContext(i) \/ SetContext(i)
  PROVE  SaidInv'
<1>1. Asks(i).place \in Place /\ Asks(i).arg \in Arguments(Asks(i).kind) /\ Asks(i) = commands[i].asks
  BY CommandTyped DEF SaidInv
<1>2. ASSUME NEW s \in PlainSetting, NEW v, Stores(Asks(i).place, s, v), Meets(i, Asks(i).place, s, Done),
             Allows(i, Asks(i).place, s, {v}), UNCHANGED muddled,
             \/ s = "context" /\ v \in Context \cup {None}
             \/ s = "default_engine" /\ v \in Engine \cup {None}
             \/ s = "trigger_mode" /\ v \in {"mentions", None}
      PROVE  SaidInv'
  <2>1. /\ stored'[Asks(i).place][s] = v /\ \A q \in Place \ {Asks(i).place} : stored'[q] = stored[q]
        /\ \A r \in Setting \ {s} : stored'[Asks(i).place][r] = stored[Asks(i).place][r]
    BY <1>1, <1>2, StoresTyped DEF SaidInv
  <2>2. "alone" \notin DOMAIN Done /\ "asks" \notin DOMAIN Done /\ "pc" \in DOMAIN Done
        /\ Done["pc"] \notin {"title", "edit", "write"}
    BY DEF Done
  <2> QED
    BY <1>1, <1>2, <2>1, <2>2, StoredSaid
<1>3. CASE SetAgent(i)
  <2>1. Asks(i).arg \in Engine \cup {None}
    BY <1>1, <1>3 DEF SetAgent, Sets, Is, Arguments
  <2> QED
    BY <1>2, <1>3, <2>1 DEF SetAgent, Sets, PlainSetting
<1>4. CASE SetTrigger(i)
  <2>1. Asks(i).arg \in {"mentions", None}
    BY <1>1, <1>4 DEF SetTrigger, Sets, Is, Arguments
  <2> QED
    BY <1>2, <1>4, <2>1 DEF SetTrigger, Sets, PlainSetting
<1>5. CASE ClearContext(i)
  BY <1>2, <1>5 DEF ClearContext, PlainSetting
<1>6. CASE SetContext(i)
  <2>1. /\ Stores(Asks(i).place, "context", Asks(i).arg)
        /\ Meets(i, Asks(i).place, "context", IF Asks(i).place = 0 THEN Done ELSE [pc |-> "title"])
        /\ Allows(i, Asks(i).place, "context", {Asks(i).arg}) /\ UNCHANGED muddled /\ Asks(i).kind = "bind"
    BY <1>6 DEF SetContext, Is
  <2>2. Asks(i).arg \in Context
    BY <1>1, <2>1 DEF Arguments
  <2>3. CASE Asks(i).place = 0
    BY <1>2, <2>1, <2>2, <2>3 DEF PlainSetting
  <2>4. CASE Asks(i).place # 0
    <3> DEFINE f == [pc |-> "title"]
    <3>1. Moved(i, f)
      BY <2>1, <2>4, MeetsMoves DEF SaidInv, CommandsTypeOK
    <3>2. \A d : d = commands'[i] => d.asks = Asks(i) /\ d.pc = "title"
      BY <1>1, <3>1, MovedFields
    <3>3. /\ stored'[Asks(i).place]["context"] = Asks(i).arg
          /\ \A q \in Place \ {Asks(i).place} : stored'[q] = stored[q]
          /\ \A r \in Setting \ {"context"} : stored'[Asks(i).place][r] = stored[Asks(i).place][r]
      BY <1>1, <2>1, <2>2, StoresTyped DEF SaidInv
    <3>4. "context" \in PlainSetting
      BY DEF PlainSetting
    <3> QED
      BY <1>1, <2>1, <3>1, <3>2, <3>3, <3>4, PlainSaid DEF Pending
  <2> QED
    BY <2>3, <2>4
<1> QED
  BY <1>3, <1>4, <1>5, <1>6

\* Topics that are made, or that a session is handed to.
LEMMA BindersSaid ==
  ASSUME SaidInv, CommandsTypeOK', NEW i \in Asked, BindNew(i) \/ HandoffBinds(i) \/ HandoffEngine(i)
  PROVE  SaidInv'
<1>1. /\ CommandOK(commands[i]) /\ Asks(i) = commands[i].asks /\ Asks(i).arg \in Arguments(Asks(i).kind)
      /\ (Asks(i).kind = "handoff" => Asks(i).engine \in Engine)
  BY CommandTyped DEF SaidInv
<1> DEFINE t == commands[i].thread
<1>2. CASE BindNew(i)
  <2>1. /\ commands[i].pc = "set" /\ Allows(i, t, "context", {NewContext(i)}) /\ Meets(i, t, "context", Done)
        /\ stored' = [stored EXCEPT ![t].context = NewContext(i), ![t].topic_title = commands[i].title]
        /\ UNCHANGED muddled
    BY <1>2 DEF BindNew
  <2>2. t \in ForumTopics /\ NewContext(i) \in Context /\ commands[i].title \in Title
    BY <1>1, <2>1 DEF CommandOK, NewContext, BoundTo, Title
  <2>3. /\ t \in Place /\ stored'[t]["context"] = NewContext(i) /\ \A q \in Place \ {t} : stored'[q] = stored[q]
        /\ \A r \in Setting \ {"context"} : stored'[t][r] = stored[t][r]
    BY <2>1, <2>2, BindingTyped DEF SaidInv
  <2>4. "alone" \notin DOMAIN Done /\ "asks" \notin DOMAIN Done /\ "pc" \in DOMAIN Done
        /\ Done["pc"] \notin {"title", "edit", "write"} /\ "context" \in PlainSetting
    BY DEF Done, PlainSetting
  <2> QED
    BY <2>1, <2>3, <2>4, StoredSaid
<1>3. CASE HandoffBinds(i)
  <2> DEFINE f == [pc |-> "engine"]
  <2>1. /\ commands[i].pc = "bind" /\ Allows(i, t, "context", {Asks(i).arg}) /\ Meets(i, t, "context", f)
        /\ stored' = [stored EXCEPT ![t].context = Asks(i).arg, ![t].topic_title = OtherTitle]
        /\ UNCHANGED muddled /\ Asks(i).kind = "handoff"
    BY <1>3 DEF HandoffBinds, Is
  <2>2. t \in ForumTopics /\ Asks(i).arg \in Context \cup {None} /\ OtherTitle \in Title
    BY <1>1, <2>1 DEF CommandOK, Arguments, Title
  <2>3. /\ t \in Place /\ stored'[t]["context"] = Asks(i).arg /\ \A q \in Place \ {t} : stored'[q] = stored[q]
        /\ \A r \in Setting \ {"context"} : stored'[t][r] = stored[t][r]
    BY <2>1, <2>2, BindingTyped DEF SaidInv
  <2>4. "alone" \notin DOMAIN f /\ "asks" \notin DOMAIN f /\ "pc" \in DOMAIN f
        /\ f["pc"] \notin {"title", "edit", "write"} /\ "context" \in PlainSetting
    BY DEF PlainSetting
  <2> HIDE DEF f
  <2> QED
    BY <2>1, <2>3, <2>4, StoredSaid
<1>4. CASE HandoffEngine(i)
  <2> DEFINE f == [pc |-> IF commands[i].seen = None THEN "send" ELSE "model"]
  <2>1. /\ commands[i].pc = "engine" /\ Stores(t, "default_engine", Asks(i).engine)
        /\ Allows(i, t, "default_engine", {Asks(i).engine}) /\ Meets(i, t, "default_engine", f)
        /\ UNCHANGED muddled /\ Asks(i).kind = "handoff"
    BY <1>4 DEF HandoffEngine, Is
  <2>2. t \in Place /\ Asks(i).engine \in Engine
    BY <1>1, <2>1, ForumPlaces DEF CommandOK, SaidInv
  <2>3. /\ stored'[t]["default_engine"] = Asks(i).engine /\ \A q \in Place \ {t} : stored'[q] = stored[q]
        /\ \A r \in Setting \ {"default_engine"} : stored'[t][r] = stored[t][r]
    BY <2>1, <2>2, StoresTyped DEF SaidInv
  <2>4. "alone" \notin DOMAIN f /\ "asks" \notin DOMAIN f /\ "pc" \in DOMAIN f
        /\ f["pc"] \notin {"title", "edit", "write"} /\ "default_engine" \in PlainSetting
    BY DEF PlainSetting
  <2> HIDE DEF f
  <2> QED
    BY <2>1, <2>2, <2>3, <2>4, StoredSaid
<1> QED
  BY <1>2, <1>3, <1>4

\* Overrides: what a command meant by any that were allowed is allowed after it.
LEMMA OverridersSaid ==
  ASSUME SaidInv, CommandsTypeOK', NEW i \in Asked, WriteOverride(i) \/ HandoffModel(i)
  PROVE  SaidInv'
<1>1. /\ CommandOK(commands[i]) /\ Asks(i) = commands[i].asks /\ Asks(i).place \in Place
      /\ Asks(i).arg \in Arguments(Asks(i).kind) /\ (Asks(i).kind = "handoff" => Asks(i).engine \in Engine)
  BY CommandTyped DEF SaidInv
<1>2. CASE WriteOverride(i)
  <2> DEFINE p == Asks(i).place
             e == commands[i].engine
             w == commands[i].seen
             x == Updated(i, w)
             rest == commands[i].todo \ {e}
             f == [pc |-> IF rest = {} THEN "done" ELSE "read", todo |-> rest]
             effects == {Meant(i, V, e) : V \in said[p]["engine_overrides"]}
  <2>1. /\ Asks(i).kind \in Overriding /\ commands[i].pc = "write"
        /\ stored' = [stored EXCEPT ![p].engine_overrides[e] = x]
        /\ Allows(i, p, "engine_overrides", effects) /\ Meets(i, p, "engine_overrides", f) /\ UNCHANGED muddled
    BY <1>2 DEF WriteOverride
  <2>2. e \in Engine /\ w \in Override
    BY <1>1, <2>1 DEF CommandOK
  <2>3. x \in Override
    BY <2>1, <2>2, UpdatedTyped DEF SaidInv
  <2>4. Moved(i, f) /\ \A d : d = commands'[i] => AboutToStoreNothing(d)
    <3>1. "alone" \notin DOMAIN f /\ "asks" \notin DOMAIN f /\ "pc" \in DOMAIN f
          /\ f["pc"] \notin {"title", "edit", "write"}
      OBVIOUS
    <3> HIDE DEF f
    <3> QED
      BY <2>1, <3>1, IdleAfter DEF SaidInv, CommandsTypeOK
  <2>5. MightBe(p, e, w)
    BY <1>1, <2>1 DEF MightBe, Pending
  <2>6. ASSUME NEW V \in [Engine -> Override], V[e] = x, [V EXCEPT ![e] = w] \in said[p]["engine_overrides"]
        PROVE  V \in effects
    <3>1. PICK W \in [Engine -> Override] : W = [V EXCEPT ![e] = w]
      BY <2>2
    <3>2. W[e] = w /\ \A g \in Engine \ {e} : W[g] = V[g]
      BY <2>2, <3>1
    <3>3. Meant(i, W, e) = [W EXCEPT ![e] = x]
      <4>1. CASE Asks(i).kind = "reasoning"
        BY <3>2, <4>1 DEF Meant, Updated
      <4>2. CASE Asks(i).kind # "reasoning"
        BY <3>2, <4>2 DEF Meant, Updated
      <4> QED
        BY <4>1, <4>2
    <3>4. [W EXCEPT ![e] = x] = V
      BY <2>3, <2>6, <3>1, <3>2
    <3> QED
      BY <2>6, <3>1, <3>3, <3>4
  <2>7. p \in Place
    BY <1>1
  <2>8. /\ stored'[p].engine_overrides = [stored[p].engine_overrides EXCEPT ![e] = x]
        /\ \A q \in Place \ {p} : stored'[q] = stored[q]
        /\ \A r \in Setting \ {"engine_overrides"} : stored'[p][r] = stored[p][r]
    <3>1. stored' = [stored EXCEPT ![p].engine_overrides[e] = x] /\ CommandsTypeOK
      BY <2>1 DEF SaidInv
    <3> HIDE DEF p, e, w, x, effects, f
    <3> QED
      BY <2>7, <2>2, <2>3, <3>1, OverrideStored, ZenonT(60)
  <2> HIDE DEF p, e, w, x, effects, f
  <2> QED
    BY <2>7, <2>1, <2>2, <2>3, <2>4, <2>5, <2>6, <2>8, OverrideSaid
<1>3. CASE HandoffModel(i)
  <2> DEFINE t == commands[i].thread
             e == Asks(i).engine
             x == [model |-> commands[i].seen, reasoning |-> None]
             w == stored[t].engine_overrides[e]
             With(V) == [V EXCEPT ![e] = x]
             effects == {With(V) : V \in said[t]["engine_overrides"]}
             f == [pc |-> "send"]
  <2>1. /\ commands[i].pc = "model" /\ Stores(t, "engine_overrides", With(stored[t].engine_overrides))
        /\ Allows(i, t, "engine_overrides", effects) /\ Meets(i, t, "engine_overrides", f)
        /\ UNCHANGED muddled /\ Asks(i).kind = "handoff"
    BY <1>3 DEF HandoffModel, Is
  <2>2. t \in Place /\ e \in Engine /\ commands[i].seen \in Model \cup {None}
    BY <1>1, <2>1, ForumPlaces DEF CommandOK, SaidInv
  <2>3. x \in Override /\ stored[t].engine_overrides \in [Engine -> Override]
    BY <2>2, StoredTyped DEF Override, SaidInv
  <2>4. Moved(i, f) /\ \A d : d = commands'[i] => AboutToStoreNothing(d)
    <3>1. "alone" \notin DOMAIN f /\ "asks" \notin DOMAIN f /\ "pc" \in DOMAIN f
          /\ f["pc"] \notin {"title", "edit", "write"}
      OBVIOUS
    <3> HIDE DEF f
    <3> QED
      BY <2>1, <3>1, IdleAfter DEF SaidInv, CommandsTypeOK
  <2>5. MightBe(t, e, w) /\ w \in Override
    BY <2>2, <2>3 DEF MightBe
  <2>6. ASSUME NEW V \in [Engine -> Override], V[e] = x, [V EXCEPT ![e] = w] \in said[t]["engine_overrides"]
        PROVE  V \in effects
    <3>1. PICK W \in [Engine -> Override] : W = [V EXCEPT ![e] = w]
      BY <2>5
    <3>2. [W EXCEPT ![e] = x] = V
      BY <2>2, <2>3, <2>6, <3>1
    <3> QED
      BY <2>6, <3>1, <3>2
  <2>7. With(stored[t].engine_overrides) \in [Engine -> Override]
    BY <2>3
  <2>8. /\ stored'[t]["engine_overrides"] = With(stored[t].engine_overrides)
        /\ \A q \in Place \ {t} : stored'[q] = stored[q]
        /\ \A r \in Setting \ {"engine_overrides"} : stored'[t][r] = stored[t][r]
    <3> HIDE DEF With, effects, f
    <3> QED
      BY <2>1, <2>2, <2>7, StoresTyped DEF SaidInv
  <2> HIDE DEF x, w, effects, f
  <2> QED
    BY <2>1, <2>2, <2>3, <2>4, <2>5, <2>6, <2>8, OverrideSaid
<1> QED
  BY <1>2, <1>3

LEMMA DeletersSaid ==
  ASSUME SaidInv, CommandsTypeOK', NEW i \in Asked, DropStale(i) \/ DeleteFound(i) \/ HandoffRetries(i)
  PROVE  SaidInv'
<1>1. CommandOK(commands[i]) /\ Asks(i) = commands[i].asks
  BY CommandTyped DEF SaidInv
<1>2. ASSUME NEW f, NEW t \in ForumTopics \cup {0}, Deletes(i, t), Goes(i, f), "alone" \notin DOMAIN f,
             "asks" \notin DOMAIN f, "pc" \in DOMAIN f, f["pc"] \notin {"title", "edit", "write"}
      PROVE  SaidInv'
  <2>1. t \in Place
    BY ForumPlaces DEF SaidInv
  <2>2. Moved(i, f) /\ \A d : d = commands'[i] => AboutToStoreNothing(d)
    BY <1>2, IdleAfter DEF SaidInv, CommandsTypeOK
  <2> QED
    BY <1>2, <2>1, <2>2, DeletedSaid
<1>3. CASE DropStale(i)
  <2>1. commands[i].pc = "drop" /\ Deletes(i, Stale(i)) /\ Goes(i, [pc |-> "set"])
    BY <1>3 DEF DropStale
  <2>2. Stale(i) \in ForumTopics \cup {0}
    BY <1>1, <2>1 DEF CommandOK, Stale
  <2>3. PICK f : f = [pc |-> "set"]
    OBVIOUS
  <2> QED
    BY <1>2, <2>1, <2>2, <2>3
<1>4. CASE DeleteFound(i)
  <2>1. Asks(i).kind = "delete" /\ commands[i].pc = "forget" /\ Deletes(i, commands[i].seen) /\ Goes(i, Done)
    BY <1>4 DEF DeleteFound, Is
  <2>2. commands[i].seen \in ForumTopics
    BY <1>1, <2>1 DEF CommandOK
  <2> QED
    BY <1>2, <2>1, <2>2 DEF Done
<1>5. CASE HandoffRetries(i)
  <2>1. /\ Asks(i).kind = "handoff" /\ commands[i].pc = "send" /\ Deletes(i, commands[i].thread)
        /\ Goes(i, [pc |-> "make", tries |-> 1])
    BY <1>5 DEF HandoffRetries, Is
  <2>2. commands[i].thread \in ForumTopics
    BY <1>1, <2>1 DEF CommandOK
  <2>3. PICK f : f = [pc |-> "make", tries |-> 1]
    OBVIOUS
  <2> QED
    BY <1>2, <2>1, <2>2, <2>3
<1> QED
  BY <1>3, <1>4, <1>5

\* A command that has just been asked has read nothing that it will write.
LEMMA AskSaid ==
  ASSUME SaidInv, CommandsTypeOK', NEW r \in Requests, Ask(r)
  PROVE  SaidInv'
<1>1. commands' = Append(commands, Command(r)) /\ UNCHANGED <<stored, said, muddled>>
  BY DEF Ask
<1>2. PICK S : commands \in Seq(S)
  BY DEF SaidInv, CommandsTypeOK, CommandsOK
<1>3. PICK c : c = Command(r) /\ c.pc = "asked"
  <2>1. Command(r).pc = "asked"
    BY DEF Command
  <2> QED
    BY <2>1
<1>4. \A j \in Asked' : (j \in Asked /\ commands'[j] = commands[j]) \/ commands'[j] = c
  BY <1>1, <1>2, <1>3 DEF Asked
<1>5. AboutToStoreNothing(c)
  BY <1>3 DEF AboutToStoreNothing, Pending
<1>6. PlainHeld'
  BY <1>1 DEF SaidInv, PlainHeld, Place, PlainSetting
<1>7. BindsHeld'
  <2> SUFFICES ASSUME NEW j \in Asked' PROVE BindHeld(commands[j])'
    BY DEF BindsHeld
  <2>1. PICK d : d = commands'[j]
    OBVIOUS
  <2>2. BindHeld(d)
    BY <1>4, <1>5, <2>1 DEF SaidInv, BindsHeld, BindHeld, AboutToStoreNothing
  <2> QED
    BY <1>1, <2>1, <2>2 DEF BindHeld
<1>8. ASSUME NEW p, NEW e, NEW v, MightBe(p, e, v)' PROVE MightBe(p, e, v)
  BY <1>1, <1>4, <1>5, <1>8 DEF MightBe, AboutToStoreNothing, Pending
<1>9. OverridesHeld'
  <2> SUFFICES ASSUME NEW q \in Place \ muddled', NEW V \in [Engine -> Override],
                      \A g \in Engine : MightBe(q, g, V[g])'
               PROVE  V \in said'[q]["engine_overrides"]
    BY DEF OverridesHeld, Place, Override
  <2>1. ASSUME NEW g \in Engine PROVE MightBe(q, g, V[g])
    <3>1. PICK v : v = V[g]
      OBVIOUS
    <3>2. MightBe(q, g, V[g])'
      OBVIOUS
    <3>3. MightBe(q, g, v)'
      BY <3>1, <3>2 DEF MightBe
    <3> QED
      BY <1>8, <3>1, <3>3
  <2> QED
    BY <1>1, <2>1 DEF SaidInv, OverridesHeld
<1> QED
  BY <1>6, <1>7, <1>9 DEF SaidInv

\* Only the names of topics change.
LEMMA NamesSaid ==
  ASSUME SaidInv, CommandsTypeOK', UNCHANGED chatVars
  PROVE  SaidInv'
<1>1. UNCHANGED <<stored, commands, said, muddled>>
  BY DEF chatVars
<1> QED
  BY <1>1 DEF SaidInv, PlainHeld, BindsHeld, BindHeld, OverridesHeld, MightBe, Pending, Asked, Place, PlainSetting,
              Override

LEMMA SaidHolds == SaidInv /\ [CommandsNext]_commandVars => SaidInv'
<1> SUFFICES ASSUME SaidInv, [CommandsNext]_commandVars PROVE SaidInv'
  OBVIOUS
<1>1. CommandsTypeOK'
  BY TypesHold DEF SaidInv
<1>2. CASE UNCHANGED commandVars
  BY <1>1, <1>2, NamesSaid DEF commandVars
<1>3. CASE \E r \in Requests : Dispatch(r)
  BY <1>1, <1>3, AskSaid DEF Dispatch
<1>4. CASE \E i \in Asked : Refuse(i)
  BY <1>1, <1>4, QuietActionsSaid DEF Refuse
<1>5. CASE SettingsNext
  BY <1>1, <1>5, SettersSaid, QuietActionsSaid, ReadersSaid, OverridersSaid DEF SettingsNext, BeginOverride
<1>6. CASE TopicNext
  BY <1>1, <1>6, SettersSaid, BindersSaid, ReadersSaid, RenamedSaid, DeletersSaid, QuietActionsSaid, NamesSaid
  DEF TopicNext, FindTopic, TryTopic, ReadForked, BeginCreate, CreateReturns, FindDeleted, DeletedByUser
<1>7. CASE HandoffNext
  BY <1>1, <1>7, BindersSaid, OverridersSaid, DeletersSaid, QuietActionsSaid
  DEF HandoffNext, FindHandoff, HandoffCreates, HandoffEnds
<1> QED
  BY <1>2, <1>3, <1>4, <1>5, <1>6, <1>7 DEF CommandsNext

LEMMA SaidInitially == CommandsInit => SaidInv
<1> SUFFICES ASSUME CommandsInit PROVE SaidInv
  OBVIOUS
<1>1. /\ stored = [p \in Place |-> Blank] /\ commands = <<>>
      /\ said = [p \in Place |-> [s \in Setting |-> {Blank[s]}]]
  BY DEF CommandsInit, ChatInit
<1>2. Asked = {}
  BY <1>1 DEF Asked
<1>3. PlainHeld
  BY <1>1, SettingsNamed DEF PlainHeld, PlainSetting
<1>4. BindsHeld
  BY <1>2 DEF BindsHeld
<1>5. OverridesHeld
  <2> SUFFICES ASSUME NEW p \in Place, NEW V \in [Engine -> Override], \A e \in Engine : MightBe(p, e, V[e])
               PROVE  V \in said[p]["engine_overrides"]
    BY DEF OverridesHeld
  <2>1. \A e \in Engine : V[e] = NoOverrides[e]
    BY <1>1, <1>2 DEF MightBe, Blank
  <2>2. V = NoOverrides
    BY <2>1 DEF NoOverrides
  <2>3. said[p]["engine_overrides"] = {NoOverrides}
    BY <1>1, SettingsNamed DEF Blank
  <2> QED
    BY <2>2, <2>3
<1> QED
  BY <1>3, <1>4, <1>5, TypesInitial DEF SaidInv

\* A setting holds the value that the last command gave it that was alone with it, or one
\* that commands which met on it since may have given it; no other field is ever changed.
THEOREM LastCommandsHold == CommandsSpec => []LastCommandHolds
<1>1. CommandsSpec => []SaidInv
  BY SaidInitially, SaidHolds, PTL DEF CommandsSpec
<1> QED
  BY <1>1, SaidImpliesLast, PTL

----------------------------------------------------------------------------
(***************************************************************************)
(* The names of topics.  A name that does not tell the context yet has a   *)
(* handler that will put it right, or learn that it cannot; and a topic    *)
(* that was made and is not bound yet is touched by nobody who does not    *)
(* meet the handler that made it.                                          *)
(***************************************************************************)
\* c will rename t, which was last given this title.
Fixing(c, t, title) ==
  /\ c.asks.kind = "bind" /\ c.asks.place = t
  /\ c.pc = "edit" \/ (c.pc = "title" /\ c.asks.arg # title)

Told(t) ==
  \/ forum[t] = Gone
  \/ \E i \in Asked : Fixing(commands[i], t, stored[t].topic_title)
  \/ stored[t].topic_title \in {None, OtherTitle}
  \/ /\ forum[t] = stored[t].topic_title
     /\ stored[t].context \in {stored[t].topic_title, None}

NamesTold == \A t \in ForumTopics \ misnamed : Told(t)

Awaiting(c) == c.pc \in {"drop", "set"} /\ c.alone
Trying(c) == c.asks.kind = "topic" /\ c.pc = "try"

\* c has made the topic, and is to bind it.
Untouched(c) ==
  /\ forum[c.thread] \in {c.title, Gone} /\ stored[c.thread].context = None
  /\ \A j \in Asked : Trying(commands[j]) => commands[j].seen # c.thread

NewTopicsUntouched == \A i \in Asked : Awaiting(commands[i]) => Untouched(commands[i])

NamesInv == CommandsTypeOK /\ NamesTold /\ NewTopicsUntouched

LEMMA NamesInvTells == NamesInv => NamesTellContexts
<1> SUFFICES ASSUME NamesInv, NEW t \in ForumTopics \ misnamed,
                    stored[t].context # None, stored[t].topic_title \notin {None, OtherTitle},
                    forum[t] # Gone, \A i \in Asked : Claim(i) # <<t, "context">>
             PROVE  stored[t].topic_title = stored[t].context /\ forum[t] = stored[t].context
  BY DEF NamesTellContexts, ForumTopics, _topic_title
<1>1. ASSUME NEW i \in Asked PROVE ~Fixing(commands[i], t, stored[t].topic_title)
  <2> SUFFICES ASSUME commands[i].asks.kind = "bind", commands[i].asks.place = t, commands[i].pc \in {"edit", "title"}
               PROVE  FALSE
    BY DEF Fixing
  <2>1. Claim(i) = <<t, "context">>
    BY DEF Claim, Asks
  <2> QED
    BY <2>1
<1> QED
  BY <1>1 DEF NamesInv, NamesTold, Told

LEMMA FixersStay ==
  ASSUME NEW i \in Asked, NEW f, Moved(i, f), NEW t, NEW title, NEW j \in Asked, Fixing(commands[j], t, title),
         j # i \/ \A d : d = commands'[i] => Fixing(d, t, title)
  PROVE  \E k \in Asked' : \E d : d = commands'[k] /\ Fixing(d, t, title)
<1>1. PICK d : d = commands'[j]
  OBVIOUS
<1>2. j # i => Fixing(d, t, title)
  BY <1>1 DEF Moved, Like, Fixing
<1> QED
  BY <1>1, <1>2 DEF Moved

LEMMA ToldStays ==
  ASSUME NEW i \in Asked, NEW f, Moved(i, f), NEW t, Told(t),
         stored'[t].topic_title = stored[t].topic_title, stored'[t].context \in {stored[t].context, None},
         forum'[t] = forum[t],
         \A d : d = commands'[i] /\ Fixing(commands[i], t, stored[t].topic_title)
                  => Fixing(d, t, stored[t].topic_title)
  PROVE  Told(t)'
<1>1. CASE \E j \in Asked : Fixing(commands[j], t, stored[t].topic_title)
  <2>1. PICK j \in Asked : Fixing(commands[j], t, stored[t].topic_title)
    BY <1>1
  <2>2. j # i \/ \A d : d = commands'[i] => Fixing(d, t, stored[t].topic_title)
    BY <2>1
  <2>3. PICK k \in Asked' : \E d : d = commands'[k] /\ Fixing(d, t, stored[t].topic_title)
    BY <2>1, <2>2, FixersStay
  <2> QED
    BY <2>3 DEF Told, Fixing
<1>2. CASE ~\E j \in Asked : Fixing(commands[j], t, stored[t].topic_title)
  BY <1>2 DEF Told
<1> QED
  BY <1>1, <1>2

LEMMA NamesFollow ==
  ASSUME NamesInv, CommandsTypeOK', NEW i \in Asked, NEW f, Moved(i, f),
         \A t \in ForumTopics' \ misnamed' :
           \/ Told(t)'
           \/ /\ t \in ForumTopics \ misnamed /\ forum'[t] = forum[t]
              /\ stored'[t].topic_title = stored[t].topic_title
              /\ stored'[t].context \in {stored[t].context, None}
              /\ \A d : d = commands'[i] /\ Fixing(commands[i], t, stored[t].topic_title)
                          => Fixing(d, t, stored[t].topic_title),
         \A j \in Asked \ {i} : \A c, d : c = commands[j] /\ d = commands'[j] /\ Awaiting(c) /\ Awaiting(d) =>
           /\ forum'[c.thread] \in {forum[c.thread], Gone}
           /\ stored'[c.thread].context \in {stored[c.thread].context, None},
         \A d : d = commands'[i] /\ Awaiting(d) =>
           /\ forum'[d.thread] \in {d.title, Gone} /\ stored'[d.thread].context = None
           /\ \A j \in Asked \ {i} : Trying(commands[j]) => commands[j].seen # d.thread,
         \A d : d = commands'[i] /\ Trying(d) =>
           \A j \in Asked \ {i} : Awaiting(commands[j]) => d.seen # commands[j].thread
  PROVE  NamesInv'
<1>1. NamesTold'
  <2> SUFFICES ASSUME NEW t \in ForumTopics' \ misnamed' PROVE Told(t)'
    BY DEF NamesTold
  <2> QED
    BY ToldStays DEF NamesInv, NamesTold
<1>2. Asked' = Asked
  BY DEF Moved
<1>3. ASSUME NEW j \in Asked, NEW d, d = commands'[j], Awaiting(d) PROVE Untouched(d)'
  <2>1. \/ j = i
        \/ \E c : c = commands[j] /\ Like(c, d) /\ Awaiting(c) /\ Untouched(c)
    <3>1. ASSUME j # i PROVE Like(commands[j], d)
      BY <1>3, <3>1 DEF Moved
    <3>2. ASSUME j # i PROVE Awaiting(commands[j])
      BY <1>3, <3>1, <3>2 DEF Like, Awaiting
    <3> QED
      BY <3>1, <3>2 DEF NamesInv, NewTopicsUntouched
  <2>2. /\ forum'[d.thread] \in {d.title, Gone}
        /\ stored'[d.thread].context = None
    BY <1>3, <2>1 DEF Untouched, Like
  <2>3. ASSUME NEW k \in Asked, NEW e, e = commands'[k], Trying(e) PROVE e.seen # d.thread
    <3>1. CASE k # i
      <4>1. Like(commands[k], e)
        BY <2>3, <3>1 DEF Moved
      <4>2. Trying(commands[k]) /\ e.seen = commands[k].seen
        BY <2>3, <4>1 DEF Like, Trying
      <4> QED
        BY <1>3, <2>1, <3>1, <4>2 DEF Untouched, Like
    <3>2. CASE k = i
      <4>1. j # i
        BY <1>3, <2>3, <3>2 DEF Awaiting, Trying
      <4>2. PICK c : c = commands[j] /\ Like(c, d) /\ Awaiting(c)
        BY <2>1, <4>1
      <4>3. e.seen # c.thread
        BY <2>3, <3>2, <4>1, <4>2
      <4> QED
        BY <4>2, <4>3 DEF Like
    <3> QED
      BY <3>1, <3>2
  <2>4. \A k \in Asked' : Trying(commands'[k]) => commands'[k].seen # d.thread
    BY <1>2, <2>3
  <2> QED
    BY <2>2, <2>4 DEF Untouched, Trying
<1>4. NewTopicsUntouched'
  <2> SUFFICES ASSUME NEW j \in Asked, Awaiting(commands[j])' PROVE Untouched(commands[j])'
    BY <1>2 DEF NewTopicsUntouched
  <2>1. PICK d : d = commands'[j]
    OBVIOUS
  <2>2. Awaiting(d)
    BY <2>1 DEF Awaiting
  <2>3. Untouched(d)'
    BY <1>3, <2>1, <2>2
  <2> QED
    BY <2>1, <2>3 DEF Untouched
<1> QED
  BY <1>1, <1>4 DEF NamesInv

\* No topic is named or bound.
LEMMA NothingNamed ==
  ASSUME NamesInv, CommandsTypeOK', NEW i \in Asked, NEW f, Moved(i, f), "asks" \notin DOMAIN f,
         forum' = forum, misnamed \subseteq misnamed',
         \A p \in Place : stored'[p].context = stored[p].context /\ stored'[p].topic_title = stored[p].topic_title,
         \A t \in ForumTopics \ misnamed' :
           \A d : d = commands'[i] /\ Fixing(commands[i], t, stored[t].topic_title)
                    => Fixing(d, t, stored[t].topic_title),
         \A d : d = commands'[i] => ~Awaiting(d) /\ (Trying(d) => stored[d.seen].context # None)
  PROVE  NamesInv'
<1>1. ForumTopics' = ForumTopics /\ ForumTopics \subseteq Place
  BY ForumPlaces DEF ForumTopics, NamesInv
<1>2. ASSUME NEW j \in Asked, Awaiting(commands[j])
      PROVE  commands[j].thread \in Place /\ stored[commands[j].thread].context = None
  <2>1. commands[j].thread \in ForumTopics
    BY <1>2, CommandTyped DEF NamesInv, CommandOK, Awaiting
  <2> QED
    BY <1>1, <1>2, <2>1 DEF NamesInv, NewTopicsUntouched, Untouched
<1>3. ASSUME NEW d, d = commands'[i], Trying(d), NEW j \in Asked, Awaiting(commands[j])
      PROVE  d.seen # commands[j].thread
  BY <1>2, <1>3
<1> QED
  BY <1>1, <1>2, <1>3, NamesFollow

\* The handler of another command than to bind, or before it has bound, goes on.
LEMMA NoNames ==
  ASSUME NamesInv, CommandsTypeOK', NEW i \in Asked, NEW f, Moved(i, f), "asks" \notin DOMAIN f,
         "pc" \in DOMAIN f, f["pc"] \notin {"drop", "set", "try"}, forum' = forum, misnamed \subseteq misnamed',
         \A p \in Place : stored'[p].context = stored[p].context /\ stored'[p].topic_title = stored[p].topic_title,
         ~(commands[i].asks.kind = "bind" /\ commands[i].pc \in {"title", "edit"})
  PROVE  NamesInv'
<1>1. \A t, title : ~Fixing(commands[i], t, title)
  BY DEF Fixing
<1>2. \A d : d = commands'[i] => d.pc = f["pc"]
  BY MovedFields
<1> QED
  BY <1>1, <1>2, NothingNamed DEF Awaiting, Trying

\* The context of p is written, by a handler that those who are to bind p meet.
LEMMA ContextNames ==
  ASSUME NamesInv, CommandsTypeOK', NEW i \in Asked, NEW f, "alone" \notin DOMAIN f, "asks" \notin DOMAIN f,
         "pc" \in DOMAIN f, f["pc"] \notin {"drop", "set", "try"},
         NEW p \in Place, Meets(i, p, "context", f), ForumTopics' = ForumTopics,
         \A q \in ForumTopics \ {p} : forum'[q] = forum[q], \A q \in Place \ {p} : stored'[q] = stored[q],
         misnamed \subseteq misnamed' \cup {p},
         commands[i].asks.kind = "bind" => commands[i].asks.place = p,
         p \in ForumTopics \ misnamed' => Told(p)'
  PROVE  NamesInv'
<1>1. Moved(i, f) /\ \A j \in Others(i, p, "context") : ~commands'[j].alone
  BY MeetsMoves DEF NamesInv, CommandsTypeOK
<1>2. \A d : d = commands'[i] => d.pc = f["pc"]
  BY <1>1, MovedFields
<1>3. ForumTopics \subseteq Place \ {0}
  BY ForumPlaces DEF NamesInv
<1>4. ASSUME NEW j \in Asked \ {i}, NEW c, NEW d, c = commands[j], d = commands'[j], Awaiting(c), Awaiting(d)
      PROVE  c.thread \in ForumTopics /\ c.thread # p
  <2>1. c.thread \in ForumTopics /\ c.asks.kind \in {"topic", "fork", "create"}
    BY <1>4, CommandTyped DEF NamesInv, CommandOK, Awaiting
  <2>2. c.thread # p
    <3> SUFFICES ASSUME c.thread = p PROVE FALSE
      OBVIOUS
    <3>1. Claim(j) = <<p, "context">>
      BY <1>3, <1>4, <2>1 DEF Claim, Asks, Awaiting, Overriding
    <3>2. j \in Others(i, p, "context")
      BY <3>1 DEF Others
    <3> QED
      BY <1>1, <1>4, <3>2 DEF Awaiting
  <2> QED
    BY <2>1, <2>2
<1>5. \A t \in ForumTopics \ {p} : ~Fixing(commands[i], t, stored[t].topic_title)
  BY DEF Fixing
<1>6. ASSUME NEW t \in ForumTopics' \ misnamed', t # p
      PROVE  /\ t \in ForumTopics \ misnamed /\ forum'[t] = forum[t] /\ stored'[t] = stored[t]
             /\ ~Fixing(commands[i], t, stored[t].topic_title)
  BY <1>3, <1>5, <1>6
<1>7. \A d : d = commands'[i] => ~Awaiting(d) /\ ~Trying(d)
  BY <1>2 DEF Awaiting, Trying
<1>8. ASSUME NEW j \in Asked \ {i}, NEW c, NEW d, c = commands[j], d = commands'[j], Awaiting(c), Awaiting(d)
      PROVE  forum'[c.thread] = forum[c.thread] /\ stored'[c.thread] = stored[c.thread]
  BY <1>3, <1>4, <1>8
<1> QED
  BY <1>1, <1>6, <1>7, <1>8, NamesFollow

\* The settings of p are deleted.
LEMMA DeletedNames ==
  ASSUME NamesInv, CommandsTypeOK', NEW i \in Asked, NEW f, Moved(i, f), "asks" \notin DOMAIN f,
         "pc" \in DOMAIN f, forum' = forum, misnamed' = misnamed, NEW p \in Place, Deletes(i, p),
         commands[i].asks.kind # "bind",
         \/ f["pc"] \notin {"drop", "set", "try"}
         \/ f = [pc |-> "set"] /\ commands[i].pc = "drop"
  PROVE  NamesInv'
<1>1. stored'[p] = Blank /\ \A q \in Place \ {p} : stored'[q] = stored[q]
  BY DeletesSaid DEF NamesInv, CommandsTypeOK
<1>2. ForumTopics' = ForumTopics /\ ForumTopics \subseteq Place
  BY ForumPlaces DEF ForumTopics, NamesInv
<1>3. \A q \in Place : stored'[q].context \in {stored[q].context, None}
  BY <1>1 DEF Blank
<1>4. ASSUME NEW t \in ForumTopics \ misnamed, t = p PROVE Told(t)'
  BY <1>1, <1>4 DEF Told, Blank
<1>5. \A t, title : ~Fixing(commands[i], t, title)
  BY DEF Fixing
<1>6. ASSUME NEW j \in Asked, Awaiting(commands[j]) PROVE commands[j].thread \in Place
  BY <1>2, <1>6, CommandTyped DEF NamesInv, CommandOK, Awaiting
<1>7. ASSUME NEW d, d = commands'[i]
      PROVE  /\ ~Trying(d)
             /\ Awaiting(d) => /\ Awaiting(commands[i]) /\ d.thread = commands[i].thread
                               /\ d.title = commands[i].title
  <2>1. d.pc = f["pc"] /\ (d.alone => commands[i].alone)
    BY <1>7, MovedFields
  <2>2. CASE f["pc"] \notin {"drop", "set", "try"}
    BY <2>1, <2>2 DEF Awaiting, Trying
  <2>3. CASE f = [pc |-> "set"] /\ commands[i].pc = "drop"
    <3>1. d.thread = commands[i].thread /\ d.title = commands[i].title /\ d.pc = "set"
      BY <1>7, <2>3, MovedFields
    <3> QED
      BY <2>1, <2>3, <3>1 DEF Awaiting, Trying
  <2> QED
    BY <2>2, <2>3
<1>8. ASSUME NEW d, d = commands'[i], Awaiting(d)
      PROVE  /\ forum'[d.thread] \in {d.title, Gone} /\ stored'[d.thread].context = None
             /\ \A j \in Asked \ {i} : Trying(commands[j]) => commands[j].seen # d.thread
  <2>1. Untouched(commands[i]) /\ commands[i].thread \in Place
    BY <1>6, <1>7, <1>8 DEF NamesInv, NewTopicsUntouched
  <2> QED
    BY <1>3, <1>7, <1>8, <2>1 DEF Untouched
<1>9. ASSUME NEW t \in ForumTopics \ misnamed, t # p PROVE stored'[t] = stored[t]
  <2>1. t \in Place \ {p}
    BY <1>2, <1>9
  <2> QED
    BY <1>1, <2>1
<1> QED
  BY <1>2, <1>3, <1>4, <1>5, <1>6, <1>7, <1>8, <1>9, NamesFollow

\* A topic is made, which nothing is stored of.
LEMMA MadeNames ==
  ASSUME NamesInv, CommandsTypeOK', NEW i \in Asked, NEW f, Moved(i, f), "asks" \notin DOMAIN f,
         "pc" \in DOMAIN f, f["pc"] # "try", NEW name \in Title, forum' = Append(forum, name),
         Len(forum) + 1 \in Topic, UNCHANGED <<stored, misnamed>>, commands[i].asks.kind # "bind",
         f["pc"] \in {"drop", "set"} =>
           {"thread", "title"} \subseteq DOMAIN f /\ f["thread"] = Len(forum) + 1 /\ f["title"] = name
  PROVE  NamesInv'
<1> PICK t : t = Len(forum) + 1
  OBVIOUS
<1>1. /\ ForumTopics' = ForumTopics \cup {t} /\ t \notin ForumTopics /\ forum'[t] = name
      /\ \A q \in ForumTopics : forum'[q] = forum[q]
  BY ForumGrows DEF NamesInv
<1>2. stored[t].context = None /\ stored[t].topic_title = None
  BY <1>1 DEF NamesInv, CommandsTypeOK, UnmadeAreBlank
<1>3. Told(t)'
  BY <1>2 DEF Told
<1>4. \A q, title : ~Fixing(commands[i], q, title)
  BY DEF Fixing
<1>5. ASSUME NEW j \in Asked
      PROVE  /\ Awaiting(commands[j]) => commands[j].thread \in ForumTopics
             /\ Trying(commands[j]) => commands[j].seen \in ForumTopics
  BY CommandTyped DEF NamesInv, CommandOK, Awaiting, Trying
<1>6. ASSUME NEW d, d = commands'[i]
      PROVE  ~Trying(d) /\ (Awaiting(d) => d.thread = t /\ d.title = name)
  BY <1>6, MovedFields DEF Awaiting, Trying
<1>7. ASSUME NEW d, d = commands'[i], Awaiting(d)
      PROVE  /\ forum'[d.thread] \in {d.title, Gone} /\ stored'[d.thread].context = None
             /\ \A j \in Asked \ {i} : Trying(commands[j]) => commands[j].seen # d.thread
  BY <1>1, <1>2, <1>5, <1>6, <1>7
<1> QED
  BY <1>1, <1>3, <1>4, <1>5, <1>6, <1>7, NamesFollow

\* Handlers that neither name nor bind a topic.
LEMMA OthersNames ==
  ASSUME NamesInv, CommandsTypeOK', NEW i \in Asked, UNCHANGED topicVars,
         \/ Refuse(i) \/ SetAgent(i) \/ SetTrigger(i) \/ BeginOverride(i) \/ ReadOverride(i) \/ WriteOverride(i)
         \/ ReadForked(i) \/ BeginCreate(i) \/ FindDeleted(i)
         \/ FindHandoff(i) \/ HandoffEngine(i) \/ HandoffModel(i) \/ HandoffEnds(i)
  PROVE  NamesInv'
<1>1. /\ CommandOK(commands[i]) /\ Asks(i) = commands[i].asks /\ Asks(i).place \in Place
      /\ Asks(i).arg \in Arguments(Asks(i).kind) /\ (Asks(i).kind = "handoff" => Asks(i).engine \in Engine)
  BY CommandTyped DEF NamesInv
<1>2. forum' = forum /\ misnamed' = misnamed
  BY DEF topicVars
<1>3. ASSUME NEW f, Goes(i, f) \/ \E p, s : Meets(i, p, s, f), "alone" \notin DOMAIN f, "asks" \notin DOMAIN f,
             "pc" \in DOMAIN f, f["pc"] \notin {"drop", "set", "try"},
             ~(commands[i].asks.kind = "bind" /\ commands[i].pc \in {"title", "edit"}),
             \A p \in Place : stored'[p].context = stored[p].context /\ stored'[p].topic_title = stored[p].topic_title
      PROVE  NamesInv'
  <2>1. Moved(i, f)
    BY <1>3, GoesMoves, MeetsMoves DEF NamesInv, CommandsTypeOK
  <2> QED
    BY <1>2, <1>3, <2>1, NoNames
<1>4. CASE \/ Refuse(i) \/ BeginOverride(i) \/ ReadForked(i) \/ BeginCreate(i) \/ FindDeleted(i)
           \/ FindHandoff(i) \/ HandoffEnds(i)
  <2>1. PICK f : /\ Goes(i, f) \/ \E p, s : Meets(i, p, s, f)
                 /\ "alone" \notin DOMAIN f /\ "asks" \notin DOMAIN f /\ "pc" \in DOMAIN f /\ f["pc"] \in Resting
    BY <1>4, QuietSteps
  <2>2. stored' = stored /\ ~(commands[i].asks.kind = "bind" /\ commands[i].pc \in {"title", "edit"})
    BY <1>1, <1>4
    DEF Refuse, BeginOverride, ReadForked, BeginCreate, FindDeleted, FindHandoff, HandoffEnds, Is
  <2> QED
    BY <1>3, <2>1, <2>2 DEF Resting
<1>5. CASE ReadOverride(i)
  <2>1. PICK e : Goes(i, [pc |-> "write", engine |-> e, seen |-> stored[Asks(i).place].engine_overrides[e]])
    BY <1>5 DEF ReadOverride
  <2>2. PICK f : f = [pc |-> "write", engine |-> e, seen |-> stored[Asks(i).place].engine_overrides[e]]
    OBVIOUS
  <2>3. "alone" \notin DOMAIN f /\ "asks" \notin DOMAIN f /\ "pc" \in DOMAIN f /\ f["pc"] = "write"
    BY <2>2
  <2>4. stored' = stored /\ commands[i].pc = "read"
    BY <1>5 DEF ReadOverride
  <2> QED
    BY <1>3, <2>1, <2>2, <2>3, <2>4
<1>6. ASSUME NEW p \in Place, NEW s \in Setting \ {"context"}, \A q \in Place \ {p} : stored'[q] = stored[q],
             \A r \in Setting \ {s} : stored'[p][r] = stored[p][r], stored'[p].topic_title = stored[p].topic_title
      PROVE  \A q \in Place : stored'[q].context = stored[q].context /\ stored'[q].topic_title = stored[q].topic_title
  BY <1>6, SettingsNamed
<1>7. CASE SetAgent(i) \/ SetTrigger(i)
  <2>1. PICK s \in {"default_engine", "trigger_mode"} :
           /\ Sets(i, IF s = "default_engine" THEN "agent" ELSE "trigger", s)
    <3>1. SetAgent(i) => Sets(i, "agent", "default_engine")
      BY DEF SetAgent
    <3>2. SetTrigger(i) => Sets(i, "trigger", "trigger_mode")
      BY DEF SetTrigger
    <3> QED
      BY <1>7, <3>1, <3>2
  <2>2. /\ Stores(Asks(i).place, s, Asks(i).arg) /\ Meets(i, Asks(i).place, s, Done) /\ commands[i].pc = "asked"
        /\ Asks(i).kind = (IF s = "default_engine" THEN "agent" ELSE "trigger")
    BY <2>1 DEF Sets, Is
  <2>3. \/ s = "default_engine" /\ Asks(i).arg \in Engine \cup {None}
        \/ s = "trigger_mode" /\ Asks(i).arg \in {"mentions", None}
    BY <1>1, <2>2 DEF Arguments
  <2>4. \A q \in Place : stored'[q].context = stored[q].context /\ stored'[q].topic_title = stored[q].topic_title
    BY <1>1, <1>6, <2>2, <2>3, StoresTyped, SettingsNamed DEF NamesInv
  <2>5. "alone" \notin DOMAIN Done /\ "asks" \notin DOMAIN Done /\ "pc" \in DOMAIN Done /\ Done["pc"] = "done"
    BY DEF Done
  <2> QED
    BY <1>3, <2>2, <2>4, <2>5
<1>8. CASE WriteOverride(i)
  <2>1. /\ Asks(i).kind \in Overriding /\ commands[i].pc = "write"
        /\ stored' = [stored EXCEPT ![Asks(i).place].engine_overrides[commands[i].engine]
                        = Updated(i, commands[i].seen)]
        /\ \E rest : Meets(i, Asks(i).place, "engine_overrides",
                           [pc |-> IF rest = {} THEN "done" ELSE "read", todo |-> rest])
    BY <1>8 DEF WriteOverride
  <2>2. commands[i].engine \in Engine /\ commands[i].seen \in Override
    BY <1>1, <2>1 DEF CommandOK
  <2>3. PICK x \in Override : x = Updated(i, commands[i].seen)
    BY <2>1, <2>2, UpdatedTyped DEF NamesInv
  <2>4. \A q \in Place : stored'[q].context = stored[q].context /\ stored'[q].topic_title = stored[q].topic_title
    <3>1. PICK p \in Place, e \in Engine : p = Asks(i).place /\ e = commands[i].engine
      BY <1>1, <2>2
    <3>2. stored' = [stored EXCEPT ![p].engine_overrides[e] = x] /\ CommandsTypeOK
      BY <2>1, <2>3, <3>1 DEF NamesInv
    <3>3. /\ \A q \in Place \ {p} : stored'[q] = stored[q]
          /\ \A r \in Setting \ {"engine_overrides"} : stored'[p][r] = stored[p][r]
          /\ stored'[p].topic_title = stored[p].topic_title
      BY <3>2, OverrideStored
    <3> QED
      BY <1>6, <3>3, SettingsNamed
  <2>5. PICK rest : Meets(i, Asks(i).place, "engine_overrides",
                          [pc |-> IF rest = {} THEN "done" ELSE "read", todo |-> rest])
    BY <2>1
  <2>6. PICK f : f = [pc |-> IF rest = {} THEN "done" ELSE "read", todo |-> rest]
    OBVIOUS
  <2>7. "alone" \notin DOMAIN f /\ "asks" \notin DOMAIN f /\ "pc" \in DOMAIN f
        /\ f["pc"] \notin {"drop", "set", "try"} /\ \E p, s : Meets(i, p, s, f)
    BY <2>5, <2>6
  <2> QED
    BY <1>3, <2>1, <2>4, <2>7
<1>9. CASE HandoffEngine(i)
  <2>1. /\ Asks(i).kind = "handoff" /\ commands[i].pc = "engine"
        /\ Stores(commands[i].thread, "default_engine", Asks(i).engine)
        /\ Meets(i, commands[i].thread, "default_engine",
                 [pc |-> IF commands[i].seen = None THEN "send" ELSE "model"])
    BY <1>9 DEF HandoffEngine, Is
  <2>2. commands[i].thread \in Place
    BY <1>1, <2>1, ForumPlaces DEF CommandOK, NamesInv
  <2>3. \A q \in Place : stored'[q].context = stored[q].context /\ stored'[q].topic_title = stored[q].topic_title
    BY <1>1, <1>6, <2>1, <2>2, StoresTyped, SettingsNamed DEF NamesInv
  <2>4. PICK f : f = [pc |-> IF commands[i].seen = None THEN "send" ELSE "model"]
    OBVIOUS
  <2>5. "alone" \notin DOMAIN f /\ "asks" \notin DOMAIN f /\ "pc" \in DOMAIN f
        /\ f["pc"] \notin {"drop", "set", "try"} /\ \E p, s : Meets(i, p, s, f)
    BY <2>1, <2>4
  <2> QED
    BY <1>3, <2>1, <2>3, <2>5
<1>10. CASE HandoffModel(i)
  <2> DEFINE With(V) == [V EXCEPT ![Asks(i).engine] = [model |-> commands[i].seen, reasoning |-> None]]
             t == commands[i].thread
  <2>1. /\ Asks(i).kind = "handoff" /\ commands[i].pc = "model"
        /\ Stores(t, "engine_overrides", With(stored[t].engine_overrides))
        /\ Meets(i, t, "engine_overrides", [pc |-> "send"])
    BY <1>10 DEF HandoffModel, Is
  <2>2. t \in Place /\ commands[i].seen \in Model \cup {None}
    BY <1>1, <2>1, ForumPlaces DEF CommandOK, NamesInv
  <2>3. With(stored[t].engine_overrides) \in [Engine -> Override]
    <3>1. stored[t].engine_overrides \in [Engine -> Override]
      BY <2>2, StoredTyped DEF NamesInv
    <3>2. [model |-> commands[i].seen, reasoning |-> None] \in Override
      BY <2>2 DEF Override
    <3> QED
      BY <3>1, <3>2
  <2>4. PICK f : f = [pc |-> "send"]
    OBVIOUS
  <2>5. "alone" \notin DOMAIN f /\ "asks" \notin DOMAIN f /\ "pc" \in DOMAIN f
        /\ f["pc"] \notin {"drop", "set", "try"} /\ \E p, s : Meets(i, p, s, f)
    BY <2>1, <2>4
  <2> HIDE DEF With, t
  <2>6. \A q \in Place : stored'[q].context = stored[q].context /\ stored'[q].topic_title = stored[q].topic_title
    BY <1>6, <2>1, <2>2, <2>3, StoresTyped, SettingsNamed DEF NamesInv
  <2> QED
    BY <1>3, <2>1, <2>5, <2>6
<1> QED
  BY <1>4, <1>5, <1>7, <1>8, <1>9, <1>10

\* What /topic found is bound, so it is not one that waits to be.
LEMMA FindNames ==
  ASSUME NamesInv, CommandsTypeOK', NEW i \in Asked, FindTopic(i)
  PROVE  NamesInv'
<1>1. PICK t \in Found(Asks(i).arg) : Goes(i, [pc |-> IF t = 0 THEN "create" ELSE "try", seen |-> t])
  BY DEF FindTopic
<1>2. commands[i].asks.kind = "topic" /\ UNCHANGED <<stored, forum, misnamed>>
  BY DEF FindTopic, Is, Asks, topicVars
<1>3. t = 0 \/ stored[t].context # None
  BY FoundIsThere DEF NamesInv
<1> DEFINE f == [pc |-> IF t = 0 THEN "create" ELSE "try", seen |-> t]
<1>4. Moved(i, f)
  BY <1>1, GoesMoves DEF NamesInv, CommandsTypeOK
<1>5. \A d : d = commands'[i] => d.pc = (IF t = 0 THEN "create" ELSE "try") /\ d.seen = t
  BY <1>4, MovedFields
<1>6. "asks" \notin DOMAIN f
  OBVIOUS
<1> HIDE DEF f
<1> QED
  BY <1>2, <1>3, <1>4, <1>5, <1>6, NothingNamed DEF Fixing, Awaiting, Trying

\* A title that is right needs no renaming.
LEMMA TitleNames ==
  ASSUME NamesInv, CommandsTypeOK', NEW i \in Asked, CheckTitle(i)
  PROVE  NamesInv'
<1>1. /\ Asks(i) = commands[i].asks /\ Asks(i).kind = "bind" /\ commands[i].pc = "title"
      /\ UNCHANGED <<stored, forum, misnamed>>
  BY DEF CheckTitle, Is, Asks, topicVars
<1>2. PICK f : /\ f = IF stored[Asks(i).place].topic_title = Asks(i).arg THEN Done ELSE [pc |-> "edit"]
               /\ Goes(i, f)
  BY DEF CheckTitle, _topic_title
<1>3. /\ "alone" \notin DOMAIN f /\ "asks" \notin DOMAIN f /\ "pc" \in DOMAIN f
      /\ f["pc"] = IF stored[Asks(i).place].topic_title = Asks(i).arg THEN "done" ELSE "edit"
  BY <1>2 DEF Done
<1>4. Moved(i, f)
  BY <1>2, <1>3, GoesMoves DEF NamesInv, CommandsTypeOK
<1>5. ASSUME NEW d, d = commands'[i]
      PROVE  /\ d.asks = Asks(i)
             /\ d.pc = IF stored[Asks(i).place].topic_title = Asks(i).arg THEN "done" ELSE "edit"
  BY <1>1, <1>3, <1>4, <1>5, MovedFields
<1>6. ASSUME NEW t, NEW d, d = commands'[i], Fixing(commands[i], t, stored[t].topic_title)
      PROVE  Fixing(d, t, stored[t].topic_title)
  BY <1>1, <1>5, <1>6 DEF Fixing
<1> QED
  BY <1>1, <1>3, <1>4, <1>5, <1>6, NothingNamed DEF Awaiting, Trying

\* Handlers that bind a topic, or a chat, and the renaming that binds again.
LEMMA BindersName ==
  ASSUME NamesInv, CommandsTypeOK', NEW i \in Asked, ClearContext(i) \/ SetContext(i) \/ BindNew(i) \/ HandoffBinds(i)
  PROVE  NamesInv'
<1>1. /\ CommandOK(commands[i]) /\ Asks(i) = commands[i].asks /\ Asks(i).place \in Place
      /\ Asks(i).arg \in Arguments(Asks(i).kind) /\ ForumTopics \subseteq Topic /\ 0 \notin Topic
  BY CommandTyped DEF NamesInv
<1>2. forum' = forum /\ ForumTopics' = ForumTopics
  BY DEF ClearContext, SetContext, BindNew, HandoffBinds, topicVars, ForumTopics
<1>3. "alone" \notin DOMAIN Done /\ "asks" \notin DOMAIN Done /\ "pc" \in DOMAIN Done /\ Done["pc"] = "done"
  BY DEF Done
<1>4. CASE ClearContext(i)
  <2> PICK p : p = Asks(i).place
    OBVIOUS
  <2>1. /\ Asks(i).kind = "unbind" /\ commands[i].pc = "asked" /\ misnamed' = misnamed
        /\ Stores(p, "context", None) /\ Meets(i, p, "context", Done)
    BY <1>4 DEF ClearContext, Is, topicVars
  <2>2. /\ stored'[p].context = None /\ stored'[p].topic_title = stored[p].topic_title
        /\ \A q \in Place \ {p} : stored'[q] = stored[q]
    BY <1>1, <2>1, StoresTyped DEF NamesInv
  <2>3. Moved(i, Done)
    BY <2>1, DoneMoves DEF NamesInv, CommandsTypeOK
  <2>4. \A t, title : ~Fixing(commands[i], t, title)
    BY <1>1, <2>1 DEF Fixing
  <2>5. ASSUME p \in ForumTopics \ misnamed PROVE Told(p)'
    <3>1. Told(p) /\ stored'[p].topic_title = stored[p].topic_title /\ stored'[p].context = None
      BY <2>2, <2>5 DEF NamesInv, NamesTold
    <3> QED
      BY <1>2, <2>3, <2>4, <3>1, ToldStays
  <2> QED
    BY <1>1, <1>2, <1>3, <2>1, <2>2, <2>5, ContextNames
<1>5. CASE SetContext(i)
  <2> PICK p, c : p = Asks(i).place /\ c = Asks(i).arg
    OBVIOUS
  <2>1. /\ Asks(i).kind = "bind" /\ commands[i].pc = "asked" /\ misnamed' = misnamed /\ Stores(p, "context", c)
        /\ Meets(i, p, "context", IF p = 0 THEN Done ELSE [pc |-> "title"])
    BY <1>5 DEF SetContext, Is, topicVars
  <2>2. c \in Context
    BY <1>1, <2>1 DEF Arguments
  <2>3. /\ stored'[p].context = c /\ stored'[p].topic_title = stored[p].topic_title
        /\ \A q \in Place \ {p} : stored'[q] = stored[q]
    BY <1>1, <2>1, <2>2, StoresTyped DEF NamesInv
  <2>4. PICK f : f = IF p = 0 THEN Done ELSE [pc |-> "title"]
    OBVIOUS
  <2>5. /\ "alone" \notin DOMAIN f /\ "asks" \notin DOMAIN f /\ "pc" \in DOMAIN f
        /\ f["pc"] = IF p = 0 THEN "done" ELSE "title"
    BY <1>3, <2>4
  <2>6. Moved(i, f)
    BY <2>1, <2>4, <2>5, MeetsMoves DEF NamesInv, CommandsTypeOK
  <2>7. ASSUME p \in ForumTopics \ misnamed PROVE Told(p)'
    <3>1. p # 0
      BY <1>1, <2>7
    <3>2. \A d : d = commands'[i] => d.asks = Asks(i) /\ d.pc = "title"
      BY <1>1, <2>5, <2>6, <3>1, MovedFields
    <3>3. Told(p) /\ stored'[p].topic_title = stored[p].topic_title /\ stored'[p].context = c /\ forum'[p] = forum[p]
      BY <1>2, <2>3, <2>7 DEF NamesInv, NamesTold
    <3>4. CASE c # stored[p].topic_title
      <4>1. i \in Asked' /\ \A d : d = commands'[i] => Fixing(d, p, stored'[p].topic_title)
        BY <2>1, <2>6, <2>7, <3>2, <3>3, <3>4 DEF Fixing, Moved
      <4>2. \E k \in Asked' : \E d : d = commands'[k] /\ Fixing(d, p, stored'[p].topic_title)
        BY <4>1
      <4> QED
        BY <4>2 DEF Told, Fixing
    <3>5. CASE \E j \in Asked : Fixing(commands[j], p, stored[p].topic_title)
      <4>1. PICK j \in Asked : Fixing(commands[j], p, stored[p].topic_title)
        BY <3>5
      <4>2. j # i
        BY <2>1, <4>1 DEF Fixing
      <4>3. \E k \in Asked' : \E d : d = commands'[k] /\ Fixing(d, p, stored[p].topic_title)
        BY <2>6, <4>1, <4>2, FixersStay
      <4> QED
        BY <3>3, <4>3 DEF Told, Fixing
    <3>6. CASE c = stored[p].topic_title /\ ~\E j \in Asked : Fixing(commands[j], p, stored[p].topic_title)
      BY <3>3, <3>6 DEF Told
    <3> QED
      BY <3>4, <3>5, <3>6
  <2>8. Meets(i, p, "context", f) /\ f["pc"] \notin {"drop", "set", "try"}
    BY <2>1, <2>4, <2>5
  <2>9. commands[i].asks.kind = "bind" => commands[i].asks.place = p
    BY <1>1
  <2> QED
    BY <1>1, <1>2, <2>1, <2>3, <2>5, <2>7, <2>8, <2>9, ContextNames
<1>6. CASE BindNew(i)
  <2>1. PICK t, c, name : t = commands[i].thread /\ c = NewContext(i) /\ name = commands[i].title
    OBVIOUS
  <2>2. /\ commands[i].pc = "set" /\ Meets(i, t, "context", Done)
        /\ misnamed' = (IF commands[i].alone THEN misnamed ELSE misnamed \cup {t})
        /\ stored' = [stored EXCEPT ![t].context = c, ![t].topic_title = name]
    BY <1>6, <2>1 DEF BindNew
  <2>3. /\ t \in ForumTopics /\ c \in Context /\ name \in Title /\ name \in {OtherTitle, c}
        /\ Asks(i).kind # "bind"
    BY <1>1, <2>2, <2>1 DEF CommandOK, NewContext, BoundTo, Title
  <2>4. /\ t \in Place /\ stored'[t].context = c /\ stored'[t].topic_title = name
        /\ \A q \in Place \ {t} : stored'[q] = stored[q]
    <3>1. CommandsTypeOK /\ stored' = [stored EXCEPT ![t].context = c, ![t].topic_title = name]
      BY <2>2 DEF NamesInv
    <3>2. c \in Context \cup {None} /\ name \in Title
      BY <2>3
    <3> QED
      BY <2>3, <3>1, <3>2, BindingTyped
  <2>5. ASSUME t \in ForumTopics \ misnamed' PROVE Told(t)'
    <3>1. forum[t] \in {name, Gone}
      BY <2>2, <2>3, <2>5, <2>1 DEF NamesInv, NewTopicsUntouched, Untouched, Awaiting
    <3> QED
      BY <1>2, <2>3, <2>4, <2>5, <3>1 DEF Told
  <2>6. misnamed \subseteq misnamed' \cup {t}
    BY <2>2
  <2> QED
    BY <1>1, <1>2, <1>3, <2>2, <2>3, <2>4, <2>5, <2>6, ContextNames
<1>7. CASE HandoffBinds(i)
  <2>1. PICK t, c : t = commands[i].thread /\ c = Asks(i).arg
    OBVIOUS
  <2>2. /\ commands[i].pc = "bind" /\ Asks(i).kind = "handoff" /\ Meets(i, t, "context", [pc |-> "engine"])
        /\ misnamed' = misnamed
        /\ stored' = [stored EXCEPT ![t].context = c, ![t].topic_title = OtherTitle]
    BY <1>7, <2>1 DEF HandoffBinds, Is, topicVars
  <2>3. t \in ForumTopics /\ c \in Context \cup {None} /\ OtherTitle \in Title
    BY <1>1, <2>2, <2>1 DEF CommandOK, Arguments, Title
  <2>4. /\ t \in Place /\ stored'[t].topic_title = OtherTitle /\ \A q \in Place \ {t} : stored'[q] = stored[q]
    <3>1. CommandsTypeOK /\ stored' = [stored EXCEPT ![t].context = c, ![t].topic_title = OtherTitle]
      BY <2>2 DEF NamesInv
    <3> QED
      BY <2>3, <3>1, BindingTyped
  <2>5. Told(t)'
    BY <2>4 DEF Told
  <2>6. PICK f : f = [pc |-> "engine"]
    OBVIOUS
  <2>7. /\ "alone" \notin DOMAIN f /\ "asks" \notin DOMAIN f /\ "pc" \in DOMAIN f /\ f["pc"] = "engine"
        /\ Meets(i, t, "context", f)
    BY <2>2, <2>6
  <2> QED
    BY <1>1, <1>2, <2>2, <2>4, <2>5, <2>7, ContextNames
<1> QED
  BY <1>4, <1>5, <1>6, <1>7

LEMMA RenamedNames ==
  ASSUME NamesInv, CommandsTypeOK', NEW i \in Asked, RenameReturns(i)
  PROVE  NamesInv'
<1>1. PICK t, c : t = Asks(i).place /\ c = Asks(i).arg
  OBVIOUS
<1>2. /\ commands[i].asks.kind = "bind" /\ commands[i].asks.place = t /\ commands[i].pc = "edit"
      /\ commands[i].asks = Asks(i)
  BY <1>1 DEF RenameReturns, Is, Asks
<1>3. t \in ForumTopics /\ c \in Context /\ t \in Place
  <2>1. CommandOK(commands[i]) /\ Asks(i).arg \in Arguments(Asks(i).kind)
    BY CommandTyped DEF NamesInv
  <2>2. t \in ForumTopics
    BY <1>2, <2>1 DEF CommandOK
  <2>3. c \in Context
    BY <1>1, <1>2, <2>1 DEF Arguments
  <2> QED
    BY <2>2, <2>3, ForumPlaces DEF NamesInv
<1>4. /\ "alone" \notin DOMAIN Done /\ "asks" \notin DOMAIN Done /\ "pc" \in DOMAIN Done /\ Done["pc"] = "done"
  BY DEF Done
<1>5. CASE NotRenamed(t) /\ Goes(i, Done) /\ UNCHANGED stored
  <2>1. misnamed' = misnamed \cup {t} /\ forum' = forum
    BY <1>5 DEF NotRenamed
  <2>2. Moved(i, Done) /\ \A d : d = commands'[i] => d.pc = "done"
    BY <1>4, <1>5, DoneMoves, MovedFields DEF NamesInv, CommandsTypeOK
  <2>3. \A u \in ForumTopics \ misnamed' : ~Fixing(commands[i], u, stored[u].topic_title)
    BY <1>2, <2>1 DEF Fixing
  <2> QED
    BY <1>4, <1>5, <2>1, <2>2, <2>3, NothingNamed DEF Awaiting, Trying
<1>6. CASE /\ Renamed(t, c) /\ Meets(i, t, "context", Done)
           /\ stored' = [stored EXCEPT ![t].topic_title = _topic_title(c), ![t].context = c]
  <2>1. forum' = [forum EXCEPT ![t] = c] /\ misnamed' = misnamed \ {t}
    BY <1>6 DEF Renamed, _topic_title
  <2>2. /\ forum'[t] = c /\ ForumTopics' = ForumTopics /\ \A q \in ForumTopics \ {t} : forum'[q] = forum[q]
    BY <1>3, <2>1, ForumRenamed DEF Title, NamesInv
  <2>3. stored \in [Place -> Settings]
    BY DEF NamesInv, CommandsTypeOK, StoresOK
  <2>4. stored[t] \in Settings
    BY <1>3, <2>3
  <2>5. stored'[t] = [[stored[t] EXCEPT !.topic_title = c] EXCEPT !.context = c]
        /\ \A q \in Place \ {t} : stored'[q] = stored[q]
    BY <1>3, <1>6, <2>3 DEF _topic_title
  <2>6. stored'[t].topic_title = c /\ stored'[t].context = c
    BY <2>4, <2>5 DEF Settings
  <2>7. Told(t)'
    BY <2>2, <2>6 DEF Told
  <2> QED
    BY <1>2, <1>3, <1>4, <1>6, <2>1, <2>2, <2>5, <2>7, ContextNames
<1> QED
  BY <1>1, <1>5, <1>6 DEF RenameReturns

\* /topic has renamed the topic that it found to the context that it was bound to.
LEMMA TryNames ==
  ASSUME NamesInv, CommandsTypeOK', NEW i \in Asked, TryTopic(i)
  PROVE  NamesInv'
<1>1. PICK t, c : t = commands[i].seen /\ c = Asks(i).arg
  OBVIOUS
<1>2. commands[i].asks.kind = "topic" /\ commands[i].pc = "try" /\ commands[i].asks = Asks(i) /\ stored' = stored
  BY DEF TryTopic, Is, Asks
<1>3. t \in ForumTopics /\ c \in Context
  <2>1. CommandOK(commands[i]) /\ Asks(i).arg \in Arguments(Asks(i).kind)
    BY CommandTyped DEF NamesInv
  <2>2. t \in ForumTopics
    BY <1>1, <1>2, <2>1 DEF CommandOK
  <2> QED
    BY <1>1, <1>2, <2>1, <2>2 DEF Arguments
<1>4. \A u, title : ~Fixing(commands[i], u, title)
  BY <1>2 DEF Fixing
<1>5. CASE UNCHANGED topicVars /\ Goes(i, [pc |-> "create"])
  <2>1. PICK f : f = [pc |-> "create"]
    OBVIOUS
  <2>2. "alone" \notin DOMAIN f /\ "asks" \notin DOMAIN f /\ "pc" \in DOMAIN f /\ f["pc"] = "create" /\ Goes(i, f)
    BY <1>5, <2>1
  <2>3. Moved(i, f) /\ forum' = forum /\ misnamed' = misnamed
    BY <1>5, <2>2, GoesMoves DEF NamesInv, CommandsTypeOK, topicVars
  <2> QED
    BY <1>2, <2>2, <2>3, NoNames
<1>6. CASE /\ forum[t] # Gone /\ Goes(i, Done) /\ forum' = [forum EXCEPT ![t] = c]
           /\ misnamed' = IF stored[t].context = c THEN misnamed ELSE misnamed \cup {t}
  <2>1. Moved(i, Done)
    BY <1>6, DoneMoves DEF NamesInv, CommandsTypeOK
  <2>2. /\ forum'[t] = c /\ ForumTopics' = ForumTopics /\ \A q \in ForumTopics \ {t} : forum'[q] = forum[q]
    BY <1>3, <1>6, ForumRenamed DEF Title, NamesInv
  <2>3. ASSUME t \notin misnamed' PROVE Told(t)'
    <3>1. Told(t) /\ stored[t].context = c /\ c # None
      BY <1>3, <1>6, <2>3, ChatAssumption DEF NamesInv, NamesTold
    <3>2. CASE \E j \in Asked : Fixing(commands[j], t, stored[t].topic_title)
      <4>1. \E k \in Asked' : \E d : d = commands'[k] /\ Fixing(d, t, stored[t].topic_title)
        BY <1>4, <2>1, <3>2, FixersStay
      <4> QED
        BY <1>2, <4>1 DEF Told, Fixing
    <3>3. CASE ~\E j \in Asked : Fixing(commands[j], t, stored[t].topic_title)
      BY <1>2, <1>6, <2>2, <3>1, <3>3 DEF Told
    <3> QED
      BY <3>2, <3>3
  <2>4. \A d : d = commands'[i] => d.pc = "done"
    BY <2>1, MovedFields DEF Done
  <2>5. \A d : d = commands'[i] => ~Awaiting(d) /\ ~Trying(d)
    BY <2>4 DEF Awaiting, Trying
  <2>6. ASSUME NEW j \in Asked, NEW e, e = commands[j], Awaiting(e) PROVE e.thread \in ForumTopics \ {t}
    <3>1. e.thread \in ForumTopics
      BY <2>6, CommandTyped DEF NamesInv, CommandOK, Awaiting
    <3>2. Untouched(e)
      BY <2>6 DEF NamesInv, NewTopicsUntouched
    <3> QED
      BY <1>1, <1>2, <3>1, <3>2 DEF Untouched, Trying
  <2>7. ASSUME NEW u \in ForumTopics' \ misnamed', u # t
        PROVE  u \in ForumTopics \ misnamed /\ forum'[u] = forum[u]
    BY <1>6, <2>2, <2>7
  <2>8. ASSUME NEW j \in Asked \ {i}, NEW e, e = commands[j], Awaiting(e)
        PROVE  forum'[e.thread] = forum[e.thread] /\ stored'[e.thread] = stored[e.thread]
    BY <1>2, <2>2, <2>6, <2>8
  <2> QED
    BY <1>2, <1>4, <2>1, <2>3, <2>5, <2>7, <2>8, NamesFollow
<1> QED
  BY <1>1, <1>5, <1>6 DEF TryTopic, _topic_title

\* Topics are made.
LEMMA MakersName ==
  ASSUME NamesInv, CommandsTypeOK', NEW i \in Asked, CreateReturns(i) \/ HandoffCreates(i)
  PROVE  NamesInv'
<1>1. CommandOK(commands[i]) /\ Asks(i) = commands[i].asks /\ Asks(i).arg \in Arguments(Asks(i).kind)
  BY CommandTyped DEF NamesInv
<1>2. commands[i].asks.kind # "bind" /\ stored' = stored /\ misnamed' = misnamed
  BY <1>1 DEF CommandOK, CreateReturns, HandoffCreates, Is
<1>3. "alone" \notin DOMAIN Done /\ "asks" \notin DOMAIN Done /\ "pc" \in DOMAIN Done /\ Done["pc"] = "done"
  BY DEF Done
<1>4. CASE Goes(i, Done) /\ UNCHANGED forum
  <2>1. Moved(i, Done)
    BY <1>4, DoneMoves DEF NamesInv, CommandsTypeOK
  <2> QED
    BY <1>2, <1>3, <1>4, <2>1, NoNames
<1>5. ASSUME Len(forum) + 1 \in Topic, NEW name \in Title, forum' = Append(forum, name),
             NEW f, Goes(i, f), "alone" \notin DOMAIN f, "asks" \notin DOMAIN f, "pc" \in DOMAIN f, f["pc"] # "try",
             f["pc"] \in {"drop", "set"} =>
               {"thread", "title"} \subseteq DOMAIN f /\ f["thread"] = Len(forum) + 1 /\ f["title"] = name
      PROVE  NamesInv'
  <2>1. Moved(i, f)
    BY <1>5, GoesMoves DEF NamesInv, CommandsTypeOK
  <2> QED
    BY <1>2, <1>5, <2>1, MadeNames
<1>6. CASE HandoffCreates(i)
  <2>1. CASE Len(forum) + 1 \in Topic /\ forum' = Append(forum, OtherTitle)
             /\ Goes(i, [pc |-> "bind", thread |-> Len(forum) + 1])
    <3>1. PICK f : f = [pc |-> "bind", thread |-> Len(forum) + 1]
      OBVIOUS
    <3>2. /\ Goes(i, f) /\ "alone" \notin DOMAIN f /\ "asks" \notin DOMAIN f /\ "pc" \in DOMAIN f /\ f["pc"] = "bind"
      BY <2>1, <3>1
    <3>3. OtherTitle \in Title
      BY DEF Title
    <3> QED
      BY <1>5, <2>1, <3>2, <3>3
  <2> QED
    BY <1>4, <1>6, <2>1 DEF HandoffCreates
<1>7. CASE CreateReturns(i)
  <2>1. ASSUME Len(forum) + 1 \in Topic, NEW name \in NewTitle(i), forum' = Append(forum, name),
               Goes(i, IF NewContext(i) = None THEN Done
                       ELSE [pc |-> IF Stale(i) # 0 THEN "drop" ELSE "set",
                             thread |-> Len(forum) + 1, title |-> name])
        PROVE  NamesInv'
    <3>1. name \in Title
      <4>1. Asks(i).kind \in {"topic", "fork", "create"}
        BY <1>1, <1>7 DEF CommandOK, CreateReturns
      <4>2. Asks(i).kind # "fork" => Asks(i).arg \in Context
        BY <1>1, <4>1 DEF Arguments
      <4> QED
        BY <2>1, <4>1, <4>2 DEF NewTitle, _topic_title, Title
    <3>2. PICK f : f = [pc |-> IF Stale(i) # 0 THEN "drop" ELSE "set", thread |-> Len(forum) + 1, title |-> name]
      OBVIOUS
    <3>3. /\ "alone" \notin DOMAIN f /\ "asks" \notin DOMAIN f /\ "pc" \in DOMAIN f /\ f["pc"] # "try"
          /\ {"thread", "title"} \subseteq DOMAIN f /\ f["thread"] = Len(forum) + 1 /\ f["title"] = name
      BY <3>2
    <3>4. Goes(i, Done) \/ Goes(i, f)
      BY <2>1, <3>2
    <3> QED
      BY <1>3, <1>5, <2>1, <3>1, <3>3, <3>4
  <2> QED
    BY <1>4, <1>7, <2>1 DEF CreateReturns
<1> QED
  BY <1>6, <1>7

LEMMA DeletersName ==
  ASSUME NamesInv, CommandsTypeOK', NEW i \in Asked, DropStale(i) \/ DeleteFound(i) \/ HandoffRetries(i)
  PROVE  NamesInv'
<1>1. CommandOK(commands[i]) /\ Asks(i) = commands[i].asks
  BY CommandTyped DEF NamesInv
<1>2. forum' = forum /\ misnamed' = misnamed
  BY DEF DropStale, DeleteFound, HandoffRetries, topicVars
<1>3. ASSUME NEW f, NEW t \in ForumTopics \cup {0}, Deletes(i, t), Goes(i, f), "alone" \notin DOMAIN f,
             "asks" \notin DOMAIN f, "pc" \in DOMAIN f, commands[i].asks.kind # "bind",
             \/ f["pc"] \notin {"drop", "set", "try"}
             \/ f = [pc |-> "set"] /\ commands[i].pc = "drop"
      PROVE  NamesInv'
  <2>1. t \in Place
    BY ForumPlaces DEF NamesInv
  <2>2. Moved(i, f)
    BY <1>3, GoesMoves DEF NamesInv, CommandsTypeOK
  <2> QED
    BY <1>2, <1>3, <2>1, <2>2, DeletedNames
<1>4. CASE DropStale(i)
  <2>1. commands[i].pc = "drop" /\ Deletes(i, Stale(i)) /\ Goes(i, [pc |-> "set"])
    BY <1>4 DEF DropStale
  <2>2. Stale(i) \in ForumTopics \cup {0} /\ commands[i].asks.kind # "bind"
    BY <1>1, <2>1 DEF CommandOK, Stale
  <2>3. PICK f : f = [pc |-> "set"]
    OBVIOUS
  <2> QED
    BY <1>3, <2>1, <2>2, <2>3
<1>5. CASE DeleteFound(i)
  <2>1. Asks(i).kind = "delete" /\ commands[i].pc = "forget" /\ Deletes(i, commands[i].seen) /\ Goes(i, Done)
    BY <1>5 DEF DeleteFound, Is
  <2>2. commands[i].seen \in ForumTopics
    BY <1>1, <2>1 DEF CommandOK
  <2> QED
    BY <1>1, <1>3, <2>1, <2>2 DEF Done
<1>6. CASE HandoffRetries(i)
  <2>1. /\ Asks(i).kind = "handoff" /\ commands[i].pc = "send" /\ Deletes(i, commands[i].thread)
        /\ Goes(i, [pc |-> "make", tries |-> 1])
    BY <1>6 DEF HandoffRetries, Is
  <2>2. commands[i].thread \in ForumTopics
    BY <1>1, <2>1 DEF CommandOK
  <2>3. PICK f : f = [pc |-> "make", tries |-> 1]
    OBVIOUS
  <2> QED
    BY <1>1, <1>3, <2>1, <2>2, <2>3
<1> QED
  BY <1>4, <1>5, <1>6

LEMMA UserNames ==
  ASSUME NamesInv, CommandsTypeOK', DeletedByUser
  PROVE  NamesInv'
<1>1. PICK t \in ForumTopics : forum' = [forum EXCEPT ![t] = Gone]
  BY DEF DeletedByUser, ForumTopics
<1>2. UNCHANGED <<stored, commands, misnamed>>
  BY DEF DeletedByUser, chatVars
<1>3. ForumTopics' = ForumTopics /\ forum'[t] = Gone /\ \A q \in ForumTopics \ {t} : forum'[q] = forum[q]
  BY <1>1, ForumRenamed DEF NamesInv
<1>4. NamesTold'
  BY <1>2, <1>3 DEF NamesInv, NamesTold, Told, Fixing, Asked
<1>5. ASSUME NEW i \in Asked, Awaiting(commands[i]) PROVE forum'[commands[i].thread] \in {commands[i].title, Gone}
  <2>1. commands[i].thread \in ForumTopics
    BY <1>5, CommandTyped DEF NamesInv, CommandOK, Awaiting
  <2>2. forum[commands[i].thread] \in {commands[i].title, Gone}
    BY <1>5 DEF NamesInv, NewTopicsUntouched, Untouched
  <2> QED
    BY <1>3, <2>1, <2>2
<1>6. NewTopicsUntouched'
  BY <1>2, <1>5 DEF NamesInv, NewTopicsUntouched, Untouched, Awaiting, Trying, Asked
<1> QED
  BY <1>4, <1>6 DEF NamesInv

LEMMA AskNames ==
  ASSUME NamesInv, CommandsTypeOK', NEW r \in Requests, Dispatch(r), UNCHANGED topicVars
  PROVE  NamesInv'
<1>1. commands' = Append(commands, Command(r)) /\ UNCHANGED <<stored, forum, misnamed>>
  BY DEF Dispatch, Ask, topicVars
<1>2. PICK S : commands \in Seq(S)
  BY DEF NamesInv, CommandsTypeOK, CommandsOK
<1>3. PICK c : c = Command(r) /\ c.pc = "asked"
  <2>1. Command(r).pc = "asked"
    BY DEF Command
  <2> QED
    BY <2>1
<1>4. /\ \A j \in Asked' : (j \in Asked /\ commands'[j] = commands[j]) \/ commands'[j] = c
      /\ \A j \in Asked : j \in Asked' /\ commands'[j] = commands[j]
  BY <1>1, <1>2, <1>3 DEF Asked
<1>5. ~Awaiting(c) /\ ~Trying(c) /\ \A t, title : ~Fixing(c, t, title)
  BY <1>3 DEF Awaiting, Trying, Fixing
<1>6. NamesTold'
  <2> SUFFICES ASSUME NEW t \in ForumTopics \ misnamed PROVE Told(t)'
    BY <1>1 DEF NamesTold, ForumTopics
  <2>1. Told(t)
    BY DEF NamesInv, NamesTold
  <2> QED
    BY <1>1, <1>4, <2>1 DEF Told, Fixing
<1>7. NewTopicsUntouched'
  <2> SUFFICES ASSUME NEW j \in Asked', Awaiting(commands[j])' PROVE Untouched(commands[j])'
    BY DEF NewTopicsUntouched
  <2>1. PICK d : d = commands'[j]
    OBVIOUS
  <2>2. Awaiting(d)
    BY <2>1 DEF Awaiting
  <2>3. Untouched(d)
    BY <1>4, <1>5, <2>1, <2>2 DEF NamesInv, NewTopicsUntouched
  <2>4. \A k \in Asked' : Trying(commands'[k]) => commands'[k].seen # d.thread
    BY <1>4, <1>5, <2>3 DEF Untouched
  <2> QED
    BY <1>1, <2>1, <2>3, <2>4 DEF Untouched, Trying
<1> QED
  BY <1>6, <1>7 DEF NamesInv

LEMMA NamesHold == NamesInv /\ [CommandsNext]_commandVars => NamesInv'
<1> SUFFICES ASSUME NamesInv, [CommandsNext]_commandVars PROVE NamesInv'
  OBVIOUS
<1>1. CommandsTypeOK'
  BY TypesHold DEF NamesInv
<1>2. CASE UNCHANGED commandVars
  BY <1>1, <1>2 DEF commandVars, chatVars, topicVars, NamesInv, NamesTold, Told, Fixing, NewTopicsUntouched,
                    Untouched, Awaiting, Trying, Asked, ForumTopics
<1>3. ASSUME NEW r \in Requests, Dispatch(r), UNCHANGED topicVars PROVE NamesInv'
  BY <1>1, <1>3, AskNames
<1>4. CASE UNCHANGED topicVars /\ ((\E i \in Asked : Refuse(i)) \/ SettingsNext)
  BY <1>1, <1>4, OthersNames DEF SettingsNext
<1>5. CASE TopicNext
  <2>1. ASSUME NEW i \in Asked, ReadForked(i) \/ BeginCreate(i) \/ FindDeleted(i) PROVE NamesInv'
    BY <1>1, <2>1, OthersNames DEF ReadForked, BeginCreate, FindDeleted
  <2> QED
    BY <1>1, <1>5, <2>1, BindersName, TitleNames, RenamedNames, FindNames, TryNames, MakersName, DeletersName,
       UserNames DEF TopicNext
<1>6. CASE HandoffNext
  <2>1. ASSUME NEW i \in Asked, FindHandoff(i) \/ HandoffEngine(i) \/ HandoffModel(i) \/ HandoffEnds(i) PROVE NamesInv'
    BY <1>1, <2>1, OthersNames DEF FindHandoff, HandoffEngine, HandoffModel, HandoffEnds
  <2> QED
    BY <1>1, <1>6, <2>1, BindersName, MakersName, DeletersName DEF HandoffNext
<1> QED
  BY <1>2, <1>3, <1>4, <1>5, <1>6 DEF CommandsNext

LEMMA NamesInitially == CommandsInit => NamesInv
<1> SUFFICES ASSUME CommandsInit PROVE NamesInv
  OBVIOUS
<1>1. stored = [p \in Place |-> Blank] /\ commands = <<>> /\ Asked = {}
  BY DEF CommandsInit, ChatInit, Asked
<1>2. CommandsTypeOK
  BY TypesInitial
<1>3. \A t \in ForumTopics : stored[t].topic_title = None
  BY <1>1, <1>2, ForumPlaces DEF Blank
<1>4. NamesTold
  BY <1>3 DEF NamesTold, Told
<1> QED
  BY <1>1, <1>2, <1>4 DEF NamesInv, NewTopicsUntouched

\* Once no handler is about to bind a topic, its name on Telegram tells the context that it
\* is bound to, unless a renaming failed or a handler that was no longer up to date made it.
THEOREM NamesTellTheContexts == CommandsSpec => []NamesTellContexts
<1>1. CommandsSpec => []NamesInv
  BY NamesInitially, NamesHold, PTL DEF CommandsSpec
<1> QED
  BY <1>1, NamesInvTells, PTL
================================================================================
