--------------------------- MODULE JobServerProofs ---------------------------
(***************************************************************************)
(* JobServer for every set of jobs and clients, and every number of        *)
(* callbacks, failed saves, stops and crashes.                             *)
(***************************************************************************)
EXTENDS JobServer, TLAPS

(* Who waits for a save waits for it where persistJobs was called.         *)
Waiting ==
    /\ ~Up => /\ pending = {} /\ \A c \in Clients : req[c] = Idle
              /\ \A j \in Jobs : pc[j] \in {"new", "gone"}
    /\ \A j \in Jobs : Caller("enqueue", j) \in pending => pc[j] = "saving"
    /\ \A j \in Jobs : Caller("finish", j) \in pending => pc[j] = "finish"
    /\ \A c \in Clients : Caller("client", c) \in pending => req[c] # Idle

LEMMA SnapshotIsList == ASSUME TypeOK PROVE IsList(Snapshot)
<1> QED BY DEF TypeOK, Snapshot, IsList, Entry

(* Type correctness.                                                       *)

LEMMA TypeInit == Init => TypeOK
<1> SUFFICES ASSUME Init PROVE TypeOK
  OBVIOUS
<1>1. IsList(disk) /\ DOMAIN copies = {}
  BY DEF Init, IsList
<1>2. req \in [Clients -> Requests]
  BY DEF Init, Requests
<1> QED BY <1>1, <1>2 DEF Init, TypeOK, PCs

LEMMA TypeEnqueue == ASSUME TypeOK, NEW j \in Jobs, EnqueueJob(j) PROVE TypeOK'
<1> USE DEF TypeOK, Step, PCs, jobFields, saveVars
<1>1. CASE Reserve(j)
  BY <1>1 DEF Reserve
<1>2. CASE List(j)
  BY <1>2 DEF List, Caller, Callers
<1>3. CASE Undo(j)
  BY <1>3 DEF Undo
<1>4. CASE Start(j)
  BY <1>4 DEF Start
<1>5. CASE Launch(j)
  BY <1>5 DEF Launch
<1> QED BY <1>1, <1>2, <1>3, <1>4, <1>5 DEF EnqueueJob

LEMMA TypeRun == ASSUME TypeOK, NEW j \in Jobs, RunJob(j) PROVE TypeOK'
<1> USE DEF TypeOK, Step, PCs, jobFields, saveVars, Caller, Callers, Final
<1>1. CASE Callback(j)
  BY <1>1 DEF Callback
<1>2. CASE RunReturns(j)
  <2>1. status' \in [Jobs -> {"running"} \cup Final]
    BY <1>2 DEF RunReturns
  <2> QED BY <1>2, <2>1 DEF RunReturns
<1> QED BY <1>1, <1>2 DEF RunJob

LEMMA TypeClient == ASSUME TypeOK, NEW c \in Clients, Client(c) PROVE TypeOK'
<1>0. PICK j \in Jobs : CancelJob(c, j) \/ ArchiveJob(c, j) \/ DeleteJob(c, j)
  BY DEF Client
<1> DEFINE Taken(op) == req' = [req EXCEPT ![c] = [op |-> op, job |-> j]]
<1>1. \E op \in {"cancel", "archive", "delete"} : Taken(op)
  BY <1>0 DEF CancelJob, ArchiveJob, DeleteJob, Asks
<1>2. req' \in [Clients -> Requests]
  BY <1>1 DEF TypeOK, Requests
<1>3. pending' = pending \cup {Caller("client", c)} /\ Caller("client", c) \in Callers
  BY <1>0 DEF CancelJob, ArchiveJob, DeleteJob, Asks, Caller, Callers
<1>4. UNCHANGED <<server, seq, id, progress, hasCancel, pc, copies, disk, promised, lastOk,
                  failures, stops>>
  BY <1>0 DEF CancelJob, ArchiveJob, DeleteJob, Asks
<1>5. /\ status' \in [Jobs -> {"running"} \cup Final] /\ archived' \in [Jobs -> BOOLEAN]
      /\ listed' \in SUBSET Jobs
  BY <1>0 DEF CancelJob, ArchiveJob, DeleteJob, TypeOK, Final
<1>6. cancelled' \in [Jobs -> BOOLEAN]
  BY <1>0 DEF CancelJob, ArchiveJob, DeleteJob, TypeOK
<1> QED BY <1>2, <1>3, <1>4, <1>5, <1>6 DEF TypeOK, IsList

LEMMA TypeSave ==
    ASSUME TypeOK, Waiting, NEW a \in Callers, SaveBegin(a) \/ Save(a) PROVE TypeOK'
<1>1. CASE SaveBegin(a)
  <2>1. DOMAIN copies' = {a} /\ copies'[a] = Snapshot
    BY <1>1 DEF SaveBegin
  <2> QED BY <1>1, <2>1, SnapshotIsList DEF SaveBegin, TypeOK, jobFields, IsList
<1>2. CASE Save(a)
  <2>1. \E success \in BOOLEAN : Resume(a, success)
    BY <1>2 DEF Save, SaveSucceeds, SaveFails
  <2>2. /\ pending' = pending \ {a} /\ a \in pending \cap DOMAIN copies
        /\ copies' = [b \in DOMAIN copies \ {a} |-> copies[b]]
    BY <1>2 DEF Save, SaveSucceeds, SaveFails, Resume, Unlock
  <2>3. UNCHANGED <<server, seq, listed, jobFields, stops>>
    BY <2>1 DEF Resume
  <2>4. pc' \in [Jobs -> PCs] /\ req' \in [Clients -> Requests]
    BY <2>1 DEF Resume, TypeOK, PCs, Requests, Callers
  <2>5. DOMAIN copies' = {}
    BY <2>2 DEF TypeOK
  <2>6. IsList(disk')
    BY <1>2, <2>2 DEF Save, SaveSucceeds, SaveFails, TypeOK, IsList
  <2>7. promised' \in SUBSET [op : {"run", "cancel", "archive", "delete"}, job : Jobs]
    <3>1. CASE a.kind = "client"
      <4>1. a.of \in Clients /\ a = Caller("client", a.of)
        BY <3>1 DEF Callers, Caller
      <4>2. req[a.of] # Idle /\ req[a.of] \in Requests
        BY <2>2, <4>1 DEF Waiting, TypeOK
      <4>3. req[a.of] \in [op : {"cancel", "archive", "delete"}, job : Jobs]
        BY <4>2 DEF Requests
      <4>4. promised' = promised \cup {req[a.of]} \/ promised' = promised
        BY <1>2, <3>1 DEF Save, SaveSucceeds, SaveFails
      <4> QED BY <4>3, <4>4 DEF TypeOK
    <3>2. CASE a.kind = "enqueue"
      <4>1. a.of \in Jobs
        BY <3>2 DEF Callers
      <4>2. promised' = promised \cup {[op |-> "run", job |-> a.of]} \/ promised' = promised
        BY <1>2, <3>2 DEF Save, SaveSucceeds, SaveFails
      <4> QED BY <4>1, <4>2 DEF TypeOK
    <3>3. CASE a.kind \notin {"client", "enqueue"}
      <4>1. promised' = promised \cup {} \/ promised' = promised
        BY <1>2, <3>3 DEF Save, SaveSucceeds, SaveFails
      <4> QED BY <4>1 DEF TypeOK
    <3> QED BY <3>1, <3>2, <3>3
  <2>8. lastOk' \in BOOLEAN /\ failures' \in Nat
    <3>1. failures' \in {failures, failures + 1}
      BY <1>2 DEF Save, SaveSucceeds, SaveFails
    <3>2. lastOk' \in BOOLEAN
      BY <1>2, Zenon DEF Save, SaveSucceeds, SaveFails
    <3>3. failures \in Nat
      BY DEF TypeOK
    <3>4. failures' \in Nat
      BY <3>1, <3>3
    <3> QED BY <3>2, <3>4
  <2> QED BY <2>2, <2>3, <2>4, <2>5, <2>6, <2>7, <2>8 DEF TypeOK, jobFields, IsList
<1> QED BY <1>1, <1>2

(* What a restart loads: the file, with unfinished jobs marked failed.     *)
Loaded(entries) ==
    /\ LoadVars(entries)
    /\ DOMAIN entries = DOMAIN disk
    /\ \A j \in DOMAIN disk :
          /\ entries[j] \in Entry /\ entries[j].status # "running"
          /\ entries[j].id = disk[j].id /\ entries[j].archived = disk[j].archived
          /\ disk[j].status \in Final => entries[j].status = disk[j].status

LEMMA LoadedEntries == ASSUME TypeOK, LoadJobs PROVE \E entries : Loaded(entries)
<1> DEFINE entries == [j \in DOMAIN disk |->
              [disk[j] EXCEPT !.status = IF @ = "running" THEN "failed" ELSE @]]
<1>1. LoadVars(entries)
  BY DEF LoadJobs
<1>2. \A j \in DOMAIN disk : disk[j] \in Entry
  BY DEF TypeOK, IsList
<1>3. Loaded(entries)
  BY <1>1, <1>2 DEF Loaded, Entry, Final
<1> QED BY <1>3

LEMMA TypeServer ==
    ASSUME TypeOK, Stop \/ Drain \/ Exit \/ Crash \/ LoadJobs \/ UNCHANGED vars PROVE TypeOK'
<1>1. CASE Stop \/ Drain \/ UNCHANGED vars
  BY <1>1 DEF Stop, Drain, vars, TypeOK, jobFields, saveVars, IsList
<1>2. CASE Exit \/ Crash
  <2>1. \E how \in {"exited", "crashed"} : Die(how)
    BY <1>2 DEF Exit, Crash
  <2>2. DOMAIN copies' = {} /\ req' \in [Clients -> Requests] /\ pc' \in [Jobs -> PCs]
    BY <2>1 DEF Die, Requests, PCs
  <2> QED BY <2>1, <2>2 DEF Die, TypeOK, jobFields, IsList
<1>3. CASE LoadJobs
  <2>1. PICK entries : Loaded(entries)
    BY <1>3, LoadedEntries
  <2>2. LoadVars(entries)
    BY <2>1 DEF Loaded
  <2>3. DOMAIN entries = DOMAIN disk /\ \A j \in DOMAIN entries : j \in Jobs /\ entries[j] \in Entry
    BY <2>1 DEF Loaded, TypeOK, IsList
  <2>4. IsList(disk')
    BY <2>2, <2>3 DEF LoadVars, TypeOK, IsList
  <2>5. seq' \in Nat
    BY <2>2, <2>3 DEF LoadVars, HighestIds, Entry
  <2>6. /\ id' \in [Jobs -> Nat] /\ progress' \in [Jobs -> Nat]
        /\ status' \in [Jobs -> {"running"} \cup Final]
        /\ archived' \in [Jobs -> BOOLEAN]
    BY <2>2, <2>3 DEF LoadVars, Entry, TypeOK
  <2>7. listed' \in SUBSET Jobs /\ pc' \in [Jobs -> PCs]
    BY <2>2, <2>3 DEF LoadVars, TypeOK, PCs
  <2>8. lastOk' \in BOOLEAN /\ failures' \in Nat
    <3>1. failures' \in {failures, failures + 1}
      BY <2>2 DEF LoadVars
    <3>2. lastOk' \in BOOLEAN
      BY <2>2, Zenon DEF LoadVars
    <3>3. failures \in Nat
      BY DEF TypeOK
    <3>4. failures' \in Nat
      BY <3>1, <3>3
    <3> QED BY <3>2, <3>4
  <2> QED BY <2>2, <2>4, <2>5, <2>6, <2>7, <2>8 DEF LoadVars, TypeOK, IsList
<1> QED BY <1>1, <1>2, <1>3

LEMMA TypeStep == TypeOK /\ Waiting /\ [Next]_vars => TypeOK'
<1> SUFFICES ASSUME TypeOK, Waiting, [Next]_vars PROVE TypeOK'
  OBVIOUS
<1>1. CASE Finished
  BY <1>1, TypeServer DEF Finished
<1> QED BY <1>1, TypeEnqueue, TypeRun, TypeClient, TypeSave, TypeServer DEF Next

-----------------------------------------------------------------------------
LEMMA WaitingInit == Init => Waiting
<1> QED BY DEF Init, Waiting, Up, Caller

LEMMA WaitingStep == TypeOK /\ Waiting /\ [Next]_vars => Waiting'
<1> SUFFICES ASSUME TypeOK, Waiting, [Next]_vars PROVE Waiting'
  OBVIOUS
<1> USE DEF Waiting, Up
<1>1. ASSUME NEW j \in Jobs, EnqueueJob(j) PROVE Waiting'
  <2> USE DEF TypeOK, Step, saveVars, Caller
  <2>1. CASE Reserve(j) BY <2>1 DEF Reserve
  <2>2. CASE List(j) BY <2>2 DEF List
  <2>3. CASE Undo(j) BY <2>3 DEF Undo
  <2>4. CASE Start(j) BY <2>4 DEF Start
  <2>5. CASE Launch(j) BY <2>5 DEF Launch
  <2> QED BY <1>1, <2>1, <2>2, <2>3, <2>4, <2>5 DEF EnqueueJob
<1>2. ASSUME NEW j \in Jobs, RunJob(j) PROVE Waiting'
  BY <1>2 DEF RunJob, Callback, RunReturns, Step, TypeOK, Caller
<1>3. ASSUME NEW c \in Clients, Client(c) PROVE Waiting'
  <2>1. PICK j \in Jobs, op \in {"cancel", "archive", "delete"} : Asks(c, op, j)
    BY <1>3 DEF Client, CancelJob, ArchiveJob, DeleteJob
  <2>2. req'[c] # Idle /\ \A d \in Clients \ {c} : req'[d] = req[d]
    BY <2>1 DEF Asks, TypeOK, Idle
  <2>3. pending' = pending \cup {Caller("client", c)} /\ UNCHANGED <<server, pc>>
    BY <2>1 DEF Asks
  <2>4. Up
    BY <2>1 DEF Asks, Serving
  <2> QED BY <2>2, <2>3, <2>4 DEF Caller
<1>4. ASSUME NEW a \in Callers, SaveBegin(a) PROVE Waiting'
  BY <1>4 DEF SaveBegin
<1>5. ASSUME NEW a \in Callers, Save(a) PROVE Waiting'
  <2>1. Up /\ a \in pending
    BY <1>5 DEF Save, SaveSucceeds, SaveFails
  <2>2. PICK success \in BOOLEAN : Resume(a, success)
    BY <1>5 DEF Save, SaveSucceeds, SaveFails
  <2>3. server' = server /\ pending' = pending \ {a}
    BY <2>2 DEF Resume
  <2>4. \A j \in Jobs : a \notin {Caller("enqueue", j), Caller("finish", j)} => pc'[j] = pc[j]
    BY <2>2 DEF Resume, Caller, Callers, TypeOK
  <2>5. \A c \in Clients : a # Caller("client", c) => req'[c] = req[c]
    BY <2>2 DEF Resume, Caller, Callers, TypeOK
  <2>6. \A j \in Jobs : Caller("enqueue", j) \in pending' => pc'[j] = "saving"
    BY <2>1, <2>3, <2>4 DEF Caller
  <2>7. \A j \in Jobs : Caller("finish", j) \in pending' => pc'[j] = "finish"
    BY <2>1, <2>3, <2>4 DEF Caller
  <2>8. \A c \in Clients : Caller("client", c) \in pending' => req'[c] # Idle
    BY <2>3, <2>5
  <2> QED BY <2>1, <2>3, <2>6, <2>7, <2>8
<1>6. CASE Stop \/ Drain \/ Finished \/ UNCHANGED vars
  BY <1>6 DEF Stop, Drain, Finished, vars, saveVars
<1>7. CASE Exit \/ Crash
  BY <1>7 DEF Exit, Crash, Die
<1>8. CASE LoadJobs
  BY <1>8 DEF LoadJobs, LoadVars
<1> QED BY <1>1, <1>2, <1>3, <1>4, <1>5, <1>6, <1>7, <1>8 DEF Next

LEMMA TypeAndWaiting == Spec => [](TypeOK /\ Waiting)
<1> QED BY TypeInit, WaitingInit, TypeStep, WaitingStep, PTL DEF Spec

(* Type correctness of the server's whole state, with one holder of the    *)
(* save lock at most.                                                      *)
THEOREM TypeCorrect == Spec => []TypeOK
<1> QED BY TypeAndWaiting, PTL

-----------------------------------------------------------------------------
(* The inductive invariant of the history.                                 *)

(* Where a job may be while it is shown, and while it is shown as running. *)
Shown ==
    Up => /\ \A j \in listed : pc[j] \notin {"new", "reserved", "rejected", "gone"}
          /\ \A j \in Jobs : status[j] = "running" =>
                /\ pc[j] \notin {"finish", "over", "old"}
                /\ pc[j] \in {"saving", "undo", "saved", "launch", "run"} => j \in listed

Lifecycle ==
    /\ Shown
    /\ \A j \in Jobs : pc[j] \in {"new", "reserved", "saving", "undo", "saved", "launch", "run"}
                      => status[j] \in {"running", "cancelled"}

(* A list that may be behind the history, never at odds with it.           *)
Agrees(l) ==
    \A j \in DOMAIN l :
        /\ pc[j] \notin {"new", "reserved"}
        /\ l[j].id = id[j]
        /\ l[j].status \in Final => status[j] = l[j].status

Agreement ==
    /\ Agrees(disk)
    /\ Up => \A j \in DOMAIN disk : pc[j] # "gone"
    /\ \A a \in DOMAIN copies :
          Agrees(copies[a]) /\ \A j \in DOMAIN copies[a] : pc[j] # "gone"

(* A copy about to be written is no older than the file.                   *)
Ahead ==
    \A a \in DOMAIN copies : \A j \in DOMAIN disk \cap DOMAIN copies[a] :
        disk[j].status \in Final => copies[a][j].status = disk[j].status

(* The ids in use: those of this process and those in the file.            *)
Known == {j \in Jobs : pc[j] \notin {"new", "gone"} \/ j \in DOMAIN disk}

Ids ==
    /\ \A j \in Known : id[j] >= 1 /\ (Up => id[j] <= seq)
    /\ \A i, j \in Known : i # j => id[i] # id[j]

(* A request that has been handled has taken effect in the history ...     *)
Holds(p) ==
    /\ pc[p.job] \notin {"new", "reserved"}
    /\ p.op = "cancel" => status[p.job] = "cancelled"
    /\ p.op = "archive" => archived[p.job]
    /\ p.op = "delete" /\ Up => p.job \notin listed

(* ... and so in every copy taken of it since, and in the file.            *)
Kept ==
    /\ \A c \in Clients : req[c] # Idle => Holds(req[c])
    /\ \A p \in promised : Holds(p) /\ Shows(p, disk, listed)
    /\ \A p \in promised : \A a \in DOMAIN copies : Shows(p, copies[a], listed)
    /\ \A a \in DOMAIN copies :
          /\ a.kind = "client" => Shows(req[a.of], copies[a], listed)
          /\ a.kind = "enqueue" => Shows([op |-> "run", job |-> a.of], copies[a], listed)

History == Waiting /\ Lifecycle /\ Agreement /\ Ahead /\ Ids /\ Kept

LEMMA HistoryInit == Init => History
<1> SUFFICES ASSUME Init PROVE History
  OBVIOUS
<1>1. DOMAIN disk = {} /\ DOMAIN copies = {} /\ Known = {} /\ promised = {} /\ listed = {}
  BY DEF Init, Known
<1>2. Agreement /\ Ahead /\ Ids
  BY <1>1 DEF Agreement, Agrees, Ahead, Ids
<1>3. Lifecycle /\ Kept
  BY <1>1 DEF Init, Lifecycle, Shown, Kept
<1> QED BY <1>2, <1>3, WaitingInit DEF History

LEMMA LifecycleStep == TypeOK /\ Waiting /\ Lifecycle /\ [Next]_vars => Lifecycle'
<1> SUFFICES ASSUME TypeOK, Waiting, Lifecycle, [Next]_vars PROVE Lifecycle'
  OBVIOUS
<1> USE DEF Lifecycle, Shown, Up, TypeOK
<1>1. ASSUME NEW j \in Jobs, EnqueueJob(j) PROVE Lifecycle'
  <2> USE DEF Step, saveVars, jobFields
  <2>1. CASE Reserve(j) BY <2>1 DEF Reserve
  <2>2. CASE List(j) BY <2>2 DEF List
  <2>3. CASE Undo(j) BY <2>3 DEF Undo
  <2>4. CASE Start(j) BY <2>4 DEF Start
  <2>5. CASE Launch(j) BY <2>5 DEF Launch
  <2> QED BY <1>1, <2>1, <2>2, <2>3, <2>4, <2>5 DEF EnqueueJob
<1>2. ASSUME NEW j \in Jobs, RunJob(j) PROVE Lifecycle'
  <2>1. CASE Callback(j) BY <2>1 DEF Callback
  <2>2. CASE RunReturns(j)
    <3>1. status'[j] # "running" /\ \A i \in Jobs \ {j} : status'[i] = status[i]
      BY <2>2 DEF RunReturns
    <3> QED BY <2>2, <3>1 DEF RunReturns, Step
  <2> QED BY <1>2, <2>1, <2>2 DEF RunJob
<1>3. ASSUME NEW c \in Clients, NEW j \in Jobs,
             CancelJob(c, j) \/ ArchiveJob(c, j) \/ DeleteJob(c, j)
      PROVE Lifecycle'
  <2> USE DEF Asks
  <2>1. CASE CancelJob(c, j) BY <2>1 DEF CancelJob
  <2>2. CASE ArchiveJob(c, j) BY <2>2 DEF ArchiveJob
  <2>3. CASE DeleteJob(c, j) BY <2>3 DEF DeleteJob
  <2> QED BY <1>3, <2>1, <2>2, <2>3
<1>4. ASSUME NEW a \in Callers, SaveBegin(a) PROVE Lifecycle'
  BY <1>4 DEF SaveBegin, jobFields
<1>5. ASSUME NEW a \in Callers, Save(a) PROVE Lifecycle'
  <2>1. Up /\ a \in pending
    BY <1>5 DEF Save, SaveSucceeds, SaveFails
  <2>2. PICK success \in BOOLEAN : Resume(a, success)
    BY <1>5 DEF Save, SaveSucceeds, SaveFails
  <2>3. UNCHANGED <<server, listed, status>>
    BY <2>2 DEF Resume, jobFields
  <2>4. CASE a.kind = "enqueue"
    <3>1. a.of \in Jobs /\ a = Caller("enqueue", a.of)
      BY <2>4 DEF Callers, Caller
    <3>2. pc[a.of] = "saving"
      BY <2>1, <3>1 DEF Waiting
    <3>3. pc' = [pc EXCEPT ![a.of] = "saved"] \/ pc' = [pc EXCEPT ![a.of] = "undo"]
      BY <2>2, <2>4 DEF Resume
    <3> QED BY <2>3, <3>1, <3>2, <3>3
  <2>5. CASE a.kind = "finish"
    <3>1. a.of \in Jobs /\ a = Caller("finish", a.of)
      BY <2>5 DEF Callers, Caller
    <3>2. pc[a.of] = "finish"
      BY <2>1, <3>1 DEF Waiting
    <3>3. pc' = [pc EXCEPT ![a.of] = "over"]
      BY <2>2, <2>5 DEF Resume
    <3> QED BY <2>1, <2>3, <3>1, <3>2, <3>3
  <2>6. CASE a.kind \notin {"enqueue", "finish"}
    <3>1. pc' = pc
      BY <2>2, <2>6 DEF Resume
    <3> QED BY <2>3, <3>1
  <2> QED BY <2>4, <2>5, <2>6
<1>6. CASE Stop \/ Drain \/ Finished \/ UNCHANGED vars
  BY <1>6 DEF Stop, Drain, Finished, vars, saveVars, jobFields
<1>7. CASE Exit \/ Crash
  BY <1>7 DEF Exit, Crash, Die, jobFields
<1>8. CASE LoadJobs
  <2>1. PICK entries : Loaded(entries)
    BY <1>8, LoadedEntries
  <2>2. \A j \in DOMAIN disk : j \in Jobs
    BY DEF IsList
  <2>3. LoadVars(entries) /\ ~Up /\ DOMAIN entries = DOMAIN disk
    BY <1>8, <2>1 DEF Loaded, LoadJobs
  <2>4. listed' = DOMAIN entries
    BY <2>3 DEF LoadVars
  <2>5. \A j \in Jobs : IF j \in DOMAIN entries
                        THEN pc'[j] = "old" /\ status'[j] # "running"
                        ELSE pc'[j] \in {"new", "gone"} /\ pc'[j] = pc[j] /\ status'[j] = status[j]
    BY <2>1, <2>3 DEF LoadVars, Loaded, Waiting
  <2>6. \A j \in listed' : j \in Jobs /\ pc'[j] = "old"
    BY <2>2, <2>3, <2>4, <2>5
  <2> QED BY <2>5, <2>6
<1> QED BY <1>1, <1>2, <1>3, <1>4, <1>5, <1>6, <1>7, <1>8 DEF Next, Client

(* A copy of the list agrees with the history it is copied from.           *)
LEMMA SnapshotAgrees ==
    ASSUME TypeOK, Lifecycle, Up
    PROVE  Agrees(Snapshot) /\ \A j \in DOMAIN Snapshot : pc[j] # "gone"
<1> QED BY DEF TypeOK, Lifecycle, Shown, Agrees, Snapshot

(* What a step may do to a job that some list holds.                       *)
Forward(j) ==
    /\ pc[j] \notin {"new", "reserved"} => pc'[j] \notin {"new", "reserved"}
    /\ pc[j] # "gone" => pc'[j] # "gone"
    /\ pc[j] \notin {"new", "reserved"} => id'[j] = id[j]
    /\ status[j] \in Final => status'[j] = status[j]
    /\ archived[j] => archived'[j]
    /\ j \in listed' => j \in listed \/ pc[j] = "reserved"

LEMMA ForwardStep ==
    ASSUME TypeOK, Waiting, Lifecycle, [Next]_vars, Up, Up'
    PROVE  \A j \in Jobs : Forward(j)
<1> USE DEF TypeOK, Forward
<1>1. ASSUME NEW j \in Jobs, EnqueueJob(j) PROVE \A i \in Jobs : Forward(i)
  <2> USE DEF Step, saveVars, jobFields
  <2>1. CASE Reserve(j) BY <2>1 DEF Reserve
  <2>2. CASE List(j) BY <2>2 DEF List
  <2>3. CASE Undo(j) BY <2>3 DEF Undo
  <2>4. CASE Start(j) BY <2>4 DEF Start
  <2>5. CASE Launch(j) BY <2>5 DEF Launch
  <2> QED BY <1>1, <2>1, <2>2, <2>3, <2>4, <2>5 DEF EnqueueJob
<1>2. ASSUME NEW j \in Jobs, RunJob(j) PROVE \A i \in Jobs : Forward(i)
  <2>1. CASE Callback(j) BY <2>1 DEF Callback
  <2>2. CASE RunReturns(j)
    <3>1. \A i \in Jobs : status[i] \in Final => status'[i] = status[i]
      <4>1. status[j] \in {"running", "cancelled"}
        BY <2>2 DEF RunReturns, Step, Lifecycle
      <4> QED BY <2>2, <4>1 DEF RunReturns, Final
    <3> QED BY <2>2, <3>1 DEF RunReturns, Step
  <2> QED BY <1>2, <2>1, <2>2 DEF RunJob
<1>3. ASSUME NEW c \in Clients, Client(c) PROVE \A i \in Jobs : Forward(i)
  BY <1>3 DEF Client, CancelJob, ArchiveJob, DeleteJob, Asks, Final
<1>4. ASSUME NEW a \in Callers, SaveBegin(a) PROVE \A i \in Jobs : Forward(i)
  BY <1>4 DEF SaveBegin, jobFields
<1>5. ASSUME NEW a \in Callers, Save(a) PROVE \A i \in Jobs : Forward(i)
  <2>1. PICK success \in BOOLEAN : Resume(a, success)
    BY <1>5 DEF Save, SaveSucceeds, SaveFails
  <2>2. UNCHANGED <<id, status, archived, listed>>
    BY <2>1 DEF Resume, jobFields
  <2>3. \A j \in Jobs : pc'[j] \in {pc[j], "saved", "undo", "over"}
    BY <2>1 DEF Resume, Callers
  <2> QED BY <2>2, <2>3
<1>6. CASE Stop \/ Drain \/ Finished \/ UNCHANGED vars
  BY <1>6 DEF Stop, Drain, Finished, vars, saveVars, jobFields
<1>7. CASE Exit \/ Crash \/ LoadJobs
  BY <1>7 DEF Exit, Crash, Die, LoadJobs, Up
<1> QED BY <1>1, <1>2, <1>3, <1>4, <1>5, <1>6, <1>7 DEF Next

(* Who changes the copies and the file.                                    *)
LEMMA ListsStep ==
    ASSUME TypeOK, Waiting, [Next]_vars, Up, Up'
    PROVE  \/ UNCHANGED <<copies, disk, promised>>
           \/ /\ \E a \in Callers : SaveBegin(a) /\ copies' = [b \in {a} |-> Snapshot]
              /\ disk' = disk /\ promised' = promised
           \/ /\ DOMAIN copies' = {}
              /\ disk' = disk \/ \E a \in DOMAIN copies : disk' = copies[a]
<1>1. ASSUME NEW j \in Jobs, EnqueueJob(j) \/ RunJob(j) PROVE UNCHANGED <<copies, disk, promised>>
  BY <1>1 DEF EnqueueJob, Reserve, List, Undo, Start, Launch, RunJob, Callback, RunReturns, saveVars
<1>2. ASSUME NEW c \in Clients, Client(c) PROVE UNCHANGED <<copies, disk, promised>>
  BY <1>2 DEF Client, CancelJob, ArchiveJob, DeleteJob, Asks
<1>3. ASSUME NEW a \in Callers, SaveBegin(a)
      PROVE  copies' = [b \in {a} |-> Snapshot] /\ disk' = disk /\ promised' = promised
  BY <1>3 DEF SaveBegin
<1>4. ASSUME NEW a \in Callers, Save(a)
      PROVE  /\ DOMAIN copies' = {}
             /\ disk' = disk \/ \E b \in DOMAIN copies : disk' = copies[b]
  <2>1. a \in DOMAIN copies /\ copies' = [b \in DOMAIN copies \ {a} |-> copies[b]]
    BY <1>4 DEF Save, SaveSucceeds, SaveFails, Unlock
  <2>2. DOMAIN copies' = {}
    BY <2>1 DEF TypeOK
  <2>3. disk' = disk \/ disk' = copies[a]
    BY <1>4 DEF Save, SaveSucceeds, SaveFails
  <2> QED BY <2>1, <2>2, <2>3
<1>5. CASE Stop \/ Drain \/ Finished \/ UNCHANGED vars
  BY <1>5 DEF Stop, Drain, Finished, vars, saveVars
<1>6. CASE Exit \/ Crash \/ LoadJobs
  BY <1>6 DEF Exit, Crash, Die, LoadJobs, Up
<1> QED BY <1>1, <1>2, <1>3, <1>4, <1>5, <1>6 DEF Next

(* How a process ends, and what may happen when there is none.             *)
LEMMA DeathStep ==
    ASSUME [Next]_vars, Up, ~Up' PROVE \E how \in {"exited", "crashed"} : Die(how)
<1>1. server' # server
  BY DEF Up
<1>2. Exit \/ Crash
  BY <1>1 DEF Next, EnqueueJob, Reserve, List, Undo, Start, Launch, RunJob, Callback, RunReturns,
             Client, CancelJob, ArchiveJob, DeleteJob, Asks, SaveBegin, Save, SaveSucceeds,
             SaveFails, Resume, Stop, Drain, LoadJobs, Finished, vars, Up
<1> QED BY <1>2 DEF Exit, Crash

LEMMA RestartStep == ASSUME [Next]_vars, ~Up PROVE LoadJobs \/ UNCHANGED vars
<1> QED BY DEF Next, EnqueueJob, Reserve, List, Undo, Start, Launch, Step, RunJob, Callback,
           RunReturns, Client, CancelJob, ArchiveJob, DeleteJob, Asks, Serving, SaveBegin, Save,
           SaveSucceeds, SaveFails, Stop, Drain, Exit, Crash, Finished, Up

LEMMA AgreementStep ==
    TypeOK /\ Waiting /\ Lifecycle /\ Agreement /\ [Next]_vars => Agreement'
<1> SUFFICES ASSUME TypeOK, Waiting, Lifecycle, Agreement, [Next]_vars PROVE Agreement'
  OBVIOUS
<1>0. DOMAIN disk \subseteq Jobs /\ \A a \in DOMAIN copies : DOMAIN copies[a] \subseteq Jobs
  BY DEF TypeOK, IsList
<1>1. CASE Up /\ Up'
  <2>1. \A j \in Jobs : Forward(j)
    BY <1>1, ForwardStep
  <2>2. ASSUME NEW l, DOMAIN l \subseteq Jobs, Agrees(l), \A j \in DOMAIN l : pc[j] # "gone"
        PROVE  Agrees(l)' /\ \A j \in DOMAIN l : pc'[j] # "gone"
    BY <2>1, <2>2 DEF Agrees, Forward
  <2>3. CASE UNCHANGED <<copies, disk>>
    BY <1>0, <1>1, <2>1, <2>3 DEF Agreement, Agrees, Forward
  <2>4. ASSUME NEW a \in Callers, SaveBegin(a), copies' = [b \in {a} |-> Snapshot], disk' = disk
        PROVE  Agreement'
    <3>1. UNCHANGED <<pc, id, status>>
      BY <2>4 DEF SaveBegin, jobFields
    <3>2. DOMAIN copies' = {a} /\ copies'[a] = Snapshot
      BY <2>4
    <3> QED BY <1>1, <2>4, <3>1, <3>2, SnapshotAgrees DEF Agreement, Agrees
  <2>5. CASE DOMAIN copies' = {} /\ disk' = disk
    BY <1>0, <1>1, <2>1, <2>5 DEF Agreement, Agrees, Forward
  <2>6. ASSUME NEW a \in DOMAIN copies, DOMAIN copies' = {}, disk' = copies[a] PROVE Agreement'
    BY <1>0, <1>1, <2>1, <2>6 DEF Agreement, Agrees, Forward
  <2> QED BY <1>1, <2>3, <2>4, <2>5, <2>6, ListsStep
<1>2. CASE Up /\ ~Up'
  <2>1. \E how \in {"exited", "crashed"} : Die(how)
    BY <1>2, DeathStep
  <2>2. /\ DOMAIN copies' = {} /\ UNCHANGED <<disk, id, status>>
        /\ \A j \in Jobs : pc[j] # "new" => pc'[j] = "gone"
    BY <2>1 DEF Die, jobFields
  <2> QED BY <1>0, <1>2, <2>2 DEF Agreement, Agrees
<1>3. CASE ~Up
  <2>1. CASE LoadJobs
    <3>1. PICK entries : Loaded(entries)
      BY <2>1, LoadedEntries
    <3>2. LoadVars(entries)
      BY <3>1 DEF Loaded
    <3>3. /\ DOMAIN entries = DOMAIN disk
          /\ \A j \in DOMAIN disk :
                /\ entries[j].id = disk[j].id
                /\ disk[j].status \in Final => entries[j].status = disk[j].status
      BY <3>1 DEF Loaded
    <3>4. disk' = entries \/ disk' = disk
      BY <3>2 DEF LoadVars
    <3>5. \A j \in DOMAIN disk : pc'[j] = "old" /\ id'[j] = entries[j].id /\ status'[j] = entries[j].status
      BY <1>0, <3>2, <3>3 DEF LoadVars
    <3>6. DOMAIN copies' = {}
      BY <1>3, <3>2 DEF LoadVars, Waiting, TypeOK
    <3>7. DOMAIN disk' = DOMAIN disk
      BY <3>3, <3>4
    <3>8. \A j \in DOMAIN disk :
             /\ disk'[j].id = entries[j].id
             /\ disk'[j].status \in Final => disk'[j].status = entries[j].status
      BY <3>3, <3>4
    <3>9. Agrees(disk)'
      BY <3>5, <3>7, <3>8 DEF Agrees
    <3> QED BY <3>5, <3>6, <3>7, <3>9 DEF Agreement
  <2>2. CASE UNCHANGED vars
    BY <2>2 DEF Agreement, Agrees, vars, saveVars, jobFields, Up
  <2> QED BY <1>3, <2>1, <2>2, RestartStep
<1> QED BY <1>1, <1>2, <1>3

LEMMA AheadStep == TypeOK /\ Waiting /\ Agreement /\ Ahead /\ Lifecycle /\ [Next]_vars => Ahead'
<1> SUFFICES ASSUME TypeOK, Waiting, Agreement, Ahead, Lifecycle, [Next]_vars PROVE Ahead'
  OBVIOUS
<1>1. CASE DOMAIN copies' = {}
  BY <1>1 DEF Ahead
<1>2. CASE UNCHANGED <<copies, disk>>
  BY <1>2 DEF Ahead
<1>3. ASSUME NEW a \in Callers, copies' = [b \in {a} |-> Snapshot], disk' = disk
      PROVE  Ahead'
  <2>1. DOMAIN copies' = {a} /\ copies'[a] = Snapshot
    BY <1>3
  <2>2. \A j \in DOMAIN disk \cap DOMAIN Snapshot :
           disk[j].status \in Final => Snapshot[j].status = disk[j].status
    BY DEF Agreement, Agrees, Snapshot
  <2> QED BY <1>3, <2>1, <2>2 DEF Ahead
<1>4. CASE Up /\ Up'
  BY <1>1, <1>2, <1>3, <1>4, ListsStep
<1>5. CASE Up /\ ~Up'
  BY <1>1, <1>5, DeathStep DEF Die
<1>6. CASE ~Up
  <2>1. LoadJobs => copies' = copies
    BY DEF LoadJobs, LoadVars
  <2>2. DOMAIN copies = {}
    BY <1>6 DEF Waiting, TypeOK
  <2> QED BY <1>1, <1>6, <2>1, <2>2, RestartStep DEF vars, saveVars
<1> QED BY <1>4, <1>5, <1>6

LEMMA IdsStep == TypeOK /\ Waiting /\ Agreement /\ Ids /\ [Next]_vars => Ids'
<1> SUFFICES ASSUME TypeOK, Waiting, Agreement, Ids, [Next]_vars PROVE Ids'
  OBVIOUS
<1>0. DOMAIN disk \subseteq Jobs /\ \A a \in DOMAIN copies : DOMAIN copies[a] \subseteq Jobs
  BY DEF TypeOK, IsList
<1>1. ASSUME UNCHANGED <<id, seq>>, Known' \subseteq Known, Up' => Up PROVE Ids'
  BY <1>1 DEF Ids
<1>2. ASSUME NEW j \in Jobs, Reserve(j) PROVE Ids'
  <2>1. /\ Up /\ Up' /\ pc[j] = "new" /\ disk' = disk /\ seq' = seq + 1 /\ id'[j] = seq + 1
        /\ \A i \in Jobs \ {j} : pc'[i] = pc[i] /\ id'[i] = id[i]
    BY <1>2 DEF Reserve, Step, Up, saveVars, TypeOK
  <2>2. Known' \subseteq Known \cup {j} /\ j \notin Known
    BY <2>1 DEF Known, Agreement, Agrees
  <2>3. \A i \in Known : id[i] \in Nat /\ id[i] <= seq /\ i # j /\ id'[i] = id[i]
    BY <2>1, <2>2 DEF Ids, Known, TypeOK
  <2>4. seq \in Nat
    BY DEF TypeOK
  <2>5. \A i \in Known' : id'[i] >= 1 /\ id'[i] <= seq'
    BY <2>1, <2>2, <2>3, <2>4 DEF Ids
  <2>6. \A h, i \in Known' : h # i => id'[h] # id'[i]
    BY <2>1, <2>2, <2>3, <2>4 DEF Ids
  <2> QED BY <2>5, <2>6 DEF Ids
<1>3. CASE Up /\ Up' /\ ~ \E j \in Jobs : Reserve(j)
  <2>1. UNCHANGED <<id, seq>> /\ \A j \in Jobs : pc[j] \in {"new", "gone"} => pc'[j] = pc[j]
    <3>1. ASSUME NEW j \in Jobs, EnqueueJob(j) \/ RunJob(j)
          PROVE  UNCHANGED <<id, seq>> /\ \A i \in Jobs : pc[i] \in {"new", "gone"} => pc'[i] = pc[i]
      BY <1>3, <3>1 DEF EnqueueJob, List, Undo, Start, Launch, RunJob, Callback, RunReturns, Step,
                        jobFields, TypeOK
    <3>2. ASSUME NEW c \in Clients, Client(c) PROVE UNCHANGED <<id, seq, pc>>
      BY <3>2 DEF Client, CancelJob, ArchiveJob, DeleteJob, Asks
    <3>3. ASSUME NEW a \in Callers, SaveBegin(a) PROVE UNCHANGED <<id, seq, pc>>
      BY <3>3 DEF SaveBegin, jobFields
    <3>4. ASSUME NEW a \in Callers, Save(a)
          PROVE  UNCHANGED <<id, seq>> /\ \A i \in Jobs : pc[i] \in {"new", "gone"} => pc'[i] = pc[i]
      <4>1. PICK success \in BOOLEAN : Resume(a, success) /\ a \in pending
        BY <3>4 DEF Save, SaveSucceeds, SaveFails
      <4>2. \A i \in Jobs : a \in {Caller("enqueue", i), Caller("finish", i)}
                           => pc[i] \notin {"new", "gone"}
        BY <4>1 DEF Waiting
      <4>3. \A i \in Jobs : a \notin {Caller("enqueue", i), Caller("finish", i)} => pc'[i] = pc[i]
        BY <4>1 DEF Resume, Caller, Callers, TypeOK
      <4> QED BY <4>1, <4>2, <4>3 DEF Resume, jobFields
    <3>5. CASE Stop \/ Drain \/ Finished \/ UNCHANGED vars
      BY <3>5 DEF Stop, Drain, Finished, vars, jobFields
    <3>6. CASE Exit \/ Crash \/ LoadJobs
      BY <1>3, <3>6 DEF Exit, Crash, Die, LoadJobs, Up
    <3> QED BY <3>1, <3>2, <3>3, <3>4, <3>5, <3>6 DEF Next
  <2>2. \A j \in DOMAIN disk' : j \in Jobs /\ pc[j] \notin {"new", "gone"}
    BY <1>0, <1>3, ListsStep DEF Agreement, Agrees
  <2>3. Known' \subseteq Known
    BY <2>1, <2>2 DEF Known
  <2> QED BY <1>1, <1>3, <2>1, <2>3
<1>4. CASE Up /\ ~Up'
  <2>1. PICK how \in {"exited", "crashed"} : Die(how)
    BY <1>4, DeathStep
  <2>2. UNCHANGED <<id, seq, disk>> /\ Known' \subseteq Known
    BY <2>1 DEF Die, jobFields, Known
  <2> QED BY <1>1, <1>4, <2>2
<1>5. CASE LoadJobs
  <2>1. PICK entries : Loaded(entries)
    BY <1>5, LoadedEntries
  <2>2. LoadVars(entries) /\ DOMAIN entries = DOMAIN disk /\ DOMAIN disk' = DOMAIN disk /\ ~Up
    BY <1>5, <2>1 DEF Loaded, LoadVars, LoadJobs
  <2>3. \A j \in DOMAIN disk : j \in Known /\ entries[j].id = id[j] /\ id'[j] = id[j] /\ id[j] \in Nat
    BY <1>0, <2>1, <2>2 DEF Loaded, LoadVars, Agreement, Agrees, Known, TypeOK
  <2>4. Known' \subseteq DOMAIN disk
    BY <2>2 DEF LoadVars, Known, Waiting, TypeOK
  <2>5. \A j \in DOMAIN disk : id[j] <= seq'
    BY <2>2, <2>3 DEF LoadVars, HighestIds
  <2> QED BY <2>3, <2>4, <2>5 DEF Ids
<1>6. CASE UNCHANGED vars
  BY <1>1, <1>6 DEF vars, jobFields, saveVars, Known, Up
<1> QED BY <1>2, <1>3, <1>4, <1>5, <1>6, RestartStep

-----------------------------------------------------------------------------
(* What a request promised.                                                *)

Handled == [op : {"run", "cancel", "archive", "delete"}, job : Jobs]

LEMMA HandledRequests == ASSUME TypeOK, NEW c \in Clients, req[c] # Idle PROVE req[c] \in Handled
<1> QED BY DEF TypeOK, Requests, Handled

(* A copy of the history shows every request that holds in it.             *)
LEMMA SnapshotShows ==
    ASSUME TypeOK, Up, NEW p \in Handled, Holds(p) PROVE Shows(p, Snapshot, listed)
<1>1. DOMAIN Snapshot = listed
  BY DEF Snapshot
<1>2. \A j \in listed : Snapshot[j].status = status[j] /\ Snapshot[j].archived = archived[j]
  BY DEF Snapshot
<1> QED BY <1>1, <1>2 DEF Holds, Shows, Handled

LEMMA ShowsLater ==
    ASSUME NEW p \in Handled, NEW l, NEW shown, NEW later,
           Shows(p, l, shown), p.job \in later => p.job \in shown
    PROVE  Shows(p, l, later)
<1> QED BY DEF Shows, Handled

LEMMA HoldsStep ==
    ASSUME TypeOK, Waiting, Lifecycle, [Next]_vars, Up, Up', NEW p \in Handled, Holds(p)
    PROVE  Holds(p)' /\ (p.job \in listed' => p.job \in listed)
<1>1. Forward(p.job)
  BY ForwardStep DEF Handled
<1> QED BY <1>1 DEF Forward, Holds, Final

(* The requests and promises of a step: a client's new request holds, and  *)
(* what is promised is what the written copy shows.                        *)
LEMMA PromiseStep ==
    ASSUME TypeOK, Waiting, Lifecycle, [Next]_vars, Up, Up'
    PROVE  /\ \A c \in Clients : req'[c] # Idle =>
                  \/ req'[c] = req[c]
                  \/ req[c] = Idle /\ Holds(req[c])'
           /\ \/ promised' = promised
              \/ \E a \in DOMAIN copies :
                    /\ disk' = copies[a]
                    /\ \A p \in promised' \ promised :
                          \/ a.kind = "client" /\ p = req[a.of]
                          \/ a.kind = "enqueue" /\ p = [op |-> "run", job |-> a.of]
<1> DEFINE Quiet == UNCHANGED <<req, promised>>
<1>1. ASSUME NEW j \in Jobs, EnqueueJob(j) \/ RunJob(j) PROVE Quiet
  BY <1>1 DEF EnqueueJob, Reserve, List, Undo, Start, Launch, RunJob, Callback, RunReturns, saveVars
<1>2. ASSUME NEW a \in Callers, SaveBegin(a) PROVE Quiet
  BY <1>2 DEF SaveBegin
<1>3. CASE Stop \/ Drain \/ Finished \/ UNCHANGED vars
  BY <1>3 DEF Stop, Drain, Finished, vars, saveVars
<1>4. CASE Exit \/ Crash \/ LoadJobs
  BY <1>4 DEF Exit, Crash, Die, LoadJobs, Up
<1>5. ASSUME NEW c \in Clients, NEW j \in Jobs,
             CancelJob(c, j) \/ ArchiveJob(c, j) \/ DeleteJob(c, j)
      PROVE  /\ promised' = promised
             /\ \A d \in Clients : req'[d] = req[d] \/ (req[d] = Idle /\ Holds(req[d])')
  <2>1. PICK op \in {"cancel", "archive", "delete"} :
            /\ Asks(c, op, j)
            /\ op = "cancel" => status'[j] = "cancelled"
            /\ op = "archive" => archived'[j]
            /\ op = "delete" => j \notin listed'
    BY <1>5 DEF CancelJob, ArchiveJob, DeleteJob, TypeOK
  <2>2. req'[c] = [op |-> op, job |-> j] /\ \A d \in Clients \ {c} : req'[d] = req[d]
    BY <2>1 DEF Asks, TypeOK
  <2>3. pc'[j] \notin {"new", "reserved"}
    BY <2>1 DEF Asks, Lifecycle, Shown
  <2>4. Holds(req[c])'
    BY <2>1, <2>2, <2>3 DEF Holds
  <2> QED BY <2>1, <2>2, <2>4 DEF Asks
<1>6. ASSUME NEW a \in Callers, Save(a)
      PROVE  /\ \A c \in Clients : req'[c] # Idle => req'[c] = req[c]
             /\ \/ promised' = promised
                \/ /\ a \in DOMAIN copies /\ disk' = copies[a]
                   /\ \A p \in promised' \ promised :
                         \/ a.kind = "client" /\ p = req[a.of]
                         \/ a.kind = "enqueue" /\ p = [op |-> "run", job |-> a.of]
  <2>1. PICK success \in BOOLEAN : Resume(a, success)
    BY <1>6 DEF Save, SaveSucceeds, SaveFails
  <2>2. \A c \in Clients : req'[c] # Idle => req'[c] = req[c]
    BY <2>1 DEF Resume, TypeOK
  <2>3. CASE SaveFails(a)
    BY <2>2, <2>3 DEF SaveFails
  <2>4. CASE SaveSucceeds(a)
    <3>1. a \in DOMAIN copies /\ disk' = copies[a]
      BY <2>4 DEF SaveSucceeds
    <3>2. CASE a.kind = "client"
      BY <2>2, <2>4, <3>1, <3>2 DEF SaveSucceeds
    <3>3. CASE a.kind = "enqueue"
      BY <2>2, <2>4, <3>1, <3>3 DEF SaveSucceeds
    <3>4. CASE a.kind \notin {"client", "enqueue"}
      BY <2>2, <2>4, <3>1, <3>4 DEF SaveSucceeds
    <3> QED BY <3>2, <3>3, <3>4
  <2> QED BY <1>6, <2>3, <2>4 DEF Save
<1> QED BY <1>1, <1>2, <1>3, <1>4, <1>5, <1>6 DEF Next, Client

LEMMA KeptStep ==
    TypeOK /\ Waiting /\ Lifecycle /\ Kept /\ [Next]_vars => Kept'
<1> SUFFICES ASSUME TypeOK, Waiting, Lifecycle, Kept, [Next]_vars PROVE Kept'
  OBVIOUS
<1>0. promised \subseteq Handled
  BY DEF TypeOK, Handled
<1>1. CASE Up /\ Up'
  <2>1. \A p \in Handled : Holds(p) => Holds(p)' /\ (p.job \in listed' => p.job \in listed)
    BY <1>1, HoldsStep
  <2>2. \A c \in Clients : req'[c] # Idle => Holds(req[c])'
    <3> SUFFICES ASSUME NEW c \in Clients, req'[c] # Idle, req'[c] = req[c] PROVE Holds(req[c])'
      BY <1>1, PromiseStep
    <3>1. req[c] \in Handled /\ Holds(req[c])
      BY HandledRequests DEF Kept
    <3> QED BY <2>1, <3>1 DEF Holds
  <2>3. ASSUME NEW a \in pending
        PROVE  /\ a.kind = "client" => req[a.of] \in Handled /\ Holds(req[a.of])
               /\ a.kind = "enqueue" => /\ [op |-> "run", job |-> a.of] \in Handled
                                        /\ Holds([op |-> "run", job |-> a.of])
    <3>1. a \in Callers
      BY DEF TypeOK
    <3>2. CASE a.kind = "client"
      <4>1. a.of \in Clients /\ a = Caller("client", a.of)
        BY <3>1, <3>2 DEF Callers, Caller
      <4> QED BY <3>1, <3>2, <4>1, HandledRequests DEF Waiting, Kept
    <3>3. CASE a.kind = "enqueue"
      <4>1. a.of \in Jobs /\ a = Caller("enqueue", a.of)
        BY <3>1, <3>3 DEF Callers, Caller
      <4>2. pc[a.of] = "saving"
        BY <3>1, <4>1 DEF Waiting
      <4> QED BY <3>3, <4>1, <4>2 DEF Handled, Holds
    <3> QED BY <3>2, <3>3
  <2>4. ASSUME NEW p \in promised'
        PROVE  p \in Handled /\ Holds(p)' /\ Shows(p, disk', listed')
               /\ (p.job \in listed' => p.job \in listed)
    <3>1. CASE p \in promised
      <4>1. p \in Handled /\ Holds(p) /\ Shows(p, disk, listed)
        BY <1>0, <3>1 DEF Kept
      <4>2. Shows(p, disk', listed)
        BY <1>1, <3>1, <4>1, ListsStep DEF Kept
      <4> QED BY <2>1, <4>1, <4>2, ShowsLater
    <3>2. CASE p \notin promised
      <4>1. PICK a \in DOMAIN copies :
                /\ disk' = copies[a]
                /\ \/ a.kind = "client" /\ p = req[a.of]
                   \/ a.kind = "enqueue" /\ p = [op |-> "run", job |-> a.of]
        BY <1>1, <3>2, PromiseStep
      <4>2. p \in Handled /\ Holds(p)
        BY <2>3, <4>1 DEF TypeOK
      <4>3. Shows(p, disk', listed)
        BY <4>1 DEF Kept
      <4> QED BY <2>1, <4>2, <4>3, ShowsLater
    <3> QED BY <3>1, <3>2
  <2>5. CASE DOMAIN copies' = {}
    BY <2>2, <2>4, <2>5 DEF Kept
  <2>6. CASE UNCHANGED <<copies, disk, promised>>
    <3>1. \A p \in promised' : \A a \in DOMAIN copies : Shows(p, copies[a], listed')
      <4> SUFFICES ASSUME NEW p \in promised, NEW a \in DOMAIN copies
                   PROVE  Shows(p, copies[a], listed')
        BY <2>6
      <4>1. p \in Handled /\ (p.job \in listed' => p.job \in listed)
        BY <2>4, <2>6
      <4>2. Shows(p, copies[a], listed)
        BY DEF Kept
      <4> QED BY <4>1, <4>2, ShowsLater
    <3>2. ASSUME NEW a \in DOMAIN copies, a.kind = "client"
          PROVE  Shows(req'[a.of], copies[a], listed')
      <4>1. a \in pending /\ a \in pending' /\ a.of \in Clients /\ a = Caller("client", a.of)
        BY <2>6, <3>2, TypeStep DEF TypeOK, Callers, Caller
      <4>2. req[a.of] # Idle /\ req'[a.of] # Idle
        BY <4>1, WaitingStep DEF Waiting
      <4>3. req'[a.of] = req[a.of]
        BY <1>1, <4>1, <4>2, PromiseStep
      <4>4. Shows(req[a.of], copies[a], listed)
        BY <3>2 DEF Kept
      <4>5. req[a.of] \in Handled /\ Holds(req[a.of])
        BY <2>3, <3>2, <4>1
      <4> QED BY <2>1, <4>3, <4>4, <4>5, ShowsLater
    <3>3. ASSUME NEW a \in DOMAIN copies, a.kind = "enqueue"
          PROVE  Shows([op |-> "run", job |-> a.of], copies[a], listed')
      <4> DEFINE p == [op |-> "run", job |-> a.of]
      <4>1. p \in Handled /\ Holds(p)
        BY <2>3, <3>3 DEF TypeOK
      <4>2. Shows(p, copies[a], listed)
        BY <3>3 DEF Kept
      <4> HIDE DEF p
      <4>3. Shows(p, copies[a], listed')
        BY <2>1, <4>1, <4>2, ShowsLater
      <4> QED BY <4>3 DEF p
    <3> QED BY <2>2, <2>4, <2>6, <3>1, <3>2, <3>3 DEF Kept
  <2>7. ASSUME NEW a \in Callers, SaveBegin(a), copies' = [b \in {a} |-> Snapshot]
        PROVE  Kept'
    <3>1. UNCHANGED <<listed, req>> /\ a \in pending /\ promised' = promised
      BY <2>7 DEF SaveBegin
    <3>2. DOMAIN copies' = {a} /\ copies'[a] = Snapshot
      BY <2>7
    <3>3. \A p \in promised : Shows(p, Snapshot, listed)
      BY <1>0, <1>1, SnapshotShows DEF Kept
    <3>4. a.kind = "client" => Shows(req[a.of], Snapshot, listed)
      BY <1>1, <2>3, <3>1, SnapshotShows
    <3>5. a.kind = "enqueue" => Shows([op |-> "run", job |-> a.of], Snapshot, listed)
      BY <1>1, <2>3, <3>1, SnapshotShows
    <3> QED BY <2>2, <2>4, <3>1, <3>2, <3>3, <3>4, <3>5 DEF Kept
  <2> QED BY <1>1, <2>5, <2>6, <2>7, ListsStep
<1>2. CASE Up /\ ~Up'
  <2>1. PICK how \in {"exited", "crashed"} : Die(how)
    BY <1>2, DeathStep
  <2>2. /\ DOMAIN copies' = {} /\ UNCHANGED <<disk, promised, status, archived, listed>>
        /\ \A c \in Clients : req'[c] = Idle
        /\ \A j \in Jobs : pc[j] \notin {"new", "reserved"} => pc'[j] = "gone"
    BY <2>1 DEF Die, jobFields
  <2>3. \A p \in promised : Holds(p)'
    BY <1>0, <1>2, <2>2 DEF Kept, Holds, Handled
  <2> QED BY <2>2, <2>3 DEF Kept
<1>3. CASE LoadJobs
  <2>1. PICK entries : Loaded(entries)
    BY <1>3, LoadedEntries
  <2>2. LoadVars(entries) /\ ~Up
    BY <1>3, <2>1 DEF Loaded, LoadJobs
  <2>3. /\ listed' = DOMAIN disk /\ DOMAIN disk' = DOMAIN disk
        /\ DOMAIN copies' = {} /\ UNCHANGED <<promised, req>>
        /\ \A c \in Clients : req[c] = Idle
    BY <2>1, <2>2 DEF Loaded, LoadVars, Waiting, TypeOK
  <2>4. \A j \in Jobs : IF j \in DOMAIN disk
           THEN /\ pc'[j] = "old" /\ status'[j] = entries[j].status
                /\ archived'[j] = entries[j].archived
           ELSE pc'[j] = pc[j] /\ status'[j] = status[j] /\ archived'[j] = archived[j]
    BY <2>1, <2>2 DEF Loaded, LoadVars
  <2>5. ASSUME NEW p \in promised PROVE Holds(p)' /\ Shows(p, disk', listed')
    <3>1. p \in Handled /\ Holds(p) /\ Shows(p, disk, listed)
      BY <1>0 DEF Kept
    <3>2. p.job \in Jobs /\ p.op \in {"run", "cancel", "archive", "delete"}
      BY <3>1 DEF Handled
    <3>3. p.op = "delete" => p.job \notin DOMAIN disk
      BY <3>1 DEF Shows
    <3>4. p.op = "cancel" /\ p.job \in DOMAIN disk
             => entries[p.job].status = "cancelled" /\ disk[p.job].status = "cancelled"
      BY <2>1, <3>1 DEF Shows, Loaded, Final
    <3>5. p.op = "archive" /\ p.job \in DOMAIN disk
             => entries[p.job].archived /\ disk[p.job].archived
      BY <2>1, <3>1 DEF Shows, Loaded
    <3>6. disk' = entries \/ disk' = disk
      BY <2>2 DEF LoadVars
    <3>7. Holds(p)'
      BY <2>3, <2>4, <3>1, <3>2, <3>3, <3>4, <3>5 DEF Holds
    <3>8. Shows(p, disk', listed')
      BY <2>3, <3>2, <3>3, <3>4, <3>5, <3>6 DEF Shows
    <3> QED BY <3>7, <3>8
  <2> QED BY <2>3, <2>5 DEF Kept
<1>4. CASE UNCHANGED vars
  <2>1. UNCHANGED <<server, listed, status, archived, pc, req, copies, disk, promised>>
    BY <1>4 DEF vars, saveVars, jobFields
  <2>2. \A p : Holds(p)' = Holds(p)
    BY <2>1 DEF Holds, Up
  <2> QED BY <2>1, <2>2 DEF Kept, Holds, Up
<1> QED BY <1>1, <1>2, <1>3, <1>4, RestartStep

-----------------------------------------------------------------------------
LEMMA HistoryInvariant == Spec => [](TypeOK /\ History)
<1>1. TypeOK /\ History /\ [Next]_vars => (TypeOK /\ History)'
  BY TypeStep, WaitingStep, LifecycleStep, AgreementStep, AheadStep, IdsStep, KeptStep DEF History
<1> QED BY <1>1, TypeInit, HistoryInit, PTL DEF Spec

(* Ids are unique among the jobs shown, whatever was deleted, rejected or  *)
(* lost in a crash before.                                                 *)
THEOREM IdsAreUnique == Spec => []UniqueIds
<1>1. TypeOK /\ History => UniqueIds
  <2> SUFFICES ASSUME TypeOK, History, Up PROVE UniqueIds
    BY DEF UniqueIds
  <2>1. listed \subseteq Known
    BY DEF History, Lifecycle, Shown, Known, TypeOK
  <2>2. \A j \in listed : id[j] \in 1 .. seq
    BY <2>1 DEF History, Ids, TypeOK
  <2> QED BY <2>1, <2>2 DEF History, Ids, UniqueIds
<1> QED BY <1>1, HistoryInvariant, PTL

(* No job is shown as running that nothing runs, and no run nobody         *)
(* cancelled is out of reach.                                              *)
THEOREM RunningAlive == Spec => []RunningIsAlive
<1>1. TypeOK /\ History => RunningIsAlive
  <2> SUFFICES ASSUME TypeOK, History, Up, NEW j \in Jobs, status[j] = "running"
               PROVE  /\ j \in listed => pc[j] \in {"saving", "undo", "saved", "launch", "run"}
                      /\ pc[j] \in {"saved", "launch", "run"} => j \in listed
    BY DEF RunningIsAlive
  <2>1. pc[j] \in PCs /\ pc[j] \notin {"finish", "over", "old"}
    BY DEF TypeOK, History, Lifecycle, Shown
  <2>2. j \in listed => pc[j] \notin {"new", "reserved", "rejected", "gone"}
    BY DEF History, Lifecycle, Shown
  <2>3. pc[j] \in {"saving", "undo", "saved", "launch", "run"} => j \in listed
    BY DEF History, Lifecycle, Shown
  <2> QED BY <2>1, <2>2, <2>3 DEF PCs
<1> QED BY <1>1, HistoryInvariant, PTL

(* What was answered after a successful save survives every later save,    *)
(* failure, crash and restart.                                             *)
THEOREM AnsweredIsDurable == Spec => []Durable
<1>1. History => Durable
  BY DEF History, Kept, Durable
<1> QED BY <1>1, HistoryInvariant, PTL

(* Outcomes are final in memory, while the process lives, and in the file, *)
(* for ever.                                                               *)
THEOREM OutcomesAreFinal == Spec => FinalStaysFinal
<1> DEFINE Stays ==
      \A j \in Jobs :
          /\ Up /\ Up' /\ status[j] \in Final => status'[j] = status[j]
          /\ j \in DOMAIN disk \cap DOMAIN disk' /\ disk[j].status \in Final
                => disk'[j].status = disk[j].status
<1>1. TypeOK /\ History /\ [Next]_vars => Stays
  <2> SUFFICES ASSUME TypeOK, History, [Next]_vars PROVE Stays
    OBVIOUS
  <2>1. \A j \in Jobs : Up /\ Up' /\ status[j] \in Final => status'[j] = status[j]
    BY ForwardStep DEF Forward, History
  <2>2. ASSUME NEW j \in DOMAIN disk \cap DOMAIN disk', disk[j].status \in Final
        PROVE  disk'[j].status = disk[j].status
    <3>1. CASE Up /\ Up'
      BY <2>2, <3>1, ListsStep DEF History, Ahead
    <3>2. CASE Up /\ ~Up'
      BY <3>2, DeathStep DEF Die
    <3>3. CASE LoadJobs
      BY <2>2, <3>3, LoadedEntries DEF Loaded, LoadVars
    <3>4. CASE UNCHANGED vars
      BY <3>4 DEF vars, saveVars
    <3> QED BY <3>1, <3>2, <3>3, <3>4, RestartStep
  <2> QED BY <2>1, <2>2
<1> QED BY <1>1, HistoryInvariant, PTL DEF Spec, FinalStaysFinal

-----------------------------------------------------------------------------
(* The file and the history.                                               *)

(* A list shows the history as it is, rejected submissions aside.          *)
Fresh(l) == [j \in {i \in DOMAIN l : pc[i] # "rejected"} |-> l[j]] = Snapshot

(* Each change of the history is followed by a save that begins after it:  *)
(* a copy whose maker alone is still saving has seen the last change.      *)
Recent ==
    Up => /\ pending = {} /\ lastOk => Fresh(disk)
          /\ \A a \in DOMAIN copies : pending = {a} => Fresh(copies[a])

Ended(l, j) == j \in DOMAIN l => l[j].status # "running"

(* As long as no write has failed, a run is over only when its outcome is  *)
(* in the file, and no copy takes that back.                               *)
Closed ==
    failures = 0 =>
        /\ Up => \A j \in Jobs :
              /\ pc[j] \notin {"undo", "rejected"}
              /\ pc[j] \in {"over", "old"} =>
                    Ended(disk, j) /\ \A a \in DOMAIN copies : Ended(copies[a], j)
              /\ \A a \in DOMAIN copies : a = Caller("finish", j) => Ended(copies[a], j)
        /\ server = "exited" => \A j \in Jobs \ Watched : Ended(disk, j)

LEMMA RecentInit == Init => Recent
<1> SUFFICES ASSUME Init PROVE Recent
  OBVIOUS
<1>1. DOMAIN disk = {} /\ DOMAIN copies = {} /\ listed = {}
  BY DEF Init
<1>2. Fresh(disk)
  BY <1>1 DEF Fresh, Snapshot
<1> QED BY <1>1, <1>2 DEF Recent

LEMMA ClosedInit == Init => Closed
<1> QED BY DEF Init, Closed, Ended

(* A job being submitted or run that changes the history waits for a save; *)
(* other changes are those of jobs that are not listed or are rejected.    *)
LEMMA FreshStep ==
    ASSUME TypeOK, Waiting, Lifecycle, Up, NEW j \in Jobs,
           Reserve(j) \/ Undo(j) \/ Start(j) \/ Launch(j)
    PROVE  \A l : IsList(l) /\ Fresh(l) => Fresh(l)'
<1> SUFFICES ASSUME NEW l, IsList(l), Fresh(l) PROVE Fresh(l)'
  OBVIOUS
<1>0. DOMAIN l \subseteq Jobs /\ listed \subseteq Jobs
  BY DEF IsList, TypeOK
<1>1. CASE Undo(j)
  <2>1. listed' = listed \ {j} /\ UNCHANGED <<id, status, archived, progress>>
    BY <1>1 DEF Undo, jobFields
  <2>2. pc' = [pc EXCEPT ![j] = "rejected"]
    BY <1>1 DEF Undo, Step
  <2>3. {i \in DOMAIN l : pc'[i] # "rejected"} = {i \in DOMAIN l : pc[i] # "rejected"} \ {j}
    BY <1>0, <2>2 DEF TypeOK
  <2> DEFINE shown == [i \in {i \in DOMAIN l : pc[i] # "rejected"} |-> l[i]]
  <2>4. shown = Snapshot
    BY DEF Fresh
  <2>5. DOMAIN shown = listed /\ \A i \in listed : l[i] = Snapshot[i]
    BY <2>4 DEF Snapshot
  <2>6. {i \in DOMAIN l : pc'[i] # "rejected"} = listed'
    BY <2>1, <2>3, <2>5
  <2>7. \A i \in listed' : l[i] = [id |-> id'[i], status |-> status'[i],
                                 archived |-> archived'[i], progress |-> progress'[i]]
    BY <2>1, <2>5 DEF Snapshot
  <2> QED BY <2>6, <2>7 DEF Fresh, Snapshot
<1>2. CASE Reserve(j) \/ Start(j) \/ Launch(j)
  <2>1. listed' = listed /\ UNCHANGED <<status, archived, progress>>
    BY <1>2 DEF Reserve, Start, Launch, jobFields
  <2>2. \A i \in listed : id'[i] = id[i]
    BY <1>2 DEF Reserve, Start, Launch, jobFields, Step, Lifecycle, Shown, TypeOK
  <2>3. \A i \in Jobs : pc'[i] = "rejected" <=> pc[i] = "rejected"
    BY <1>2 DEF Reserve, Start, Launch, Step, TypeOK
  <2>4. Snapshot' = Snapshot
    BY <2>1, <2>2 DEF Snapshot
  <2>5. {i \in DOMAIN l : pc'[i] # "rejected"} = {i \in DOMAIN l : pc[i] # "rejected"}
    BY <1>0, <2>3
  <2> QED BY <2>4, <2>5 DEF Fresh
<1> QED BY <1>1, <1>2

(* Whoever changes the history joins those that wait for a save.           *)
LEMMA ChangeStep ==
    ASSUME TypeOK, Waiting, Up,
           \/ \E j \in Jobs : List(j) \/ RunJob(j)
           \/ \E c \in Clients : Client(c)
    PROVE  /\ \E a \in Callers \ pending : pending' = pending \cup {a}
           /\ UNCHANGED <<server, copies, disk, lastOk, failures>>
<1>1. ASSUME NEW j \in Jobs, List(j) \/ RunJob(j)
      PROVE  \E a \in Callers \ pending : pending' = pending \cup {a}
  <2>1. \A kind \in {"enqueue", "finish", "callback"} : Caller(kind, j) \in Callers
    BY DEF Callers, Caller
  <2> QED BY <1>1, <2>1 DEF List, RunJob, Callback, RunReturns, Step, Waiting
<1>2. ASSUME NEW c \in Clients, Client(c)
      PROVE  \E a \in Callers \ pending : pending' = pending \cup {a}
  <2>1. Caller("client", c) \in Callers
    BY DEF Callers, Caller
  <2> QED BY <1>2, <2>1 DEF Client, CancelJob, ArchiveJob, DeleteJob, Asks, Waiting
<1>3. UNCHANGED <<server, copies, disk, lastOk, failures>>
  BY DEF List, RunJob, Callback, RunReturns, Client, CancelJob, ArchiveJob, DeleteJob, Asks
<1> QED BY <1>1, <1>2, <1>3

LEMMA RecentStep == TypeOK /\ Waiting /\ Lifecycle /\ Recent /\ [Next]_vars => Recent'
<1> SUFFICES ASSUME TypeOK, Waiting, Lifecycle, Recent, [Next]_vars PROVE Recent'
  OBVIOUS
<1>0. DOMAIN copies \subseteq pending /\ IsList(disk) /\ \A a \in DOMAIN copies : IsList(copies[a])
  BY DEF TypeOK
<1>1. ASSUME NEW j \in Jobs, Reserve(j) \/ Undo(j) \/ Start(j) \/ Launch(j) PROVE Recent'
  <2>1. UNCHANGED <<server, pending, copies, disk, lastOk>> /\ Up
    BY <1>1 DEF Reserve, Undo, Start, Launch, Step, saveVars
  <2>0. \A l : IsList(l) /\ Fresh(l) => Fresh(l)'
    BY <1>1, <2>1, FreshStep
  <2>2. ASSUME pending = {}, lastOk PROVE Fresh(disk)'
    <3>1. Fresh(disk) /\ disk' = disk
      BY <2>1, <2>2 DEF Recent
    <3> QED BY <1>0, <2>0, <3>1 DEF Fresh
  <2>3. ASSUME NEW a \in DOMAIN copies, pending = {a} PROVE Fresh(copies[a])'
    <3>1. Fresh(copies[a]) /\ IsList(copies[a]) /\ copies' = copies
      BY <1>0, <2>1, <2>3 DEF Recent
    <3> QED BY <2>0, <3>1 DEF Fresh
  <2> QED BY <2>1, <2>2, <2>3 DEF Recent
<1>2. CASE Up /\ (\/ \E j \in Jobs : List(j) \/ RunJob(j)
                  \/ \E c \in Clients : Client(c))
  <2>1. PICK a \in Callers \ pending : pending' = pending \cup {a}
    BY <1>2, ChangeStep
  <2>2. copies' = copies
    BY <1>2, ChangeStep
  <2> QED BY <1>0, <2>1, <2>2 DEF Recent
<1>3. ASSUME NEW a \in Callers, SaveBegin(a) PROVE Recent'
  <2>1. DOMAIN copies' = {a} /\ copies'[a] = Snapshot /\ a \in pending /\ Up
    BY <1>3 DEF SaveBegin
  <2>2. UNCHANGED <<server, listed, id, status, archived, progress, pc, pending>>
    BY <1>3 DEF SaveBegin, jobFields
  <2>3. Snapshot' = Snapshot
    BY <2>2 DEF Snapshot
  <2>4. {j \in DOMAIN Snapshot : pc[j] # "rejected"} = listed
    BY <2>1 DEF Snapshot, Lifecycle, Shown
  <2>5. [j \in listed |-> Snapshot[j]] = Snapshot
    BY DEF Snapshot
  <2>6. Fresh(copies[a])'
    BY <2>1, <2>2, <2>3, <2>4, <2>5 DEF Fresh
  <2> QED BY <2>1, <2>2, <2>6 DEF Recent
<1>4. ASSUME NEW a \in Callers, Save(a) PROVE Recent'
  <2>1. a \in DOMAIN copies /\ a \in pending /\ Up /\ DOMAIN copies' = {}
    BY <1>4 DEF Save, SaveSucceeds, SaveFails, Unlock, TypeOK
  <2>2. PICK success \in BOOLEAN : Resume(a, success)
    BY <1>4 DEF Save, SaveSucceeds, SaveFails
  <2>3. pending' = pending \ {a} /\ UNCHANGED <<listed, id, status, archived, progress>>
    BY <2>2 DEF Resume, jobFields
  <2>4. \A j \in Jobs : pc'[j] = "rejected" <=> pc[j] = "rejected"
    <3>1. CASE a.kind = "enqueue"
      <4>1. a.of \in Jobs /\ a = Caller("enqueue", a.of)
        BY <3>1 DEF Callers, Caller
      <4>2. pc[a.of] = "saving"
        BY <2>1, <4>1 DEF Waiting
      <4>3. pc' = [pc EXCEPT ![a.of] = IF success THEN "saved" ELSE "undo"]
        BY <2>2, <3>1 DEF Resume
      <4> QED BY <4>1, <4>2, <4>3 DEF TypeOK
    <3>2. CASE a.kind = "finish"
      <4>1. a.of \in Jobs /\ a = Caller("finish", a.of)
        BY <3>2 DEF Callers, Caller
      <4>2. pc[a.of] = "finish"
        BY <2>1, <4>1 DEF Waiting
      <4>3. pc' = [pc EXCEPT ![a.of] = "over"]
        BY <2>2, <3>2 DEF Resume
      <4> QED BY <4>1, <4>2, <4>3 DEF TypeOK
    <3>3. CASE a.kind \notin {"enqueue", "finish"}
      BY <2>2, <3>3 DEF Resume
    <3> QED BY <3>1, <3>2, <3>3
  <2>5. ASSUME pending' = {}, lastOk' PROVE Fresh(disk)'
    <3>1. disk' = copies[a]
      BY <1>4, <2>5 DEF Save, SaveSucceeds, SaveFails
    <3>2. Fresh(copies[a])
      BY <2>1, <2>3, <2>5 DEF Recent
    <3>3. DOMAIN copies[a] \subseteq Jobs
      BY <1>0, <2>1 DEF IsList
    <3>4. {j \in DOMAIN copies[a] : pc'[j] # "rejected"} = {j \in DOMAIN copies[a] : pc[j] # "rejected"}
      BY <2>4, <3>3
    <3>5. Snapshot' = Snapshot
      BY <2>3 DEF Snapshot
    <3> QED BY <3>1, <3>2, <3>4, <3>5 DEF Fresh
  <2> QED BY <2>1, <2>5 DEF Recent
<1>5. CASE Stop \/ Drain \/ Finished \/ UNCHANGED vars
  <2>1. UNCHANGED <<listed, id, status, archived, progress, pc, pending, copies, disk, lastOk>>
    BY <1>5 DEF Stop, Drain, Finished, vars, saveVars, jobFields
  <2>2. Up' => Up
    BY <1>5 DEF Stop, Drain, Finished, vars, Up
  <2>3. Snapshot' = Snapshot
    BY <2>1 DEF Snapshot
  <2> QED BY <2>1, <2>2, <2>3 DEF Recent, Fresh
<1>6. CASE Exit \/ Crash
  BY <1>6 DEF Exit, Crash, Die, Recent, Up
<1>7. CASE LoadJobs
  <2>1. PICK entries : Loaded(entries)
    BY <1>7, LoadedEntries
  <2>2. LoadVars(entries) /\ ~Up
    BY <1>7, <2>1 DEF Loaded, LoadJobs
  <2>3. DOMAIN copies' = {}
    BY <2>2 DEF LoadVars, Waiting, TypeOK
  <2>4. ASSUME lastOk' PROVE Fresh(disk)'
    <3>1. disk' = entries /\ listed' = DOMAIN entries
      BY <2>2, <2>4 DEF LoadVars
    <3>2. DOMAIN entries \subseteq Jobs /\ \A j \in DOMAIN entries : entries[j] \in Entry
      BY <2>1 DEF Loaded, TypeOK, IsList
    <3>3. \A j \in DOMAIN entries :
             /\ pc'[j] = "old"
             /\ entries[j] = [id |-> id'[j], status |-> status'[j],
                              archived |-> archived'[j], progress |-> progress'[j]]
      BY <2>2, <3>2 DEF LoadVars, Entry
    <3>4. {j \in DOMAIN entries : pc'[j] # "rejected"} = listed'
      BY <3>1, <3>3
    <3> QED BY <3>1, <3>3, <3>4 DEF Fresh, Snapshot
  <2> QED BY <2>3, <2>4 DEF Recent
<1>8. ASSUME NEW j \in Jobs, List(j) \/ RunJob(j) PROVE Up
  BY <1>8 DEF List, RunJob, Callback, RunReturns, Step
<1>9. ASSUME NEW c \in Clients, Client(c) PROVE Up
  BY <1>9 DEF Client, CancelJob, ArchiveJob, DeleteJob, Asks, Serving, Up
<1> QED BY <1>1, <1>2, <1>3, <1>4, <1>5, <1>6, <1>7, <1>8, <1>9 DEF Next, EnqueueJob

(* Copies and file are untouched by jobs and clients, and the end of a     *)
(* run is reached through its last save only.                              *)
LEMMA PlainStep ==
    ASSUME TypeOK, Waiting,
           \/ \E j \in Jobs : EnqueueJob(j) \/ RunJob(j)
           \/ \E c \in Clients : Client(c)
           \/ Stop \/ Drain \/ Finished \/ UNCHANGED vars
    PROVE  /\ UNCHANGED <<copies, disk, failures>>
           /\ Up <=> Up'
           /\ server' = "exited" => server = "exited"
           /\ \A j \in Jobs : /\ pc'[j] \in {"undo", "over", "old"} => pc'[j] = pc[j]
                              /\ pc'[j] = "rejected" => pc[j] \in {"undo", "rejected"}
<1> USE DEF Up, Step, TypeOK, jobFields, saveVars
<1>1. ASSUME NEW j \in Jobs, Reserve(j) \/ List(j) \/ Undo(j) \/ Start(j) \/ Launch(j)
      PROVE  /\ UNCHANGED <<copies, disk, failures, server>>
             /\ \A i \in Jobs : /\ pc'[i] \in {"undo", "over", "old"} => pc'[i] = pc[i]
                                /\ pc'[i] = "rejected" => pc[i] \in {"undo", "rejected"}
  BY <1>1 DEF Reserve, List, Undo, Start, Launch
<1>2. ASSUME NEW j \in Jobs, RunJob(j)
      PROVE  /\ UNCHANGED <<copies, disk, failures, server>>
             /\ \A i \in Jobs : /\ pc'[i] \in {"undo", "over", "old"} => pc'[i] = pc[i]
                                /\ pc'[i] = "rejected" => pc[i] \in {"undo", "rejected"}
  BY <1>2 DEF RunJob, Callback, RunReturns
<1>3. ASSUME NEW c \in Clients, Client(c) PROVE UNCHANGED <<copies, disk, failures, server, pc>>
  BY <1>3 DEF Client, CancelJob, ArchiveJob, DeleteJob, Asks
<1>4. CASE Stop \/ Drain \/ Finished \/ UNCHANGED vars
  BY <1>4 DEF Stop, Drain, Finished, vars
<1> QED BY <1>1, <1>2, <1>3, <1>4 DEF EnqueueJob

LEMMA ClosedStep ==
    TypeOK /\ Waiting /\ Lifecycle /\ Agreement /\ Closed /\ [Next]_vars => Closed'
<1> SUFFICES ASSUME TypeOK, Waiting, Lifecycle, Agreement, Closed, [Next]_vars, failures' = 0
             PROVE  Closed'
  BY DEF Closed
<1> USE DEF Ended
<1>1. CASE \/ \E j \in Jobs : EnqueueJob(j) \/ RunJob(j)
           \/ \E c \in Clients : Client(c)
           \/ Stop \/ Drain \/ Finished \/ UNCHANGED vars
  <2>1. /\ UNCHANGED <<copies, disk, failures>> /\ (Up <=> Up')
        /\ server' = "exited" => server = "exited"
        /\ \A j \in Jobs : /\ pc'[j] \in {"undo", "over", "old"} => pc'[j] = pc[j]
                           /\ pc'[j] = "rejected" => pc[j] \in {"undo", "rejected"}
    BY <1>1, PlainStep
  <2> QED BY <2>1 DEF Closed
<1>2. ASSUME NEW a \in Callers, SaveBegin(a) PROVE Closed'
  <2>1. DOMAIN copies' = {a} /\ copies'[a] = Snapshot /\ a \in pending /\ Up
    BY <1>2 DEF SaveBegin
  <2>2. UNCHANGED <<server, pc, disk, failures>>
    BY <1>2 DEF SaveBegin
  <2>3. \A j \in Jobs : pc[j] \in {"over", "old", "finish"} => Ended(Snapshot, j)
    BY <2>1 DEF Lifecycle, Shown, Snapshot
  <2>4. \A j \in Jobs : a = Caller("finish", j) => pc[j] = "finish"
    BY <2>1 DEF Waiting
  <2> QED BY <2>1, <2>2, <2>3, <2>4 DEF Closed, Up
<1>3. ASSUME NEW a \in Callers, Save(a) PROVE Closed'
  <2>0. ~SaveFails(a)
    <3>1. failures + 1 # failures'
      BY DEF TypeOK
    <3> QED BY <3>1 DEF SaveFails
  <2>1. SaveSucceeds(a) /\ failures = 0
    <3>1. SaveSucceeds(a)
      BY <1>3, <2>0 DEF Save
    <3> QED BY <3>1 DEF SaveSucceeds
  <2>2. a \in DOMAIN copies /\ a \in pending /\ Up /\ DOMAIN copies' = {} /\ disk' = copies[a]
    BY <2>1 DEF SaveSucceeds, Unlock, TypeOK
  <2>3. server' = server
    BY <2>1 DEF SaveSucceeds, Resume
  <2>4. ASSUME NEW j \in Jobs
        PROVE  /\ pc'[j] \notin {"undo", "rejected"}
               /\ pc'[j] \in {"over", "old"} => Ended(copies[a], j)
    <3>1. CASE a = Caller("finish", j)
      <4>1. Ended(copies[a], j)
        BY <2>1, <2>2, <3>1 DEF Closed
      <4>2. pc'[j] = "over"
        BY <2>1, <3>1 DEF SaveSucceeds, Resume, Caller, TypeOK
      <4> QED BY <4>1, <4>2
    <3>2. CASE a = Caller("enqueue", j)
      BY <2>1, <3>2 DEF SaveSucceeds, Resume, Caller, TypeOK
    <3>3. CASE a \notin {Caller("enqueue", j), Caller("finish", j)}
      <4>1. pc'[j] = pc[j]
        BY <2>1, <3>3 DEF SaveSucceeds, Resume, Caller, Callers, TypeOK
      <4> QED BY <2>1, <2>2, <4>1 DEF Closed
    <3> QED BY <3>1, <3>2, <3>3
  <2> QED BY <2>2, <2>3, <2>4 DEF Closed, Up
<1>4. CASE Crash
  BY <1>4 DEF Crash, Die, Closed, Up
<1>5. CASE Exit
  <2>1. Up /\ UNCHANGED <<disk, failures>> /\ server' = "exited"
    BY <1>5 DEF Exit, Die, Up
  <2>2. \A j \in Jobs \ Watched : pc[j] \in {"new", "undo", "rejected", "over", "old", "gone"}
    BY <1>5 DEF Exit, NoHandlers, InHandler, TypeOK, PCs
  <2>3. \A j \in DOMAIN disk : pc[j] \notin {"new", "gone"}
    BY <2>1 DEF Agreement, Agrees
  <2>4. \A j \in Jobs \ Watched : Ended(disk, j)
    BY <2>1, <2>2, <2>3 DEF Closed
  <2> QED BY <2>1, <2>4 DEF Closed, Up
<1>6. CASE LoadJobs
  <2>1. PICK entries : Loaded(entries)
    BY <1>6, LoadedEntries
  <2>2. LoadVars(entries) /\ ~Up
    BY <1>6, <2>1 DEF Loaded, LoadJobs
  <2>3. DOMAIN copies' = {} /\ server' = "up" /\ \A j \in Jobs : pc[j] \in {"new", "gone"}
    BY <2>2 DEF LoadVars, Waiting, TypeOK
  <2>4. disk' = entries
    BY <2>2 DEF LoadVars, TypeOK
  <2>5. \A j \in Jobs : pc'[j] \in {"new", "gone", "old"} /\ Ended(disk', j)
    BY <2>1, <2>2, <2>3, <2>4 DEF LoadVars, Loaded
  <2> QED BY <2>3, <2>5 DEF Closed
<1> QED BY <1>1, <1>2, <1>3, <1>4, <1>5, <1>6 DEF Next

LEMMA FileInvariant == Spec => [](TypeOK /\ History /\ Recent /\ Closed)
<1>1. TypeOK /\ History /\ Recent /\ Closed /\ [Next]_vars => (Recent /\ Closed)'
  BY RecentStep, ClosedStep DEF History
<1> QED BY <1>1, HistoryInvariant, RecentInit, ClosedInit, PTL DEF Spec

(* With nobody saving and no failed save since, the file is the history:   *)
(* no change is ever left to a save that began before it.                  *)
THEOREM FileIsRecent == Spec => []DiskIsRecent
<1>1. Recent => DiskIsRecent
  BY DEF Recent, Fresh, DiskIsRecent
<1> QED BY <1>1, FileInvariant, PTL

(* After a graceful exit without a failed save no submitted job is running *)
(* in the file.                                                            *)
THEOREM ExitLeavesNoneRunning == Spec => []ExitIsClean
<1>1. Closed => ExitIsClean
  BY DEF Closed, Ended, ExitIsClean
<1> QED BY <1>1, FileInvariant, PTL
=============================================================================
