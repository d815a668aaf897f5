------------------------------ MODULE JobServer ------------------------------
(***************************************************************************)
(* The job history of the web server, internal/web/server.go: jobs are     *)
(* submitted, run, cancelled, archived and deleted while every change is   *)
(* saved to one state file; the server stops, crashes and starts again.    *)
(*                                                                         *)
(* mu guards the list and the jobs' fields; a step below is what happens   *)
(* under one hold of mu.  persistMu guards the file: persistJobs holds it  *)
(* from before it copies the list until the file is written.  A save is    *)
(* therefore two steps, and other steps happen between them.               *)
(***************************************************************************)
EXTENDS Integers, FiniteSets

CONSTANTS
    Jobs,            \* the calls of enqueueJob considered
    Watched,         \* those made by the watcher loop, the rest by POST handlers
    Clients,         \* handlers that cancel, archive or delete, one request at a time
    MaxProgress,     \* bound: progress, log and result callbacks per job
    MaxFailures,     \* bound: saves that fail
    MaxStops         \* bound: exits and crashes

ASSUME JobServerAssumption ==
    /\ IsFiniteSet(Jobs) /\ Watched \subseteq Jobs
    /\ MaxProgress \in Nat /\ MaxFailures \in Nat /\ MaxStops \in Nat

VARIABLES
    \* the process
    server,          \* "up", "stopping" (its context is done), "draining" (no
                     \* new request is taken), "exited" or "crashed"
    seq,             \* jobIDSeq
    listed,          \* the jobs in s.jobs
    id, status, archived, progress,    \* fields of each JobStatus
    hasCancel,       \* job.cancelFn is set
    cancelled,       \* job.cancelFn was called
    pc,              \* where enqueueJob and then runJob are, for each job
    req,             \* the request each client waits for
    pending,         \* callers of persistJobs that have not returned from it
    copies,          \* the list as copied by those that hold persistMu
    \* the state file
    disk,
    \* history and bounds
    promised,        \* requests answered after a successful save
    lastOk, failures, stops

jobFields  == <<id, status, archived, progress, hasCancel, cancelled>>
saveVars   == <<pending, copies, disk, promised, lastOk, failures>>
vars == <<server, seq, listed, jobFields, pc, req, saveVars, stops>>

PCs == {"new", "reserved", "saving", "undo", "rejected", "saved", "launch",
        "run", "finish", "over", "old", "gone"}
Final == {"cancelled", "completed", "failed"}
Up == server \in {"up", "stopping", "draining"}
Serving == server \in {"up", "stopping"}    \* handlers may still begin

Idle == [op |-> "idle"]
Requests == [op : {"cancel", "archive", "delete"}, job : Jobs] \cup {Idle}

(* A caller of persistJobs: enqueueJob and runJob of a job, a callback of  *)
(* its pipeline, or a client's handler.                                    *)
Caller(k, x) == [kind |-> k, of |-> x]

Entry == [id : Nat, status : {"running"} \cup Final, archived : BOOLEAN, progress : Nat]
Snapshot == [j \in listed |-> [id |-> id[j], status |-> status[j],
                               archived |-> archived[j], progress |-> progress[j]]]

Init ==
    /\ server = "up" /\ seq = 0 /\ listed = {}
    /\ id = [j \in Jobs |-> 0]
    /\ status = [j \in Jobs |-> "running"]
    /\ archived = [j \in Jobs |-> FALSE]
    /\ progress = [j \in Jobs |-> 0]
    /\ hasCancel = [j \in Jobs |-> FALSE] /\ cancelled = [j \in Jobs |-> FALSE]
    /\ pc = [j \in Jobs |-> "new"]
    /\ req = [c \in Clients |-> Idle]
    /\ pending = {} /\ copies = [a \in {} |-> {}] /\ disk = [j \in {} |-> {}]
    /\ promised = {}
    /\ lastOk = TRUE /\ failures = 0 /\ stops = 0

-----------------------------------------------------------------------------
(* enqueueJob                                                              *)

Step(j, from, to) == Up /\ pc[j] = from /\ pc' = [pc EXCEPT ![j] = to]

(* No handler begins after Shutdown; the watcher loop finishes its round.  *)
Reserve(j) ==
    /\ Step(j, "new", "reserved")
    /\ (Serving \/ j \in Watched)
    /\ seq' = seq + 1
    /\ id' = [id EXCEPT ![j] = seq + 1]
    /\ UNCHANGED <<server, listed, status, archived, progress, hasCancel, cancelled, req,
                   saveVars, stops>>

List(j) ==
    /\ Step(j, "reserved", "saving")
    /\ listed' = listed \cup {j}
    /\ pending' = pending \cup {Caller("enqueue", j)}
    /\ UNCHANGED <<server, seq, jobFields, req, copies, disk, promised, lastOk, failures, stops>>

Undo(j) ==
    /\ Step(j, "undo", "rejected")
    /\ listed' = listed \ {j}
    /\ UNCHANGED <<server, seq, jobFields, req, saveVars, stops>>

(* The job's context derives from the server's; from here on it can be     *)
(* cancelled.                                                              *)
Start(j) ==
    /\ Step(j, "saved", "launch")
    /\ hasCancel' = [hasCancel EXCEPT ![j] = TRUE]
    /\ UNCHANGED <<server, seq, listed, id, status, archived, progress, cancelled, req,
                   saveVars, stops>>

Launch(j) ==
    /\ Step(j, "launch", "run")
    /\ UNCHANGED <<server, seq, listed, jobFields, req, saveVars, stops>>

-----------------------------------------------------------------------------
(* runJob                                                                  *)

\* Mutant: the job's context does not derive from the server's.
OwnContextDone(j) == cancelled[j]

ContextDone(j) == cancelled[j] \/ server \in {"stopping", "draining"}

(* The progress, result and log callbacks change the job and save; at most *)
(* one of a job is under way here, a second one would only save again.     *)
Callback(j) ==
    /\ Up /\ pc[j] = "run" /\ Caller("callback", j) \notin pending
    /\ progress[j] < MaxProgress
    /\ progress' = [progress EXCEPT ![j] = @ + 1]
    /\ pending' = pending \cup {Caller("callback", j)}
    /\ UNCHANGED <<server, seq, listed, id, status, archived, hasCancel, cancelled, pc, req,
                   copies, disk, promised, lastOk, failures, stops>>

\* Mutant: the end of a run overwrites the status without looking at it.
RunReturnsBlindly(j) ==
    /\ Step(j, "run", "finish") /\ Caller("callback", j) \notin pending
    /\ \E result \in {"completed", "failed"} : status' = [status EXCEPT ![j] = result]
    /\ pending' = pending \cup {Caller("finish", j)}
    /\ UNCHANGED <<server, seq, listed, id, archived, progress, hasCancel, cancelled, req,
                   copies, disk, promised, lastOk, failures, stops>>

(* App.Run has returned, after its last callback, with any result: a       *)
(* cancelled one may still report success.                                 *)
RunReturns(j) ==
    /\ Step(j, "run", "finish") /\ Caller("callback", j) \notin pending
    /\ \E result \in {"completed", "failed"} :
          status' = [status EXCEPT ![j] = IF @ = "cancelled" THEN @ ELSE result]
    /\ pending' = pending \cup {Caller("finish", j)}
    /\ UNCHANGED <<server, seq, listed, id, archived, progress, hasCancel, cancelled, req,
                   copies, disk, promised, lastOk, failures, stops>>

-----------------------------------------------------------------------------
(* The handlers of cancel, archive and delete.                             *)

Asks(c, op, j) ==
    /\ Serving /\ req[c] = Idle /\ j \in listed
    /\ req' = [req EXCEPT ![c] = [op |-> op, job |-> j]]
    /\ pending' = pending \cup {Caller("client", c)}
    /\ UNCHANGED <<server, seq, id, progress, hasCancel, pc,
                   copies, disk, promised, lastOk, failures, stops>>

\* Mutant: the job is marked, its run is not told.
CancelJobMarking(c, j) ==
    /\ Asks(c, "cancel", j) /\ status[j] = "running"
    /\ status' = [status EXCEPT ![j] = "cancelled"]
    /\ UNCHANGED <<listed, archived, cancelled>>

CancelJob(c, j) ==
    /\ Asks(c, "cancel", j) /\ status[j] = "running"
    /\ status' = [status EXCEPT ![j] = "cancelled"]
    /\ cancelled' = [cancelled EXCEPT ![j] = hasCancel[j]]
    /\ UNCHANGED <<listed, archived>>

ArchiveJob(c, j) ==
    /\ Asks(c, "archive", j)
    /\ archived' = [archived EXCEPT ![j] = TRUE]
    /\ UNCHANGED <<listed, status, cancelled>>

\* Mutant: deleting without the check of the status.
DeleteAnyJob(c, j) ==
    /\ Asks(c, "delete", j)
    /\ listed' = listed \ {j}
    /\ UNCHANGED <<archived, status, cancelled>>

DeleteJob(c, j) ==
    /\ Asks(c, "delete", j) /\ status[j] # "running"
    /\ listed' = listed \ {j}
    /\ UNCHANGED <<archived, status, cancelled>>

-----------------------------------------------------------------------------
(* persistJobs                                                             *)

\* Mutant: persistMu is not taken.
SaveBeginUnlocked(a) ==
    /\ Up /\ a \in pending \ DOMAIN copies
    /\ copies' = [b \in DOMAIN copies \cup {a} |-> IF b = a THEN Snapshot ELSE copies[b]]
    /\ UNCHANGED <<server, seq, listed, jobFields, pc, req, pending, disk, promised, lastOk,
                   failures, stops>>

SaveBegin(a) ==
    /\ Up /\ a \in pending /\ DOMAIN copies = {}
    /\ copies' = [b \in {a} |-> Snapshot]
    /\ UNCHANGED <<server, seq, listed, jobFields, pc, req, pending, disk, promised, lastOk,
                   failures, stops>>

Unlock(a) == copies' = [b \in DOMAIN copies \ {a} |-> copies[b]]

(* What the caller does after persistJobs: only enqueueJob minds a failure.*)
Resume(a, success) ==
    /\ pending' = pending \ {a}
    /\ pc' = CASE a.kind = "enqueue" -> [pc EXCEPT ![a.of] = IF success THEN "saved" ELSE "undo"]
               [] a.kind = "finish"  -> [pc EXCEPT ![a.of] = "over"]
               [] OTHER              -> pc
    /\ req' = IF a.kind = "client" THEN [req EXCEPT ![a.of] = Idle] ELSE req
    /\ UNCHANGED <<server, seq, listed, jobFields, stops>>

SaveSucceeds(a) ==
    /\ Up /\ a \in pending \cap DOMAIN copies
    /\ disk' = copies[a]
    /\ lastOk' = TRUE
    /\ promised' = promised \cup
          (CASE a.kind = "client"  -> {req[a.of]}
             [] a.kind = "enqueue" -> {[op |-> "run", job |-> a.of]}
             [] OTHER              -> {})
    /\ Unlock(a) /\ Resume(a, TRUE)
    /\ UNCHANGED failures

\* Mutant: persistMu is kept when the write fails.
SaveFailsLocked(a) ==
    /\ Up /\ a \in pending \cap DOMAIN copies /\ failures < MaxFailures
    /\ failures' = failures + 1
    /\ lastOk' = FALSE
    /\ Resume(a, FALSE)
    /\ UNCHANGED <<copies, disk, promised>>

SaveFails(a) ==
    /\ Up /\ a \in pending \cap DOMAIN copies /\ failures < MaxFailures
    /\ failures' = failures + 1
    /\ lastOk' = FALSE
    /\ Unlock(a) /\ Resume(a, FALSE)
    /\ UNCHANGED <<disk, promised>>

-----------------------------------------------------------------------------
(* Stopping and starting the server.                                       *)

Stop ==
    /\ server = "up" /\ stops < MaxStops
    /\ server' = "stopping"
    /\ UNCHANGED <<seq, listed, jobFields, pc, req, saveVars, stops>>

InHandler(j) == j \notin Watched /\ pc[j] \in {"reserved", "saving", "undo", "saved", "launch"}

Die(how) ==
    /\ server' = how
    /\ stops' = stops + 1
    /\ pc' = [j \in Jobs |-> IF pc[j] = "new" THEN "new" ELSE "gone"]
    /\ req' = [c \in Clients |-> Idle]
    /\ pending' = {} /\ copies' = [a \in {} |-> {}]
    /\ UNCHANGED <<seq, listed, jobFields, disk, promised, lastOk, failures>>

(* srv.Shutdown closes the listener.  A request counts as taken with its   *)
(* first critical section: one taken earlier and handled later makes no    *)
(* difference, because only the taking depends on the listener.            *)
Drain ==
    /\ server = "stopping"
    /\ server' = "draining"
    /\ UNCHANGED <<seq, listed, jobFields, pc, req, saveVars, stops>>

NoHandlers ==
    /\ \A c \in Clients : req[c] = Idle
    /\ \A j \in Jobs : ~InHandler(j)

\* Mutant: Run returns without wg.Wait().
ExitAtOnce == server = "draining" /\ NoHandlers /\ Die("exited")

(* Shutdown has waited for the handlers and then wg.Wait for the runs;     *)
(* nothing waits for the watcher loop.                                     *)
Exit ==
    /\ server = "draining" /\ NoHandlers
    /\ \A j \in Jobs : pc[j] \notin {"run", "finish"}
    /\ Die("exited")

Crash == Up /\ stops < MaxStops /\ Die("crashed")

\* Mutant: the sequence starts afresh.
FreshIds(entries) == {0}

(* The highest id in the file, 0 if there is none.                         *)
HighestIds(entries) ==
    LET ids == {0} \cup {entries[j].id : j \in DOMAIN entries}
    IN  {n \in ids : \A m \in ids : m <= n}

LoadVars(entries) ==
    /\ server' = "up"
    /\ listed' = DOMAIN entries
    /\ seq' \in HighestIds(entries)
    /\ id' = [j \in Jobs |-> IF j \in DOMAIN entries THEN entries[j].id ELSE id[j]]
    /\ status' = [j \in Jobs |-> IF j \in DOMAIN entries THEN entries[j].status ELSE status[j]]
    /\ archived' = [j \in Jobs |-> IF j \in DOMAIN entries THEN entries[j].archived ELSE archived[j]]
    /\ progress' = [j \in Jobs |-> IF j \in DOMAIN entries THEN entries[j].progress ELSE progress[j]]
    /\ hasCancel' = [j \in Jobs |-> FALSE] /\ cancelled' = [j \in Jobs |-> FALSE]
    /\ pc' = [j \in Jobs |-> IF j \in DOMAIN entries THEN "old" ELSE pc[j]]
    /\ \/ disk' = entries /\ lastOk' = TRUE /\ UNCHANGED failures
       \/ /\ entries # disk /\ failures < MaxFailures
          /\ failures' = failures + 1 /\ lastOk' = FALSE /\ UNCHANGED disk
    /\ UNCHANGED <<req, pending, copies, promised, stops>>

\* Mutant: unfinished jobs are taken over as they are.
LoadUnchanged == ~Up /\ LoadVars(disk)

(* loadJobs: nothing else runs yet, so its own save is part of the step.   *)
LoadJobs ==
    /\ ~Up
    /\ LoadVars([j \in DOMAIN disk |->
          [disk[j] EXCEPT !.status = IF @ = "running" THEN "failed" ELSE @]])

-----------------------------------------------------------------------------
EnqueueJob(j) == Reserve(j) \/ List(j) \/ Undo(j) \/ Start(j) \/ Launch(j)

RunJob(j) == Callback(j) \/ RunReturns(j)

Client(c) == \E j \in Jobs : CancelJob(c, j) \/ ArchiveJob(c, j) \/ DeleteJob(c, j)

Callers == [kind : {"enqueue", "finish", "callback"}, of : Jobs]
           \cup [kind : {"client"}, of : Clients]

Save(a) == SaveSucceeds(a) \/ SaveFails(a)

(* No job left to submit, nothing under way, and no stop left.             *)
Finished ==
    /\ server = "up" /\ stops = MaxStops /\ pending = {}
    /\ \A j \in Jobs : pc[j] \in {"rejected", "over", "old", "gone"}
    /\ UNCHANGED vars

Next ==
    \/ \E j \in Jobs : EnqueueJob(j) \/ RunJob(j)
    \/ \E c \in Clients : Client(c)
    \/ \E a \in Callers : SaveBegin(a) \/ Save(a)
    \/ Stop \/ Drain \/ Exit \/ Crash \/ LoadJobs
    \/ Finished

Spec == Init /\ [][Next]_vars

(* Goroutines go on; sync.Mutex hands the lock to whoever has waited long; *)
(* a file operation ends; App.Run returns once its context is done (a      *)
(* property of RecordPipeline, Returns).  Nothing obliges a client        *)
(* to ask, a run to end by itself, or a stopped server to be started.      *)
Fairness ==
    /\ \A j \in Jobs :
          /\ WF_vars(List(j) \/ Undo(j) \/ Start(j) \/ Launch(j))
          /\ WF_vars(ContextDone(j) /\ RunReturns(j))
    /\ \A a \in Callers : SF_vars(SaveBegin(a)) /\ WF_vars(Save(a))
    /\ WF_vars(Drain) /\ WF_vars(Exit)

FairSpec == Spec /\ Fairness
-----------------------------------------------------------------------------
(* Types: the lock has one holder, who waits for it; whatever is copied or *)
(* on disk is a list of entries.                                           *)
IsList(l) == /\ DOMAIN l \in SUBSET Jobs
             /\ \A j \in DOMAIN l : l[j] \in Entry

TypeOK ==
    /\ server \in {"up", "stopping", "draining", "exited", "crashed"}
    /\ seq \in Nat /\ listed \in SUBSET Jobs
    /\ id \in [Jobs -> Nat] /\ progress \in [Jobs -> Nat]
    /\ status \in [Jobs -> {"running"} \cup Final]
    /\ archived \in [Jobs -> BOOLEAN]
    /\ hasCancel \in [Jobs -> BOOLEAN] /\ cancelled \in [Jobs -> BOOLEAN]
    /\ pc \in [Jobs -> PCs] /\ req \in [Clients -> Requests]
    /\ pending \in SUBSET Callers /\ DOMAIN copies \in SUBSET pending
    /\ \A a, b \in DOMAIN copies : a = b
    /\ \A a \in DOMAIN copies : IsList(copies[a])
    /\ IsList(disk)
    /\ promised \in SUBSET [op : {"run", "cancel", "archive", "delete"}, job : Jobs]
    /\ lastOk \in BOOLEAN /\ failures \in Nat /\ stops \in Nat

(* An id names one job of the history, also after restarts and deletions.  *)
UniqueIds ==
    Up => /\ \A j \in listed : id[j] \in 1..seq
          /\ \A i, j \in listed : i # j => id[i] # id[j]

(* A job shown as running has a handler or a goroutine that will end it -- *)
(* no restart and no lost save leaves one running for ever -- and a run    *)
(* nobody cancelled is shown, so that it can be cancelled.                 *)
RunningIsAlive ==
    Up => \A j \in Jobs : status[j] = "running" =>
        /\ j \in listed => pc[j] \in {"saving", "undo", "saved", "launch", "run"}
        /\ pc[j] \in {"saved", "launch", "run"} => j \in listed

(* When nobody is saving and the last save went well, the file holds the   *)
(* history as shown; only a job whose own submission was answered with an  *)
(* error may be in it as well, put there by another caller's save.         *)
DiskIsRecent ==
    Up /\ pending = {} /\ lastOk =>
        LET kept == {j \in DOMAIN disk : pc[j] # "rejected"}
        IN  [j \in kept |-> disk[j]] = Snapshot

(* A list l in which request p, answered with success, has taken effect,   *)
(* the jobs now in the history being shown.                                *)
Shows(p, l, shown) ==
    CASE p.op = "run"     -> p.job \in DOMAIN l \/ p.job \notin shown
      [] p.op = "delete"  -> p.job \notin DOMAIN l
      [] p.op = "cancel"  -> p.job \in DOMAIN l => l[p.job].status = "cancelled"
      [] p.op = "archive" -> p.job \in DOMAIN l => l[p.job].archived

(* What was answered after a successful save stays so in the file, for     *)
(* ever after: later saves, failed ones, crashes and restarts included.    *)
Durable == \A p \in promised : Shows(p, disk, listed)

(* A job that is over stays what it is: a cancelled one is not completed   *)
(* by its run, and no save takes the file back behind an outcome it held.  *)
FinalStaysFinal ==
    [][\A j \in Jobs :
          /\ Up /\ Up' /\ status[j] \in Final => status'[j] = status[j]
          /\ j \in DOMAIN disk \cap DOMAIN disk' /\ disk[j].status \in Final
                => disk'[j].status = disk[j].status]_vars

(* A graceful exit without write errors leaves no submitted job running in *)
(* the file; for one that the watcher loop was submitting meanwhile it     *)
(* may, as nothing waits for that loop.                                    *)
ExitIsClean ==
    server = "exited" /\ failures = 0 =>
        \A j \in (Jobs \ Watched) \cap DOMAIN disk : disk[j].status # "running"

(* The run of a job that is cancelled ends, unless the cancellation came   *)
(* before the job had a context: such a run goes on to its own end.        *)
CancelledRunsEnd ==
    \A j \in Jobs : [](hasCancel[j] /\ status[j] = "running" =>
        [](status[j] = "cancelled" => <>(pc[j] \notin {"launch", "run"})))

(* Every request to cancel, archive or delete is answered, failed saves    *)
(* included, unless the process dies.                                      *)
RequestsAnswered == \A c \in Clients : req[c] # Idle ~> req[c] = Idle

(* The shutdown ends, whatever the jobs, clients and saves are doing.      *)
ShutdownEnds == server = "stopping" ~> ~Up

(* What somebody waits for happens: the answer to a request, the end of a  *)
(* cancelled run, and the end of the process.                              *)
WaitsEnd == RequestsAnswered /\ CancelledRunsEnd /\ ShutdownEnds
=============================================================================
