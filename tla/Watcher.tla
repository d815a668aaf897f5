------------------------------ MODULE Watcher ------------------------------
(***************************************************************************)
(* The standing orders of the web server, internal/web/server.go: handlers *)
(* create, pause, resume and delete watchers and save their list; one loop *)
(* polls a directory for every active watcher, claims each file by moving  *)
(* it to active/ and submits a job; a goroutine for each job moves the     *)
(* file to done/ when the job is no longer shown as running, which a       *)
(* cancelled one is not although its run goes on for a while.              *)
(*                                                                         *)
(* All watchers look into one directory, the worst case.  A job is one of  *)
(* JobServer's, of which only the cancellation and the end matter here;    *)
(* the state file of the watchers is one of DurableFile's and changes at   *)
(* once.                                                                   *)
(***************************************************************************)
EXTENDS Integers, FiniteSets, SequencesExt

CONSTANTS
    Watchers,        \* in the order of their ids: a sequence
    Broken,          \* those whose template does not parse
    Arrivals,        \* files dropped into the directory, in this order: a sequence
    NameOf,          \* the name of each
    Handlers,        \* HTTP requests at a time
    MaxChanges,      \* bound: changes to the watchers
    MaxFailures,     \* bound: saves and renames that fail
    MaxStops         \* bound: exits and crashes

ASSUME WatcherAssumption ==
    /\ Watchers \in Seq(ToSet(Watchers)) /\ IsInjective(Watchers)
    /\ Arrivals \in Seq(ToSet(Arrivals)) /\ IsInjective(Arrivals)
    /\ Broken \subseteq ToSet(Watchers) /\ DOMAIN NameOf = ToSet(Arrivals)
    /\ MaxChanges \in Nat /\ MaxFailures \in Nat /\ MaxStops \in Nat

Orders == ToSet(Watchers)
Files == ToSet(Arrivals)
Names == {NameOf[f] : f \in Files}
None == "none"

VARIABLES
    order,           \* s.watchers: each one's state
    disk,            \* the watchers' file
    handler,         \* each handler: where it is, and its copy of the list
    top, active, done,      \* the directory and its subdirectories, by name
    dropped,         \* files that have been dropped
    poll,            \* the loop: watchers left, names left, the file claimed
    jobs,            \* of each file claimed: its job's run, the status shown, and
                     \* the goroutine that waits
    server,          \* "up", "stopping" or "down"
    claims,          \* history: how often each file was claimed
    met,             \* history: files in active/ at the same time as another
                     \* of their name
    stranded,        \* history: files nobody will move any more: their rename
                     \* failed, or the server stopped meanwhile
    changes, failures, stops, stale     \* bounds; a save of the list failed

directories == <<top, active, done>>
bounds == <<changes, failures, stops>>
vars == <<order, disk, handler, directories, dropped, poll, jobs, server, claims, met, stranded, stale,
          bounds>>

NoJob == [run |-> "none", status |-> "none", mover |-> "none"]
NewJob == [run |-> "running", status |-> "running", mover |-> "waits"]
LoopAt(at, left, names, file) == [at |-> at, left |-> left, names |-> names, file |-> file]
Waiting == LoopAt("wait", <<>>, {}, None)
Idle == [at |-> "idle", copy |-> <<>>]

Init ==
    /\ order = [w \in Orders |-> "unknown"] /\ disk = order
    /\ handler = [h \in Handlers |-> Idle]
    /\ top = [n \in Names |-> None] /\ active = top /\ done = top
    /\ dropped = {} /\ poll = Waiting
    /\ jobs = [f \in Files |-> NoJob] /\ server = "up"
    /\ claims = [f \in Files |-> 0] /\ met = {} /\ stranded = {}
    /\ changes = 0 /\ failures = 0 /\ stops = 0 /\ stale = FALSE

Up == server # "down"

-----------------------------------------------------------------------------
(* The handlers                                                            *)

HandlerFrame ==
    UNCHANGED <<directories, dropped, poll, jobs, server, claims, met, stranded, stops>>

(* Under mu: create (active or not), toggle and delete.                    *)
Change(h) ==
    /\ server = "up" /\ handler[h].at = "idle" /\ changes < MaxChanges
    /\ \E w \in Orders, to \in {"on", "off", "deleted"} :
        /\ CASE order[w] = "unknown" -> to # "deleted"
             [] order[w] = "deleted" -> FALSE
             [] OTHER -> to # order[w]
        /\ order' = [order EXCEPT ![w] = to]
    /\ changes' = changes + 1
    /\ handler' = [handler EXCEPT ![h].at = "save"]
    /\ HandlerFrame /\ UNCHANGED <<disk, failures, stale>>

CopyList(h) == handler' = [handler EXCEPT ![h] = [at |-> "write", copy |-> order]]

\* Mutant: the list is copied before persistMu is taken.
BeginSaveUnlocked(h) ==
    /\ Up /\ handler[h].at = "save" /\ CopyList(h)
    /\ HandlerFrame /\ UNCHANGED <<order, disk, changes, failures, stale>>

(* persistWatchers, under persistMu.                                       *)
BeginSave(h) ==
    /\ Up /\ handler[h].at = "save" /\ \A g \in Handlers : handler[g].at # "write"
    /\ CopyList(h)
    /\ HandlerFrame /\ UNCHANGED <<order, disk, changes, failures, stale>>

(* Its errors are ignored: the handler answers in any case.                *)
EndSave(h) ==
    /\ Up /\ handler[h].at = "write"
    /\ \/ disk' = handler[h].copy /\ stale' = FALSE /\ UNCHANGED failures
       \/ failures < MaxFailures /\ failures' = failures + 1 /\ stale' = TRUE /\ UNCHANGED disk
    /\ handler' = [handler EXCEPT ![h] = Idle]
    /\ HandlerFrame /\ UNCHANGED <<order, changes>>

-----------------------------------------------------------------------------
(* The loop                                                                *)

LoopFrame == UNCHANGED <<order, disk, handler, dropped, server, stale, changes, stops>>

(* pollWatchers copies the active ones, under mu.                          *)
Poll ==
    /\ Up /\ poll.at = "wait"
    /\ LET on == SelectSeq(Watchers, LAMBDA w : order[w] = "on")
       IN  on # <<>> /\ poll' = LoopAt("glob", on, {}, None)
    /\ LoopFrame /\ UNCHANGED <<directories, jobs, claims, met, stranded, failures>>

NextWatcher ==
    IF Len(poll.left) > 1 THEN LoopAt("glob", Tail(poll.left), {}, None) ELSE Waiting

Glob ==
    /\ Up /\ poll.at = "glob"
    /\ LET found == {n \in Names : top[n] # None}
       IN  poll' = IF found = {} THEN NextWatcher ELSE LoopAt("claim", poll.left, found, None)
    /\ LoopFrame /\ UNCHANGED <<directories, jobs, claims, met, stranded, failures>>

After(names) == IF names = {} THEN NextWatcher ELSE LoopAt("claim", poll.left, names, None)

(* Those whose job or goroutine still means the file under this name.      *)
InFlight(n) ==
    {f \in Files : NameOf[f] = n /\ (jobs[f].mover = "waits" \/ jobs[f].run = "running")}

Claimed(n) ==
    /\ claims' = [claims EXCEPT ![top[n]] = @ + 1]
    /\ active' = [active EXCEPT ![n] = top[n]]
    /\ met' = IF InFlight(n) = {} THEN met ELSE met \union InFlight(n) \union {top[n]}
    /\ poll' = LoopAt("submit", poll.left, poll.names \ {n}, top[n])

\* Mutant: the file is copied to active/ and stays where it was.
ClaimCopying ==
    /\ Up /\ poll.at = "claim"
    /\ \E n \in poll.names : top[n] # None /\ Claimed(n)
    /\ LoopFrame /\ UNCHANGED <<top, done, jobs, stranded, failures>>

(* The rename to active/, over what is there under that name.              *)
Claim ==
    /\ Up /\ poll.at = "claim"
    /\ \E n \in poll.names :
        /\ top[n] # None /\ Claimed(n)
        /\ top' = [top EXCEPT ![n] = None]
    /\ LoopFrame /\ UNCHANGED <<done, jobs, stranded, failures>>

(* The file stays in the directory, for the next round to try.             *)
ClaimFails ==
    /\ Up /\ poll.at = "claim" /\ failures < MaxFailures
    /\ failures' = failures + 1
    /\ \E n \in poll.names : poll' = After(poll.names \ {n})
    /\ LoopFrame /\ UNCHANGED <<directories, jobs, claims, met, stranded>>

(* The rename to done/ of whatever is in active/ under the name of f.  Its *)
(* error is ignored: f stays, and nobody tries again.                      *)
ToDone(n) ==
    IF active[n] = None THEN UNCHANGED <<active, done>>
    ELSE done' = [done EXCEPT ![n] = active[n]] /\ active' = [active EXCEPT ![n] = None]

Released(f) == ToDone(NameOf[f]) /\ UNCHANGED stranded
Stranded(f) == stranded' = stranded \union {f} /\ UNCHANGED <<active, done>>

Submitting == Up /\ poll.at = "submit" /\ poll' = After(poll.names)

Unusable == Head(poll.left) \in Broken

(* parseConfig and enqueueJob.                                             *)
Submit ==
    /\ Submitting /\ ~Unusable
    /\ jobs' = [jobs EXCEPT ![poll.file] = NewJob]
    /\ LoopFrame /\ UNCHANGED <<directories, claims, met, stranded, failures>>

(* The template does not parse, or the job cannot be saved.                *)
SubmitFails ==
    /\ Submitting
    /\ \E saving, renaming \in BOOLEAN :          \* which of the two fails
        /\ ~saving => Unusable
        /\ failures' = failures + (IF saving THEN 1 ELSE 0) + (IF renaming THEN 1 ELSE 0)
        /\ failures' <= MaxFailures
        /\ IF renaming THEN Stranded(poll.file) ELSE Released(poll.file)
    /\ LoopFrame /\ UNCHANGED <<top, jobs, claims, met>>

(* The select may still take a tick when the context is done.              *)
LoopEnds ==
    /\ server = "stopping" /\ poll.at = "wait" /\ poll' = LoopAt("over", <<>>, {}, None)
    /\ LoopFrame /\ UNCHANGED <<directories, jobs, claims, met, stranded, failures>>

-----------------------------------------------------------------------------
(* Jobs, and the goroutines that wait for them                             *)

JobFrame ==
    UNCHANGED <<order, disk, handler, top, dropped, poll, server, claims, met, stale, changes, stops>>

(* handleCancelJob: the job is shown as cancelled and its context is done; *)
(* its run goes on until it notices.                                       *)
CancelJob(f) ==
    /\ Up /\ jobs[f].run = "running" /\ jobs[f].status = "running"
    /\ jobs' = [jobs EXCEPT ![f].status = "cancelled"]
    /\ JobFrame /\ UNCHANGED <<active, done, stranded, failures>>

(* App.Run has returned, and the job has completed or failed; a cancelled  *)
(* one stays cancelled.                                                    *)
RunEnds(f) ==
    /\ Up /\ jobs[f].run = "running"
    /\ jobs' = [jobs EXCEPT ![f].run = "over",
                            ![f].status = IF @ = "running" THEN "finished" ELSE @]
    /\ JobFrame /\ UNCHANGED <<active, done, stranded, failures>>

Terminal(f) == jobs[f].status \notin {"none", "running"}

\* Mutant: what was cancelled is not moved.
MoveFinished(f) ==
    /\ Up /\ jobs[f].mover = "waits" /\ jobs[f].status = "finished"
    /\ Released(f) /\ jobs' = [jobs EXCEPT ![f].mover = "moved"]
    /\ JobFrame /\ UNCHANGED failures

\* Mutant: the goroutine does not wait for the job.
MoveAtOnce(f) ==
    /\ Up /\ jobs[f].mover = "waits"
    /\ Released(f) /\ jobs' = [jobs EXCEPT ![f].mover = "moved"]
    /\ JobFrame /\ UNCHANGED failures

(* Every two seconds the goroutine looks at the status, not at the run: of *)
(* a cancelled job it moves the file although the run may still read it.   *)
Move(f) ==
    /\ Up /\ jobs[f].mover = "waits" /\ Terminal(f)
    /\ Released(f) /\ jobs' = [jobs EXCEPT ![f].mover = "moved"]
    /\ JobFrame /\ UNCHANGED failures

MoveFails(f) ==
    /\ Up /\ jobs[f].mover = "waits" /\ Terminal(f)
    /\ failures < MaxFailures /\ failures' = failures + 1
    /\ Stranded(f) /\ jobs' = [jobs EXCEPT ![f].mover = "failed"]
    /\ JobFrame

(* The goroutine's context is done.                                        *)
GiveUp(f) ==
    /\ server = "stopping" /\ jobs[f].mover = "waits"
    /\ Stranded(f) /\ jobs' = [jobs EXCEPT ![f].mover = "gone"]
    /\ JobFrame /\ UNCHANGED failures

-----------------------------------------------------------------------------
(* Stopping and starting                                                   *)

ServerFrame == UNCHANGED <<disk, directories, dropped, claims, met, changes, failures>>

Stop ==
    /\ server = "up" /\ server' = "stopping"
    /\ ServerFrame /\ UNCHANGED <<order, handler, poll, jobs, stranded, stale, stops>>

(* The process ends: by itself, when Run has waited, or by a crash.  The   *)
(* goroutines end with it.                                                 *)
JobAfter(job) ==
    IF job.run = "none" THEN NoJob
    ELSE [run |-> "over",
          status |-> IF job.status = "running" THEN "finished" ELSE job.status,
          mover |-> IF job.mover = "waits" THEN "gone" ELSE job.mover]

GoDown ==
    /\ Up /\ stops < MaxStops /\ stops' = stops + 1 /\ server' = "down"
    /\ order' = disk /\ stale' = FALSE
    /\ handler' = [h \in Handlers |-> Idle] /\ poll' = Waiting
    /\ jobs' = [f \in Files |-> JobAfter(jobs[f])]
    /\ stranded' = stranded \union {f \in Files : active[NameOf[f]] = f}
    /\ ServerFrame

(* loadWatchers; nothing looks into active/.                               *)
Restart ==
    /\ server = "down" /\ server' = "up"
    /\ ServerFrame /\ UNCHANGED <<order, handler, poll, jobs, stranded, stale, stops>>

(* Somebody puts a file into the directory.                                *)
Drop(f) ==
    /\ f \notin dropped /\ top[NameOf[f]] = None
    /\ \E i \in DOMAIN Arrivals : Arrivals[i] = f /\ \A j \in 1..(i - 1) : Arrivals[j] \in dropped
    /\ dropped' = dropped \union {f} /\ top' = [top EXCEPT ![NameOf[f]] = f]
    /\ UNCHANGED <<order, disk, handler, active, done, poll, jobs, server, claims, met, stranded,
                   stale, bounds>>

Loop == Poll \/ Glob \/ Claim \/ ClaimFails \/ Submit \/ SubmitFails \/ LoopEnds
Handle(h) == BeginSave(h) \/ EndSave(h)
Finish(f) == Move(f) \/ MoveFails(f) \/ GiveUp(f)

Next ==
    \/ Loop
    \/ \E h \in Handlers : Change(h) \/ Handle(h)
    \/ \E f \in Files : CancelJob(f) \/ RunEnds(f) \/ Finish(f) \/ Drop(f)
    \/ Stop \/ GoDown \/ Restart

Spec == Init /\ [][Next]_vars

(* The loop and the goroutines run on; a job ends, as RecordPipeline shows *)
(* of a run that is not Stuck.                                             *)
Fairness ==
    /\ WF_vars(Loop)
    /\ \A f \in Files : WF_vars(RunEnds(f)) /\ WF_vars(Finish(f))

FairSpec == Spec /\ Fairness

-----------------------------------------------------------------------------
(* Properties                                                              *)

(* The type of the state.                                                  *)
TypeOK ==
    /\ order \in [Orders -> {"unknown", "on", "off", "deleted"}]
    /\ \A n \in Names : {top[n], active[n], done[n]} \subseteq Files \union {None}
    /\ dropped \subseteq Files /\ met \subseteq Files /\ stranded \subseteq Files
    /\ jobs \in [Files -> [run : {"none", "running", "over"},
                          status : {"none", "running", "finished", "cancelled"},
                          mover : {"none", "waits", "moved", "failed", "gone"}]]
    /\ server \in {"up", "stopping", "down"}

(* No file is submitted twice, whichever watchers match it, through pauses,*)
(* stops and restarts.                                                     *)
OncePerFile == \A f \in Files : claims[f] <= 1

(* A job finds its file in active/ for as long as it runs, unless another  *)
(* file of that name is claimed before the first is done with, or the job  *)
(* was cancelled: the file of a cancelled job may be moved while its run   *)
(* still reads it.                                                         *)
InputStays ==
    \A f \in Files :
        jobs[f].run = "running" /\ jobs[f].status = "running" /\ f \notin met =>
            active[NameOf[f]] = f

(* What the loop does with a file it claims: once, and to the end.         *)
FileCustody == OncePerFile /\ InputStays

(* When no handler is at work and the last save went well, the watchers'   *)
(* file says what the handlers have answered: no older list has been       *)
(* written over a newer one.                                               *)
DiskIsCurrent == (\A h \in Handlers : handler[h].at = "idle") /\ ~stale => disk = order

(* While the server stays up and a watcher active, every file leaves the   *)
(* directory and then active/, whatever became of its job.  Not so a file  *)
(* whose rename to done/ failed, or that was in flight when the server     *)
(* stopped: nothing looks into active/ on start, and it stays there for    *)
(* good.                                                                   *)
FilesFinish ==
    \A f \in Files :
        []<>(\/ server # "up" \/ \A w \in Orders : order[w] # "on"
             \/ f \in stranded \/ f \notin {top[NameOf[f]], active[NameOf[f]]})

=============================================================================
