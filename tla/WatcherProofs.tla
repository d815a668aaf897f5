---------------------------- MODULE WatcherProofs ----------------------------
(***************************************************************************)
(* Watcher for any number of watchers, files, handlers, failures and stops.*)
(***************************************************************************)
EXTENDS Watcher, TLAPS

OrderStates == {"unknown", "on", "off", "deleted"}
Lists == [Orders -> OrderStates]
Slot == Files \cup {None}
Work == [at : {"idle", "save", "write"}, copy : Lists \cup {<<>>}]
JobState == [run : {"none", "running", "over"},
             status : {"none", "running", "finished", "cancelled"},
             mover : {"none", "waits", "moved", "failed", "gone"}]

Types ==
    /\ order \in Lists /\ disk \in Lists /\ handler \in [Handlers -> Work]
    /\ \A h \in Handlers : handler[h].at = "write" => handler[h].copy \in Lists
    /\ top \in [Names -> Slot] /\ active \in [Names -> Slot] /\ done \in [Names -> Slot]
    /\ dropped \subseteq Files /\ met \subseteq Files
    /\ jobs \in [Files -> JobState] /\ claims \in [Files -> Nat]
    /\ server \in {"up", "stopping", "down"}
    /\ poll.names \subseteq Names /\ (poll.at = "submit" => poll.file \in Files)

-----------------------------------------------------------------------------
(* The list in the file.                                                   *)

(* Once no handler has still to save, the one that writes, if any, has the *)
(* newest list, and else the file has it.                                  *)
Newest ==
    (\A h \in Handlers : handler[h].at # "save") =>
        /\ \A h \in Handlers : handler[h].at = "write" => handler[h].copy = order
        /\ (\A h \in Handlers : handler[h].at # "write") /\ ~stale => disk = order

LEMMA NewestCurrent == Newest => DiskIsCurrent
<1> QED BY DEF Newest, DiskIsCurrent

-----------------------------------------------------------------------------
(* Files.                                                                  *)

(* A file that lies in the directory has been dropped and not claimed;     *)
(* one that was never claimed has no job.                                  *)
Unclaimed ==
    /\ \A n \in Names : top[n] # None =>
          NameOf[top[n]] = n /\ top[n] \in dropped /\ claims[top[n]] = 0
    /\ \A f \in Files : f \notin dropped => claims[f] = 0
    /\ \A f \in Files : claims[f] = 0 => jobs[f] = NoJob

(* The file that is claimed but has no job yet.                            *)
Claiming ==
    poll.at = "submit" =>
        /\ jobs[poll.file] = NoJob /\ claims[poll.file] # 0
        /\ InFlight(NameOf[poll.file]) \subseteq met
        /\ poll.file \notin met => /\ InFlight(NameOf[poll.file]) = {}
                                   /\ active[NameOf[poll.file]] = poll.file

(* A file whose job or goroutine is still at it, and that has met no other *)
(* of its name, is alone.                                                  *)
Alone ==
    \A f \in Files : f \in InFlight(NameOf[f]) /\ f \notin met => InFlight(NameOf[f]) = {f}

FilesInv == Unclaimed /\ Claiming /\ Alone /\ FileCustody

-----------------------------------------------------------------------------
(* Types                                                                   *)

LEMMA TypesInit == Init => Types
<1> QED BY DEF Init, Types, Lists, OrderStates, Slot, Work, Idle, JobState, NoJob, Waiting, LoopAt, Names

(* Where the loop is after a step that claims nothing.                     *)
LEMMA LoopPlaces ==
    /\ NextWatcher.at # "submit" /\ NextWatcher.names = {}
    /\ \A names : After(names).at # "submit" /\ After(names).names \in {{}, names}
<1>1. NextWatcher.at # "submit" /\ NextWatcher.names = {}
  BY DEF NextWatcher, Waiting, LoopAt
<1>2. ASSUME NEW names PROVE After(names).at # "submit" /\ After(names).names \in {{}, names}
  <2>1. After(names) = NextWatcher \/ After(names) = LoopAt("claim", poll.left, names, None)
    BY DEF After
  <2> QED BY <1>1, <2>1 DEF LoopAt
<1> QED BY <1>1, <1>2

LEMMA LoopQuiet ==
    ASSUME Types, Poll \/ Glob \/ ClaimFails \/ LoopEnds
    PROVE  /\ poll'.at # "submit" /\ poll'.names \subseteq Names
           /\ UNCHANGED <<order, disk, handler, dropped, server, stale>>
           /\ UNCHANGED <<top, active, done, jobs, claims, met>>
<1>1. CASE Poll
  <2>1. poll' = LoopAt("glob", SelectSeq(Watchers, LAMBDA w : order[w] = "on"), {}, None)
    BY <1>1, Zenon DEF Poll
  <2>2. poll'.at # "submit" /\ poll'.names = {}
    BY <2>1 DEF LoopAt
  <2>3. UNCHANGED <<order, disk, handler, dropped, server, stale, changes, stops>>
        /\ UNCHANGED <<top, active, done, jobs, claims, met>>
    BY <1>1, Zenon DEF Poll, LoopFrame, directories
  <2> QED BY <2>2, <2>3
<1>2. CASE Glob
  <2>1. \/ poll' = NextWatcher
        \/ poll' = LoopAt("claim", poll.left, {n \in Names : top[n] # None}, None)
    BY <1>2 DEF Glob
  <2>2. poll'.at # "submit" /\ poll'.names \subseteq Names
    BY <2>1, LoopPlaces DEF LoopAt
  <2> QED BY <1>2, <2>2 DEF Glob, LoopFrame, directories
<1>3. CASE LoopEnds
  BY <1>3 DEF LoopEnds, LoopFrame, directories, LoopAt
<1>4. CASE ClaimFails
  <2>1. PICK n \in poll.names : poll' = After(poll.names \ {n})
    BY <1>4 DEF ClaimFails
  <2>2. poll'.at # "submit" /\ poll'.names \subseteq Names
    BY <2>1, LoopPlaces DEF Types
  <2>3. UNCHANGED <<order, disk, handler, dropped, server, stale>>
        /\ UNCHANGED <<top, active, done, jobs, claims, met>>
    BY <1>4 DEF ClaimFails, LoopFrame, directories
  <2> QED BY <2>2, <2>3
<1> QED BY <1>1, <1>2, <1>3, <1>4

LEMMA Claims ==
    ASSUME Types, Claim
    PROVE  \E n \in Names :
              /\ top[n] \in Files /\ top[n] # None
              /\ claims' = [claims EXCEPT ![top[n]] = @ + 1]
              /\ active' = [active EXCEPT ![n] = top[n]] /\ top' = [top EXCEPT ![n] = None]
              /\ met \subseteq met'
              /\ InFlight(n) # {} => InFlight(n) \subseteq met' /\ top[n] \in met'
              /\ met' \subseteq Files
              /\ poll'.at = "submit" /\ poll'.names \subseteq Names /\ poll'.file = top[n]
              /\ UNCHANGED <<order, disk, handler, dropped, server, stale, done, jobs>>
<1>1. PICK n \in poll.names : top[n] # None /\ Claimed(n) /\ top' = [top EXCEPT ![n] = None]
  BY DEF Claim
<1>2. n \in Names /\ top[n] \in Files
  BY <1>1 DEF Types, Slot
<1>3. InFlight(n) \subseteq Files
  BY DEF InFlight
<1>4. /\ met \subseteq met'
      /\ InFlight(n) # {} => InFlight(n) \subseteq met' /\ top[n] \in met'
      /\ met' \subseteq Files
  <2>1. met' = met \/ met' = met \union InFlight(n) \union {top[n]}
    BY <1>1 DEF Claimed
  <2>2. InFlight(n) # {} => met' = met \union InFlight(n) \union {top[n]}
    BY <1>1 DEF Claimed
  <2> HIDE DEF InFlight
  <2> QED BY <1>2, <1>3, <2>1, <2>2 DEF Types
<1>5. poll'.at = "submit" /\ poll'.names = poll.names \ {n} /\ poll'.file = top[n]
  BY <1>1 DEF Claimed, LoopAt
<1>6. poll'.names \subseteq Names
  BY <1>5 DEF Types
<1>7. UNCHANGED <<order, disk, handler, dropped, server, stale, done, jobs>>
  BY DEF Claim, LoopFrame
<1>8. claims' = [claims EXCEPT ![top[n]] = @ + 1] /\ active' = [active EXCEPT ![n] = top[n]]
  BY <1>1 DEF Claimed
<1> QED BY <1>1, <1>2, <1>4, <1>5, <1>6, <1>7, <1>8

LEMMA Submits ==
    ASSUME Types, Submit \/ SubmitFails
    PROVE  LET f == poll.file
           IN  /\ f \in Files /\ poll'.at # "submit" /\ poll'.names \subseteq Names
               /\ \/ jobs' = [jobs EXCEPT ![f] = NewJob] /\ UNCHANGED <<top, active, done>>
                  \/ UNCHANGED <<top, active, done, jobs>>
                  \/ ToDone(NameOf[f]) /\ UNCHANGED <<top, jobs>>
               /\ UNCHANGED <<order, disk, handler, dropped, server, stale, claims, met>>
<1>1. poll' = After(poll.names) /\ poll.at = "submit"
  BY DEF Submit, SubmitFails, Submitting
<1>2. poll.file \in Files
  BY <1>1 DEF Types
<1>3. poll'.at # "submit" /\ poll'.names \subseteq Names
  BY <1>1, LoopPlaces DEF Types
<1>4. UNCHANGED <<order, disk, handler, dropped, server, stale, claims, met>>
  BY DEF Submit, SubmitFails, LoopFrame
<1>5. \/ jobs' = [jobs EXCEPT ![poll.file] = NewJob] /\ UNCHANGED <<top, active, done>>
      \/ UNCHANGED <<top, active, done, jobs>>
      \/ ToDone(NameOf[poll.file]) /\ UNCHANGED <<top, jobs>>
  <2>1. CASE Submit
    BY <2>1, Zenon DEF Submit, directories
  <2>2. CASE SubmitFails
    <3>1. UNCHANGED <<top, jobs>> /\ (Stranded(poll.file) \/ Released(poll.file))
      BY <2>2, Zenon DEF SubmitFails
    <3> QED BY <3>1 DEF Stranded, Released
  <2> QED BY <2>1, <2>2
<1> QED BY <1>2, <1>3, <1>4, <1>5

LEMMA ToDoneType ==
    ASSUME Types, NEW n \in Names, ToDone(n)
    PROVE  /\ active' \in [Names -> Slot] /\ done' \in [Names -> Slot]
           /\ \A k \in Names \ {n} : active'[k] = active[k]
<1> QED BY DEF ToDone, Types, Slot

LEMMA SetJob ==
    ASSUME NEW j \in JobState, NEW x
    PROVE  /\ [j EXCEPT !.status = x] = [run |-> j.run, status |-> x, mover |-> j.mover]
           /\ [j EXCEPT !.mover = x] = [run |-> j.run, status |-> j.status, mover |-> x]
<1>1. [j EXCEPT !.status = x] = [run |-> j.run, status |-> x, mover |-> j.mover]
  BY DEF JobState
<1>2. [j EXCEPT !.mover = x] = [run |-> j.run, status |-> j.status, mover |-> x]
  BY DEF JobState
<1> QED BY <1>1, <1>2

JobStep(f) == CancelJob(f) \/ RunEnds(f) \/ Move(f) \/ MoveFails(f) \/ GiveUp(f)

(* What a request, the run and the goroutine do to the job.                *)
LEMMA JobSteps ==
    ASSUME Types, NEW f \in Files, JobStep(f)
    PROVE  /\ \E j \in JobState :
                 /\ jobs' = [jobs EXCEPT ![f] = j]
                 /\ j.run = "running" => jobs[f].run = "running"
                 /\ j.status = "running" => jobs[f].status = "running"
                 /\ j.mover = "waits" => jobs[f].mover = "waits"
                 /\ jobs[f] # NoJob
           /\ UNCHANGED <<order, disk, handler, top, dropped, poll, server, claims, met, stale>>
           /\ \/ UNCHANGED <<active, done>>
              \/ Move(f) /\ ToDone(NameOf[f])
<1>0. jobs[f] \in JobState
  BY DEF Types
<1>1. UNCHANGED <<order, disk, handler, top, dropped, poll, server, claims, met, stale>>
  BY DEF JobStep, CancelJob, RunEnds, Move, MoveFails, GiveUp, JobFrame
<1>2. UNCHANGED <<active, done>> \/ (Move(f) /\ ToDone(NameOf[f]))
  BY DEF JobStep, CancelJob, RunEnds, Move, MoveFails, GiveUp, Released, Stranded
<1>3. jobs[f] # NoJob
  BY DEF JobStep, CancelJob, RunEnds, Move, MoveFails, GiveUp, NoJob
<1>4. CASE CancelJob(f)
  <2> DEFINE j == [run |-> jobs[f].run, status |-> "cancelled", mover |-> jobs[f].mover]
  <2>1. j \in JobState /\ j.run = jobs[f].run /\ j.status # "running" /\ j.mover = jobs[f].mover
    BY <1>0 DEF JobState
  <2>2. jobs' = [jobs EXCEPT ![f] = [jobs[f] EXCEPT !.status = "cancelled"]]
    BY <1>4 DEF CancelJob
  <2>3. [jobs[f] EXCEPT !.status = "cancelled"] = j
    BY <1>0, SetJob
  <2> HIDE DEF j
  <2> QED BY <1>1, <1>2, <1>3, <2>1, <2>2, <2>3
<1>5. CASE RunEnds(f)
  <2> DEFINE x == IF jobs[f].status = "running" THEN "finished" ELSE jobs[f].status
             j == [run |-> "over", status |-> x, mover |-> jobs[f].mover]
  <2>1. j \in JobState /\ j.run # "running" /\ j.status # "running" /\ j.mover = jobs[f].mover
    BY <1>0 DEF JobState
  <2>2. jobs' = [jobs EXCEPT ![f] = [jobs[f] EXCEPT !.run = "over", !.status = x]]
    BY <1>5 DEF RunEnds
  <2>3. [jobs[f] EXCEPT !.run = "over", !.status = x] = j
    <3>1. [jobs[f] EXCEPT !.run = "over", !.status = x]
            = [[jobs[f] EXCEPT !.run = "over"] EXCEPT !.status = x]
      OBVIOUS
    <3> HIDE DEF x
    <3>2. PICK k \in JobState : k = jobs[f]
      BY <1>0
    <3>3. [[k EXCEPT !.run = "over"] EXCEPT !.status = x]
            = [run |-> "over", status |-> x, mover |-> k.mover]
      <4>1. [k EXCEPT !.run = "over"] = [run |-> "over", status |-> k.status, mover |-> k.mover]
        BY DEF JobState
      <4>2. [[run |-> "over", status |-> k.status, mover |-> k.mover] EXCEPT !.status = x]
              = [run |-> "over", status |-> x, mover |-> k.mover]
        OBVIOUS
      <4> QED BY <4>1, <4>2
    <3> QED BY <3>1, <3>2, <3>3
  <2> HIDE DEF j, x
  <2> QED BY <1>1, <1>2, <1>3, <2>1, <2>2, <2>3
<1>6. CASE Move(f) \/ MoveFails(f) \/ GiveUp(f)
  <2>1. PICK x \in {"moved", "failed", "gone"} : jobs' = [jobs EXCEPT ![f].mover = x]
    BY <1>6 DEF Move, MoveFails, GiveUp
  <2> DEFINE j == [run |-> jobs[f].run, status |-> jobs[f].status, mover |-> x]
  <2>2. j \in JobState /\ j.run = jobs[f].run /\ j.status = jobs[f].status /\ j.mover # "waits"
    BY <1>0 DEF JobState
  <2>3. jobs' = [jobs EXCEPT ![f] = [jobs[f] EXCEPT !.mover = x]]
    BY <2>1
  <2>4. [jobs[f] EXCEPT !.mover = x] = j
    BY <1>0, SetJob
  <2> HIDE DEF j
  <2> QED BY <1>1, <1>2, <1>3, <2>2, <2>3, <2>4
<1> QED BY <1>4, <1>5, <1>6 DEF JobStep

(* What a handler does: to its own copy, the list and the file.            *)
HandlerStep(h) == Change(h) \/ BeginSave(h) \/ EndSave(h)

LEMMA HandlerSteps ==
    ASSUME Types, NEW h \in Handlers, HandlerStep(h)
    PROVE  /\ \E a \in Work : /\ handler' = [handler EXCEPT ![h] = a]
                              /\ a.at = "write" => a.copy \in Lists
           /\ order' \in Lists /\ disk' \in Lists
           /\ UNCHANGED <<top, active, done, dropped, poll, jobs, server, claims, met>>
<1>0. handler[h] \in Work
  BY DEF Types
<1>1. CASE Change(h)
  <2>1. PICK w \in Orders, to \in {"on", "off", "deleted"} : order' = [order EXCEPT ![w] = to]
    BY <1>1, Zenon DEF Change
  <2>2. order' \in Lists
    BY <2>1 DEF Types, Lists, OrderStates
  <2> DEFINE a == [at |-> "save", copy |-> handler[h].copy]
  <2>3. a \in Work /\ [handler[h] EXCEPT !.at = "save"] = a /\ a.at # "write"
    BY <1>0 DEF Work
  <2>4. handler' = [handler EXCEPT ![h] = [handler[h] EXCEPT !.at = "save"]]
    BY <1>1 DEF Change
  <2>5. UNCHANGED <<disk, top, active, done, dropped, poll, jobs, server, claims, met>>
    BY <1>1 DEF Change, HandlerFrame, directories
  <2> HIDE DEF a
  <2> QED BY <2>2, <2>3, <2>4, <2>5 DEF Types
<1>2. CASE BeginSave(h)
  <2> DEFINE a == [at |-> "write", copy |-> order]
  <2>1. a \in Work /\ handler' = [handler EXCEPT ![h] = a] /\ a.copy \in Lists
    BY <1>2 DEF BeginSave, CopyList, Work, Types
  <2>2. UNCHANGED <<order, disk, top, active, done, dropped, poll, jobs, server, claims, met>>
    BY <1>2 DEF BeginSave, HandlerFrame, directories
  <2> HIDE DEF a
  <2> QED BY <2>1, <2>2 DEF Types
<1>3. CASE EndSave(h)
  <2>1. Idle \in Work /\ handler' = [handler EXCEPT ![h] = Idle] /\ Idle.at # "write"
    BY <1>3 DEF EndSave, Work, Idle
  <2>2. UNCHANGED <<order, top, active, done, dropped, poll, jobs, server, claims, met>>
    BY <1>3 DEF EndSave, HandlerFrame, directories
  <2>3. order' \in Lists /\ disk' \in Lists
    BY <1>3, <2>2 DEF EndSave, Types
  <2> HIDE DEF Idle
  <2> QED BY <2>1, <2>2, <2>3
<1> QED BY <1>1, <1>2, <1>3 DEF HandlerStep

(* The process starts, is told to stop, and ends.                          *)
LEMMA ServerSteps ==
    ASSUME Types, Stop \/ Restart
    PROVE  /\ server' \in {"up", "stopping", "down"}
           /\ UNCHANGED <<order, disk, handler, top, active, done, dropped, poll, jobs, claims, met, stale>>
<1>1. server' \in {"up", "stopping", "down"}
  BY DEF Stop, Restart
<1>2. UNCHANGED <<order, disk, handler, top, active, done, dropped, poll, jobs, claims, met, stale>>
  BY DEF Stop, Restart, ServerFrame, directories
<1> QED BY <1>1, <1>2

LEMMA DownSteps ==
    ASSUME Types, GoDown
    PROVE  /\ server' = "down" /\ order' = disk /\ poll' = Waiting
           /\ handler' = [h \in Handlers |-> Idle]
           /\ jobs' \in [Files -> JobState]
           /\ \A f \in Files : /\ jobs'[f].run # "running" /\ jobs'[f].mover # "waits"
                               /\ jobs[f] = NoJob => jobs'[f] = NoJob
           /\ UNCHANGED <<disk, top, active, done, dropped, claims, met>>
<1>1. ASSUME NEW f \in Files
      PROVE  /\ jobs'[f] \in JobState /\ jobs'[f].run # "running" /\ jobs'[f].mover # "waits"
             /\ jobs[f] = NoJob => jobs'[f] = NoJob
  <2>0. jobs[f] \in JobState
    BY DEF Types
  <2>1. jobs'[f] = JobAfter(jobs[f])
    BY DEF GoDown
  <2>2. NoJob \in JobState /\ NoJob.run = "none" /\ NoJob.mover = "none"
    BY DEF NoJob, JobState
  <2>3. CASE jobs[f].run = "none"
    BY <2>1, <2>2, <2>3 DEF JobAfter
  <2>4. CASE jobs[f].run # "none"
    BY <2>0, <2>1, <2>2, <2>4 DEF JobAfter, JobState, NoJob
  <2> QED BY <2>3, <2>4
<1>2. jobs' = [f \in Files |-> jobs'[f]]
  BY DEF GoDown
<1>3. jobs' \in [Files -> JobState]
  BY <1>1, <1>2
<1>4. server' = "down" /\ order' = disk /\ poll' = Waiting /\ handler' = [h \in Handlers |-> Idle]
  BY DEF GoDown
<1>5. UNCHANGED <<disk, top, active, done, dropped, claims, met>>
  BY DEF GoDown, ServerFrame, directories
<1> QED BY <1>1, <1>3, <1>4, <1>5

LEMMA Drops ==
    ASSUME Types, NEW f \in Files, Drop(f)
    PROVE  /\ f \notin dropped /\ dropped' = dropped \cup {f} /\ NameOf[f] \in Names
           /\ top' = [top EXCEPT ![NameOf[f]] = f]
           /\ UNCHANGED <<order, disk, handler, active, done, poll, jobs, server, claims, met, stale>>
<1> QED BY DEF Drop, Names

(* The steps, by what they touch.                                          *)
Quiet == Poll \/ Glob \/ ClaimFails \/ LoopEnds

LEMMA StepCases ==
    ASSUME [Next]_vars
    PROVE  \/ Quiet \/ Claim \/ Submit \/ SubmitFails
           \/ \E h \in Handlers : HandlerStep(h)
           \/ \E f \in Files : JobStep(f)
           \/ \E f \in Files : Drop(f)
           \/ Stop \/ Restart
           \/ GoDown
           \/ UNCHANGED vars
<1> QED BY Zenon DEF Next, Loop, Handle, Finish, Quiet, HandlerStep, JobStep

LEMMA StrandedStep == Types /\ stranded \subseteq Files /\ [Next]_vars => stranded' \subseteq Files
<1> SUFFICES ASSUME Types, stranded \subseteq Files, [Next]_vars PROVE stranded' \subseteq Files
  OBVIOUS
<1>1. CASE Quiet \/ Claim \/ Submit
  BY <1>1 DEF Quiet, Poll, Glob, ClaimFails, LoopEnds, Claim, Submit
<1>2. CASE SubmitFails
  <2>1. poll.file \in Files
    BY <1>2 DEF SubmitFails, Submitting, Types
  <2>2. Stranded(poll.file) \/ Released(poll.file)
    BY <1>2, Zenon DEF SubmitFails
  <2> QED BY <2>1, <2>2 DEF Stranded, Released
<1>3. ASSUME NEW h \in Handlers, HandlerStep(h) PROVE stranded' \subseteq Files
  BY <1>3 DEF HandlerStep, Change, BeginSave, EndSave, HandlerFrame
<1>4. ASSUME NEW f \in Files, JobStep(f) PROVE stranded' \subseteq Files
  BY <1>4 DEF JobStep, CancelJob, RunEnds, Move, MoveFails, GiveUp, Released, Stranded
<1>5. ASSUME NEW f \in Files, Drop(f) PROVE stranded' \subseteq Files
  BY <1>5 DEF Drop
<1>6. CASE Stop \/ Restart \/ UNCHANGED vars
  BY <1>6 DEF Stop, Restart, vars
<1>7. CASE GoDown
  BY <1>7 DEF GoDown
<1> QED BY <1>1, <1>2, <1>3, <1>4, <1>5, <1>6, <1>7, StepCases

LEMMA TypesStep == Types /\ [Next]_vars => Types'
<1> SUFFICES ASSUME Types, [Next]_vars PROVE Types'
  OBVIOUS
<1>1. CASE Quiet
  BY <1>1, LoopQuiet DEF Quiet, Types
<1>2. CASE Claim
  BY <1>2, Claims DEF Types, Slot
<1>3. CASE Submit \/ SubmitFails
  <2> DEFINE f == poll.file
  <2>0. NewJob \in JobState
    BY DEF JobState, NewJob
  <2>1. /\ f \in Files /\ poll'.at # "submit" /\ poll'.names \subseteq Names
        /\ \/ jobs' = [jobs EXCEPT ![f] = NewJob] /\ UNCHANGED <<top, active, done>>
           \/ UNCHANGED <<top, active, done, jobs>>
           \/ ToDone(NameOf[f]) /\ UNCHANGED <<top, jobs>>
        /\ UNCHANGED <<order, disk, handler, dropped, server, stale, claims, met>>
    BY <1>3, Submits
  <2> HIDE DEF f
  <2>2. CASE jobs' = [jobs EXCEPT ![f] = NewJob] /\ UNCHANGED <<top, active, done>>
    BY <2>0, <2>1, <2>2 DEF Types
  <2>4. CASE UNCHANGED <<top, active, done, jobs>>
    BY <2>1, <2>4 DEF Types
  <2>3. CASE ToDone(NameOf[f]) /\ UNCHANGED <<top, jobs>>
    <3>1. NameOf[f] \in Names
      BY <2>1 DEF Names
    <3>2. active' \in [Names -> Slot] /\ done' \in [Names -> Slot]
      BY <2>3, <3>1, ToDoneType
    <3> QED BY <2>1, <2>3, <3>2 DEF Types
  <2> QED BY <2>1, <2>2, <2>3, <2>4
<1>4. ASSUME NEW h \in Handlers, HandlerStep(h) PROVE Types'
  BY <1>4, HandlerSteps DEF Types
<1>5. ASSUME NEW f \in Files, JobStep(f) PROVE Types'
  <2>2. PICK j \in JobState : jobs' = [jobs EXCEPT ![f] = j]
    BY <1>5, JobSteps
  <2>3. NameOf[f] \in Names
    BY DEF Names
  <2>4. active' \in [Names -> Slot] /\ done' \in [Names -> Slot]
    <3>1. UNCHANGED <<active, done>> \/ ToDone(NameOf[f])
      BY <1>5, JobSteps
    <3> QED BY <2>3, <3>1, ToDoneType DEF Types
  <2>5. UNCHANGED <<order, disk, handler, top, dropped, poll, server, claims, met, stale>>
    BY <1>5, JobSteps
  <2>6. jobs' \in [Files -> JobState]
    BY <2>2 DEF Types
  <2> QED BY <2>4, <2>5, <2>6 DEF Types
<1>6. ASSUME NEW f \in Files, Drop(f) PROVE Types'
  BY <1>6, Drops DEF Types, Slot
<1>7. CASE Stop \/ Restart
  BY <1>7, ServerSteps DEF Types
<1>8. CASE GoDown
  BY <1>8, DownSteps DEF Types, Work, Idle, Waiting, LoopAt
<1>9. CASE UNCHANGED vars
  BY <1>9 DEF vars, directories, Types
<1> QED BY <1>1, <1>2, <1>3, <1>4, <1>5, <1>6, <1>7, <1>8, <1>9, StepCases

LEMMA NewestStep == Types /\ Newest /\ [Next]_vars => Newest'
<1> SUFFICES ASSUME Types, Newest, [Next]_vars PROVE Newest'
  OBVIOUS
<1>0. \A h \in Handlers : handler[h] \in Work
  BY DEF Types
<1>1. ASSUME NEW h \in Handlers, Change(h) PROVE Newest'
  <2>1. handler'[h].at = "save"
    <3>1. handler' = [handler EXCEPT ![h] = [handler[h] EXCEPT !.at = "save"]]
      BY <1>1 DEF Change
    <3> QED BY <1>0, <3>1 DEF Types, Work
  <2> QED BY <2>1 DEF Newest
<1>2. ASSUME NEW h \in Handlers, BeginSave(h) PROVE Newest'
  <2>1. /\ handler' = [handler EXCEPT ![h] = [at |-> "write", copy |-> order]]
        /\ \A g \in Handlers : handler[g].at # "write"
        /\ order' = order /\ disk' = disk
    BY <1>2 DEF BeginSave, CopyList
  <2>2. handler'[h].at = "write" /\ handler'[h].copy = order
    BY <2>1 DEF Types
  <2>3. \A g \in Handlers \ {h} : handler'[g] = handler[g]
    BY <2>1 DEF Types
  <2> QED BY <2>1, <2>2, <2>3 DEF Newest
<1>3. ASSUME NEW h \in Handlers, EndSave(h) PROVE Newest'
  <2>1. /\ handler[h].at = "write" /\ handler' = [handler EXCEPT ![h] = Idle] /\ order' = order
        /\ disk' = handler[h].copy \/ stale' = TRUE
    BY <1>3 DEF EndSave
  <2>2. handler'[h].at = "idle" /\ \A g \in Handlers \ {h} : handler'[g] = handler[g]
    BY <2>1 DEF Types, Idle
  <2>3. (\A g \in Handlers : handler'[g].at # "save") => \A g \in Handlers : handler[g].at # "save"
    BY <2>1, <2>2
  <2> QED BY <2>1, <2>2, <2>3 DEF Newest
<1>4. CASE GoDown
  <2>1. order' = disk /\ disk' = disk /\ \A h \in Handlers : handler'[h].at = "idle"
    BY <1>4, DownSteps DEF Idle
  <2> QED BY <2>1 DEF Newest
<1>5. CASE UNCHANGED <<order, disk, handler, stale>>
  BY <1>5 DEF Newest
<1>6. ASSUME NEW f \in Files, JobStep(f) PROVE UNCHANGED <<order, disk, handler, stale>>
  BY <1>6, JobSteps
<1>7. CASE Quiet \/ Claim \/ Submit \/ SubmitFails
  <2>1. UNCHANGED <<order, disk, handler, stale>>
    BY <1>7, LoopQuiet, Claims, Submits DEF Quiet
  <2> QED BY <1>5, <2>1
<1>8. ASSUME NEW f \in Files, Drop(f) PROVE UNCHANGED <<order, disk, handler, stale>>
  BY <1>8, Drops
<1>9. CASE Stop \/ Restart \/ UNCHANGED vars
  <2>1. UNCHANGED <<order, disk, handler, stale>>
    BY <1>9, ServerSteps DEF vars
  <2> QED BY <1>5, <2>1
<1> QED BY <1>1, <1>2, <1>3, <1>4, <1>5, <1>6, <1>7, <1>8, <1>9, StepCases DEF HandlerStep

-----------------------------------------------------------------------------
(* A file on its way from the directory to done/.                          *)

LEMMA FlyingIff ==
    \A f \in Files : \A n : f \in InFlight(n) <=>
        NameOf[f] = n /\ (jobs[f].mover = "waits" \/ jobs[f].run = "running")
<1> QED BY DEF InFlight

LEMMA FilesSame ==
    ASSUME FilesInv, UNCHANGED <<top, active, dropped, jobs, claims, met>>,
           poll'.at = "submit" => poll' = poll
    PROVE  FilesInv'
<1>1. \A n : InFlight(n)' = InFlight(n)
  BY DEF InFlight
<1>2. Unclaimed'
  BY DEF FilesInv, Unclaimed
<1>3. Claiming'
  BY <1>1 DEF FilesInv, Claiming
<1>4. Alone'
  BY <1>1 DEF FilesInv, Alone
<1>5. FileCustody'
  BY DEF FilesInv, FileCustody, OncePerFile, InputStays
<1> QED BY <1>2, <1>3, <1>4, <1>5 DEF FilesInv

LEMMA ClaimStep == ASSUME Types, FilesInv, Claim PROVE FilesInv'
<1> USE DEF FilesInv
<1>1. PICK n \in Names :
              /\ top[n] \in Files /\ top[n] # None
              /\ claims' = [claims EXCEPT ![top[n]] = @ + 1]
              /\ active' = [active EXCEPT ![n] = top[n]] /\ top' = [top EXCEPT ![n] = None]
              /\ met \subseteq met'
              /\ InFlight(n) # {} => InFlight(n) \subseteq met' /\ top[n] \in met'
              /\ poll'.at = "submit" /\ poll'.file = top[n]
              /\ dropped' = dropped /\ jobs' = jobs
  BY Claims
<1> DEFINE f == top[n]
<1>2. NameOf[f] = n /\ f \in dropped /\ claims[f] = 0 /\ jobs[f] = NoJob
  BY <1>1 DEF Unclaimed
<1>3. claims'[f] = 1 /\ \A g \in Files \ {f} : claims'[g] = claims[g]
  <2>1. claims[f] + 1 = 1
    BY <1>2
  <2> QED BY <1>1, <2>1 DEF Types
<1>4. active'[n] = f /\ top'[n] = None
      /\ \A k \in Names \ {n} : active'[k] = active[k] /\ top'[k] = top[k]
  BY <1>1 DEF Types
<1>5. \A k : InFlight(k)' = InFlight(k)
  BY <1>1 DEF InFlight
<1>6. Unclaimed'
  <2>1. ASSUME NEW k \in Names, top'[k] # None
        PROVE  NameOf[top'[k]] = k /\ top'[k] \in dropped' /\ claims'[top'[k]] = 0
    <3>1. k # n /\ top'[k] = top[k]
      BY <1>4, <2>1
    <3>2. NameOf[top[k]] = k /\ top[k] \in dropped /\ claims[top[k]] = 0
      BY <2>1, <3>1 DEF Unclaimed
    <3>3. top[k] \in Files /\ top[k] # f
      BY <1>2, <3>1, <3>2 DEF Types
    <3> QED BY <1>1, <1>3, <3>1, <3>2, <3>3
  <2>2. \A g \in Files : g \notin dropped' => claims'[g] = 0
    BY <1>1, <1>2, <1>3 DEF Unclaimed
  <2>3. \A g \in Files : claims'[g] = 0 => jobs'[g] = NoJob
    BY <1>1, <1>2, <1>3 DEF Unclaimed
  <2> QED BY <2>1, <2>2, <2>3 DEF Unclaimed
<1>7. Claiming'
  <2>1. poll'.file = f /\ jobs'[f] = NoJob /\ claims'[f] # 0
    BY <1>1, <1>2, <1>3
  <2>2. InFlight(n)' \subseteq met'
    BY <1>1, <1>5
  <2>3. f \notin met' => InFlight(n)' = {} /\ active'[n] = f
    BY <1>1, <1>4, <1>5
  <2> HIDE DEF f
  <2> QED BY <1>2, <2>1, <2>2, <2>3 DEF Claiming
<1>8. Alone'
  BY <1>1, <1>5 DEF Alone
<1>9. OncePerFile'
  BY <1>3 DEF FileCustody, OncePerFile
<1>10. InputStays'
  <2> SUFFICES ASSUME NEW g \in Files, jobs'[g].run = "running", jobs'[g].status = "running",
                      g \notin met'
               PROVE  active'[NameOf[g]] = g
    BY DEF InputStays
  <2>1. jobs[g].run = "running" /\ jobs[g].status = "running" /\ g \notin met
    BY <1>1
  <2>2. active[NameOf[g]] = g /\ NameOf[g] \in Names
    BY <2>1 DEF FileCustody, InputStays, Names
  <2>3. NameOf[g] # n
    BY <1>1, <2>1, FlyingIff
  <2> QED BY <1>4, <2>2, <2>3
<1> QED BY <1>6, <1>7, <1>8, <1>9, <1>10 DEF FileCustody

LEMMA SubmitStep == ASSUME Types, FilesInv, Submit \/ SubmitFails PROVE FilesInv'
<1> USE DEF FilesInv
<1>0. PICK f \in Files : f = poll.file
  BY Submits
<1> DEFINE n == NameOf[f]
           j == NewJob
<1>1. /\ poll'.at # "submit"
      /\ \/ jobs' = [jobs EXCEPT ![f] = j] /\ UNCHANGED <<top, active, done>>
         \/ UNCHANGED <<top, active, done, jobs>>
         \/ ToDone(n) /\ UNCHANGED <<top, jobs>>
      /\ UNCHANGED <<dropped, claims, met>>
  BY <1>0, Submits
<1>2. /\ jobs[f] = NoJob /\ claims[f] # 0 /\ InFlight(n) \subseteq met
      /\ f \notin met => InFlight(n) = {} /\ active[n] = f
  BY <1>0 DEF Claiming, Submit, SubmitFails, Submitting
<1>3. j.run = "running" /\ j.mover = "waits" /\ n \in Names
  BY <1>1 DEF Names, NewJob
<1> HIDE DEF j
<1>4. CASE jobs' = [jobs EXCEPT ![f] = j] /\ UNCHANGED <<top, active, done>>
  <2>1. jobs'[f] = j /\ \A g \in Files \ {f} : jobs'[g] = jobs[g]
    BY <1>1, <1>4 DEF Types
  <2>2. InFlight(n)' = InFlight(n) \cup {f}
    BY <1>1, <1>3, <2>1 DEF InFlight
  <2>3. \A k : k # n => InFlight(k)' = InFlight(k)
    BY <1>1, <1>3, <2>1 DEF InFlight
  <2>4. Unclaimed'
    BY <1>1, <1>2, <1>4, <2>1 DEF Unclaimed
  <2>5. Claiming'
    BY <1>1 DEF Claiming
  <2>6. Alone'
    <3> SUFFICES ASSUME NEW g \in Files, g \in InFlight(NameOf[g])', g \notin met
                 PROVE  InFlight(NameOf[g])' = {g}
      BY <1>1 DEF Alone
    <3>1. CASE NameOf[g] = n
      <4>1. g = f
        BY <1>2, <2>2, <3>1
      <4> QED BY <1>2, <2>2, <4>1
    <3>2. CASE NameOf[g] # n
      BY <2>3, <3>2 DEF Alone
    <3> QED BY <3>1, <3>2
  <2>7. InputStays'
    <3> SUFFICES ASSUME NEW g \in Files, jobs'[g].run = "running", jobs'[g].status = "running",
                        g \notin met
                 PROVE  active[NameOf[g]] = g
      BY <1>1, <1>4 DEF InputStays
    <3> QED BY <1>2, <2>1 DEF FileCustody, InputStays
  <2> QED BY <1>1, <2>4, <2>5, <2>6, <2>7 DEF FileCustody, OncePerFile
<1>5. CASE ToDone(n) /\ UNCHANGED <<top, jobs>>
  <2>1. \A k \in Names \ {n} : active'[k] = active[k]
    BY <1>3, <1>5, ToDoneType
  <2>2. \A k : InFlight(k)' = InFlight(k)
    BY <1>5 DEF InFlight
  <2>3. Unclaimed'
    BY <1>1, <1>5 DEF Unclaimed
  <2>4. Claiming'
    BY <1>1 DEF Claiming
  <2>5. Alone'
    BY <1>1, <2>2 DEF Alone
  <2>6. InputStays'
    <3> SUFFICES ASSUME NEW g \in Files, jobs[g].run = "running", jobs[g].status = "running",
                        g \notin met
                 PROVE  active'[NameOf[g]] = g
      BY <1>1, <1>5 DEF InputStays
    <3>1. active[NameOf[g]] = g /\ NameOf[g] \in Names
      BY DEF FileCustody, InputStays, Names
    <3>2. NameOf[g] # n
      BY <1>2, FlyingIff
    <3> QED BY <2>1, <3>1, <3>2
  <2> QED BY <1>1, <2>3, <2>4, <2>5, <2>6 DEF FileCustody, OncePerFile
<1>6. CASE UNCHANGED <<top, active, done, jobs>>
  BY <1>1, <1>6, FilesSame
<1> QED BY <1>1, <1>4, <1>5, <1>6

LEMMA JobStepFiles == ASSUME Types, FilesInv, NEW f \in Files, JobStep(f) PROVE FilesInv'
<1> USE DEF FilesInv
<1>1. PICK j \in JobState :
         /\ jobs' = [jobs EXCEPT ![f] = j]
         /\ j.run = "running" => jobs[f].run = "running"
         /\ j.status = "running" => jobs[f].status = "running"
         /\ j.mover = "waits" => jobs[f].mover = "waits"
         /\ jobs[f] # NoJob
  BY JobSteps
<1>2. /\ UNCHANGED <<top, dropped, poll, claims, met>>
      /\ UNCHANGED active \/ (Move(f) /\ ToDone(NameOf[f]))
  BY JobSteps
<1>3. jobs'[f] = j /\ \A g \in Files \ {f} : jobs'[g] = jobs[g]
  BY <1>1 DEF Types
<1>4. \A k : InFlight(k)' \subseteq InFlight(k)
  BY <1>1, <1>3 DEF InFlight
<1>5. \A g \in Files : /\ jobs'[g].run = "running" => jobs[g].run = "running"
                       /\ jobs'[g].status = "running" => jobs[g].status = "running"
  BY <1>1, <1>3
<1>6. claims[f] # 0
  BY <1>1 DEF Unclaimed
<1>7. Unclaimed'
  BY <1>2, <1>3, <1>6 DEF Unclaimed
<1>8. UNCHANGED active \/ /\ f \in InFlight(NameOf[f]) /\ jobs[f].status # "running"
                          /\ \A k \in Names \ {NameOf[f]} : active'[k] = active[k]
  <2>1. ASSUME Move(f), ToDone(NameOf[f])
        PROVE  /\ f \in InFlight(NameOf[f]) /\ jobs[f].status # "running"
               /\ \A k \in Names \ {NameOf[f]} : active'[k] = active[k]
    <3>1. jobs[f].mover = "waits" /\ jobs[f].status # "running"
      BY <2>1 DEF Move, Terminal
    <3>2. NameOf[f] \in Names
      BY DEF Names
    <3> QED BY <2>1, <3>1, <3>2, FlyingIff, ToDoneType
  <2> QED BY <1>2, <2>1
<1>9. Claiming'
  <2> SUFFICES ASSUME poll.at = "submit"
               PROVE  \A p \in Files : p = poll.file =>
                        /\ jobs'[p] = NoJob /\ claims[p] # 0
                        /\ InFlight(NameOf[p])' \subseteq met
                        /\ p \notin met => InFlight(NameOf[p])' = {} /\ active'[NameOf[p]] = p
    BY <1>2 DEF Claiming, Types
  <2> TAKE p \in Files
  <2> HAVE p = poll.file
  <2>1. /\ jobs[p] = NoJob /\ claims[p] # 0 /\ InFlight(NameOf[p]) \subseteq met
        /\ p \notin met => InFlight(NameOf[p]) = {} /\ active[NameOf[p]] = p
    BY DEF Claiming
  <2>2. jobs'[p] = NoJob
    BY <1>1, <1>3, <2>1
  <2>3. InFlight(NameOf[p])' \subseteq InFlight(NameOf[p])
    BY <1>4
  <2>4. ASSUME p \notin met PROVE active'[NameOf[p]] = p
    <3>1. CASE UNCHANGED active
      BY <2>1, <2>4, <3>1
    <3>2. ASSUME f \in InFlight(NameOf[f]), \A k \in Names \ {NameOf[f]} : active'[k] = active[k]
          PROVE  active'[NameOf[p]] = p
      <4>1. NameOf[p] # NameOf[f]
        BY <2>1, <2>4, <3>2
      <4>2. NameOf[p] \in Names
        BY DEF Names
      <4> QED BY <2>1, <2>4, <3>2, <4>1, <4>2
    <3> QED BY <1>8, <3>1, <3>2
  <2> QED BY <2>1, <2>2, <2>3, <2>4
<1>10. Alone'
  <2> SUFFICES ASSUME NEW g \in Files, g \in InFlight(NameOf[g])', g \notin met
               PROVE  InFlight(NameOf[g])' = {g}
    BY <1>2 DEF Alone
  <2>1. InFlight(NameOf[g]) = {g}
    BY <1>4 DEF Alone
  <2> QED BY <1>4, <2>1
<1>11. InputStays'
  <2> SUFFICES ASSUME NEW g \in Files, jobs'[g].run = "running", jobs'[g].status = "running",
                      g \notin met
               PROVE  active'[NameOf[g]] = g
    BY <1>2 DEF InputStays
  <2>1. jobs[g].run = "running" /\ jobs[g].status = "running" /\ active[NameOf[g]] = g /\ NameOf[g] \in Names
    BY <1>5 DEF FileCustody, InputStays, Names
  <2>2. InFlight(NameOf[g]) = {g}
    BY <2>1, FlyingIff DEF Alone
  <2>3. ASSUME f \in InFlight(NameOf[f]), jobs[f].status # "running",
               \A k \in Names \ {NameOf[f]} : active'[k] = active[k]
        PROVE  active'[NameOf[g]] = g
    <3>1. NameOf[f] # NameOf[g]
      BY <2>1, <2>2, <2>3
    <3> QED BY <2>1, <2>3, <3>1
  <2> QED BY <1>8, <2>1, <2>3
<1> QED BY <1>2, <1>7, <1>9, <1>10, <1>11 DEF FileCustody, OncePerFile

LEMMA DownFiles == ASSUME Types, FilesInv, GoDown PROVE FilesInv'
<1> USE DEF FilesInv
<1>1. /\ poll' = Waiting /\ UNCHANGED <<top, active, dropped, claims, met>>
      /\ \A f \in Files : /\ jobs'[f].run # "running" /\ jobs'[f].mover # "waits"
                          /\ jobs[f] = NoJob => jobs'[f] = NoJob
  BY DownSteps
<1>2. \A n : InFlight(n)' = {}
  BY <1>1 DEF InFlight
<1>3. Unclaimed'
  BY <1>1 DEF Unclaimed
<1>4. Claiming'
  BY <1>1 DEF Claiming, Waiting, LoopAt
<1>5. Alone'
  BY <1>2 DEF Alone
<1> QED BY <1>1, <1>3, <1>4, <1>5 DEF FileCustody, OncePerFile, InputStays

LEMMA DropFiles == ASSUME Types, FilesInv, NEW f \in Files, Drop(f) PROVE FilesInv'
<1> USE DEF FilesInv
<1>1. /\ f \notin dropped /\ dropped' = dropped \cup {f} /\ NameOf[f] \in Names
      /\ top' = [top EXCEPT ![NameOf[f]] = f]
      /\ UNCHANGED <<active, poll, jobs, claims, met>>
  BY Drops
<1>2. claims[f] = 0
  BY <1>1 DEF Unclaimed
<1>3. Unclaimed'
  <2>1. top'[NameOf[f]] = f /\ \A k \in Names \ {NameOf[f]} : top'[k] = top[k]
    BY <1>1 DEF Types
  <2>2. \A n \in Names : top'[n] # None =>
          NameOf[top'[n]] = n /\ top'[n] \in dropped' /\ claims[top'[n]] = 0
    BY <1>1, <1>2, <2>1 DEF Unclaimed
  <2>3. \A g \in Files : g \notin dropped' => claims[g] = 0
    BY <1>1 DEF Unclaimed
  <2>4. \A g \in Files : claims[g] = 0 => jobs[g] = NoJob
    BY DEF Unclaimed
  <2> QED BY <1>1, <2>2, <2>3, <2>4 DEF Unclaimed
<1>4. \A n : InFlight(n)' = InFlight(n)
  BY <1>1 DEF InFlight
<1>5. Claiming'
  BY <1>1, <1>4 DEF Claiming
<1>6. Alone'
  BY <1>1, <1>4 DEF Alone
<1> QED BY <1>1, <1>3, <1>5, <1>6 DEF FileCustody, OncePerFile, InputStays

LEMMA FilesStep == Types /\ FilesInv /\ [Next]_vars => FilesInv'
<1> SUFFICES ASSUME Types, FilesInv, [Next]_vars PROVE FilesInv'
  OBVIOUS
<1>1. CASE Quiet
  BY <1>1, LoopQuiet, FilesSame DEF Quiet
<1>2. ASSUME NEW h \in Handlers, HandlerStep(h) PROVE FilesInv'
  BY <1>2, HandlerSteps, FilesSame
<1>3. CASE Stop \/ Restart
  BY <1>3, ServerSteps, FilesSame
<1>4. CASE UNCHANGED vars
  <2>1. UNCHANGED <<top, active, dropped, jobs, claims, met, poll>>
    BY <1>4 DEF vars, directories
  <2> QED BY <2>1, FilesSame
<1> QED BY <1>1, <1>2, <1>3, <1>4, StepCases, ClaimStep, SubmitStep, JobStepFiles, DownFiles, DropFiles

-----------------------------------------------------------------------------
(* The theorems                                                            *)

WatcherInv == Types /\ stranded \subseteq Files /\ Newest /\ FilesInv

LEMMA InvInit == Init => WatcherInv
<1> SUFFICES ASSUME Init PROVE WatcherInv
  OBVIOUS
<1>1. Types
  BY TypesInit
<1>2. Newest
  BY DEF Init, Newest, Idle
<1>3. FilesInv
  <2>1. Unclaimed
    BY DEF Init, Unclaimed
  <2>2. Claiming
    BY DEF Init, Claiming, Waiting, LoopAt
  <2>3. \A f \in Files : jobs[f].run # "running" /\ jobs[f].mover # "waits"
    BY DEF Init, NoJob
  <2>4. Alone /\ InputStays
    BY <2>3, FlyingIff DEF Alone, InputStays
  <2>5. OncePerFile
    BY DEF Init, OncePerFile
  <2> QED BY <2>1, <2>2, <2>4, <2>5 DEF FilesInv, FileCustody
<1> QED BY <1>1, <1>2, <1>3 DEF WatcherInv, Init

LEMMA WatcherInvariant == Spec => []WatcherInv
<1>1. WatcherInv /\ [Next]_vars => WatcherInv'
  BY TypesStep, StrandedStep, NewestStep, FilesStep DEF WatcherInv
<1> QED BY <1>1, InvInit, PTL DEF Spec

(* The state has its type.                                                 *)
THEOREM TypeCorrect == Spec => []TypeOK
<1>1. WatcherInv => TypeOK
  BY DEF WatcherInv, Types, TypeOK, Lists, OrderStates, Slot, JobState
<1> QED BY <1>1, WatcherInvariant, PTL

(* Every file is submitted at most once and stays where its job reads it   *)
(* as long as the job is not cancelled, for any number of watchers, files  *)
(* of one name, pauses, failures and crashes.                              *)
THEOREM FilesInCustody == Spec => []FileCustody
<1>1. WatcherInv => FileCustody
  BY DEF WatcherInv, FilesInv
<1> QED BY <1>1, WatcherInvariant, PTL

(* No older list of watchers is written over a newer one, for any number   *)
(* of handlers that change and save it.                                    *)
THEOREM FileIsNewest == Spec => []DiskIsCurrent
<1>1. WatcherInv => DiskIsCurrent
  BY NewestCurrent DEF WatcherInv
<1> QED BY <1>1, WatcherInvariant, PTL
=============================================================================
