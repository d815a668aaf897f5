--------------------------- MODULE RecordPipeline ---------------------------
(***************************************************************************)
(* One job with batch_size <= 1: App.Run, processRecordStream and          *)
(* processJobs of internal/app/app.go.  A producer goroutine reads records *)
(* into the bounded channel jobs; worker goroutines, each holding one slot *)
(* of the process-wide limiter, take a record, ask the model and send the  *)
(* answer into the bounded channel resultCh; the calling goroutine puts    *)
(* the answers back into input order and writes them.                      *)
(*                                                                         *)
(* There are two contexts.  The caller's one (serverCtx, or SIGINT of the  *)
(* CLI) is done when callerDone holds; the producer and the writer look at *)
(* it.  The one processJobs derives for its workers is also cancelled by   *)
(* the first error and by a failed write: JobsDone.                        *)
(***************************************************************************)
EXTENDS Integers, Sequences, FiniteSets

CONSTANTS
    NRec,             \* records the input holds, numbered from 0
    Workers,          \* the worker goroutines of this job
    Slots,            \* capacity of the limiter's slots channel
    MaxForeign,       \* bound: slots that other jobs may hold
    ErrorPolicies,    \* the values of processing.continue_on_error considered
    RateLimited,      \* api.rate_limit_rpm > 0
    Buffered,         \* json and xlsx writers: the file is written by Close
    Faults            \* which of "cancel", "read", "call", "write", "close" may happen

ASSUME PipelineAssumption ==
    /\ NRec \in Nat
    /\ IsFiniteSet(Workers) /\ Workers # {}
    /\ Slots \in Nat /\ Cardinality(Workers) <= Slots
    /\ MaxForeign \in 0 .. Slots
    /\ ErrorPolicies \subseteq BOOLEAN
    /\ RateLimited \in BOOLEAN /\ Buffered \in BOOLEAN
    /\ Faults \subseteq {"cancel", "read", "call", "write", "close"}

Records == 0 .. NRec - 1
ChanCap == 2 * Cardinality(Workers)     \* jobs and resultCh: make(chan ..., workers*2)

VARIABLES
    continueOnError, \* processing.continue_on_error of this job: never changes
    prod,         \* producer goroutine: "read", "send" or "done" (both channels closed)
    sent,         \* records put into jobs; jobs holds taken .. sent - 1 (one sender, FIFO)
    taken,        \* records received from jobs
    readErr,      \* producerErr holds an error
    callerDone,   \* the caller's context is done
    jobsCancel,   \* processJobs called its own cancel()
    wpc,          \* where each worker is
    wrec,         \* the record each worker last took
    wcur,         \* the value of the atomic counter each worker last got
    used,         \* tokens in the limiter's slots channel
    foreign,      \* how many of them belong to other jobs
    resCh,        \* resultCh
    ordered,      \* keys of the map of answers that wait for their turn
    nextEmit,     \* the record to be written next
    coll,         \* collecting goroutine: "recv", "emit", "done"
    deliverErr, firstErr,
    out,          \* records handed to the writer, in that order
    disk,         \* records in the output file
    processed,    \* the atomic counter
    shown,        \* progress shown to the user: the last progressFunc call
    ok, failed,   \* records whose call returned an answer / an error
    outcome       \* result of Run: "none", "ok", "read", "write" or "call"

producerVars == <<prod, sent, readErr>>
jobVars      == <<taken, wrec>>
slotVars     == <<used, foreign>>
answerVars   == <<ok, failed, firstErr>>
progressVars == <<wcur, processed, shown>>
workerVars   == <<wpc, jobVars, slotVars, answerVars, progressVars>>
sinkVars     == <<ordered, nextEmit, coll, deliverErr, out, disk>>
vars == <<continueOnError, producerVars, workerVars, sinkVars, resCh, callerDone, jobsCancel,
          outcome>>

JobsDone == callerDone \/ jobsCancel

WorkerStates == {"start", "take", "gate", "wait", "call", "send", "count", "report", "exit"}

Init ==
    /\ continueOnError \in ErrorPolicies
    /\ prod = "read" /\ sent = 0 /\ taken = 0 /\ readErr = FALSE
    /\ callerDone = FALSE /\ jobsCancel = FALSE
    /\ wpc = [w \in Workers |-> "start"]
    /\ wrec = [w \in Workers |-> 0]
    /\ wcur = [w \in Workers |-> 0]
    /\ foreign \in 0 .. MaxForeign /\ used = foreign
    /\ resCh = <<>> /\ ordered = {} /\ nextEmit = 0 /\ coll = "recv"
    /\ deliverErr = FALSE /\ firstErr = FALSE
    /\ out = <<>> /\ disk = <<>>
    /\ processed = 0 /\ shown = 0
    /\ ok = {} /\ failed = {}
    /\ outcome = "none"

-----------------------------------------------------------------------------
(* The producer.  reader.Next looks at the caller's context first.         *)

ReadRecord ==
    /\ prod = "read" /\ ~callerDone /\ sent < NRec
    /\ prod' = "send"
    /\ UNCHANGED <<sent, readErr>>

ReadEOF ==
    /\ prod = "read" /\ ~callerDone /\ sent = NRec
    /\ prod' = "done"
    /\ UNCHANGED <<sent, readErr>>

ReadFails ==
    /\ prod = "read" /\ (callerDone \/ "read" \in Faults)
    /\ readErr' = TRUE
    /\ prod' = "done"
    /\ UNCHANGED sent

(* select { case jobs <- job: ; case <-ctx.Done(): return }                *)
SendJob ==
    /\ prod = "send" /\ sent - taken < ChanCap
    /\ sent' = sent + 1
    /\ prod' = "read"
    /\ UNCHANGED readErr

\* Mutant: the producer would not listen to the context while it sends.
SendNotAbandoned == prod = "abandon" /\ UNCHANGED producerVars

SendAbandoned ==
    /\ prod = "send" /\ callerDone
    /\ prod' = "done"
    /\ UNCHANGED <<sent, readErr>>

Producer ==
    /\ ReadRecord \/ ReadEOF \/ ReadFails \/ SendJob \/ SendAbandoned
    /\ UNCHANGED <<continueOnError, workerVars, sinkVars, resCh, callerDone, jobsCancel, outcome>>

-----------------------------------------------------------------------------
(* The workers.                                                            *)

GoTo(w, to) == wpc' = [wpc EXCEPT ![w] = to]

\* Mutant: an exit path without the release.
LeaveKeepingSlot(w) == GoTo(w, "exit") /\ used' = used

(* The deferred releaseWorker() gives the slot back on every return.       *)
Leave(w) == GoTo(w, "exit") /\ used' = used - 1

\* Mutant: the worker would start without waiting for room in the channel.
AcquireAtOnce(w) ==
    /\ wpc[w] = "start"
    /\ GoTo(w, "take") /\ used' = used + 1

(* A full limiter makes the worker wait, or give up: AcquireCancelled.     *)
AcquireSlot(w) ==
    /\ wpc[w] = "start" /\ used < Slots
    /\ GoTo(w, "take") /\ used' = used + 1

(* context.Canceled while waiting for a slot is not recorded as an error.  *)
AcquireCancelled(w) ==
    /\ wpc[w] = "start" /\ JobsDone
    /\ GoTo(w, "exit") /\ UNCHANGED used

\* Mutant: the workers stop as soon as the input is read.
LeaveAtEOF(w) == wpc[w] = "take" /\ prod = "done" /\ Leave(w)

(* for j := range jobs ends when the channel is closed and empty.          *)
JobsDrained(w) == wpc[w] = "take" /\ prod = "done" /\ taken = sent /\ Leave(w)

(* A cancelled worker returns with the record it holds: it is dropped.     *)
DropJob(w) == wpc[w] \in {"gate", "wait"} /\ JobsDone /\ Leave(w)

PassGate(w) ==
    /\ wpc[w] = "gate" /\ ~JobsDone
    /\ GoTo(w, IF RateLimited THEN "wait" ELSE "call") /\ UNCHANGED used

RateTick(w) == wpc[w] = "wait" /\ GoTo(w, "call") /\ UNCHANGED used

Move(w) ==
    /\ \/ AcquireSlot(w) \/ AcquireCancelled(w)
       \/ JobsDrained(w) \/ DropJob(w)
       \/ PassGate(w) \/ RateTick(w)
    /\ UNCHANGED <<jobVars, answerVars, progressVars, foreign, resCh, jobsCancel>>

Claim(w, next) ==
    /\ wrec' = [wrec EXCEPT ![w] = taken]
    /\ taken' = next
    /\ GoTo(w, "gate")
    /\ UNCHANGED <<slotVars, answerVars, progressVars, resCh, jobsCancel>>

\* Mutant: reading the next record without claiming it.
TakeWithoutClaim(w) == wpc[w] = "take" /\ taken < sent /\ Claim(w, taken)

TakeJob(w) == wpc[w] = "take" /\ taken < sent /\ Claim(w, taken + 1)

(* Enrichment, prompt, model call with its retries, parsing and repair:    *)
(* an answer, or one of the three error exits, which act alike.            *)
CallSucceeds(w) ==
    /\ wpc[w] = "call"
    /\ ok' = ok \cup {wrec[w]}
    /\ GoTo(w, "send")
    /\ UNCHANGED <<jobVars, slotVars, progressVars, failed, firstErr, resCh, jobsCancel>>

\* Mutant: "return" where continue_on_error needs "continue".
CallFailsAndLeaves(w) ==
    /\ wpc[w] = "call" /\ ("call" \in Faults \/ JobsDone)
    /\ failed' = failed \cup {wrec[w]}
    /\ firstErr' = (firstErr \/ ~continueOnError)
    /\ jobsCancel' = (jobsCancel \/ ~continueOnError)
    /\ Leave(w)
    /\ UNCHANGED <<jobVars, progressVars, foreign, ok, resCh>>

CallFails(w) ==
    /\ wpc[w] = "call" /\ ("call" \in Faults \/ JobsDone)
    /\ failed' = failed \cup {wrec[w]}
    /\ \/ /\ continueOnError
          /\ GoTo(w, "take")
          /\ UNCHANGED <<used, firstErr, jobsCancel>>
       \/ /\ ~continueOnError
          /\ firstErr' = TRUE
          /\ jobsCancel' = IF firstErr THEN jobsCancel ELSE TRUE
          /\ Leave(w)
    /\ UNCHANGED <<jobVars, progressVars, foreign, ok, resCh>>

\* Mutant: a select that prefers to give up when the context is done.
SendOrGiveUp(w) ==
    /\ wpc[w] = "send" /\ (JobsDone \/ Len(resCh) < ChanCap)
    /\ resCh' = IF JobsDone THEN resCh ELSE Append(resCh, wrec[w])
    /\ GoTo(w, "count")
    /\ UNCHANGED <<jobVars, slotVars, answerVars, progressVars, jobsCancel>>

(* resultCh <- indexedResult: no select on the context.                    *)
SendResult(w) ==
    /\ wpc[w] = "send" /\ Len(resCh) < ChanCap
    /\ resCh' = Append(resCh, wrec[w])
    /\ GoTo(w, "count")
    /\ UNCHANGED <<jobVars, slotVars, answerVars, progressVars, jobsCancel>>

CountResult(w) ==
    /\ wpc[w] = "count"
    /\ processed' = processed + 1
    /\ wcur' = [wcur EXCEPT ![w] = processed + 1]
    /\ GoTo(w, "report")
    /\ UNCHANGED <<jobVars, slotVars, answerVars, shown, resCh, jobsCancel>>

(* progressFunc(cur, total), outside any lock of the pipeline.             *)
ReportProgress(w) ==
    /\ wpc[w] = "report"
    /\ shown' = wcur[w]
    /\ GoTo(w, "take")
    /\ UNCHANGED <<jobVars, slotVars, answerVars, wcur, processed, resCh, jobsCancel>>

Worker(w) ==
    /\ \/ Move(w)
       \/ TakeJob(w)
       \/ CallSucceeds(w) \/ CallFails(w)
       \/ SendResult(w) \/ CountResult(w) \/ ReportProgress(w)
    /\ UNCHANGED <<continueOnError, producerVars, sinkVars, callerDone, outcome>>

-----------------------------------------------------------------------------
(* The collector: the goroutine that called processJobs.                   *)

(* After a failed write it goes on draining resultCh, but writes no more.  *)
ReceiveResult ==
    /\ coll = "recv" /\ resCh # <<>>
    /\ ordered' = ordered \cup {Head(resCh)}
    /\ resCh' = Tail(resCh)
    /\ coll' = IF deliverErr THEN "recv" ELSE "emit"
    /\ UNCHANGED <<nextEmit, deliverErr, out, disk, jobsCancel>>

\* Mutant: writing answers as they arrive.
EmitAnyArrived ==
    /\ coll = "emit" /\ ordered # {} /\ ~callerDone
    /\ \E i \in ordered :
          /\ out' = Append(out, i)
          /\ disk' = IF Buffered THEN disk ELSE Append(disk, i)
          /\ ordered' = ordered \ {i}
    /\ nextEmit' = nextEmit + 1
    /\ UNCHANGED <<coll, deliverErr, resCh, jobsCancel>>

(* emit(nextEmit, rec): the writers look at the caller's context.          *)
EmitRecord ==
    /\ coll = "emit" /\ nextEmit \in ordered /\ ~callerDone
    /\ out' = Append(out, nextEmit)
    /\ disk' = IF Buffered THEN disk ELSE Append(disk, nextEmit)
    /\ ordered' = ordered \ {nextEmit}
    /\ nextEmit' = nextEmit + 1
    /\ UNCHANGED <<coll, deliverErr, resCh, jobsCancel>>

EmitFails ==
    /\ coll = "emit" /\ nextEmit \in ordered /\ (callerDone \/ "write" \in Faults)
    /\ deliverErr' = TRUE
    /\ jobsCancel' = TRUE
    /\ coll' = "recv"
    /\ UNCHANGED <<ordered, nextEmit, out, disk, resCh>>

EmitNothingReady ==
    /\ coll = "emit" /\ nextEmit \notin ordered
    /\ coll' = "recv"
    /\ UNCHANGED <<ordered, nextEmit, deliverErr, out, disk, resCh, jobsCancel>>

\* Mutant: the collector stops with the last worker, not with the channel.
ResultsAbandoned ==
    /\ coll = "recv" /\ \A w \in Workers : wpc[w] = "exit"
    /\ coll' = "done"
    /\ UNCHANGED <<ordered, nextEmit, deliverErr, out, disk, resCh, jobsCancel>>

(* resultCh is closed once the last worker returned; processJobs returns.  *)
ResultsDrained ==
    /\ coll = "recv" /\ resCh = <<>> /\ \A w \in Workers : wpc[w] = "exit"
    /\ coll' = "done"
    /\ UNCHANGED <<ordered, nextEmit, deliverErr, out, disk, resCh, jobsCancel>>

Collector ==
    /\ ReceiveResult \/ EmitRecord \/ EmitFails \/ EmitNothingReady \/ ResultsDrained
    /\ UNCHANGED <<continueOnError, producerVars, workerVars, callerDone, outcome>>

\* Mutant: Run does not wait for its producer.
ReturnAtOnce ==
    /\ coll = "done" /\ outcome = "none"
    /\ outcome' = IF deliverErr THEN "write" ELSE IF firstErr THEN "call" ELSE "ok"
    /\ disk' = out
    /\ UNCHANGED <<continueOnError, producerVars, workerVars, ordered, nextEmit, coll,
                   deliverErr, out, resCh, callerDone, jobsCancel>>

(* <-producerDone, then the errors in this order of precedence; the        *)
(* deferred writer.Close() runs last and its error is discarded.           *)
Return ==
    /\ coll = "done" /\ prod = "done" /\ outcome = "none"
    /\ outcome' = CASE readErr    -> "read"
                    [] ~readErr /\ deliverErr -> "write"
                    [] ~readErr /\ ~deliverErr /\ firstErr -> "call"
                    [] OTHER      -> "ok"
    /\ \/ disk' = out
       \/ Buffered /\ "close" \in Faults /\ UNCHANGED disk
    /\ UNCHANGED <<continueOnError, producerVars, workerVars, ordered, nextEmit, coll,
                   deliverErr, out, resCh, callerDone, jobsCancel>>

-----------------------------------------------------------------------------
(* The environment: the caller cancels; other jobs use the same limiter.   *)

CallerCancels ==
    /\ "cancel" \in Faults /\ ~callerDone /\ outcome = "none"
    /\ callerDone' = TRUE
    /\ UNCHANGED <<continueOnError, producerVars, workerVars, sinkVars, resCh, jobsCancel, outcome>>

ForeignAcquires ==
    /\ used < Slots /\ foreign < MaxForeign
    /\ used' = used + 1 /\ foreign' = foreign + 1

ForeignReleases ==
    /\ foreign > 0
    /\ used' = used - 1 /\ foreign' = foreign - 1

Foreign ==
    /\ outcome = "none"
    /\ ForeignAcquires \/ ForeignReleases
    /\ UNCHANGED <<continueOnError, producerVars, wpc, jobVars, answerVars, progressVars, sinkVars, resCh, callerDone, jobsCancel, outcome>>

Finished == outcome # "none" /\ UNCHANGED vars

Next ==
    \/ Producer
    \/ \E w \in Workers : Worker(w)
    \/ Collector
    \/ Return
    \/ CallerCancels
    \/ Foreign
    \/ Finished

Spec == Init /\ [][Next]_vars

(* The Go scheduler runs every goroutine that can run; a waiting channel   *)
(* send is queued first-in first-out, so a worker waiting for a slot gets  *)
(* one if slots are released again and again; other jobs' workers do       *)
(* finish.  Nothing obliges the caller to cancel or a fault to happen, but *)
(* the model call returns (its HTTP client has a timeout).                 *)
Fairness ==
    /\ WF_vars(Producer)
    /\ \A w \in Workers : WF_vars(Worker(w)) /\ SF_vars(Worker(w) /\ wpc[w] = "start")
    /\ WF_vars(Collector)
    /\ WF_vars(Return)
    /\ WF_vars(Foreign /\ ForeignReleases)

FairSpec == Spec /\ Fairness

-----------------------------------------------------------------------------
(* Properties                                                              *)

At(states) == {w \in Workers : wpc[w] \in states}
InHand  == {wrec[w] : w \in At({"gate", "wait", "call"})}   \* taken, no answer yet
Sending == {wrec[w] : w \in At({"send"})}                   \* answered, not yet in resultCh
Arrived == {resCh[k] : k \in DOMAIN resCh} \cup ordered \cup 0 .. nextEmit - 1

TypeOK ==
    /\ continueOnError \in ErrorPolicies
    /\ prod \in {"read", "send", "done"}
    /\ sent \in 0 .. NRec /\ taken \in 0 .. sent
    /\ prod = "send" => sent < NRec
    /\ readErr \in BOOLEAN /\ callerDone \in BOOLEAN /\ jobsCancel \in BOOLEAN
    /\ wpc \in [Workers -> WorkerStates]
    /\ wrec \in [Workers -> Nat]
    /\ wcur \in [Workers -> Nat]
    /\ used \in Int /\ foreign \in 0 .. MaxForeign
    /\ resCh \in Seq(Records) /\ Len(resCh) <= ChanCap
    /\ ordered \subseteq Records /\ nextEmit \in Nat
    /\ coll \in {"recv", "emit", "done"}
    /\ deliverErr \in BOOLEAN /\ firstErr \in BOOLEAN
    /\ out \in Seq(Records) /\ disk \in Seq(Records)
    /\ processed \in Nat /\ shown \in Nat
    /\ ok \subseteq Records /\ failed \subseteq Records
    /\ outcome \in {"none", "ok", "read", "write", "call"}

(* The output is the input order without a gap, and only records whose     *)
(* call returned an answer are in it, however the workers interleave.      *)
OutputInOrder ==
    /\ out = [k \in 1 .. nextEmit |-> k - 1]
    /\ \A k \in DOMAIN out : out[k] \in ok \ failed

(* A record is in one pair of hands at a time: no two workers, channel     *)
(* places or map entries carry the same record, so none is asked of the    *)
(* model twice and none is written twice.                                  *)
SingleCustody ==
    /\ \A v, w \in At({"gate", "wait", "call", "send"}) : wrec[v] = wrec[w] => v = w
    /\ \A j, k \in DOMAIN resCh : resCh[j] = resCh[k] => j = k
    /\ InHand \cap (ok \cup failed) = {}
    /\ Sending \cap Arrived = {}
    /\ \A k \in DOMAIN resCh : resCh[k] \notin ordered \cup 0 .. nextEmit - 1
    /\ ordered \cap 0 .. nextEmit - 1 = {}

(* No answer is lost, whatever is cancelled meanwhile: it is being sent,   *)
(* in resultCh, waiting in the map, or in the output.  And as long as      *)
(* nothing is cancelled, a record read from the input is waiting, in a     *)
(* worker's hands, answered or failed.                                     *)
NothingLost ==
    /\ ok = Sending \cup Arrived
    /\ ~JobsDone => 0 .. taken - 1 = InHand \cup ok \cup failed

(* Every record is accounted for, and once.                                *)
AllAccounted == SingleCustody /\ NothingLost

(* Run returns nil only if no read and no write failed and, under "stop on *)
(* first error", no record; and then, unless the caller cancelled, every   *)
(* record was worked on and the output goes exactly up to the first one    *)
(* that failed, the whole input when none did: later answers, although     *)
(* announced to resultFunc, are dropped.                                   *)
OkVerdict ==
    outcome = "ok" =>
        /\ ~readErr /\ ~deliverErr
        /\ continueOnError \/ failed = {}
        /\ ~callerDone => /\ ok \cup failed = Records
                          /\ nextEmit \in failed \cup {NRec}

(* When Run returns none of its goroutines is left and every limiter slot  *)
(* it took is free again, on every error path.                             *)
QuiescentReturn ==
    outcome # "none" =>
        /\ prod = "done" /\ resCh = <<>>
        /\ At({"exit"}) = Workers
        /\ used = foreign

(* The limiter's tokens are those of the workers between their acquire and *)
(* their return and those of other jobs, so LLMFLOW_MAX_WORKERS holds for  *)
(* all jobs of the process together.                                       *)
SlotAccounting ==
    /\ used = foreign + Cardinality(Workers \ At({"start", "exit"}))
    /\ used <= Slots

(* The counter behind the progress display counts each answer once, after  *)
(* it entered resultCh, although all workers increment it; what is shown   *)
(* never runs ahead of it.                                                 *)
ProgressAccounting ==
    /\ processed = Cardinality(ok) - Cardinality(At({"send", "count"}))
    /\ shown <= processed

(* The one state in which Run waits for ever: an error stopped the workers *)
(* through processJobs's context, which the producer does not listen to,   *)
(* so it waits for room in jobs, and Run for it.  The slots are free.      *)
Stuck ==
    /\ jobsCancel /\ ~callerDone
    /\ coll = "done" /\ At({"exit"}) = Workers /\ used = foreign
    /\ prod = "send" /\ sent - taken = ChanCap

(* Run returns, whatever fails, except from Stuck; it returns whenever the *)
(* caller cancels, even from there.                                        *)
Returns ==
    /\ <>(outcome # "none" \/ Stuck)
    /\ callerDone ~> outcome # "none"

-----------------------------------------------------------------------------
(* The promise of OrderedDelivery is kept.                                 *)
Delivery == INSTANCE OrderedDelivery WITH
    ready <- ok, lost <- failed, delivered <- out, interrupted <- callerDone,
    verdict <- IF outcome \in {"none", "ok"} THEN outcome ELSE "error"

ImplementsDelivery == Delivery!Spec

=============================================================================
