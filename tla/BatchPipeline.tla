---------------------------- MODULE BatchPipeline ----------------------------
(***************************************************************************)
(* One job with batch_size > 1: processRecordStreamBatch and processBatch  *)
(* of internal/app/app.go.  The producer cuts the input into batches, a    *)
(* worker asks the model once per batch and takes the answer apart again,  *)
(* the calling goroutine puts the records back into input order.           *)
(*                                                                         *)
(* Unlike RecordPipeline there is one context for all of them: the         *)
(* function replaces its ctx parameter by a child it cancels itself, so a  *)
(* failed batch or a failed write also stops the reader (Done).            *)
(***************************************************************************)
EXTENDS Integers, Sequences, FiniteSets

CONSTANTS
    NRec,             \* records the input holds, numbered from 0
    BatchSize,        \* processing.batch_size
    Workers,          \* worker goroutines
    Pools,            \* the sets of them a job may start: processing.workers
    ErrorPolicies,    \* the values of processing.continue_on_error considered
    Contracts,        \* the values of strict output considered
    Faults            \* which of "cancel", "read", "write" may happen

ASSUME BatchAssumption ==
    /\ NRec \in Nat /\ BatchSize \in Nat /\ BatchSize > 1
    /\ IsFiniteSet(Workers) /\ Pools \subseteq SUBSET Workers /\ {} \notin Pools
    /\ ErrorPolicies \subseteq BOOLEAN /\ Contracts \subseteq BOOLEAN
    /\ Faults \subseteq {"cancel", "read", "write"}

Records == 0 .. NRec - 1

VARIABLES
    continueOnError, strict, pool,   \* the job's settings: never change
    prod,         \* producer goroutine: "read", "send", "last" (send, then end) or "done"
    idx,          \* records sent so far: where the current batch starts
    have,         \* records in the current batch
    jobs,         \* channel of [first, len]
    producerErr,  \* "none", "io", or "ctx": the reader found the context done
    callerDone,   \* the caller's context is done
    cancelled,    \* this function called cancel()
    wpc, wjob,    \* where each worker is, and the batch it holds
    wout,         \* what its batch became, record by record (Contents)
    resultCh,     \* channel of [first, outs]
    ordered,      \* records that wait for their turn: a partial function to Contents
    coll,         \* collecting goroutine: "recv", "emit", "done"
    out,          \* records handed to the writer, in that order
    deliverErr, firstErr,
    failed,       \* records of batches that failed
    processed,    \* the atomic counter
    outcome       \* "none", "ok", "io", "ctx", "write" or "call"

settings   == <<continueOnError, strict, pool>>
readVars   == <<prod, idx, have, producerErr>>
workVars   == <<wpc, wjob, wout, failed, firstErr, processed>>
sinkVars   == <<ordered, coll, out, deliverErr>>
vars == <<settings, readVars, jobs, callerDone, cancelled, workVars, resultCh, sinkVars, outcome>>

ChanCap == 2 * Cardinality(pool)     \* jobs and resultCh: make(chan ..., workers*2)

Done == callerDone \/ cancelled

(* What a record's output was made of: the element at some place of the    *)
(* answer to the batch that starts at some record; something else, which   *)
(* is the whole answer, shared by all records of the batch, or "" because  *)
(* the answer had too few elements; or, after an error, a blank            *)
(* placeholder.                                                            *)
Contents == [kind : {"element", "other", "blank"}, of : 0 .. NRec, at : 0 .. BatchSize]
Element(first, place) == [kind |-> "element", of |-> first, at |-> place]
NoElement(why) == [kind |-> why, of |-> 0, at |-> 0]

Batches == [first : Records, len : 1 .. BatchSize]
Results == [first : Records, outs : Seq(Contents)]

Init ==
    /\ continueOnError \in ErrorPolicies /\ strict \in Contracts /\ pool \in Pools
    /\ prod = "read" /\ idx = 0 /\ have = 0 /\ producerErr = "none"
    /\ jobs = <<>> /\ resultCh = <<>>
    /\ callerDone = FALSE /\ cancelled = FALSE
    /\ wpc = [w \in Workers |-> IF w \in pool THEN "start" ELSE "exit"]
    /\ wjob = [w \in Workers |-> [first |-> 0, len |-> 0]]
    /\ wout = [w \in Workers |-> <<>>]
    /\ ordered = <<>> /\ coll = "recv" /\ out = <<>>
    /\ deliverErr = FALSE /\ firstErr = FALSE
    /\ failed = {} /\ processed = 0
    /\ outcome = "none"

-----------------------------------------------------------------------------
(* The producer.  reader.Next looks at the context first.                  *)

ReadRecord ==
    /\ prod = "read" /\ ~Done /\ idx + have < NRec
    /\ have' = have + 1
    /\ prod' = IF have' = BatchSize THEN "send" ELSE "read"
    /\ UNCHANGED <<idx, producerErr, jobs>>

(* The end of the input, or an error: what was read so far is still sent.  *)
StopReading(why) ==
    /\ producerErr' = why
    /\ prod' = IF have = 0 THEN "done" ELSE "last"
    /\ UNCHANGED <<idx, have, jobs>>

ReadEOF ==
    /\ prod = "read" /\ ~Done /\ idx + have = NRec
    /\ StopReading("none")

ReadFails ==
    /\ prod = "read" /\ ~Done /\ "read" \in Faults
    /\ StopReading("io")

ReadCancelled ==
    /\ prod = "read" /\ Done
    /\ StopReading("ctx")

\* Mutant: the next batch would be numbered from the batch, not the record.
SendMisnumbered ==
    /\ prod \in {"send", "last"} /\ Len(jobs) < ChanCap
    /\ jobs' = Append(jobs, [first |-> idx, len |-> have])
    /\ idx' = idx + 1 /\ have' = 0
    /\ prod' = IF prod = "last" THEN "done" ELSE "read"
    /\ UNCHANGED producerErr

SendBatch ==
    /\ prod \in {"send", "last"} /\ Len(jobs) < ChanCap
    /\ jobs' = Append(jobs, [first |-> idx, len |-> have])
    /\ idx' = idx + have /\ have' = 0
    /\ prod' = IF prod = "last" THEN "done" ELSE "read"
    /\ UNCHANGED producerErr

\* Mutant: a blocked send would not listen to the context.
SendNotAbandoned == prod = "abandon" /\ UNCHANGED <<readVars, jobs>>

SendAbandoned ==
    /\ prod \in {"send", "last"} /\ Done
    /\ prod' = "done" /\ have' = 0
    /\ UNCHANGED <<idx, producerErr, jobs>>

Producer ==
    /\ \/ ReadRecord \/ ReadEOF \/ ReadFails \/ ReadCancelled
       \/ SendBatch \/ SendAbandoned
    /\ UNCHANGED <<settings, callerDone, cancelled, workVars, resultCh, sinkVars, outcome>>

-----------------------------------------------------------------------------
(* processBatch: the answer is taken apart.                                *)

(* Answers a model may give to a batch of n records: no array at all, or   *)
(* an array of objects, the last of which may be malformed.                *)
Answers(n) == [array : BOOLEAN, len : 0 .. n + 1, wellFormed : BOOLEAN]

\* Mutant: the number of objects would not be compared with the batch.
AcceptsAnyLength(a, n) == ~strict \/ (a.array /\ a.wellFormed)

(* The strict contract: one array, one object for each record, each of the *)
(* schema's shape; anything else fails the whole batch.                    *)
Accepts(a, n) == ~strict \/ (a.array /\ a.len = n /\ a.wellFormed)

(* Without it the text between the first [ and the last ] is tried as an   *)
(* array; surplus elements are dropped, and a missing one leaves "".       *)
TakeApart(a, b) ==
    [i \in 1 .. b.len |-> IF a.array /\ i <= a.len THEN Element(b.first, i)
                          ELSE NoElement("other")]

Blanks(n) == [i \in 1 .. n |-> NoElement("blank")]

-----------------------------------------------------------------------------
(* The workers.                                                            *)

GoTo(w, to) == wpc' = [wpc EXCEPT ![w] = to]

RecordsOf(b) == b.first .. b.first + b.len - 1

(* The wait for other jobs' slots is the time before this step;            *)
(* RecordPipeline models the limiter.                                      *)
AcquireSlot(w) ==
    /\ wpc[w] = "start"
    /\ \/ GoTo(w, "take")
       \/ Done /\ GoTo(w, "exit")      \* context.Canceled is not recorded
    /\ UNCHANGED <<jobs, wjob, wout, failed, firstErr, processed, cancelled,
                   resultCh>>

TakeBatch(w) ==
    /\ wpc[w] = "take" /\ jobs # <<>>
    /\ wjob' = [wjob EXCEPT ![w] = Head(jobs)]
    /\ jobs' = Tail(jobs)
    /\ GoTo(w, "gate")
    /\ UNCHANGED <<wout, failed, firstErr, processed, cancelled, resultCh>>

NoMoreBatches(w) ==
    /\ wpc[w] = "take" /\ jobs = <<>> /\ prod = "done"
    /\ GoTo(w, "exit")
    /\ UNCHANGED <<jobs, wjob, wout, failed, firstErr, processed, cancelled,
                   resultCh>>

(* Before the call, and while it waits for the rate limiter, a worker that *)
(* finds the context done returns and drops its batch without a trace.     *)
PassGate(w) ==
    /\ \/ wpc[w] = "gate" /\ ~Done /\ GoTo(w, "wait")
       \/ wpc[w] = "wait" /\ GoTo(w, "call")
       \/ wpc[w] \in {"gate", "wait"} /\ Done /\ GoTo(w, "exit")
    /\ UNCHANGED <<jobs, wjob, wout, failed, firstErr, processed, cancelled,
                   resultCh>>

BatchAnswered(w) ==
    /\ wpc[w] = "call"
    /\ \E a \in Answers(wjob[w].len) :
          /\ Accepts(a, wjob[w].len)
          /\ wout' = [wout EXCEPT ![w] = TakeApart(a, wjob[w])]
    /\ GoTo(w, "send")
    /\ UNCHANGED <<jobs, wjob, failed, firstErr, processed, cancelled, resultCh>>

(* A prompt that renders no JSON, a failed call, a refused answer.  With   *)
(* continue_on_error the records go on as placeholders.                    *)
BatchReplaced(w) ==
    /\ wpc[w] = "call" /\ continueOnError
    /\ failed' = failed \cup RecordsOf(wjob[w])
    /\ wout' = [wout EXCEPT ![w] = Blanks(wjob[w].len)]
    /\ GoTo(w, "send")
    /\ UNCHANGED <<jobs, wjob, firstErr, processed, cancelled, resultCh>>

\* Mutant: a failed batch would only be logged.
BatchForgotten(w) ==
    /\ wpc[w] = "call" /\ ~continueOnError
    /\ failed' = failed \cup RecordsOf(wjob[w])
    /\ GoTo(w, "exit")
    /\ UNCHANGED <<jobs, wjob, wout, firstErr, cancelled, processed, resultCh>>

(* Without it the first error is kept and everything is cancelled.         *)
BatchFails(w) ==
    /\ wpc[w] = "call" /\ ~continueOnError
    /\ failed' = failed \cup RecordsOf(wjob[w])
    /\ firstErr' = TRUE
    /\ cancelled' = TRUE
    /\ GoTo(w, "exit")
    /\ UNCHANGED <<jobs, wjob, wout, processed, resultCh>>

SendResult(w) ==
    /\ wpc[w] = "send" /\ Len(resultCh) < ChanCap
    /\ resultCh' = Append(resultCh, [first |-> wjob[w].first, outs |-> wout[w]])
    /\ wout' = [wout EXCEPT ![w] = <<>>]
    /\ GoTo(w, "count")
    /\ UNCHANGED <<jobs, wjob, failed, firstErr, processed, cancelled>>

(* atomic.AddInt64 and progressFunc; RecordPipeline models reports that    *)
(* overtake each other.                                                    *)
CountBatch(w) ==
    /\ wpc[w] = "count"
    /\ processed' = processed + wjob[w].len
    /\ wjob' = [wjob EXCEPT ![w] = [first |-> 0, len |-> 0]]
    /\ GoTo(w, "take")
    /\ UNCHANGED <<jobs, wout, failed, firstErr, cancelled, resultCh>>

Worker(w) ==
    /\ \/ AcquireSlot(w) \/ TakeBatch(w) \/ NoMoreBatches(w) \/ PassGate(w)
       \/ BatchAnswered(w) \/ BatchReplaced(w) \/ BatchFails(w)
       \/ SendResult(w) \/ CountBatch(w)
    /\ UNCHANGED <<settings, readVars, callerDone, sinkVars, outcome>>

-----------------------------------------------------------------------------
(* The collector: the goroutine that called processRecordStreamBatch.      *)

NextEmit == Len(out)

\* Mutant: the records of a batch would be stored from the next free place.
ReceiveMisplaced ==
    /\ coll = "recv" /\ resultCh # <<>>
    /\ LET r == Head(resultCh)
           new == NextEmit .. NextEmit + Len(r.outs) - 1
       IN  ordered' = [n \in DOMAIN ordered \cup new |->
                          IF n \in new THEN r.outs[n - NextEmit + 1] ELSE ordered[n]]
    /\ resultCh' = Tail(resultCh)
    /\ coll' = IF deliverErr THEN "recv" ELSE "emit"
    /\ UNCHANGED <<out, deliverErr, cancelled, outcome>>

ReceiveResult ==
    /\ coll = "recv" /\ resultCh # <<>>
    /\ LET r == Head(resultCh)
           new == r.first .. r.first + Len(r.outs) - 1
       IN  ordered' = [n \in DOMAIN ordered \cup new |->
                          IF n \in new THEN r.outs[n - r.first + 1] ELSE ordered[n]]
    /\ resultCh' = Tail(resultCh)
    /\ coll' = IF deliverErr THEN "recv" ELSE "emit"
    /\ UNCHANGED <<out, deliverErr, cancelled, outcome>>

EmitReady ==
    /\ coll = "emit" /\ NextEmit \in DOMAIN ordered
    /\ out' = Append(out, NextEmit)
    /\ ordered' = [n \in DOMAIN ordered \ {NextEmit} |-> ordered[n]]
    /\ UNCHANGED <<coll, deliverErr, resultCh, cancelled, outcome>>

EmitFails ==
    /\ coll = "emit" /\ NextEmit \in DOMAIN ordered /\ "write" \in Faults
    /\ deliverErr' = TRUE /\ cancelled' = TRUE
    /\ coll' = "recv"
    /\ UNCHANGED <<ordered, out, resultCh, outcome>>

NothingReady ==
    /\ coll = "emit" /\ NextEmit \notin DOMAIN ordered
    /\ coll' = "recv"
    /\ UNCHANGED <<ordered, out, deliverErr, resultCh, cancelled, outcome>>

WorkersGone == \A w \in Workers : wpc[w] = "exit"

\* Mutant: the producer's error would be looked for before it has ended.
ConcludeEarly ==
    /\ coll = "recv" /\ resultCh = <<>> /\ WorkersGone
    /\ coll' = "done"
    /\ outcome' = CASE producerErr # "none" -> producerErr
                    [] producerErr = "none" /\ deliverErr -> "write"
                    [] producerErr = "none" /\ ~deliverErr /\ firstErr -> "call"
                    [] OTHER -> "ok"
    /\ UNCHANGED <<ordered, out, deliverErr, resultCh, cancelled>>

(* resultCh is closed once the workers are gone; then <-producerDone.  The *)
(* reader's error is returned first, also when it only says that this      *)
(* function cancelled the context itself.                                  *)
Conclude ==
    /\ coll = "recv" /\ resultCh = <<>> /\ WorkersGone /\ prod = "done"
    /\ coll' = "done"
    /\ outcome' = CASE producerErr # "none" -> producerErr
                    [] producerErr = "none" /\ deliverErr -> "write"
                    [] producerErr = "none" /\ ~deliverErr /\ firstErr -> "call"
                    [] OTHER -> "ok"
    /\ UNCHANGED <<ordered, out, deliverErr, resultCh, cancelled>>

Collector ==
    /\ ReceiveResult \/ EmitReady \/ EmitFails \/ NothingReady \/ Conclude
    /\ UNCHANGED <<settings, readVars, jobs, callerDone, workVars>>

CallerCancels ==
    /\ "cancel" \in Faults /\ ~callerDone /\ outcome = "none"
    /\ callerDone' = TRUE
    /\ UNCHANGED <<settings, readVars, jobs, cancelled, workVars, resultCh, sinkVars, outcome>>

Finished == outcome # "none" /\ UNCHANGED vars

Next == Producer \/ (\E w \in Workers : Worker(w)) \/ Collector \/ CallerCancels \/ Finished

Spec == Init /\ [][Next]_vars

(* Every goroutine that can run does; a blocked call is bounded by the     *)
(* HTTP timeout.  The caller's cancellation and the faults are not owed.   *)
LiveSpec ==
    /\ Spec /\ WF_vars(Producer) /\ WF_vars(Collector)
    /\ \A w \in Workers : WF_vars(Worker(w))

-----------------------------------------------------------------------------
TypeOK ==
    /\ continueOnError \in BOOLEAN /\ strict \in BOOLEAN /\ pool \in Pools
    /\ prod \in {"read", "send", "last", "done"}
    /\ idx \in 0 .. NRec /\ have \in 0 .. BatchSize
    /\ producerErr \in {"none", "io", "ctx"}
    /\ jobs \in Seq(Batches) /\ Len(jobs) <= ChanCap
    /\ callerDone \in BOOLEAN /\ cancelled \in BOOLEAN
    /\ wpc \in [Workers -> {"start", "take", "gate", "wait", "call", "send", "count",
                            "exit"}]
    /\ wjob \in [Workers -> Batches \cup {[first |-> 0, len |-> 0]}]
    /\ wout \in [Workers -> Seq(Contents)]
    /\ resultCh \in Seq(Results) /\ Len(resultCh) <= ChanCap
    /\ DOMAIN ordered \subseteq Records /\ \A n \in DOMAIN ordered : ordered[n] \in Contents
    /\ coll \in {"recv", "emit", "done"} /\ out \in Seq(Records)
    /\ deliverErr \in BOOLEAN /\ firstErr \in BOOLEAN /\ failed \subseteq Records
    /\ processed \in 0 .. NRec
    /\ outcome \in {"none", "ok", "io", "ctx", "write", "call"}

InJobs     == UNION {RecordsOf(jobs[i]) : i \in DOMAIN jobs}
HeldBy(w)  == IF wpc[w] \in {"gate", "wait", "call", "send"} THEN RecordsOf(wjob[w]) ELSE {}
InResults  == UNION {resultCh[i].first .. resultCh[i].first + Len(resultCh[i].outs) - 1 :
                        i \in DOMAIN resultCh}
Written    == {out[i] : i \in DOMAIN out}
Answered   == InResults \cup DOMAIN ordered \cup Written

(* Cutting the input into batches and putting it together again neither    *)
(* doubles a record nor loses one while the context lives: each record     *)
(* sent is in exactly one place, and is not in jobs once it was answered.  *)
NothingLostInBatches ==
    LET places == <<InJobs, InResults, DOMAIN ordered, Written>>
    IN  /\ \A i, j \in DOMAIN places : i # j => places[i] \cap places[j] = {}
        /\ \A w \in Workers :
              HeldBy(w) \cap (InJobs \cup Answered \cup UNION {HeldBy(v) : v \in Workers \ {w}}) = {}
        /\ ~Done => InJobs \cup Answered \cup UNION {HeldBy(w) : w \in Workers} = 0 .. idx - 1

(* With strict output a record on its way to the writer carries what the   *)
(* model put at the record's place in its answer to the record's batch:    *)
(* nothing of another batch or another place, although batches of several  *)
(* workers arrive in any order and the last one is shorter, and never the  *)
(* whole answer or "" because it had too few elements.  Under              *)
(* continue_on_error it may be the placeholder of a failed batch.  The     *)
(* place is all the code has: an answer whose elements are about the       *)
(* records in another order goes unnoticed.                                *)
Proper(n, content) ==
    \/ content.kind = "element" /\ content.of + content.at - 1 = n
    \/ content.kind = "blank" /\ continueOnError /\ n \in failed

StrictByPlace ==
    strict =>
        /\ \A n \in DOMAIN ordered : Proper(n, ordered[n])
        /\ \A i \in DOMAIN resultCh : \A k \in DOMAIN resultCh[i].outs :
              Proper(resultCh[i].first + k - 1, resultCh[i].outs[k])

(* Run says "ok" only if every record of the input was written or the      *)
(* caller cancelled; an error is never invented: it names a failure that   *)
(* happened, although the reader's "context canceled" may stand for the    *)
(* failed batch or write that caused it.                                   *)
HonestOutcome ==
    /\ outcome = "ok" => /\ ~firstErr /\ ~deliverErr
                         /\ Written = Records \/ callerDone
    /\ outcome = "io" => "read" \in Faults /\ producerErr = "io"
    /\ outcome = "ctx" => callerDone \/ firstErr \/ deliverErr
    /\ outcome = "write" => deliverErr
    /\ outcome = "call" => firstErr /\ failed # {}

(* When Run concludes no goroutine of the batch is left to read the input  *)
(* or to call the model: the caller closes the reader right after.         *)
QuietAtTheEnd == outcome # "none" => WorkersGone /\ prod = "done" /\ resultCh = <<>>

(* The end of a run: an honest verdict, and nothing that goes on after it. *)
CleanEnd == HonestOutcome /\ QuietAtTheEnd

(* The run comes to an end whatever fails and whenever the caller cancels: *)
(* with a blocked producer, with a failed write, with idle workers.        *)
BatchTermination == <>(outcome # "none")

(* BatchPipeline delivers in order with one verdict, as RecordPipeline     *)
(* does: the collector's bookkeeping implements OrderedDelivery.           *)
Delivery == INSTANCE OrderedDelivery WITH
    ready <- Answered,
    lost <- failed \ (Answered \cup (IF continueOnError THEN Records ELSE {})),
    delivered <- out,
    interrupted <- callerDone,
    verdict <- CASE outcome = "none" -> "none" [] outcome = "ok" -> "ok" [] OTHER -> "error"

BatchDelivers == Delivery!Spec
=============================================================================
