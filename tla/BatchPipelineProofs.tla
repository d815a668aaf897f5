------------------------- MODULE BatchPipelineProofs -------------------------
(***************************************************************************)
(* BatchPipeline for every number of records, batch size, set of workers   *)
(* and pool, every combination of faults, contracts and error policies.    *)
(***************************************************************************)
EXTENDS BatchPipeline, FiniteSetTheorems, TLAPS

LEMMA ChanCapNat == ASSUME pool \in Pools PROVE ChanCap \in Nat
<1>1. IsFiniteSet(pool)
  BY BatchAssumption, FS_Subset
<1> QED BY <1>1, FS_CardinalityType DEF ChanCap

(* What a receive takes from a channel and what it leaves.                 *)
LEMMA Received ==
  ASSUME NEW S, NEW ch \in Seq(S), ch # <<>>
  PROVE  /\ Head(ch) = ch[1] /\ ch[1] \in S
         /\ Len(ch) \in Nat \ {0} /\ 1 \in 1 .. Len(ch)
         /\ Tail(ch) \in Seq(S) /\ Len(Tail(ch)) = Len(ch) - 1
         /\ \A k \in 1 .. Len(Tail(ch)) : k + 1 \in 2 .. Len(ch) /\ Tail(ch)[k] = ch[k + 1]
         /\ \A k \in 2 .. Len(ch) : k - 1 \in 1 .. Len(Tail(ch))
OBVIOUS

-----------------------------------------------------------------------------
(* The inductive invariant.                                                *)

Holding == {"gate", "wait", "call", "send"}

InResult(i) == resultCh[i].first .. resultCh[i].first + Len(resultCh[i].outs) - 1

(* Where the input is cut: a batch is never empty and lies before idx.     *)
Cut ==
    /\ idx + have <= NRec
    /\ prod = "read" => have < BatchSize
    /\ prod \in {"send", "last"} => have >= 1
    /\ prod = "done" => have = 0
    /\ \A i \in 1 .. Len(jobs) : jobs[i].first + jobs[i].len <= idx
    /\ \A w \in Workers : wpc[w] \in Holding \cup {"count"} =>
          wjob[w] \in Batches /\ wjob[w].first + wjob[w].len <= idx
    /\ \A w \in Workers : wpc[w] = "send" => Len(wout[w]) = wjob[w].len
    /\ \A i \in 1 .. Len(resultCh) :
          Len(resultCh[i].outs) >= 1 /\ resultCh[i].first + Len(resultCh[i].outs) <= idx
    /\ \A n \in DOMAIN ordered : n < idx
    /\ Len(out) <= idx

(* The batches sent, held and answered do not overlap, and are all ahead   *)
(* of the records written.                                                 *)
Apart ==
    /\ \A i, j \in 1 .. Len(jobs) : i # j => RecordsOf(jobs[i]) \cap RecordsOf(jobs[j]) = {}
    /\ \A i \in 1 .. Len(jobs), w \in Workers : RecordsOf(jobs[i]) \cap HeldBy(w) = {}
    /\ \A i \in 1 .. Len(jobs), k \in 1 .. Len(resultCh) : RecordsOf(jobs[i]) \cap InResult(k) = {}
    /\ \A v, w \in Workers : v # w => HeldBy(v) \cap HeldBy(w) = {}
    /\ \A w \in Workers, k \in 1 .. Len(resultCh) : HeldBy(w) \cap InResult(k) = {}
    /\ \A i, k \in 1 .. Len(resultCh) : i # k => InResult(i) \cap InResult(k) = {}

Waiting ==
    /\ \A n \in DOMAIN ordered : n >= Len(out)
    /\ \A i \in 1 .. Len(jobs) : RecordsOf(jobs[i]) \cap DOMAIN ordered = {}
                                 /\ jobs[i].first >= Len(out)
    /\ \A w \in Workers : /\ HeldBy(w) \cap DOMAIN ordered = {}
                          /\ wpc[w] \in Holding => wjob[w].first >= Len(out)
    /\ \A k \in 1 .. Len(resultCh) : InResult(k) \cap DOMAIN ordered = {}
                                     /\ resultCh[k].first >= Len(out)

(* No record that was sent is forgotten while the context lives.           *)
Found ==
    ~Done => \A n \in 0 .. idx - 1 :
        \/ \E i \in 1 .. Len(jobs) : n \in RecordsOf(jobs[i])
        \/ \E w \in Workers : n \in HeldBy(w)
        \/ \E k \in 1 .. Len(resultCh) : n \in InResult(k)
        \/ n \in DOMAIN ordered \/ n < Len(out)

InOrder == out = [k \in 1 .. Len(out) |-> k - 1]

Custody == Cut /\ Apart /\ Waiting /\ Found /\ InOrder

(* What is on the way to the writer, also in a worker's hands: Proper with *)
(* the records that may be blank as a parameter.                           *)
Blanked == IF continueOnError THEN failed ELSE {}
Fits(n, content, B) ==
    \/ content.kind = "element" /\ content.of + content.at - 1 = n
    \/ content.kind = "blank" /\ n \in B

Contract ==
    strict =>
        /\ \A n \in DOMAIN ordered : Fits(n, ordered[n], Blanked)
        /\ \A i \in 1 .. Len(resultCh) : \A k \in 1 .. Len(resultCh[i].outs) :
              Fits(resultCh[i].first + k - 1, resultCh[i].outs[k], Blanked)
        /\ \A w \in Workers : wpc[w] = "send" => \A k \in 1 .. Len(wout[w]) :
              Fits(wjob[w].first + k - 1, wout[w][k], Blanked)

(* Batches that failed without continue_on_error are nowhere any more.     *)
Forsaken ==
    ~continueOnError => \A n \in failed :
        /\ n < idx /\ n >= Len(out) /\ n \notin DOMAIN ordered
        /\ \A i \in 1 .. Len(jobs) : n \notin RecordsOf(jobs[i])
        /\ \A w \in Workers : n \notin HeldBy(w)
        /\ \A k \in 1 .. Len(resultCh) : n \notin InResult(k)

(* How a job ends: who has stopped, and what the errors kept stand for.    *)
ReaderEnds ==
    /\ producerErr = "io" => "read" \in Faults
    /\ producerErr = "ctx" => Done
    /\ prod \in {"read", "send"} => producerErr = "none"
    /\ prod = "last" /\ producerErr = "none" => idx + have = NRec
    /\ prod = "done" /\ producerErr = "none" /\ ~Done => idx = NRec

ErrorsKept ==
    /\ cancelled <=> firstErr \/ deliverErr
    /\ firstErr => failed # {}

WorkersEnd == ~Done /\ (\E w \in pool : wpc[w] = "exit") => prod = "done" /\ jobs = <<>>

Verdict == CASE producerErr # "none" -> producerErr
             [] producerErr = "none" /\ deliverErr -> "write"
             [] producerErr = "none" /\ ~deliverErr /\ firstErr -> "call"
             [] OTHER -> "ok"

CollectorEnds ==
    /\ coll # "emit" /\ ~deliverErr => Len(out) \notin DOMAIN ordered
    /\ outcome # "none" <=> coll = "done"
    /\ coll = "done" => WorkersGone /\ prod = "done" /\ resultCh = <<>>
    /\ coll = "done" => outcome = Verdict

Endings == ReaderEnds /\ ErrorsKept /\ WorkersEnd /\ CollectorEnds

(* The counter: answered batches whose worker has passed the count.        *)
Counting(w) == wpc[w] = "count"
Uncounted == UNION {RecordsOf(wjob[w]) : w \in {v \in Workers : Counting(v)}}

Counted ==
    /\ \A w \in Workers : Counting(w) => RecordsOf(wjob[w]) \subseteq Answered
    /\ \A v, w \in Workers : Counting(v) /\ Counting(w) /\ v # w
          => RecordsOf(wjob[v]) \cap RecordsOf(wjob[w]) = {}
    /\ processed = Cardinality(Answered \ Uncounted)

BatchInv == TypeOK /\ Custody /\ Contract /\ Forsaken /\ Endings /\ Counted

-----------------------------------------------------------------------------
(* Initially                                                               *)

LEMMA BatchInit == Init => BatchInv
<1> SUFFICES ASSUME Init PROVE BatchInv
  OBVIOUS
<1> USE BatchAssumption
<1>0. ChanCap \in Nat
  BY ChanCapNat DEF Init
<1>1. TypeOK
  <2>1. wpc \in [Workers -> {"start", "take", "gate", "wait", "call", "send", "count", "exit"}]
    BY DEF Init
  <2>2. /\ wjob \in [Workers -> Batches \cup {[first |-> 0, len |-> 0]}]
        /\ wout \in [Workers -> Seq(Contents)]
    BY DEF Init
  <2>3. /\ ordered = <<>> /\ DOMAIN ordered = {}
        /\ idx \in 0 .. NRec /\ have \in 0 .. BatchSize /\ processed \in 0 .. NRec
    BY DEF Init
  <2>4. /\ resultCh \in Seq(Results) /\ jobs \in Seq(Batches)
        /\ Len(resultCh) <= ChanCap /\ Len(jobs) <= ChanCap /\ out \in Seq(Records)
    BY <1>0 DEF Init
  <2>5. continueOnError \in BOOLEAN /\ strict \in BOOLEAN /\ pool \in Pools
    BY DEF Init
  <2>6. /\ callerDone \in BOOLEAN /\ cancelled \in BOOLEAN
        /\ deliverErr \in BOOLEAN /\ firstErr \in BOOLEAN
    BY DEF Init
  <2> QED BY <2>1, <2>2, <2>3, <2>4, <2>5, <2>6 DEF Init, TypeOK
<1>2. Custody
  BY DEF Init, Custody, Cut, Apart, Waiting, Found, InOrder, HeldBy, Holding
<1>3. Contract /\ Forsaken
  BY DEF Init, Contract, Forsaken
<1>4. Endings
  <2>1. \A w \in pool : wpc[w] = "start"
    BY DEF Init
  <2> QED BY <2>1 DEF Init, Endings, ReaderEnds, ErrorsKept, WorkersEnd, CollectorEnds, Done
<1>5. Counted
  <2>1. Uncounted = {} /\ \A w \in Workers : ~Counting(w)
    BY DEF Init, Uncounted, Counting
  <2>2. InResults = {} /\ DOMAIN ordered = {} /\ Written = {}
    BY DEF Init, InResults, Written
  <2>3. Answered \ Uncounted = {}
    BY <2>1, <2>2 DEF Answered
  <2> QED BY <2>1, <2>3, FS_EmptySet DEF Counted, Init
<1> QED BY <1>1, <1>2, <1>3, <1>4, <1>5 DEF BatchInv

-----------------------------------------------------------------------------
(* Type correctness                                                        *)

LEMMA FirstResult ==
  ASSUME TypeOK, Cut, resultCh # <<>>
  PROVE  /\ Head(resultCh) = resultCh[1] /\ 1 \in 1 .. Len(resultCh)
         /\ resultCh[1].first \in Records /\ resultCh[1].outs \in Seq(Contents)
         /\ Len(resultCh[1].outs) >= 1
         /\ resultCh[1].first + Len(resultCh[1].outs) <= idx
         /\ resultCh[1].first + Len(resultCh[1].outs) <= NRec
<1>0. resultCh \in Seq(Results) /\ idx \in Nat /\ idx <= NRec /\ NRec \in Nat
  BY BatchAssumption DEF TypeOK
<1>1. Head(resultCh) = resultCh[1] /\ 1 \in 1 .. Len(resultCh) /\ resultCh[1] \in Results
  BY <1>0, Received
<1>2. resultCh[1].first \in Records /\ resultCh[1].outs \in Seq(Contents)
  BY <1>1 DEF Results
<1>3. Len(resultCh[1].outs) >= 1 /\ resultCh[1].first + Len(resultCh[1].outs) <= idx
  BY <1>1 DEF Cut
<1>4. Len(resultCh[1].outs) \in Nat /\ resultCh[1].first \in Nat
  BY <1>2 DEF Records
<1> QED BY <1>0, <1>1, <1>2, <1>3, <1>4

LEMMA ProducerTypes == ASSUME TypeOK, Cut, Producer PROVE TypeOK'
<1> USE BatchAssumption DEF TypeOK, Cut, settings, workVars, sinkVars
<1>0. UNCHANGED <<continueOnError, strict, pool, callerDone, cancelled, wpc, wjob, wout, failed,
        firstErr, processed, resultCh, ordered, coll, out, deliverErr, outcome>>
  BY DEF Producer
<1>a. ChanCap \in Nat /\ ChanCap' = ChanCap
  BY <1>0, ChanCapNat DEF ChanCap
<1>1. CASE ReadRecord
  BY <1>0, <1>a, <1>1 DEF ReadRecord
<1>2. CASE ReadEOF \/ ReadFails \/ ReadCancelled
  BY <1>0, <1>a, <1>2 DEF ReadEOF, ReadFails, ReadCancelled, StopReading
<1>3. CASE SendBatch
  <2>1. [first |-> idx, len |-> have] \in Batches
    BY <1>3 DEF SendBatch, Batches, Records
  <2>2. jobs' \in Seq(Batches) /\ Len(jobs') <= ChanCap
    BY <1>3, <1>a, <2>1 DEF SendBatch
  <2> QED BY <1>0, <1>a, <1>3, <2>2 DEF SendBatch
<1>4. CASE SendAbandoned
  BY <1>0, <1>a, <1>4 DEF SendAbandoned
<1> QED BY <1>1, <1>2, <1>3, <1>4 DEF Producer

(* The entry of a sequence at an offset from a first index.                *)
LEMMA EntryAtOffset ==
  ASSUME NEW S, NEW s \in Seq(S), NEW a \in Int, NEW n \in a .. a + Len(s) - 1
  PROVE  s[n - a + 1] \in S
<1>1. Len(s) \in Nat /\ n \in Int /\ a <= n /\ n <= a + Len(s) - 1
  OBVIOUS
<1>2. n - a + 1 \in 1 .. Len(s)
  BY <1>1
<1> QED BY <1>2

LEMMA CollectorTypes == ASSUME TypeOK, Cut, Collector PROVE TypeOK'
<1> USE BatchAssumption DEF TypeOK, settings, workVars, readVars
<1>0. UNCHANGED <<continueOnError, strict, pool, prod, idx, have, producerErr, jobs, callerDone,
        wpc, wjob, wout, failed, firstErr, processed>>
  BY DEF Collector
<1>a. ChanCap \in Nat /\ ChanCap' = ChanCap
  BY <1>0, ChanCapNat DEF ChanCap
<1>1. CASE ReceiveResult
  <2> DEFINE r == Head(resultCh)
             new == r.first .. r.first + Len(r.outs) - 1
  <2>1. /\ resultCh # <<>> /\ resultCh' = Tail(resultCh)
        /\ coll' \in {"recv", "emit"} /\ UNCHANGED <<out, deliverErr, cancelled, outcome>>
        /\ ordered' = [n \in DOMAIN ordered \cup new |->
                          IF n \in new THEN r.outs[n - r.first + 1] ELSE ordered[n]]
    BY <1>1 DEF ReceiveResult
  <2>2. resultCh' \in Seq(Results) /\ Len(resultCh') <= ChanCap
    BY <1>a, <2>1
  <2>a. /\ r = resultCh[1]
        /\ r.first \in Records /\ r.outs \in Seq(Contents)
        /\ r.first + Len(r.outs) <= NRec
    BY <2>1, FirstResult
  <2>3. new \subseteq Records
    BY <2>a DEF Records
  <2>4. \A n \in new : r.outs[n - r.first + 1] \in Contents
    <3>1. r.first \in Int
      BY <2>a DEF Records
    <3> QED BY <2>a, <3>1, EntryAtOffset
  <2>5. DOMAIN ordered' = DOMAIN ordered \cup new
    BY <2>1
  <2>6. \A n \in DOMAIN ordered' : ordered'[n] \in Contents
    BY <2>1, <2>4, <2>5
  <2> HIDE DEF r, new
  <2>7. DOMAIN ordered' \subseteq Records
    BY <2>3, <2>5
  <2>8. /\ continueOnError' \in BOOLEAN /\ strict' \in BOOLEAN /\ pool' \in Pools
        /\ callerDone' \in BOOLEAN /\ cancelled' \in BOOLEAN
        /\ deliverErr' \in BOOLEAN /\ firstErr' \in BOOLEAN
    BY <1>0, <2>1
  <2> QED BY <1>0, <1>a, <2>1, <2>2, <2>6, <2>7, <2>8
<1>2. CASE EmitReady
  BY <1>0, <1>a, <1>2 DEF EmitReady
<1>3. CASE EmitFails
  BY <1>0, <1>a, <1>3 DEF EmitFails
<1>5. CASE NothingReady
  BY <1>0, <1>a, <1>5 DEF NothingReady
<1>4. CASE Conclude
  BY <1>0, <1>a, <1>4 DEF Conclude
<1> QED BY <1>1, <1>2, <1>3, <1>4, <1>5 DEF Collector

LEMMA WorkerTypes ==
  ASSUME TypeOK, Cut, NEW w \in Workers, Worker(w), ~CountBatch(w)
  PROVE  TypeOK'
<1> USE BatchAssumption DEF settings, readVars, sinkVars
<1> DEFINE States == {"start", "take", "gate", "wait", "call", "send", "count", "exit"}
<1>0. UNCHANGED <<continueOnError, strict, pool, prod, idx, have, producerErr, callerDone,
        ordered, coll, out, deliverErr, outcome>>
  BY DEF Worker
<1>a. ChanCap \in Nat /\ ChanCap' = ChanCap
  BY <1>0, ChanCapNat DEF ChanCap, TypeOK
<1>b. \A to \in States : GoTo(w, to) => wpc' \in [Workers -> States]
  BY DEF TypeOK, GoTo
<1>1. CASE AcquireSlot(w) \/ NoMoreBatches(w) \/ PassGate(w)
  <2>1. wpc' \in [Workers -> States]
    BY <1>1, <1>b DEF AcquireSlot, NoMoreBatches, PassGate
  <2>2. UNCHANGED <<jobs, wjob, wout, failed, firstErr, processed, cancelled, resultCh>>
    BY <1>1 DEF AcquireSlot, NoMoreBatches, PassGate
  <2> QED BY <1>0, <1>a, <2>1, <2>2 DEF TypeOK
<1>2. CASE TakeBatch(w)
  <2>1. /\ jobs # <<>> /\ jobs' = Tail(jobs) /\ wjob' = [wjob EXCEPT ![w] = Head(jobs)]
        /\ GoTo(w, "gate")
        /\ UNCHANGED <<wout, failed, firstErr, processed, cancelled, resultCh>>
    BY <1>2 DEF TakeBatch
  <2>2. Head(jobs) \in Batches /\ jobs' \in Seq(Batches) /\ Len(jobs') <= ChanCap
    BY <1>a, <2>1, Received DEF TypeOK
  <2>3. wjob' \in [Workers -> Batches \cup {[first |-> 0, len |-> 0]}]
    BY <2>1, <2>2 DEF TypeOK
  <2>4. wpc' \in [Workers -> States]
    BY <1>b, <2>1
  <2> QED BY <1>0, <1>a, <2>1, <2>2, <2>3, <2>4 DEF TypeOK
<1>3. CASE BatchAnswered(w) \/ BatchReplaced(w)
  <2>0. wpc[w] = "call" /\ GoTo(w, "send")
        /\ UNCHANGED <<jobs, wjob, firstErr, processed, cancelled, resultCh>>
    BY <1>3 DEF BatchAnswered, BatchReplaced
  <2>1. /\ wjob[w].first \in Records /\ wjob[w].len \in Nat
        /\ wjob[w].first + wjob[w].len <= NRec
    BY <2>0 DEF Cut, TypeOK, Holding, Batches, Records
  <2>2. RecordsOf(wjob[w]) \subseteq Records
    BY <2>1 DEF RecordsOf, Records
  <2>3. failed' \subseteq Records
    BY <1>3, <2>2 DEF BatchAnswered, BatchReplaced, TypeOK
  <2>c. wjob[w].len <= BatchSize /\ NRec \in Nat /\ BatchSize \in Nat
    BY <2>0, BatchAssumption DEF Cut, TypeOK, Holding, Batches
  <2>a. ASSUME NEW i \in 1 .. wjob[w].len
        PROVE  {Element(wjob[w].first, i), NoElement("other"), NoElement("blank")} \subseteq Contents
    BY <2>1, <2>c DEF Element, NoElement, Contents, Records
  <2>4. ASSUME NEW a
        PROVE  /\ TakeApart(a, wjob[w]) \in Seq(Contents)
               /\ Blanks(wjob[w].len) \in Seq(Contents)
    <3>1. \A i \in 1 .. wjob[w].len :
             TakeApart(a, wjob[w])[i] \in Contents /\ Blanks(wjob[w].len)[i] \in Contents
      BY <2>a DEF TakeApart, Blanks
    <3>2. /\ TakeApart(a, wjob[w]) \in [1 .. wjob[w].len -> Contents]
          /\ Blanks(wjob[w].len) \in [1 .. wjob[w].len -> Contents]
      BY <3>1, Zenon DEF TakeApart, Blanks
    <3> QED BY <2>1, <3>2
  <2>5. \E s \in Seq(Contents) : wout' = [wout EXCEPT ![w] = s]
    BY <1>3, <2>1, <2>4 DEF BatchAnswered, BatchReplaced
  <2>6. wout' \in [Workers -> Seq(Contents)]
    BY <2>5 DEF TypeOK
  <2>7. wpc' \in [Workers -> States]
    BY <1>b, <2>0
  <2> QED BY <1>0, <1>a, <2>0, <2>3, <2>6, <2>7 DEF TypeOK
<1>4. CASE BatchFails(w)
  <2>0. wpc[w] = "call" /\ GoTo(w, "exit") /\ firstErr' = TRUE /\ cancelled' = TRUE
        /\ failed' = failed \cup RecordsOf(wjob[w])
        /\ UNCHANGED <<jobs, wjob, wout, processed, resultCh>>
    BY <1>4 DEF BatchFails
  <2>a. /\ wjob[w].first \in Records /\ wjob[w].len \in Nat
        /\ wjob[w].first + wjob[w].len <= NRec
    BY <2>0 DEF Cut, TypeOK, Holding, Batches, Records
  <2>1. RecordsOf(wjob[w]) \subseteq Records
    BY <2>a DEF RecordsOf, Records
  <2>2. wpc' \in [Workers -> States]
    BY <1>b, <2>0
  <2> QED BY <1>0, <1>a, <2>0, <2>1, <2>2 DEF TypeOK
<1>5. CASE SendResult(w)
  <2>0. /\ wpc[w] = "send" /\ GoTo(w, "count") /\ Len(resultCh) < ChanCap
        /\ resultCh' = Append(resultCh, [first |-> wjob[w].first, outs |-> wout[w]])
        /\ wout' = [wout EXCEPT ![w] = <<>>]
        /\ UNCHANGED <<jobs, wjob, failed, firstErr, processed, cancelled>>
    BY <1>5 DEF SendResult
  <2>1. [first |-> wjob[w].first, outs |-> wout[w]] \in Results
    BY <2>0 DEF Cut, TypeOK, Holding, Batches, Results
  <2>2. resultCh' \in Seq(Results) /\ Len(resultCh') <= ChanCap
    BY <1>a, <2>0, <2>1 DEF TypeOK
  <2>3. wout' \in [Workers -> Seq(Contents)]
    BY <2>0 DEF TypeOK
  <2>4. wpc' \in [Workers -> States]
    BY <1>b, <2>0
  <2> QED BY <1>0, <1>a, <2>0, <2>2, <2>3, <2>4 DEF TypeOK
<1> QED BY <1>1, <1>2, <1>3, <1>4, <1>5 DEF Worker

-----------------------------------------------------------------------------
(* The records of the places a batch can be in, as numbers.                *)

LEMMA Sizes ==
  ASSUME TypeOK, Cut
  PROVE  /\ NRec \in Nat /\ BatchSize \in Nat \ {0} /\ idx \in Nat /\ have \in Nat /\ idx + have <= NRec
         /\ Len(jobs) \in Nat /\ Len(resultCh) \in Nat /\ Len(out) \in Nat /\ Len(out) <= idx
         /\ \A i \in 1 .. Len(jobs) : /\ jobs[i] \in Batches /\ jobs[i].first \in Nat
                                      /\ jobs[i].len \in Nat \ {0}
                                      /\ jobs[i].first + jobs[i].len <= idx
         /\ \A w \in Workers : wpc[w] \in Holding \cup {"count"} =>
                                      /\ wjob[w] \in Batches /\ wjob[w].first \in Nat
                                      /\ wjob[w].len \in Nat \ {0}
                                      /\ wjob[w].first + wjob[w].len <= idx
         /\ \A i \in 1 .. Len(resultCh) : /\ resultCh[i].first \in Nat
                                          /\ resultCh[i].outs \in Seq(Contents)
                                          /\ Len(resultCh[i].outs) \in Nat \ {0}
                                          /\ resultCh[i].first + Len(resultCh[i].outs) <= idx
         /\ \A n \in DOMAIN ordered : n \in Nat /\ n < idx
<1>1. /\ NRec \in Nat /\ BatchSize \in Nat \ {0} /\ idx \in Nat /\ have \in Nat /\ idx + have <= NRec
  BY BatchAssumption DEF TypeOK, Cut
<1>2. jobs \in Seq(Batches) /\ resultCh \in Seq(Results) /\ out \in Seq(Records)
  BY DEF TypeOK
<1>3. Len(jobs) \in Nat /\ Len(resultCh) \in Nat /\ Len(out) \in Nat /\ Len(out) <= idx
  BY <1>2 DEF Cut
<1>4. \A i \in 1 .. Len(jobs) : jobs[i] \in Batches /\ jobs[i].first + jobs[i].len <= idx
  BY <1>2 DEF Cut
<1>5. \A b \in Batches : b.first \in Nat /\ b.len \in Nat \ {0}
  BY <1>1 DEF Batches, Records
<1>6. \A w \in Workers : wpc[w] \in Holding \cup {"count"} =>
        wjob[w] \in Batches /\ wjob[w].first + wjob[w].len <= idx
  BY DEF Cut
<1>7. \A i \in 1 .. Len(resultCh) : resultCh[i] \in Results /\ Len(resultCh[i].outs) >= 1
                                    /\ resultCh[i].first + Len(resultCh[i].outs) <= idx
  BY <1>2 DEF Cut
<1>8. \A r \in Results : r.first \in Nat /\ r.outs \in Seq(Contents) /\ Len(r.outs) \in Nat
  BY <1>1 DEF Results, Records
<1>9. \A n \in DOMAIN ordered : n \in Nat /\ n < idx
  BY <1>1 DEF TypeOK, Cut, Records
<1> QED BY <1>1, <1>3, <1>4, <1>5, <1>6, <1>7, <1>8, <1>9

(* All of them lie before idx.                                             *)
LEMMA BeforeIdx ==
  ASSUME TypeOK, Cut
  PROVE  /\ \A i \in 1 .. Len(jobs) : RecordsOf(jobs[i]) \subseteq 0 .. idx - 1
         /\ \A w \in Workers : HeldBy(w) \subseteq 0 .. idx - 1
         /\ \A i \in 1 .. Len(resultCh) : InResult(i) \subseteq 0 .. idx - 1
         /\ DOMAIN ordered \subseteq 0 .. idx - 1
<1>0. idx \in Nat
  BY Sizes
<1>1. \A a, l \in Nat : a + l <= idx => a .. a + l - 1 \subseteq 0 .. idx - 1
  BY <1>0
<1>2. ASSUME NEW i \in 1 .. Len(jobs) PROVE RecordsOf(jobs[i]) \subseteq 0 .. idx - 1
  <2>1. jobs[i].first \in Nat /\ jobs[i].len \in Nat /\ jobs[i].first + jobs[i].len <= idx
    BY Sizes
  <2> QED BY <1>1, <2>1 DEF RecordsOf
<1>3. ASSUME NEW w \in Workers PROVE HeldBy(w) \subseteq 0 .. idx - 1
  <2>1. CASE wpc[w] \in Holding
    <3>1. wjob[w].first \in Nat /\ wjob[w].len \in Nat /\ wjob[w].first + wjob[w].len <= idx
      BY <2>1, Sizes
    <3> QED BY <1>1, <2>1, <3>1 DEF RecordsOf, HeldBy, Holding
  <2>2. CASE wpc[w] \notin Holding
    BY <2>2 DEF HeldBy, Holding
  <2> QED BY <2>1, <2>2
<1>4. ASSUME NEW i \in 1 .. Len(resultCh) PROVE InResult(i) \subseteq 0 .. idx - 1
  <2>1. /\ resultCh[i].first \in Nat /\ Len(resultCh[i].outs) \in Nat
        /\ resultCh[i].first + Len(resultCh[i].outs) <= idx
    BY Sizes
  <2> QED BY <1>1, <2>1 DEF InResult
<1>5. DOMAIN ordered \subseteq 0 .. idx - 1
  BY <1>0, Sizes
<1> QED BY <1>2, <1>3, <1>4, <1>5

LEMMA ProducerCustody == ASSUME TypeOK, Custody, Producer PROVE Custody'
<1> USE DEF settings, workVars, sinkVars
<1>0. UNCHANGED <<callerDone, cancelled, wpc, wjob, wout, resultCh, ordered, out>>
  BY DEF Producer
<1>s. Cut /\ Apart /\ Waiting /\ Found /\ InOrder
  BY DEF Custody
<1>z. /\ NRec \in Nat /\ BatchSize \in Nat \ {0} /\ idx \in Nat /\ have \in Nat /\ idx + have <= NRec
      /\ Len(jobs) \in Nat /\ Len(resultCh) \in Nat /\ Len(out) \in Nat /\ Len(out) <= idx
  BY <1>s, Sizes
<1>1. CASE ~SendBatch
  <2>1. UNCHANGED <<idx, jobs>>
    BY <1>1 DEF Producer, ReadRecord, ReadEOF, ReadFails, ReadCancelled, StopReading, SendAbandoned
  <2>2. Cut'
    <3>1. /\ idx' + have' <= NRec
          /\ prod' = "read" => have' < BatchSize
          /\ prod' \in {"send", "last"} => have' >= 1
          /\ prod' = "done" => have' = 0
      BY <1>1, <1>z, <1>s DEF Cut, Producer, ReadRecord, ReadEOF, ReadFails, ReadCancelled,
         StopReading, SendAbandoned
    <3> QED BY <1>s, <1>0, <2>1, <3>1 DEF Cut
  <2>3. Apart' /\ Waiting'
    BY <1>s, <1>0, <2>1 DEF Apart, Waiting, HeldBy, InResult
  <2>4. Found' /\ InOrder'
    BY <1>s, <1>0, <2>1 DEF Found, InOrder, HeldBy, InResult, Done
  <2> QED BY <2>2, <2>3, <2>4 DEF Custody
<1>2. CASE SendBatch
  <2> DEFINE b == [first |-> idx, len |-> have]
  <2>1. /\ have >= 1 /\ jobs' = Append(jobs, b) /\ idx' = idx + have /\ have' = 0
        /\ prod' \in {"done", "read"}
    BY <1>2, <1>s DEF SendBatch, Cut
  <2>2. RecordsOf(b) = idx .. idx + have - 1
    BY DEF RecordsOf
  <2>3. jobs \in Seq(Batches)
    BY DEF TypeOK
  <2>4. /\ Len(jobs') = Len(jobs) + 1 /\ jobs'[Len(jobs) + 1] = b
        /\ \A i \in 1 .. Len(jobs) : jobs'[i] = jobs[i]
    BY <2>1, <2>3
  <2>5. b.first = idx /\ b.len = have
    OBVIOUS
  <2> HIDE DEF b
  <2>6. /\ \A i \in 1 .. Len(jobs) : RecordsOf(jobs[i]) \subseteq 0 .. idx - 1
        /\ \A w \in Workers : HeldBy(w) \subseteq 0 .. idx - 1
        /\ \A i \in 1 .. Len(resultCh) : InResult(i) \subseteq 0 .. idx - 1
        /\ DOMAIN ordered \subseteq 0 .. idx - 1
    BY <1>s, BeforeIdx
  <2>10. Cut'
    <3>1. /\ idx' + have' <= NRec /\ (prod' = "read" => have' < BatchSize) /\ have' = 0
          /\ Len(out') <= idx' /\ idx' >= idx /\ idx' \in Nat
      BY <1>0, <1>z, <2>1
    <3>2. \A i \in 1 .. Len(jobs') : jobs'[i].first + jobs'[i].len <= idx'
      BY <1>z, <1>s, Sizes, <2>1, <2>4, <2>5
    <3>3. \A w \in Workers : wpc'[w] \in Holding \cup {"count"} =>
             wjob'[w] \in Batches /\ wjob'[w].first + wjob'[w].len <= idx'
      BY <1>z, <1>0, <1>s, Sizes, <3>1
    <3>4. \A i \in 1 .. Len(resultCh') :
            Len(resultCh'[i].outs) >= 1 /\ resultCh'[i].first + Len(resultCh'[i].outs) <= idx'
      BY <1>z, <1>0, <1>s, Sizes, <3>1
    <3>5. \A n \in DOMAIN ordered' : n < idx'
      BY <1>z, <1>0, <1>s, Sizes, <3>1
    <3>6. \A w \in Workers : wpc'[w] = "send" => Len(wout'[w]) = wjob'[w].len
      BY <1>0, <1>s DEF Cut
    <3> QED BY <2>1, <3>1, <3>2, <3>3, <3>4, <3>5, <3>6, Batches' = Batches DEF Cut, Batches, Records
  <2>11. Apart'
    <3> DEFINE B == RecordsOf(b)
    <3>1. \A i \in 1 .. Len(jobs') : RecordsOf(jobs'[i]) = B \/ (i \in 1 .. Len(jobs) /\ jobs'[i] = jobs[i])
      BY <2>4, <1>z
    <3>2. B \cap 0 .. idx - 1 = {}
      BY <1>z, <2>2
    <3>3. \A w \in Workers : HeldBy(w)' = HeldBy(w)
      BY <1>0 DEF HeldBy
    <3>4. \A i : InResult(i)' = InResult(i)
      BY <1>0 DEF InResult
    <3>5. \A i, j \in 1 .. Len(jobs') : i # j => RecordsOf(jobs'[i]) \cap RecordsOf(jobs'[j]) = {}
      <4>1. SUFFICES ASSUME NEW i \in 1 .. Len(jobs'), NEW j \in 1 .. Len(jobs'), i < j
                     PROVE  RecordsOf(jobs'[i]) \cap RecordsOf(jobs'[j]) = {}
        <5>1. \A i, j \in 1 .. Len(jobs') : i # j => i < j \/ j < i
          BY <1>z, <2>4
        <5> QED BY <5>1
      <4>2. i \in 1 .. Len(jobs) /\ jobs'[i] = jobs[i]
        BY <4>1, <1>z, <2>4
      <4>3. CASE j = Len(jobs) + 1
        BY <2>4, <2>6, <3>2, <4>2, <4>3
      <4>4. CASE j # Len(jobs) + 1
        <5>1. j \in 1 .. Len(jobs) /\ jobs'[j] = jobs[j] /\ i # j
          BY <4>1, <4>4, <1>z, <2>4
        <5> QED BY <1>s, <4>2, <5>1 DEF Apart
      <4> QED BY <4>3, <4>4
    <3> HIDE DEF B
    <3>6. UNCHANGED <<wjob, wpc, resultCh>>
      BY <1>0
    <3>7. \A i \in 1 .. Len(jobs'), w \in Workers : RecordsOf(jobs'[i]) \cap HeldBy(w) = {}
      <4> SUFFICES ASSUME NEW i \in 1 .. Len(jobs'), NEW w \in Workers
                   PROVE  RecordsOf(jobs'[i]) \cap HeldBy(w) = {}
        OBVIOUS
      <4>1. CASE RecordsOf(jobs'[i]) = B
        BY <2>6, <3>2, <4>1
      <4>2. CASE i \in 1 .. Len(jobs) /\ jobs'[i] = jobs[i]
        BY <1>s, <4>2 DEF Apart
      <4> QED BY <3>1, <4>1, <4>2
    <3>8. \A i \in 1 .. Len(jobs'), k \in 1 .. Len(resultCh) : RecordsOf(jobs'[i]) \cap InResult(k) = {}
      <4> SUFFICES ASSUME NEW i \in 1 .. Len(jobs'), NEW k \in 1 .. Len(resultCh)
                   PROVE  RecordsOf(jobs'[i]) \cap InResult(k) = {}
        OBVIOUS
      <4>1. CASE RecordsOf(jobs'[i]) = B
        BY <2>6, <3>2, <4>1
      <4>2. CASE i \in 1 .. Len(jobs) /\ jobs'[i] = jobs[i]
        BY <1>s, <4>2 DEF Apart
      <4> QED BY <3>1, <4>1, <4>2
    <3>9. /\ \A v, w \in Workers : v # w => HeldBy(v) \cap HeldBy(w) = {}
          /\ \A w \in Workers, k \in 1 .. Len(resultCh) : HeldBy(w) \cap InResult(k) = {}
          /\ \A i, k \in 1 .. Len(resultCh) : i # k => InResult(i) \cap InResult(k) = {}
      BY <1>s DEF Apart
    <3> QED BY <3>3, <3>4, <3>5, <3>6, <3>7, <3>8, <3>9 DEF Apart
  <2>12. Waiting'
    <3>1. RecordsOf(b) \cap DOMAIN ordered = {} /\ b.first >= Len(out)
      BY <1>z, <2>2, <2>5, <2>6
    <3>2. \A w \in Workers : HeldBy(w)' = HeldBy(w)
      BY <1>0 DEF HeldBy
    <3>3. \A i : InResult(i)' = InResult(i)
      BY <1>0 DEF InResult
    <3>4. ASSUME NEW i \in 1 .. Len(jobs')
          PROVE  RecordsOf(jobs'[i]) \cap DOMAIN ordered' = {} /\ jobs'[i].first >= Len(out')
      <4>1. jobs'[i] = b \/ (i \in 1 .. Len(jobs) /\ jobs'[i] = jobs[i])
        BY <1>z, <2>4
      <4>2. i \in 1 .. Len(jobs) => RecordsOf(jobs[i]) \cap DOMAIN ordered = {}
                                  /\ jobs[i].first >= Len(out)
        BY <1>s DEF Waiting
      <4>3. ordered' = ordered /\ out' = out
        BY <1>0
      <4> QED BY <3>1, <4>1, <4>2, <4>3
    <3> QED BY <1>0, <1>s, <3>2, <3>3, <3>4 DEF Waiting
  <2>13. Found' /\ InOrder'
    <3>0. InOrder'
      BY <1>0, <1>s DEF InOrder
    <3>1. SUFFICES ASSUME ~Done, NEW n \in 0 .. idx' - 1
                   PROVE  \/ \E i \in 1 .. Len(jobs') : n \in RecordsOf(jobs'[i])
                          \/ \E w \in Workers : n \in HeldBy(w)
                          \/ \E k \in 1 .. Len(resultCh) : n \in InResult(k)
                          \/ n \in DOMAIN ordered \/ n < Len(out)
      BY <3>0, <1>0 DEF Found, Done, HeldBy, InResult
    <3>2. CASE n >= idx
      <4>1. n \in RecordsOf(jobs'[Len(jobs) + 1]) /\ Len(jobs) + 1 \in 1 .. Len(jobs')
        BY <3>2, <1>z, <2>1, <2>2, <2>4
      <4> QED BY <4>1
    <3>3. CASE n < idx
      <4>1. n \in 0 .. idx - 1
        BY <3>3, <1>z, <2>1
      <4>2. ASSUME NEW i \in 1 .. Len(jobs), n \in RecordsOf(jobs[i])
            PROVE  i \in 1 .. Len(jobs') /\ n \in RecordsOf(jobs'[i])
        BY <4>2, <1>z, <2>4
      <4> QED BY <1>s, <3>1, <4>1, <4>2 DEF Found
    <3> QED BY <3>2, <3>3, <1>z, <2>1
  <2> QED BY <2>10, <2>11, <2>12, <2>13 DEF Custody
<1> QED BY <1>1, <1>2

(* A step that only touches what the workers have in their hands, and lets *)
(* a batch go only when the context is done.                               *)
LEMMA HandsOnly ==
  ASSUME TypeOK, Custody,
         UNCHANGED <<prod, idx, have, jobs, resultCh, ordered, out>>,
         \A v \in Workers : HeldBy(v)' \subseteq HeldBy(v),
         ~Done' => ~Done /\ \A v \in Workers : HeldBy(v)' = HeldBy(v),
         \A v \in Workers : wpc'[v] \in Holding => wpc[v] \in Holding,
         \A v \in Workers : wpc'[v] \in Holding \cup {"count"} =>
             wpc[v] \in Holding \cup {"count"} /\ wjob'[v] = wjob[v],
         \A v \in Workers : wpc'[v] = "send" => Len(wout'[v]) = wjob'[v].len
  PROVE  Custody'
<1>0. Cut /\ Apart /\ Waiting /\ Found /\ InOrder
  BY DEF Custody
<1>1. \A i : InResult(i)' = InResult(i)
  BY DEF InResult
<1>2. Cut'
  <2>1. Batches' = Batches
    BY DEF Batches, Records
  <2> QED BY <1>0, <2>1 DEF Cut
<1>3. Apart'
  BY <1>0, <1>1 DEF Apart
<1>4. Waiting'
  <2>1. \A w \in Workers : wpc'[w] \in Holding => wjob'[w].first >= Len(out')
    BY <1>0 DEF Waiting
  <2> QED BY <1>0, <1>1, <2>1 DEF Waiting
<1>5. Found'
  BY <1>0, <1>1 DEF Found
<1>6. InOrder'
  BY <1>0 DEF InOrder
<1> QED BY <1>2, <1>3, <1>4, <1>5, <1>6 DEF Custody

LEMMA WorkerKeepsCustody ==
  ASSUME TypeOK, Custody, NEW w \in Workers, Worker(w), ~TakeBatch(w), ~SendResult(w)
  PROVE  Custody'
<1> USE DEF readVars, sinkVars, settings
<1>0. UNCHANGED <<prod, idx, have, callerDone, ordered, out>>
  BY DEF Worker
<1>1. UNCHANGED <<jobs, resultCh>>
  BY DEF Worker, AcquireSlot, NoMoreBatches, PassGate, BatchAnswered, BatchReplaced, BatchFails,
         CountBatch
<1>2. wpc \in [Workers -> {"start", "take", "gate", "wait", "call", "send", "count", "exit"}]
  BY DEF TypeOK
<1>3. \A v \in Workers : v # w => wpc'[v] = wpc[v] /\ wjob'[v] = wjob[v] /\ wout'[v] = wout[v]
  <2>1. \E to : GoTo(w, to)
    BY DEF Worker, AcquireSlot, NoMoreBatches, PassGate, BatchAnswered, BatchReplaced, BatchFails,
           CountBatch
  <2>2. \A v \in Workers : v # w => wpc'[v] = wpc[v]
    BY <2>1, <1>2 DEF GoTo
  <2>3. \A v \in Workers : v # w => wjob'[v] = wjob[v]
    <3>1. wjob \in [Workers -> Batches \cup {[first |-> 0, len |-> 0]}]
      BY DEF TypeOK
    <3>2. wjob' = wjob \/ \E b : wjob' = [wjob EXCEPT ![w] = b]
      BY DEF Worker, AcquireSlot, NoMoreBatches, PassGate, BatchAnswered, BatchReplaced,
             BatchFails, CountBatch
    <3> QED BY <3>1, <3>2
  <2>4. \A v \in Workers : v # w => wout'[v] = wout[v]
    <3>1. wout \in [Workers -> Seq(Contents)]
      BY DEF TypeOK
    <3>2. wout' = wout \/ \E b : wout' = [wout EXCEPT ![w] = b]
      BY DEF Worker, AcquireSlot, NoMoreBatches, PassGate, BatchAnswered, BatchReplaced,
             BatchFails, CountBatch
    <3> QED BY <3>1, <3>2
  <2> QED BY <2>2, <2>3, <2>4
<1>4. \A v \in Workers : v # w => HeldBy(v)' = HeldBy(v)
  BY <1>3 DEF HeldBy, RecordsOf
<1>5. Cut
  BY DEF Custody
<1>6. ASSUME wpc'[w] \notin Holding \cup {"count"}, wpc[w] \in Holding => Done'
      PROVE  Custody'
  <2>1. HeldBy(w)' = {}
    BY <1>6 DEF HeldBy, Holding
  <2>2. ~Done' => ~Done
    BY <1>0 DEF Done, Worker, AcquireSlot, NoMoreBatches, PassGate, BatchAnswered, BatchReplaced,
           BatchFails, CountBatch
  <2>3. wpc[w] \notin Holding => HeldBy(w) = {}
    BY DEF HeldBy, Holding
  <2>4. \A v \in Workers : HeldBy(v)' \subseteq HeldBy(v)
    BY <1>4, <2>1
  <2>5. ~Done' => ~Done /\ \A v \in Workers : HeldBy(v)' = HeldBy(v)
    BY <1>4, <1>6, <2>1, <2>2, <2>3
  <2>6. \A v \in Workers : wpc'[v] \in Holding => wpc[v] \in Holding
    BY <1>3, <1>6
  <2>7. \A v \in Workers : wpc'[v] \in Holding \cup {"count"} =>
             wpc[v] \in Holding \cup {"count"} /\ wjob'[v] = wjob[v]
    BY <1>3, <1>6
  <2>8. \A v \in Workers : wpc'[v] = "send" => Len(wout'[v]) = wjob'[v].len
    BY <1>3, <1>5, <1>6 DEF Cut, Holding
  <2> QED BY <1>0, <1>1, <2>4, <2>5, <2>6, <2>7, <2>8, HandsOnly
<1>7. ASSUME wpc[w] \in Holding, wpc'[w] \in Holding, wjob' = wjob, cancelled' = cancelled,
             wpc'[w] = "send" => Len(wout'[w]) = wjob[w].len
      PROVE  Custody'
  <2>1. HeldBy(w)' = HeldBy(w)
    BY <1>7 DEF HeldBy, Holding, RecordsOf
  <2>2. Done' <=> Done
    BY <1>0, <1>7 DEF Done
  <2>3. \A v \in Workers : HeldBy(v)' = HeldBy(v)
    BY <1>4, <2>1
  <2>6. \A v \in Workers : wpc'[v] \in Holding => wpc[v] \in Holding
    BY <1>3, <1>7
  <2>7. \A v \in Workers : wpc'[v] \in Holding \cup {"count"} =>
             wpc[v] \in Holding \cup {"count"} /\ wjob'[v] = wjob[v]
    BY <1>3, <1>7
  <2>8. \A v \in Workers : wpc'[v] = "send" => Len(wout'[v]) = wjob'[v].len
    BY <1>3, <1>5, <1>7 DEF Cut, Holding
  <2> QED BY <1>0, <1>1, <2>2, <2>3, <2>6, <2>7, <2>8, HandsOnly
<1>8. CASE AcquireSlot(w) \/ NoMoreBatches(w) \/ CountBatch(w) \/ BatchFails(w)
  <2>1. wpc'[w] \in {"take", "exit"}
    BY <1>2, <1>8 DEF AcquireSlot, NoMoreBatches, CountBatch, BatchFails, GoTo
  <2>2. wpc[w] \in Holding => cancelled'
    BY <1>8 DEF AcquireSlot, NoMoreBatches, CountBatch, BatchFails, Holding
  <2> QED BY <1>6, <2>1, <2>2 DEF Done, Holding
<1>9. CASE PassGate(w)
  <2>1. CASE GoTo(w, "exit") /\ Done
    <3>1. wpc'[w] = "exit" /\ cancelled' = cancelled
      BY <1>2, <1>9, <2>1 DEF PassGate, GoTo
    <3> QED BY <1>0, <1>6, <2>1, <3>1 DEF Done, Holding
  <2>2. CASE GoTo(w, "wait") \/ GoTo(w, "call")
    <3>1. wpc'[w] \in {"wait", "call"} /\ wpc[w] \in {"gate", "wait"} /\ wjob' = wjob
          /\ cancelled' = cancelled
      BY <1>2, <1>9, <2>2 DEF PassGate, GoTo
    <3> QED BY <1>7, <3>1 DEF Holding
  <2> QED BY <1>9, <2>1, <2>2 DEF PassGate
<1>10. CASE BatchAnswered(w) \/ BatchReplaced(w)
  <2>1. /\ wpc[w] = "call" /\ wpc'[w] = "send" /\ UNCHANGED <<wjob, cancelled>>
    BY <1>2, <1>10 DEF BatchAnswered, BatchReplaced, GoTo
  <2>2. wjob[w].len \in Nat
    BY <1>5, <2>1, Sizes DEF Holding
  <2>3. \A a, b, n : /\ b.len \in Nat => Len(TakeApart(a, b)) = b.len
                     /\ n \in Nat => Len(Blanks(n)) = n
    BY DEF TakeApart, Blanks
  <2>a. \/ \E a : wout' = [wout EXCEPT ![w] = TakeApart(a, wjob[w])]
        \/ wout' = [wout EXCEPT ![w] = Blanks(wjob[w].len)]
    BY <1>10 DEF BatchAnswered, BatchReplaced
  <2>4. \E s : wout' = [wout EXCEPT ![w] = s] /\ Len(s) = wjob[w].len
    BY <2>a, <2>2, <2>3
  <2>5. Len(wout'[w]) = wjob[w].len
    BY <2>4 DEF TypeOK
  <2> QED BY <1>7, <2>1, <2>5 DEF Holding
<1> QED BY <1>8, <1>9, <1>10 DEF Worker

LEMMA TakeKeepsCustody ==
  ASSUME TypeOK, Custody, NEW w \in Workers, Worker(w), TakeBatch(w) PROVE Custody'
<1> USE DEF readVars, sinkVars, settings
<1>0. /\ UNCHANGED <<prod, idx, have, callerDone, cancelled, ordered, out, wout, resultCh>>
      /\ wpc[w] = "take" /\ jobs # <<>> /\ jobs' = Tail(jobs)
      /\ wjob' = [wjob EXCEPT ![w] = Head(jobs)] /\ wpc' = [wpc EXCEPT ![w] = "gate"]
  BY DEF Worker, TakeBatch, GoTo
<1>c. Cut /\ Apart /\ Waiting /\ Found /\ InOrder
  BY DEF Custody
<1>1. /\ Head(jobs) = jobs[1] /\ 1 \in 1 .. Len(jobs)
      /\ \A k \in 1 .. Len(jobs') : k + 1 \in 2 .. Len(jobs) /\ jobs'[k] = jobs[k + 1]
      /\ \A k \in 2 .. Len(jobs) : k - 1 \in 1 .. Len(jobs')
      /\ jobs[1] \in Batches /\ 2 .. Len(jobs) \subseteq 1 .. Len(jobs)
      /\ \A k \in 1 .. Len(jobs') : k \in Nat
  <2>1. jobs \in Seq(Batches)
    BY DEF TypeOK
  <2> QED BY <1>0, <2>1, Received
<1>2. /\ wpc'[w] = "gate" /\ wjob'[w] = jobs[1]
      /\ \A v \in Workers : v # w => wpc'[v] = wpc[v] /\ wjob'[v] = wjob[v]
  BY <1>0, <1>1 DEF TypeOK
<1>3. /\ HeldBy(w)' = RecordsOf(jobs[1])
      /\ \A v \in Workers : v # w => HeldBy(v)' = HeldBy(v)
      /\ \A i : InResult(i)' = InResult(i)
  BY <1>0, <1>2 DEF HeldBy, InResult, RecordsOf
<1>4. Cut'
  <2>1. \A i \in 1 .. Len(jobs') : jobs'[i].first + jobs'[i].len <= idx'
    BY <1>0, <1>1, <1>c DEF Cut
  <2>2. \A v \in Workers : wpc'[v] \in Holding \cup {"count"} =>
             wjob'[v] \in Batches /\ wjob'[v].first + wjob'[v].len <= idx'
    <3>1. \A v \in Workers : v # w => (wpc[v] \in Holding \cup {"count"} =>
             wjob[v] \in Batches /\ wjob[v].first + wjob[v].len <= idx)
      BY <1>c DEF Cut
    <3>2. jobs[1].first + jobs[1].len <= idx
      BY <1>1, <1>c DEF Cut
    <3> QED BY <1>0, <1>1, <1>2, <3>1, <3>2
  <2>3. \A v \in Workers : wpc'[v] = "send" => Len(wout'[v]) = wjob'[v].len
    BY <1>0, <1>2, <1>c DEF Cut
  <2>4. Batches' = Batches
    BY DEF Batches, Records
  <2> QED BY <1>0, <1>c, <2>1, <2>2, <2>3, <2>4 DEF Cut
<1>5. Apart'
  <2>1. \A i \in 1 .. Len(jobs') : RecordsOf(jobs'[i]) = RecordsOf(jobs[i + 1])
    BY <1>1
  <2>2. \A i, j \in 1 .. Len(jobs') : i # j => RecordsOf(jobs'[i]) \cap RecordsOf(jobs'[j]) = {}
    <3>1. SUFFICES ASSUME NEW i \in 1 .. Len(jobs'), NEW j \in 1 .. Len(jobs'), i # j
                   PROVE  RecordsOf(jobs[i + 1]) \cap RecordsOf(jobs[j + 1]) = {}
      BY <2>1
    <3>2. i + 1 \in 1 .. Len(jobs) /\ j + 1 \in 1 .. Len(jobs) /\ i + 1 # j + 1
      BY <1>1, <3>1
    <3> QED BY <1>c, <3>2 DEF Apart
  <2>3. \A i \in 1 .. Len(jobs') : RecordsOf(jobs'[i]) \cap RecordsOf(jobs[1]) = {}
    <3>1. \A i \in 1 .. Len(jobs') : i + 1 \in 1 .. Len(jobs) /\ i + 1 # 1
      BY <1>1
    <3> QED BY <1>1, <1>c, <2>1, <3>1 DEF Apart
  <2>4. \A i \in 1 .. Len(jobs'), v \in Workers : RecordsOf(jobs'[i]) \cap HeldBy(v)' = {}
    <3>1. \A i \in 1 .. Len(jobs') : i + 1 \in 1 .. Len(jobs)
      BY <1>1
    <3> QED BY <1>3, <1>c, <2>1, <2>3, <3>1 DEF Apart
  <2>5. \A i \in 1 .. Len(jobs'), k \in 1 .. Len(resultCh) : RecordsOf(jobs'[i]) \cap InResult(k) = {}
    <3>1. \A i \in 1 .. Len(jobs') : i + 1 \in 1 .. Len(jobs)
      BY <1>1
    <3> QED BY <1>c, <2>1, <3>1 DEF Apart
  <2>6. \A v \in Workers, k \in 1 .. Len(resultCh) : HeldBy(v)' \cap InResult(k) = {}
    BY <1>1, <1>3, <1>c DEF Apart
  <2>7. \A u, v \in Workers : u # v => HeldBy(u)' \cap HeldBy(v)' = {}
    BY <1>1, <1>3, <1>c DEF Apart
  <2>8. \A i, k \in 1 .. Len(resultCh) : i # k => InResult(i) \cap InResult(k) = {}
    BY <1>c DEF Apart
  <2> QED BY <1>0, <1>3, <2>2, <2>4, <2>5, <2>6, <2>7, <2>8 DEF Apart
<1>6. Waiting'
  <2>1. \A i \in 1 .. Len(jobs') : RecordsOf(jobs'[i]) \cap DOMAIN ordered' = {}
                                   /\ jobs'[i].first >= Len(out')
    BY <1>0, <1>1, <1>c DEF Waiting
  <2>2. \A v \in Workers : /\ HeldBy(v)' \cap DOMAIN ordered' = {}
                           /\ wpc'[v] \in Holding => wjob'[v].first >= Len(out')
    BY <1>0, <1>1, <1>2, <1>3, <1>c DEF Waiting
  <2> QED BY <1>0, <1>3, <1>c, <2>1, <2>2 DEF Waiting
<1>7. Found'
  <2>1. SUFFICES ASSUME ~Done, NEW n \in 0 .. idx - 1
                 PROVE  \/ \E i \in 1 .. Len(jobs') : n \in RecordsOf(jobs'[i])
                        \/ \E v \in Workers : n \in HeldBy(v)'
                        \/ \E k \in 1 .. Len(resultCh) : n \in InResult(k)
                        \/ n \in DOMAIN ordered \/ n < Len(out)
    BY <1>0, <1>3 DEF Found, Done
  <2>2. ASSUME NEW i \in 1 .. Len(jobs), n \in RecordsOf(jobs[i])
        PROVE  (\E j \in 1 .. Len(jobs') : n \in RecordsOf(jobs'[j])) \/ n \in HeldBy(w)'
    <3>1. CASE i = 1
      BY <1>3, <2>2, <3>1
    <3>2. CASE i # 1
      <4>1. i \in 2 .. Len(jobs) /\ i - 1 \in 1 .. Len(jobs')
        BY <1>1, <3>2
      <4>2. i - 1 + 1 = i
        BY <4>1
      <4> QED BY <1>1, <2>2, <4>1, <4>2
    <3> QED BY <3>1, <3>2
  <2>3. HeldBy(w) = {}
    BY <1>0 DEF HeldBy
  <2> QED BY <1>3, <1>c, <2>1, <2>2, <2>3 DEF Found
<1>8. InOrder'
  BY <1>0, <1>c DEF InOrder
<1> QED BY <1>4, <1>5, <1>6, <1>7, <1>8 DEF Custody

LEMMA SendKeepsCustody ==
  ASSUME TypeOK, Custody, NEW w \in Workers, Worker(w), SendResult(w) PROVE Custody'
<1> USE DEF readVars, sinkVars, settings
<1> DEFINE r == [first |-> wjob[w].first, outs |-> wout[w]]
<1>0. /\ UNCHANGED <<prod, idx, have, callerDone, cancelled, ordered, out, jobs, wjob>>
      /\ wpc[w] = "send" /\ resultCh' = Append(resultCh, r)
      /\ wout' = [wout EXCEPT ![w] = <<>>] /\ wpc' = [wpc EXCEPT ![w] = "count"]
  BY DEF Worker, SendResult, GoTo
<1>c. Cut /\ Apart /\ Waiting /\ Found /\ InOrder
  BY DEF Custody
<1>1. /\ Len(resultCh') = Len(resultCh) + 1 /\ resultCh'[Len(resultCh) + 1] = r
      /\ \A i \in 1 .. Len(resultCh) : resultCh'[i] = resultCh[i]
      /\ Len(resultCh) \in Nat
  <2>1. resultCh \in Seq(Results)
    BY DEF TypeOK
  <2> QED BY <1>0, <2>1
<1>w. /\ wjob[w] \in Batches /\ wjob[w].first \in Nat /\ wjob[w].len \in Nat \ {0}
      /\ wjob[w].first + wjob[w].len <= idx /\ Len(wout[w]) = wjob[w].len
  BY <1>0, <1>c, Sizes DEF Holding, Cut
<1>r. r.first = wjob[w].first /\ Len(r.outs) = wjob[w].len
  BY <1>w
<1> HIDE DEF r
<1>2. /\ wpc'[w] = "count"
      /\ \A v \in Workers : v # w => wpc'[v] = wpc[v] /\ wout'[v] = wout[v]
  BY <1>0 DEF TypeOK
<1>3. /\ HeldBy(w)' = {} /\ HeldBy(w) = RecordsOf(wjob[w])
      /\ \A v \in Workers : v # w => HeldBy(v)' = HeldBy(v)
  BY <1>0, <1>2 DEF HeldBy, RecordsOf
<1>4. \A k \in 1 .. Len(resultCh') :
         \/ k \in 1 .. Len(resultCh) /\ InResult(k)' = InResult(k)
         \/ k = Len(resultCh) + 1 /\ InResult(k)' = HeldBy(w)
  <2>1. TAKE k \in 1 .. Len(resultCh')
  <2>2. CASE k = Len(resultCh) + 1
    BY <1>1, <1>3, <1>r, <2>2 DEF InResult, RecordsOf
  <2>3. CASE k # Len(resultCh) + 1
    <3>1. k \in 1 .. Len(resultCh) /\ resultCh'[k] = resultCh[k]
      BY <1>1, <2>1, <2>3
    <3> QED BY <3>1 DEF InResult
  <2> QED BY <2>2, <2>3
<1>5. Cut'
  <2>1. \A i \in 1 .. Len(resultCh') :
          Len(resultCh'[i].outs) >= 1 /\ resultCh'[i].first + Len(resultCh'[i].outs) <= idx'
    <3>1. \A i \in 1 .. Len(resultCh) :
          Len(resultCh[i].outs) >= 1 /\ resultCh[i].first + Len(resultCh[i].outs) <= idx
      BY <1>c DEF Cut
    <3>2. Len(r.outs) >= 1 /\ r.first + Len(r.outs) <= idx
      BY <1>r, <1>w
    <3> QED BY <1>0, <1>1, <3>1, <3>2
  <2>2. \A v \in Workers : wpc'[v] \in Holding \cup {"count"} =>
             wjob'[v] \in Batches /\ wjob'[v].first + wjob'[v].len <= idx'
    BY <1>0, <1>2, <1>w, <1>c DEF Cut
  <2>3. \A v \in Workers : wpc'[v] = "send" => Len(wout'[v]) = wjob'[v].len
    BY <1>0, <1>2, <1>c DEF Cut
  <2>4. Batches' = Batches
    BY DEF Batches, Records
  <2> QED BY <1>0, <1>c, <2>1, <2>2, <2>3, <2>4 DEF Cut
<1>6. Apart'
  <2>1. \A u, v \in Workers : u # v => HeldBy(u)' \cap HeldBy(v)' = {}
    BY <1>3, <1>c DEF Apart
  <2>2. \A i \in 1 .. Len(jobs), v \in Workers : RecordsOf(jobs[i]) \cap HeldBy(v)' = {}
    BY <1>3, <1>c DEF Apart
  <2>3. \A i \in 1 .. Len(jobs), k \in 1 .. Len(resultCh') : RecordsOf(jobs[i]) \cap InResult(k)' = {}
    BY <1>4, <1>c DEF Apart
  <2>4. \A v \in Workers, k \in 1 .. Len(resultCh') : HeldBy(v)' \cap InResult(k)' = {}
    <3>1. SUFFICES ASSUME NEW v \in Workers, NEW k \in 1 .. Len(resultCh'), v # w
                   PROVE  HeldBy(v) \cap InResult(k)' = {}
      BY <1>3
    <3> QED BY <1>4, <1>c, <3>1 DEF Apart
  <2>5. \A i, k \in 1 .. Len(resultCh') : i # k => InResult(i)' \cap InResult(k)' = {}
    BY <1>4, <1>c DEF Apart
  <2>6. \A i, j \in 1 .. Len(jobs) : i # j => RecordsOf(jobs[i]) \cap RecordsOf(jobs[j]) = {}
    BY <1>c DEF Apart
  <2> QED BY <1>0, <2>1, <2>2, <2>3, <2>4, <2>5, <2>6 DEF Apart
<1>7. Waiting'
  <2>1. \A v \in Workers : /\ HeldBy(v)' \cap DOMAIN ordered' = {}
                           /\ wpc'[v] \in Holding => wjob'[v].first >= Len(out')
    BY <1>0, <1>2, <1>3, <1>c DEF Waiting, Holding
  <2>2. \A k \in 1 .. Len(resultCh') : InResult(k)' \cap DOMAIN ordered' = {}
                                     /\ resultCh'[k].first >= Len(out')
    BY <1>0, <1>1, <1>4, <1>c, <1>r DEF Waiting, Holding
  <2> QED BY <1>0, <1>c, <2>1, <2>2 DEF Waiting
<1>8. Found'
  <2>1. SUFFICES ASSUME ~Done, NEW n \in 0 .. idx - 1
                 PROVE  \/ \E i \in 1 .. Len(jobs) : n \in RecordsOf(jobs[i])
                        \/ \E v \in Workers : n \in HeldBy(v)'
                        \/ \E k \in 1 .. Len(resultCh') : n \in InResult(k)'
                        \/ n \in DOMAIN ordered \/ n < Len(out)
    BY <1>0 DEF Found, Done
  <2>2. \A k \in 1 .. Len(resultCh) : k \in 1 .. Len(resultCh') /\ InResult(k)' = InResult(k)
    BY <1>1, <1>4
  <2>3. n \in HeldBy(w) => \E k \in 1 .. Len(resultCh') : n \in InResult(k)'
    <3>1. Len(resultCh) + 1 \in 1 .. Len(resultCh')
      BY <1>1
    <3>2. \A k : k = Len(resultCh) + 1 => InResult(k)' = HeldBy(w)
      BY <1>1, <1>4
    <3> QED BY <3>1, <3>2
  <2> QED BY <1>3, <1>c, <2>1, <2>2, <2>3 DEF Found
<1>9. InOrder'
  BY <1>0, <1>c DEF InOrder
<1> QED BY <1>5, <1>6, <1>7, <1>8, <1>9 DEF Custody

LEMMA CollectorKeepsCustody ==
  ASSUME TypeOK, Custody, Collector, ~ReceiveResult, ~EmitReady PROVE Custody'
<1> USE DEF readVars, workVars, settings
<1>0. UNCHANGED <<prod, idx, have, callerDone, jobs, wpc, wjob, wout, ordered, out>>
  BY DEF Collector, EmitFails, NothingReady, Conclude
<1>1. UNCHANGED resultCh /\ (cancelled => cancelled')
  BY DEF Collector, EmitFails, NothingReady, Conclude
<1>2. \A v \in Workers : HeldBy(v)' = HeldBy(v)
  BY <1>0 DEF HeldBy
<1>3. ~Done' => ~Done
  BY <1>0, <1>1 DEF Done
<1>4. \A v \in Workers : wpc'[v] = "send" => Len(wout'[v]) = wjob'[v].len
  BY <1>0 DEF Custody, Cut
<1> QED BY <1>0, <1>1, <1>2, <1>3, <1>4, HandsOnly

LEMMA ReceiveKeepsCustody ==
  ASSUME TypeOK, Custody, Collector, ReceiveResult PROVE Custody'
<1> USE DEF readVars, workVars, settings
<1> DEFINE r == Head(resultCh)
<1>0. /\ UNCHANGED <<prod, idx, have, callerDone, cancelled, jobs, wpc, wjob, wout, out>>
      /\ resultCh # <<>> /\ resultCh' = Tail(resultCh)
      /\ DOMAIN ordered' = DOMAIN ordered \cup (r.first .. r.first + Len(r.outs) - 1)
  BY DEF Collector, ReceiveResult
<1>c. Cut /\ Apart /\ Waiting /\ Found /\ InOrder
  BY DEF Custody
<1>1. /\ r = resultCh[1] /\ 1 \in 1 .. Len(resultCh)
      /\ \A k \in 1 .. Len(resultCh') :
            k + 1 \in 1 .. Len(resultCh) /\ k + 1 # 1 /\ resultCh'[k] = resultCh[k + 1]
      /\ \A k \in 2 .. Len(resultCh) : k - 1 \in 1 .. Len(resultCh') /\ resultCh'[k - 1] = resultCh[k]
      /\ \A k \in 1 .. Len(resultCh) : k # 1 => k \in 2 .. Len(resultCh)
      /\ \A k \in 1 .. Len(resultCh') : k \in Nat
  <2>1. resultCh \in Seq(Results)
    BY DEF TypeOK
  <2>2. \A k \in 2 .. Len(resultCh) : k - 1 + 1 = k
    OBVIOUS
  <2> QED BY <1>0, <2>1, <2>2, Received
<1>2. DOMAIN ordered' = DOMAIN ordered \cup InResult(1)
  BY <1>0, <1>1 DEF InResult
<1>3. /\ \A v \in Workers : HeldBy(v)' = HeldBy(v)
      /\ \A k \in 1 .. Len(resultCh') : InResult(k)' = InResult(k + 1)
      /\ \A k \in 2 .. Len(resultCh) : InResult(k) = InResult(k - 1)'
  <2>1. \A v \in Workers : HeldBy(v)' = HeldBy(v)
    BY <1>0 DEF HeldBy
  <2>2. \A k \in 1 .. Len(resultCh') : InResult(k)' = InResult(k + 1)
    BY <1>1 DEF InResult
  <2>3. \A k \in 2 .. Len(resultCh) : InResult(k) = InResult(k - 1)'
    BY <1>1 DEF InResult
  <2> QED BY <2>1, <2>2, <2>3
<1>4. Cut'
  <2>1. \A i \in 1 .. Len(resultCh') :
          Len(resultCh'[i].outs) >= 1 /\ resultCh'[i].first + Len(resultCh'[i].outs) <= idx'
    BY <1>0, <1>1, <1>c DEF Cut
  <2>2. \A n \in DOMAIN ordered' : n < idx'
    <3>1. InResult(1) \subseteq 0 .. idx - 1 /\ DOMAIN ordered \subseteq 0 .. idx - 1 /\ idx \in Nat
      BY <1>1, <1>c, BeforeIdx, Sizes
    <3>2. \A n \in 0 .. idx - 1 : n < idx
      BY <3>1
    <3> QED BY <1>0, <1>2, <3>1, <3>2
  <2>4. Batches' = Batches
    BY DEF Batches, Records
  <2> QED BY <1>0, <1>c, <2>1, <2>2, <2>4 DEF Cut
<1>5. Apart'
  <2>1. \A i \in 1 .. Len(jobs), k \in 1 .. Len(resultCh') : RecordsOf(jobs[i]) \cap InResult(k)' = {}
    BY <1>1, <1>3, <1>c DEF Apart
  <2>2. \A v \in Workers, k \in 1 .. Len(resultCh') : HeldBy(v) \cap InResult(k)' = {}
    BY <1>1, <1>3, <1>c DEF Apart
  <2>3. \A i, k \in 1 .. Len(resultCh') : i # k => InResult(i)' \cap InResult(k)' = {}
    <3>1. SUFFICES ASSUME NEW i \in 1 .. Len(resultCh'), NEW k \in 1 .. Len(resultCh'), i # k
                   PROVE  InResult(i + 1) \cap InResult(k + 1) = {}
      BY <1>3
    <3>2. i + 1 # k + 1
      BY <1>1, <3>1
    <3> QED BY <1>1, <1>c, <3>2 DEF Apart
  <2> QED BY <1>0, <1>3, <1>c, <2>1, <2>2, <2>3 DEF Apart
<1>6. Waiting'
  <2>1. \A n \in DOMAIN ordered' : n >= Len(out')
    <3>1. \A n \in InResult(1) : n >= Len(out)
      <4>1. /\ resultCh[1].first >= Len(out) /\ resultCh[1].first \in Nat /\ Len(out) \in Nat
            /\ Len(resultCh[1].outs) \in Nat
        BY <1>1, <1>c, Sizes DEF Waiting
      <4> QED BY <4>1 DEF InResult
    <3> QED BY <1>0, <1>2, <1>c, <3>1 DEF Waiting
  <2>2. \A i \in 1 .. Len(jobs) : RecordsOf(jobs[i]) \cap DOMAIN ordered' = {}
    BY <1>1, <1>2, <1>c DEF Waiting, Apart
  <2>3. \A v \in Workers : HeldBy(v) \cap DOMAIN ordered' = {}
    BY <1>1, <1>2, <1>c DEF Waiting, Apart
  <2>4. \A k \in 1 .. Len(resultCh') : InResult(k)' \cap DOMAIN ordered' = {}
                                     /\ resultCh'[k].first >= Len(out')
    <3>1. TAKE k \in 1 .. Len(resultCh')
    <3>2. resultCh'[k].first >= Len(out')
      BY <1>0, <1>1, <1>c, <3>1 DEF Waiting
    <3>3. InResult(k + 1) \cap DOMAIN ordered = {} /\ InResult(k + 1) \cap InResult(1) = {}
      BY <1>1, <1>c, <3>1 DEF Waiting, Apart
    <3> QED BY <1>2, <1>3, <3>1, <3>2, <3>3
  <2> QED BY <1>0, <1>3, <1>c, <2>1, <2>2, <2>3, <2>4 DEF Waiting
<1>7. Found'
  <2>1. SUFFICES ASSUME ~Done, NEW n \in 0 .. idx - 1
                 PROVE  \/ \E i \in 1 .. Len(jobs) : n \in RecordsOf(jobs[i])
                        \/ \E v \in Workers : n \in HeldBy(v)
                        \/ \E k \in 1 .. Len(resultCh') : n \in InResult(k)'
                        \/ n \in DOMAIN ordered' \/ n < Len(out)
    BY <1>0, <1>3 DEF Found, Done
  <2>2. ASSUME NEW k \in 1 .. Len(resultCh), n \in InResult(k)
        PROVE  n \in DOMAIN ordered' \/ \E i \in 1 .. Len(resultCh') : n \in InResult(i)'
    BY <1>1, <1>2, <1>3, <2>2
  <2> QED BY <1>2, <1>c, <2>1, <2>2 DEF Found
<1>8. InOrder'
  BY <1>0, <1>c DEF InOrder
<1> QED BY <1>4, <1>5, <1>6, <1>7, <1>8 DEF Custody

LEMMA EmitKeepsCustody ==
  ASSUME TypeOK, Custody, Collector, EmitReady PROVE Custody'
<1> USE DEF readVars, workVars, settings
<1>0. /\ UNCHANGED <<prod, idx, have, callerDone, cancelled, jobs, wpc, wjob, wout, resultCh>>
      /\ Len(out) \in DOMAIN ordered /\ out' = Append(out, Len(out))
      /\ DOMAIN ordered' = DOMAIN ordered \ {Len(out)}
  BY DEF Collector, EmitReady, NextEmit
<1>c. Cut /\ Apart /\ Waiting /\ Found /\ InOrder
  BY DEF Custody
<1>z. idx \in Nat /\ Len(out) \in Nat /\ Len(out) < idx /\ out \in Seq(Records)
  BY <1>0, <1>c, Sizes DEF TypeOK
<1>1. Len(out') = Len(out) + 1
  BY <1>0, <1>z
<1>3. /\ \A v \in Workers : HeldBy(v)' = HeldBy(v)
      /\ \A k : InResult(k)' = InResult(k)
  BY <1>0 DEF HeldBy, InResult
<1>4. Cut'
  <2>4. Batches' = Batches
    BY DEF Batches, Records
  <2>5. Len(out') <= idx'
    BY <1>0, <1>1, <1>z
  <2> QED BY <1>0, <1>c, <2>4, <2>5 DEF Cut
<1>5. Apart'
  BY <1>0, <1>3, <1>c DEF Apart
<1>6. Waiting'
  <2>1. \A n \in DOMAIN ordered' : n >= Len(out')
    <3>1. \A n \in DOMAIN ordered : n \in Nat /\ n >= Len(out)
      BY <1>c, Sizes DEF Waiting
    <3> QED BY <1>0, <1>1, <1>z, <3>1
  <2>2. ASSUME NEW i \in 1 .. Len(jobs) PROVE jobs[i].first >= Len(out')
    <3>1. jobs[i].first \in Nat /\ jobs[i].len \in Nat \ {0} /\ jobs[i].first >= Len(out)
      BY <1>c, Sizes DEF Waiting
    <3>2. jobs[i].first \in RecordsOf(jobs[i])
      BY <3>1 DEF RecordsOf
    <3>3. jobs[i].first # Len(out)
      BY <1>0, <1>c, <3>2 DEF Waiting
    <3> QED BY <1>1, <1>z, <3>1, <3>3
  <2>3. ASSUME NEW w \in Workers, wpc[w] \in Holding PROVE wjob[w].first >= Len(out')
    <3>1. wjob[w].first \in Nat /\ wjob[w].len \in Nat \ {0} /\ wjob[w].first >= Len(out)
      BY <1>c, <2>3, Sizes DEF Waiting
    <3>2. wjob[w].first \in HeldBy(w)
      BY <2>3, <3>1 DEF RecordsOf, HeldBy, Holding
    <3>3. wjob[w].first # Len(out)
      BY <1>0, <1>c, <3>2 DEF Waiting
    <3> QED BY <1>1, <1>z, <3>1, <3>3
  <2>4. ASSUME NEW k \in 1 .. Len(resultCh) PROVE resultCh[k].first >= Len(out')
    <3>1. /\ resultCh[k].first \in Nat /\ Len(resultCh[k].outs) \in Nat \ {0}
          /\ resultCh[k].first >= Len(out)
      BY <1>c, Sizes DEF Waiting
    <3>2. resultCh[k].first \in InResult(k)
      BY <3>1 DEF InResult
    <3>3. resultCh[k].first # Len(out)
      BY <1>0, <1>c, <3>2 DEF Waiting
    <3> QED BY <1>1, <1>z, <3>1, <3>3
  <2> QED BY <1>0, <1>3, <1>c, <2>1, <2>2, <2>3, <2>4 DEF Waiting
<1>7. Found'
  <2>1. SUFFICES ASSUME ~Done, NEW n \in 0 .. idx - 1
                 PROVE  \/ \E i \in 1 .. Len(jobs) : n \in RecordsOf(jobs[i])
                        \/ \E v \in Workers : n \in HeldBy(v)
                        \/ \E k \in 1 .. Len(resultCh) : n \in InResult(k)
                        \/ n \in DOMAIN ordered' \/ n < Len(out')
    BY <1>0, <1>3 DEF Found, Done
  <2>2. n \in DOMAIN ordered => n \in DOMAIN ordered' \/ n < Len(out')
    BY <1>0, <1>1, <1>z
  <2>3. n < Len(out) => n < Len(out')
    BY <1>1, <1>z
  <2> QED BY <1>c, <2>1, <2>2, <2>3 DEF Found
<1>8. InOrder'
  <2>1. \A k \in 1 .. Len(out') : out'[k] = k - 1
    <3>1. TAKE k \in 1 .. Len(out')
    <3>2. CASE k = Len(out) + 1
      BY <1>0, <1>z, <3>2
    <3>3. CASE k # Len(out) + 1
      <4>1. k \in 1 .. Len(out) /\ out'[k] = out[k]
        BY <1>0, <1>1, <1>z, <3>1, <3>3
      <4> QED BY <1>c, <4>1 DEF InOrder
    <3> QED BY <3>2, <3>3
  <2>2. out' \in Seq(Records)
    <3>1. Len(out) \in Records
      BY <1>0 DEF TypeOK
    <3> QED BY <1>0, <1>z, <3>1
  <2> QED BY <2>1, <2>2 DEF InOrder
<1> QED BY <1>4, <1>5, <1>6, <1>7, <1>8 DEF Custody

LEMMA CustodyStep == ASSUME TypeOK, Custody, [Next]_vars PROVE Custody'
<1>1. CASE Producer
  BY <1>1, ProducerCustody
<1>2. ASSUME NEW w \in Workers, Worker(w) PROVE Custody'
  BY <1>2, WorkerKeepsCustody, TakeKeepsCustody, SendKeepsCustody
<1>3. CASE Collector
  BY <1>3, CollectorKeepsCustody, ReceiveKeepsCustody, EmitKeepsCustody
<1>4. CASE CallerCancels \/ UNCHANGED vars
  <2>1. /\ UNCHANGED <<prod, idx, have, jobs, wpc, wjob, wout, resultCh, ordered, out>>
        /\ UNCHANGED cancelled /\ (callerDone => callerDone')
    BY <1>4 DEF CallerCancels, vars, settings, readVars, workVars, sinkVars
  <2>2. \A v \in Workers : HeldBy(v)' = HeldBy(v)
    BY <2>1 DEF HeldBy
  <2>3. ~Done' => ~Done
    BY <2>1 DEF Done
  <2>4. \A v \in Workers : wpc'[v] = "send" => Len(wout'[v]) = wjob'[v].len
    BY <2>1 DEF Custody, Cut
  <2> QED BY <2>1, <2>2, <2>3, <2>4, HandsOnly
<1> QED BY <1>1, <1>2, <1>3, <1>4 DEF Next, Finished

-----------------------------------------------------------------------------
(* Under the strict contract a record gets the element at its place.       *)

LEMMA ContractStep ==
  ASSUME TypeOK, Custody, Contract, [Next]_vars PROVE Contract'
<1> USE DEF readVars, workVars, sinkVars, settings
<1>0. UNCHANGED <<continueOnError, strict>>
  BY DEF Next, Producer, Worker, Collector, CallerCancels, Finished, vars
<1>1. failed \subseteq failed'
  BY DEF Next, Producer, Worker, AcquireSlot, TakeBatch, NoMoreBatches, PassGate, BatchAnswered,
     BatchReplaced, BatchFails, SendResult, CountBatch, Collector, CallerCancels, Finished, vars
<1>2. \A n, c : Fits(n, c, Blanked) => Fits(n, c, Blanked')
  BY <1>0, <1>1 DEF Fits, Blanked
<1> SUFFICES ASSUME strict PROVE Contract'
  BY <1>0 DEF Contract
<1>c. /\ \A n \in DOMAIN ordered : Fits(n, ordered[n], Blanked)
      /\ \A i \in 1 .. Len(resultCh) : \A k \in 1 .. Len(resultCh[i].outs) :
            Fits(resultCh[i].first + k - 1, resultCh[i].outs[k], Blanked)
      /\ \A w \in Workers : wpc[w] = "send" => \A k \in 1 .. Len(wout[w]) :
            Fits(wjob[w].first + k - 1, wout[w][k], Blanked)
  BY DEF Contract
<1>s. Cut
  BY DEF Custody
<1>3. ASSUME UNCHANGED <<resultCh, ordered>>,
             \A w \in Workers : wpc'[w] = "send" => \A k \in 1 .. Len(wout'[w]) :
                Fits(wjob'[w].first + k - 1, wout'[w][k], Blanked')
      PROVE  Contract'
  BY <1>2, <1>3, <1>c DEF Contract
<1>4. CASE UNCHANGED <<wpc, wjob, wout, resultCh, ordered>>
  BY <1>2, <1>3, <1>4, <1>c
<1>5. ASSUME Collector PROVE Contract'
  <2>0. UNCHANGED <<wpc, wjob, wout>>
    BY <1>5 DEF Collector
  <2>1. CASE ReceiveResult
    <3>1. resultCh # <<>> /\ resultCh' = Tail(resultCh) /\ resultCh \in Seq(Results)
      BY <2>1 DEF ReceiveResult, TypeOK
    <3>2. /\ Head(resultCh) = resultCh[1] /\ 1 \in 1 .. Len(resultCh)
          /\ \A k \in 1 .. Len(resultCh') : k + 1 \in 1 .. Len(resultCh) /\ resultCh'[k] = resultCh[k + 1]
      BY <3>1, Received
    <3>3. \A i \in 1 .. Len(resultCh') : \A k \in 1 .. Len(resultCh'[i].outs) :
            Fits(resultCh'[i].first + k - 1, resultCh'[i].outs[k], Blanked')
      BY <1>2, <1>c, <3>2
    <3>4. /\ resultCh[1].first \in Nat /\ Len(resultCh[1].outs) \in Nat
      BY <1>s, <3>2, Sizes
    <3>5. \A n \in InResult(1) : Fits(n, resultCh[1].outs[n - resultCh[1].first + 1], Blanked)
      <4>1. TAKE n \in InResult(1)
      <4>2. DEFINE k == n - resultCh[1].first + 1
      <4>3. k \in 1 .. Len(resultCh[1].outs) /\ resultCh[1].first + k - 1 = n
        BY <3>4, <4>1 DEF InResult
      <4>4. Fits(resultCh[1].first + k - 1, resultCh[1].outs[k], Blanked)
        BY <1>c, <3>2, <4>3
      <4> QED BY <4>3, <4>4
    <3>6. ordered' = [n \in DOMAIN ordered \cup InResult(1) |->
             IF n \in InResult(1) THEN resultCh[1].outs[n - resultCh[1].first + 1] ELSE ordered[n]]
      BY <2>1, <3>2 DEF ReceiveResult, InResult
    <3>7. \A n \in DOMAIN ordered' : Fits(n, ordered'[n], Blanked)
      BY <1>c, <3>5, <3>6
    <3>8. \A n \in DOMAIN ordered' : Fits(n, ordered'[n], Blanked')
      BY <1>0, <1>1, <3>7 DEF Fits, Blanked
    <3> QED BY <1>2, <1>c, <2>0, <3>3, <3>8 DEF Contract
  <2>2. CASE EmitReady
    <3>1. /\ UNCHANGED resultCh
          /\ ordered' = [n \in DOMAIN ordered \ {NextEmit} |-> ordered[n]]
      BY <2>2 DEF EmitReady
    <3>2. \A n \in DOMAIN ordered' : Fits(n, ordered'[n], Blanked)
      BY <1>c, <3>1
    <3>3. \A n \in DOMAIN ordered' : Fits(n, ordered'[n], Blanked')
      BY <1>0, <1>1, <3>2 DEF Fits, Blanked
    <3> QED BY <1>2, <1>c, <2>0, <3>1, <3>3 DEF Contract
  <2>3. CASE EmitFails \/ NothingReady \/ Conclude
    BY <1>4, <2>0, <2>3 DEF EmitFails, NothingReady, Conclude
  <2> QED BY <1>5, <2>1, <2>2, <2>3 DEF Collector
<1>6. ASSUME NEW w \in Workers, Worker(w) PROVE Contract'
  <2>0. UNCHANGED ordered
    BY <1>6 DEF Worker
  <2>1. wpc \in [Workers -> {"start", "take", "gate", "wait", "call", "send", "count", "exit"}]
    BY DEF TypeOK
  <2>a. /\ wout \in [Workers -> Seq(Contents)]
        /\ wjob \in [Workers -> Batches \cup {[first |-> 0, len |-> 0]}]
    BY DEF TypeOK
  <2>2. ASSUME UNCHANGED <<resultCh, wout>>, wpc'[w] # "send",
               \A v \in Workers : v # w => wpc'[v] = wpc[v] /\ wjob'[v] = wjob[v]
        PROVE  Contract'
    BY <1>2, <1>3, <1>c, <2>0, <2>2
  <2>3. CASE AcquireSlot(w) \/ TakeBatch(w) \/ NoMoreBatches(w) \/ PassGate(w) \/ BatchFails(w)
             \/ CountBatch(w)
    <3>1. wpc'[w] # "send" /\ \A v \in Workers : v # w => wpc'[v] = wpc[v]
      BY <2>1, <2>3 DEF AcquireSlot, TakeBatch, NoMoreBatches, PassGate, BatchFails, CountBatch, GoTo
    <3>2. \A v \in Workers : v # w => wjob'[v] = wjob[v]
      BY <2>a, <2>3 DEF AcquireSlot, TakeBatch, NoMoreBatches, PassGate, BatchFails, CountBatch
    <3>3. UNCHANGED <<resultCh, wout>>
      BY <2>3 DEF AcquireSlot, TakeBatch, NoMoreBatches, PassGate, BatchFails, CountBatch
    <3> QED BY <2>2, <3>1, <3>2, <3>3
  <2>4. CASE BatchAnswered(w) \/ BatchReplaced(w)
    <3>0. wpc[w] = "call" /\ UNCHANGED <<resultCh, wjob>>
      BY <2>4 DEF BatchAnswered, BatchReplaced
    <3>1. wjob[w].first \in Nat /\ wjob[w].len \in Nat
      BY <1>s, <3>0, Sizes DEF Holding
    <3>2. \E s : /\ wout' = [wout EXCEPT ![w] = s]
                 /\ \A k \in 1 .. Len(s) : Fits(wjob[w].first + k - 1, s[k], Blanked')
      <4>1. CASE BatchAnswered(w)
        <5>1. PICK a \in Answers(wjob[w].len) :
                 Accepts(a, wjob[w].len) /\ wout' = [wout EXCEPT ![w] = TakeApart(a, wjob[w])]
          BY <4>1 DEF BatchAnswered
        <5>2. a.array /\ a.len = wjob[w].len
          BY <5>1 DEF Accepts
        <5>3. TakeApart(a, wjob[w]) = [i \in 1 .. wjob[w].len |-> Element(wjob[w].first, i)]
          BY <3>1, <5>2 DEF TakeApart
        <5>4. \A k \in 1 .. Len(TakeApart(a, wjob[w])) :
                 k \in Nat /\ TakeApart(a, wjob[w])[k] = Element(wjob[w].first, k)
          BY <3>1, <5>3
        <5>5. \A k \in 1 .. Len(TakeApart(a, wjob[w])) :
                 Fits(wjob[w].first + k - 1, TakeApart(a, wjob[w])[k], Blanked')
          <6>1. TAKE k \in 1 .. Len(TakeApart(a, wjob[w]))
          <6>2. k \in Nat /\ TakeApart(a, wjob[w])[k] = Element(wjob[w].first, k)
            BY <5>4
          <6>3. /\ Element(wjob[w].first, k).kind = "element"
                /\ Element(wjob[w].first, k).of = wjob[w].first
                /\ Element(wjob[w].first, k).at = k
            BY DEF Element
          <6> HIDE DEF Element
          <6> QED BY <6>2, <6>3 DEF Fits
        <5> QED BY <5>1, <5>5
      <4>2. CASE BatchReplaced(w)
        <5>1. /\ continueOnError /\ failed' = failed \cup RecordsOf(wjob[w])
              /\ wout' = [wout EXCEPT ![w] = Blanks(wjob[w].len)]
          BY <4>2 DEF BatchReplaced
        <5>2. ASSUME NEW k \in 1 .. Len(Blanks(wjob[w].len))
              PROVE  Fits(wjob[w].first + k - 1, Blanks(wjob[w].len)[k], Blanked')
          <6>1. k \in 1 .. wjob[w].len /\ Blanks(wjob[w].len)[k].kind = "blank"
            BY <3>1 DEF Blanks, NoElement
          <6>2. wjob[w].first + k - 1 \in RecordsOf(wjob[w])
            BY <3>1, <6>1 DEF RecordsOf
          <6> QED BY <1>0, <3>0, <5>1, <6>1, <6>2 DEF Fits, Blanked
        <5> QED BY <5>1, <5>2
      <4> QED BY <2>4, <4>1, <4>2
    <3>3. \A v \in Workers : v # w => wpc'[v] = wpc[v]
      BY <2>1, <2>4 DEF BatchAnswered, BatchReplaced, GoTo
    <3>4. \A v \in Workers : wpc'[v] = "send" => \A k \in 1 .. Len(wout'[v]) :
             Fits(wjob'[v].first + k - 1, wout'[v][k], Blanked')
      BY <1>2, <1>c, <2>a, <3>0, <3>2, <3>3
    <3> QED BY <1>3, <2>0, <3>0, <3>4
  <2>5. CASE SendResult(w)
    <3> DEFINE r == [first |-> wjob[w].first, outs |-> wout[w]]
    <3>0. /\ wpc[w] = "send" /\ UNCHANGED wjob /\ resultCh' = Append(resultCh, r)
          /\ wout' = [wout EXCEPT ![w] = <<>>]
      BY <2>5 DEF SendResult
    <3>r. r.first = wjob[w].first /\ r.outs = wout[w]
      OBVIOUS
    <3> HIDE DEF r
    <3>1. wpc'[w] # "send" /\ \A v \in Workers : v # w => wpc'[v] = wpc[v] /\ wout'[v] = wout[v]
      BY <2>1, <2>a, <2>5 DEF SendResult, GoTo
    <3>2. \A i \in 1 .. Len(resultCh') :
          \/ i \in 1 .. Len(resultCh) /\ resultCh'[i] = resultCh[i]
          \/ resultCh'[i] = r
      <4>1. resultCh \in Seq(Results)
        BY DEF TypeOK
      <4> QED BY <3>0, <4>1
    <3>3. \A i \in 1 .. Len(resultCh') : \A k \in 1 .. Len(resultCh'[i].outs) :
            Fits(resultCh'[i].first + k - 1, resultCh'[i].outs[k], Blanked)
      <4>1. \A k \in 1 .. Len(r.outs) : Fits(r.first + k - 1, r.outs[k], Blanked)
        BY <1>c, <3>0, <3>r
      <4>2. \A i \in 1 .. Len(resultCh) : \A k \in 1 .. Len(resultCh[i].outs) :
              Fits(resultCh[i].first + k - 1, resultCh[i].outs[k], Blanked)
        BY <1>c
      <4> QED BY <3>2, <4>1, <4>2
    <3>4. \A i \in 1 .. Len(resultCh') : \A k \in 1 .. Len(resultCh'[i].outs) :
            Fits(resultCh'[i].first + k - 1, resultCh'[i].outs[k], Blanked')
      BY <1>2, <3>3
    <3>5. \A v \in Workers : wpc'[v] = "send" => \A k \in 1 .. Len(wout'[v]) :
             Fits(wjob'[v].first + k - 1, wout'[v][k], Blanked')
      BY <1>2, <1>c, <3>0, <3>1
    <3> QED BY <1>2, <1>c, <2>0, <3>4, <3>5 DEF Contract
  <2> QED BY <1>6, <2>3, <2>4, <2>5 DEF Worker
<1>7. ASSUME Producer \/ CallerCancels \/ Finished \/ UNCHANGED vars PROVE Contract'
  BY <1>4, <1>7 DEF Producer, CallerCancels, Finished, vars
<1> QED BY <1>5, <1>6, <1>7 DEF Next

-----------------------------------------------------------------------------
(* A batch that failed without continue_on_error never comes back.         *)

LEMMA ForsakenStep ==
  ASSUME TypeOK, Custody, Forsaken, [Next]_vars PROVE Forsaken'
<1> USE DEF readVars, workVars, sinkVars, settings
<1>0. UNCHANGED continueOnError
  BY DEF Next, Producer, Worker, Collector, CallerCancels, Finished, vars
<1> SUFFICES ASSUME ~continueOnError PROVE Forsaken'
  BY <1>0 DEF Forsaken
<1>c. Cut /\ Apart /\ Waiting
  BY DEF Custody
<1>z. idx \in Nat /\ Len(out) \in Nat /\ have \in Nat /\ failed \subseteq Records /\ Records \subseteq Int
  BY <1>c, Sizes DEF TypeOK, Records
<1>f. \A n \in failed :
        /\ n < idx /\ n >= Len(out) /\ n \notin DOMAIN ordered
        /\ \A i \in 1 .. Len(jobs) : n \notin RecordsOf(jobs[i])
        /\ \A w \in Workers : n \notin HeldBy(w)
        /\ \A k \in 1 .. Len(resultCh) : n \notin InResult(k)
  BY DEF Forsaken
<1>1. ASSUME UNCHANGED <<idx, jobs, resultCh, ordered, out, failed>>,
             \A w \in Workers : HeldBy(w)' \subseteq HeldBy(w)
      PROVE  Forsaken'
  <2>1. \A k : InResult(k)' = InResult(k)
    BY <1>1 DEF InResult
  <2> QED BY <1>1, <1>f, <2>1 DEF Forsaken
<1>2. CASE Producer
  <2>0. UNCHANGED <<wpc, wjob, resultCh, ordered, out, failed>>
    BY <1>2 DEF Producer
  <2>1. \A w \in Workers : HeldBy(w)' = HeldBy(w)
    BY <2>0 DEF HeldBy
  <2>2. CASE ~SendBatch
    <3>1. UNCHANGED <<idx, jobs>>
      BY <1>2, <2>2 DEF Producer, ReadRecord, ReadEOF, ReadFails, ReadCancelled, StopReading,
         SendAbandoned
    <3> QED BY <1>1, <2>0, <2>1, <3>1
  <2>3. CASE SendBatch
    <3> DEFINE b == [first |-> idx, len |-> have]
    <3>1. jobs' = Append(jobs, b) /\ idx' = idx + have
      BY <2>3 DEF SendBatch
    <3>2. RecordsOf(b) = idx .. idx + have - 1
      BY DEF RecordsOf
    <3> HIDE DEF b
    <3>3. \A i \in 1 .. Len(jobs') : (i \in 1 .. Len(jobs) /\ jobs'[i] = jobs[i]) \/ jobs'[i] = b
      <4>1. jobs \in Seq(Batches)
        BY DEF TypeOK
      <4> QED BY <3>1, <4>1
    <3>4. \A n \in failed : n \notin RecordsOf(b)
      BY <1>f, <1>z, <3>2
    <3>5. \A n \in failed : \A i \in 1 .. Len(jobs') : n \notin RecordsOf(jobs'[i])
      BY <1>f, <3>3, <3>4
    <3>6. \A n \in failed : n < idx'
      BY <1>f, <1>z, <3>1
    <3>7. \A k : InResult(k)' = InResult(k)
      BY <2>0 DEF InResult
    <3> QED BY <1>f, <2>0, <2>1, <3>5, <3>6, <3>7 DEF Forsaken
  <2> QED BY <2>2, <2>3
<1>3. ASSUME NEW w \in Workers, Worker(w) PROVE Forsaken'
  <2>0. UNCHANGED <<idx, ordered, out>>
    BY <1>3 DEF Worker
  <2>1. wpc \in [Workers -> {"start", "take", "gate", "wait", "call", "send", "count", "exit"}]
    BY DEF TypeOK
  <2>2. CASE TakeBatch(w)
    <3>1. /\ jobs # <<>> /\ jobs' = Tail(jobs) /\ wjob' = [wjob EXCEPT ![w] = Head(jobs)]
          /\ wpc' = [wpc EXCEPT ![w] = "gate"] /\ UNCHANGED <<resultCh, failed>>
      BY <2>2 DEF TakeBatch, GoTo
    <3>2. /\ Head(jobs) = jobs[1] /\ 1 \in 1 .. Len(jobs)
          /\ \A k \in 1 .. Len(jobs') : k + 1 \in 1 .. Len(jobs) /\ jobs'[k] = jobs[k + 1]
      <4>1. jobs \in Seq(Batches)
        BY DEF TypeOK
      <4> QED BY <3>1, <4>1, Received
    <3>3. /\ HeldBy(w)' = RecordsOf(jobs[1])
          /\ \A v \in Workers : v # w => HeldBy(v)' = HeldBy(v)
      BY <2>1, <3>1, <3>2 DEF HeldBy, RecordsOf, TypeOK
    <3>4. \A k : InResult(k)' = InResult(k)
      BY <3>1 DEF InResult
    <3>5. \A n \in failed : \A i \in 1 .. Len(jobs') : n \notin RecordsOf(jobs'[i])
      BY <1>f, <3>2
    <3>6. \A n \in failed : \A v \in Workers : n \notin HeldBy(v)'
      BY <1>f, <3>2, <3>3
    <3> QED BY <1>f, <2>0, <3>1, <3>4, <3>5, <3>6 DEF Forsaken
  <2>3. CASE SendResult(w)
    <3> DEFINE r == [first |-> wjob[w].first, outs |-> wout[w]]
    <3>0. /\ wpc[w] = "send" /\ UNCHANGED <<jobs, wjob, failed>> /\ resultCh' = Append(resultCh, r)
          /\ wpc' = [wpc EXCEPT ![w] = "count"]
      BY <2>3 DEF SendResult, GoTo
    <3>r. r.first = wjob[w].first /\ r.outs = wout[w]
      OBVIOUS
    <3> HIDE DEF r
    <3>1. \A i \in 1 .. Len(resultCh') :
          \/ i \in 1 .. Len(resultCh) /\ resultCh'[i] = resultCh[i]
          \/ resultCh'[i] = r
      <4>1. resultCh \in Seq(Results)
        BY DEF TypeOK
      <4> QED BY <3>0, <4>1
    <3>2. Len(wout[w]) = wjob[w].len
      BY <1>c, <3>0 DEF Cut
    <3>3. HeldBy(w) = wjob[w].first .. wjob[w].first + Len(wout[w]) - 1
      BY <3>0, <3>2 DEF HeldBy, RecordsOf
    <3>4. \A n \in failed : \A k \in 1 .. Len(resultCh') : n \notin InResult(k)'
      BY <1>f, <3>1, <3>3, <3>r DEF InResult
    <3>5. \A v \in Workers : HeldBy(v)' \subseteq HeldBy(v)
      BY <2>1, <3>0 DEF HeldBy, RecordsOf
    <3> QED BY <1>f, <2>0, <3>0, <3>4, <3>5 DEF Forsaken
  <2>4. CASE BatchFails(w)
    <3>1. /\ wpc[w] = "call" /\ failed' = failed \cup RecordsOf(wjob[w])
          /\ wpc' = [wpc EXCEPT ![w] = "exit"] /\ UNCHANGED <<jobs, wjob, resultCh>>
      BY <2>4 DEF BatchFails, GoTo
    <3>2. RecordsOf(wjob[w]) = HeldBy(w)
      BY <3>1 DEF HeldBy
    <3>3. HeldBy(w)' = {} /\ \A v \in Workers : v # w => HeldBy(v)' = HeldBy(v)
      BY <2>1, <3>1 DEF HeldBy, RecordsOf
    <3>4. \A k : InResult(k)' = InResult(k)
      BY <3>1 DEF InResult
    <3>5. \A n \in HeldBy(w) :
            /\ n < idx /\ n >= Len(out) /\ n \notin DOMAIN ordered
            /\ \A i \in 1 .. Len(jobs) : n \notin RecordsOf(jobs[i])
            /\ \A v \in Workers : v # w => n \notin HeldBy(v)
            /\ \A k \in 1 .. Len(resultCh) : n \notin InResult(k)
      <4>1. HeldBy(w) \subseteq 0 .. idx - 1
        BY <1>c, BeforeIdx
      <4>2. wjob[w].first >= Len(out) /\ wjob[w].first \in Nat /\ wjob[w].len \in Nat
        BY <1>c, <3>1, Sizes DEF Waiting, Holding
      <4>3. \A n \in HeldBy(w) : n < idx /\ n >= Len(out)
        BY <1>z, <3>2, <4>1, <4>2 DEF RecordsOf
      <4> QED BY <1>c, <4>3 DEF Apart, Waiting
    <3> QED BY <1>f, <2>0, <3>1, <3>2, <3>3, <3>4, <3>5 DEF Forsaken
  <2>5. CASE AcquireSlot(w) \/ NoMoreBatches(w) \/ PassGate(w) \/ BatchAnswered(w) \/ CountBatch(w)
    <3>1. UNCHANGED <<jobs, resultCh, failed>>
      BY <2>5 DEF AcquireSlot, NoMoreBatches, PassGate, BatchAnswered, CountBatch
    <3>2. /\ \A v \in Workers : v # w => wpc'[v] = wpc[v]
          /\ wpc'[w] \in Holding => wpc[w] \in Holding
      BY <2>1, <2>5 DEF AcquireSlot, NoMoreBatches, PassGate, BatchAnswered, CountBatch, GoTo, Holding
    <3>3. /\ \A v \in Workers : v # w => wjob'[v] = wjob[v]
          /\ wpc'[w] \in Holding => wjob'[w] = wjob[w]
      <4>1. CASE CountBatch(w)
        BY <2>1, <4>1 DEF CountBatch, TypeOK, GoTo, Holding
      <4>2. CASE ~CountBatch(w)
        BY <2>5, <4>2 DEF AcquireSlot, NoMoreBatches, PassGate, BatchAnswered
      <4> QED BY <4>1, <4>2
    <3>4. \A v \in Workers : HeldBy(v)' \subseteq HeldBy(v)
      BY <3>2, <3>3 DEF HeldBy, RecordsOf, Holding
    <3> QED BY <1>1, <2>0, <3>1, <3>4
  <2>6. ~BatchReplaced(w)
    BY DEF BatchReplaced
  <2> QED BY <1>3, <2>2, <2>3, <2>4, <2>5, <2>6 DEF Worker
<1>4. CASE Collector
  <2>0. UNCHANGED <<idx, jobs, wpc, wjob, failed>>
    BY <1>4 DEF Collector
  <2>1. \A w \in Workers : HeldBy(w)' = HeldBy(w)
    BY <2>0 DEF HeldBy
  <2>2. CASE ReceiveResult
    <3>1. /\ resultCh # <<>> /\ resultCh' = Tail(resultCh) /\ UNCHANGED out
          /\ resultCh \in Seq(Results)
          /\ DOMAIN ordered' = DOMAIN ordered \cup
                (Head(resultCh).first .. Head(resultCh).first + Len(Head(resultCh).outs) - 1)
      BY <2>2 DEF ReceiveResult, TypeOK
    <3>2. /\ Head(resultCh) = resultCh[1] /\ 1 \in 1 .. Len(resultCh)
          /\ \A k \in 1 .. Len(resultCh') : k + 1 \in 1 .. Len(resultCh) /\ resultCh'[k] = resultCh[k + 1]
      BY <3>1, Received
    <3>3. DOMAIN ordered' = DOMAIN ordered \cup InResult(1)
      BY <3>1, <3>2 DEF InResult
    <3>4. \A k \in 1 .. Len(resultCh') : InResult(k)' = InResult(k + 1)
      BY <3>2 DEF InResult
    <3>5. \A n \in failed : \A k \in 1 .. Len(resultCh') : n \notin InResult(k)'
      BY <1>f, <3>2, <3>4
    <3> QED BY <1>f, <2>0, <2>1, <3>1, <3>2, <3>3, <3>5 DEF Forsaken
  <2>3. CASE EmitReady
    <3>1. /\ UNCHANGED resultCh /\ Len(out) \in DOMAIN ordered /\ out' = Append(out, Len(out))
          /\ DOMAIN ordered' = DOMAIN ordered \ {Len(out)} /\ out \in Seq(Records)
      BY <2>3 DEF EmitReady, NextEmit, TypeOK
    <3>2. Len(out') = Len(out) + 1
      BY <3>1
    <3>3. \A n \in failed : n >= Len(out')
      BY <1>f, <1>z, <3>1, <3>2
    <3>4. \A k : InResult(k)' = InResult(k)
      BY <3>1 DEF InResult
    <3> QED BY <1>f, <2>0, <2>1, <3>1, <3>3, <3>4 DEF Forsaken
  <2>4. CASE EmitFails \/ NothingReady \/ Conclude
    BY <1>1, <2>0, <2>1, <2>4 DEF EmitFails, NothingReady, Conclude
  <2> QED BY <1>4, <2>2, <2>3, <2>4 DEF Collector
<1>5. CASE CallerCancels \/ UNCHANGED vars
  <2>0. UNCHANGED <<idx, jobs, wpc, wjob, resultCh, ordered, out, failed>>
    BY <1>5 DEF CallerCancels, vars
  <2>1. \A w \in Workers : HeldBy(w)' = HeldBy(w)
    BY <2>0 DEF HeldBy
  <2> QED BY <1>1, <2>0, <2>1
<1> QED BY <1>2, <1>3, <1>4, <1>5 DEF Next, Finished

-----------------------------------------------------------------------------
(* How a job ends.                                                         *)

LEMMA DoneStays == ASSUME [Next]_vars, Done PROVE Done'
<1> USE DEF readVars, workVars, sinkVars, settings
<1>1. callerDone => callerDone'
  BY DEF Next, Producer, Worker, Collector, CallerCancels, Finished, vars
<1>2. cancelled => cancelled'
  <2>1. ASSUME NEW w \in Workers, Worker(w), cancelled PROVE cancelled'
    BY <2>1 DEF Worker, AcquireSlot, TakeBatch, NoMoreBatches, PassGate, BatchAnswered,
       BatchReplaced, BatchFails, SendResult, CountBatch
  <2>2. ASSUME Collector, cancelled PROVE cancelled'
    BY <2>2 DEF Collector, ReceiveResult, EmitReady, EmitFails, NothingReady, Conclude
  <2> QED BY <2>1, <2>2 DEF Next, Producer, CallerCancels, Finished, vars
<1> QED BY <1>1, <1>2 DEF Done

LEMMA ReaderEndsStep ==
  ASSUME TypeOK, Cut, ReaderEnds, [Next]_vars PROVE ReaderEnds'
<1> USE DEF ReaderEnds, readVars, workVars, sinkVars, settings
<1>0. Done => Done'
  BY DoneStays
<1>1. CASE UNCHANGED <<prod, idx, have, producerErr>>
  BY <1>0, <1>1
<1>2. CASE Producer
  <2>1. NRec \in Nat /\ idx \in Nat /\ have \in Nat
    BY Sizes
  <2>2. Done' = Done
    BY <1>2 DEF Producer, Done
  <2>3. CASE ReadRecord \/ SendBatch \/ SendAbandoned
    BY <1>2, <2>1, <2>2, <2>3 DEF ReadRecord, SendBatch, SendAbandoned
  <2>4. CASE ReadEOF \/ ReadFails \/ ReadCancelled
    BY <1>2, <2>1, <2>2, <2>4 DEF ReadEOF, ReadFails, ReadCancelled, StopReading
  <2> QED BY <1>2, <2>3, <2>4 DEF Producer
<1> QED BY <1>1, <1>2 DEF Next, Worker, Collector, CallerCancels, Finished, vars

LEMMA ErrorsKeptStep ==
  ASSUME TypeOK, Cut, ErrorsKept, [Next]_vars PROVE ErrorsKept'
<1> USE DEF ErrorsKept, readVars, workVars, sinkVars, settings
<1>1. CASE UNCHANGED <<cancelled, firstErr, deliverErr, failed>>
  BY <1>1
<1>2. ASSUME NEW w \in Workers, Worker(w) PROVE ErrorsKept'
  <2>0. UNCHANGED deliverErr
    BY <1>2 DEF Worker
  <2>1. CASE BatchFails(w)
    <3>1. wjob[w].first \in RecordsOf(wjob[w])
      <4>1. wjob[w].first \in Nat /\ wjob[w].len \in Nat \ {0}
        BY <2>1, Sizes DEF BatchFails, Holding
      <4> QED BY <4>1 DEF RecordsOf
    <3> QED BY <2>0, <2>1, <3>1 DEF BatchFails
  <2>2. CASE BatchReplaced(w)
    BY <2>0, <2>2 DEF BatchReplaced
  <2> QED BY <1>1, <1>2, <2>0, <2>1, <2>2 DEF Worker, AcquireSlot, TakeBatch, NoMoreBatches, PassGate,
        BatchAnswered, SendResult, CountBatch
<1>3. CASE Collector
  BY <1>3 DEF Collector, ReceiveResult, EmitReady, EmitFails, NothingReady, Conclude
<1> QED BY <1>1, <1>2, <1>3 DEF Next, Producer, CallerCancels, Finished, vars

LEMMA WorkersEndStep ==
  ASSUME TypeOK, Cut, WorkersEnd, [Next]_vars PROVE WorkersEnd'
<1> USE DEF readVars, workVars, sinkVars, settings
<1>a. UNCHANGED pool
  BY DEF Next, Producer, Worker, Collector, CallerCancels, Finished, vars
<1>0. UNCHANGED pool /\ (Done => Done')
  BY <1>a, DoneStays
<1>1. CASE UNCHANGED <<prod, jobs, wpc>>
  BY <1>0, <1>1 DEF WorkersEnd
<1>2. CASE Producer
  <2>1. prod # "done" /\ UNCHANGED wpc
    BY <1>2 DEF Producer, ReadRecord, ReadEOF, ReadFails, ReadCancelled, StopReading, SendBatch,
       SendAbandoned
  <2> QED BY <1>0, <2>1 DEF WorkersEnd
<1>3. ASSUME NEW w \in Workers, Worker(w) PROVE WorkersEnd'
  <2>1. wpc \in [Workers -> {"start", "take", "gate", "wait", "call", "send", "count", "exit"}]
    BY DEF TypeOK
  <2>2. UNCHANGED prod
    BY <1>3 DEF Worker
  <2>3. jobs = <<>> => jobs' = <<>>
    BY <1>3 DEF Worker, AcquireSlot, TakeBatch, NoMoreBatches, PassGate, BatchAnswered,
       BatchReplaced, BatchFails, SendResult, CountBatch
  <2>4. \A v \in Workers : v # w => wpc'[v] = wpc[v]
    BY <1>3, <2>1 DEF Worker, AcquireSlot, TakeBatch, NoMoreBatches, PassGate, BatchAnswered,
       BatchReplaced, BatchFails, SendResult, CountBatch, GoTo
  <2>5. wpc'[w] = "exit" => Done' \/ (prod = "done" /\ jobs = <<>>)
    <3>1. CASE BatchFails(w)
      BY <3>1 DEF BatchFails, Done
    <3>2. CASE NoMoreBatches(w)
      BY <3>2 DEF NoMoreBatches
    <3>3. CASE AcquireSlot(w) \/ PassGate(w)
      BY <1>0, <2>1, <3>3 DEF AcquireSlot, PassGate, GoTo
    <3> QED BY <1>3, <2>1, <3>1, <3>2, <3>3 DEF Worker, TakeBatch, BatchAnswered, BatchReplaced, SendResult,
          CountBatch, GoTo
  <2>6. pool \subseteq Workers
    BY BatchAssumption DEF TypeOK
  <2> QED BY <1>0, <2>2, <2>3, <2>4, <2>5, <2>6 DEF WorkersEnd
<1> QED BY <1>1, <1>2, <1>3 DEF Next, Collector, CallerCancels, Finished, vars

LEMMA CollectorEndsStep ==
  ASSUME TypeOK, CollectorEnds, [Next]_vars PROVE CollectorEnds'
<1> USE DEF readVars, workVars, sinkVars, settings
<1>1. ASSUME UNCHANGED <<coll, deliverErr, out, ordered, outcome>>,
             coll = "done" => UNCHANGED <<wpc, prod, resultCh, producerErr, firstErr>>
      PROVE  CollectorEnds'
  BY <1>1 DEF CollectorEnds, WorkersGone, Verdict
<1>2. CASE Producer
  <2>1. prod # "done" /\ UNCHANGED <<coll, deliverErr, out, ordered, outcome>>
    BY <1>2 DEF Producer, ReadRecord, ReadEOF, ReadFails, ReadCancelled, StopReading, SendBatch,
       SendAbandoned
  <2> QED BY <1>1, <2>1 DEF CollectorEnds
<1>3. ASSUME NEW w \in Workers, Worker(w) PROVE CollectorEnds'
  <2>1. wpc[w] # "exit" /\ UNCHANGED <<coll, deliverErr, out, ordered, outcome>>
    BY <1>3 DEF Worker, AcquireSlot, TakeBatch, NoMoreBatches, PassGate, BatchAnswered,
       BatchReplaced, BatchFails, SendResult, CountBatch
  <2> QED BY <1>1, <2>1 DEF CollectorEnds, WorkersGone
<1>4. CASE Collector
  <2>0. UNCHANGED <<prod, producerErr, wpc, firstErr>>
    BY <1>4 DEF Collector
  <2>1. CASE ReceiveResult
    BY <2>1 DEF CollectorEnds, ReceiveResult
  <2>2. CASE EmitReady
    BY <2>2 DEF CollectorEnds, EmitReady
  <2>3. CASE EmitFails
    BY <2>3 DEF CollectorEnds, EmitFails
  <2>4. CASE NothingReady
    BY <2>4 DEF CollectorEnds, NothingReady, NextEmit
  <2>5. CASE Conclude
    <3>1. /\ coll = "recv" /\ resultCh = <<>> /\ WorkersGone /\ prod = "done" /\ coll' = "done"
          /\ outcome' = Verdict
          /\ UNCHANGED <<ordered, out, deliverErr, resultCh>>
      BY <2>5 DEF Conclude, Verdict
    <3>2. Verdict # "none" /\ Verdict' = Verdict
      BY <2>0, <3>1 DEF Verdict
    <3>3. WorkersGone'
      BY <2>0, <3>1 DEF WorkersGone
    <3> QED BY <2>0, <3>1, <3>2, <3>3 DEF CollectorEnds
  <2> QED BY <1>4, <2>1, <2>2, <2>3, <2>4, <2>5 DEF Collector
<1>5. CASE CallerCancels \/ UNCHANGED vars
  BY <1>1, <1>5 DEF CallerCancels, vars
<1> QED BY <1>2, <1>3, <1>4, <1>5 DEF Next, Finished

LEMMA EndingsStep == ASSUME TypeOK, Cut, Endings, [Next]_vars PROVE Endings'
BY ReaderEndsStep, ErrorsKeptStep, WorkersEndStep, CollectorEndsStep DEF Endings

-----------------------------------------------------------------------------
(* The counter.                                                            *)

LEMMA AnsweredBefore ==
  ASSUME TypeOK, Custody
  PROVE  Answered \subseteq 0 .. idx - 1 /\ Written = 0 .. Len(out) - 1
<1>c. Cut /\ InOrder
  BY DEF Custody
<1>1. out \in Seq(Records) /\ Len(out) \in Nat /\ Len(out) <= idx /\ idx \in Nat
  BY <1>c, Sizes DEF TypeOK
<1>2. Written = 0 .. Len(out) - 1
  <2>1. \A k \in DOMAIN out : k \in 1 .. Len(out) /\ out[k] = k - 1
    BY <1>1, <1>c DEF InOrder
  <2>2. ASSUME NEW n \in 0 .. Len(out) - 1 PROVE n \in Written
    <3>1. n + 1 \in DOMAIN out /\ out[n + 1] = n
      BY <1>1, <1>c, <2>2 DEF InOrder
    <3> QED BY <3>1 DEF Written
  <2>3. ASSUME NEW n \in Written PROVE n \in 0 .. Len(out) - 1
    BY <1>1, <2>1, <2>3 DEF Written
  <2> QED BY <2>2, <2>3
<1>3. InResults \subseteq 0 .. idx - 1
  <2>1. resultCh \in Seq(Results) /\ DOMAIN resultCh = 1 .. Len(resultCh)
    BY DEF TypeOK
  <2>2. \A i \in 1 .. Len(resultCh) : InResult(i) \subseteq 0 .. idx - 1
    BY <1>c, BeforeIdx
  <2> QED BY <2>1, <2>2 DEF InResults, InResult
<1>4. DOMAIN ordered \subseteq 0 .. idx - 1
  BY <1>c, BeforeIdx
<1>5. 0 .. Len(out) - 1 \subseteq 0 .. idx - 1
  BY <1>1
<1> QED BY <1>2, <1>3, <1>4, <1>5 DEF Answered

(* Sending a result answers the batch; otherwise answered records move on. *)
LEMMA AnsweredStep ==
  ASSUME TypeOK, Custody, [Next]_vars
  PROVE  /\ (\A w \in Workers : ~(Worker(w) /\ SendResult(w))) => Answered' = Answered
         /\ \A w \in Workers : Worker(w) /\ SendResult(w) => Answered' = Answered \cup HeldBy(w)
<1> USE DEF readVars, workVars, sinkVars, settings
<1>c. Cut
  BY DEF Custody
<1>t. resultCh \in Seq(Results) /\ out \in Seq(Records)
  BY DEF TypeOK
<1>1. ASSUME UNCHANGED <<resultCh, ordered, out>> PROVE Answered' = Answered
  BY <1>1 DEF Answered, InResults, Written
<1>2. ASSUME NEW w \in Workers, Worker(w), SendResult(w) PROVE Answered' = Answered \cup HeldBy(w)
  <2> DEFINE r == [first |-> wjob[w].first, outs |-> wout[w]]
  <2>0. /\ wpc[w] = "send" /\ UNCHANGED <<ordered, out>> /\ resultCh' = Append(resultCh, r)
    BY <1>2 DEF Worker, SendResult
  <2>r. r.first = wjob[w].first /\ r.outs = wout[w]
    OBVIOUS
  <2> HIDE DEF r
  <2>1. Len(wout[w]) = wjob[w].len
    BY <1>c, <2>0 DEF Cut
  <2>2. HeldBy(w) = r.first .. r.first + Len(r.outs) - 1
    BY <2>0, <2>1, <2>r DEF HeldBy, RecordsOf
  <2>3. /\ DOMAIN resultCh' = DOMAIN resultCh \cup {Len(resultCh) + 1}
        /\ resultCh'[Len(resultCh) + 1] = r
        /\ \A i \in DOMAIN resultCh : resultCh'[i] = resultCh[i]
    BY <1>t, <2>0
  <2>4. InResults' = InResults \cup HeldBy(w)
    BY <2>2, <2>3 DEF InResults
  <2> QED BY <2>0, <2>4 DEF Answered, Written
<1>3. ASSUME ReceiveResult PROVE Answered' = Answered
  <2>1. /\ resultCh # <<>> /\ resultCh' = Tail(resultCh) /\ UNCHANGED out
        /\ DOMAIN ordered' = DOMAIN ordered \cup
              (Head(resultCh).first .. Head(resultCh).first + Len(Head(resultCh).outs) - 1)
    BY <1>3 DEF ReceiveResult
  <2>2. /\ Head(resultCh) = resultCh[1] /\ 1 \in 1 .. Len(resultCh) /\ resultCh' \in Seq(Results)
        /\ \A k \in 1 .. Len(resultCh') : k + 1 \in 2 .. Len(resultCh) /\ resultCh'[k] = resultCh[k + 1]
        /\ \A k \in 2 .. Len(resultCh) : k - 1 \in 1 .. Len(resultCh')
    BY <1>t, <2>1, Received
  <2>3. DOMAIN ordered' = DOMAIN ordered \cup InResult(1)
    BY <2>1, <2>2 DEF InResult
  <2>4. ASSUME NEW n PROVE n \in InResults <=> n \in InResult(1) \/ n \in InResults'
    <3>1. n \in InResults <=> \E i \in 1 .. Len(resultCh) : n \in InResult(i)
      BY <1>t DEF InResults, InResult
    <3>2. n \in InResults' <=> \E i \in 1 .. Len(resultCh') : n \in InResult(i)'
      <4>1. DOMAIN resultCh' = 1 .. Len(resultCh')
        BY <2>2
      <4> QED BY <4>1 DEF InResults, InResult
    <3>3. \A i \in 1 .. Len(resultCh') : InResult(i)' = InResult(i + 1) /\ i + 1 \in 1 .. Len(resultCh)
      BY <2>2 DEF InResult
    <3>4. ASSUME NEW i \in 1 .. Len(resultCh), n \in InResult(i), i # 1 PROVE n \in InResults'
      <4>1. i \in 2 .. Len(resultCh) /\ i - 1 \in 1 .. Len(resultCh') /\ (i - 1) + 1 = i
        BY <2>2, <3>4
      <4> QED BY <3>2, <3>3, <3>4, <4>1
    <3> QED BY <2>2, <3>1, <3>2, <3>3, <3>4
  <2> QED BY <2>1, <2>3, <2>4 DEF Answered, Written
<1>4. ASSUME EmitReady PROVE Answered' = Answered
  <2>1. /\ UNCHANGED resultCh /\ Len(out) \in DOMAIN ordered /\ out' = Append(out, Len(out))
        /\ DOMAIN ordered' = DOMAIN ordered \ {Len(out)}
    BY <1>4 DEF EmitReady, NextEmit
  <2>2. Written' = Written \cup {Len(out)}
    <3>1. /\ DOMAIN out' = DOMAIN out \cup {Len(out) + 1} /\ out'[Len(out) + 1] = Len(out)
          /\ \A i \in DOMAIN out : out'[i] = out[i]
      BY <1>t, <2>1
    <3> QED BY <3>1 DEF Written
  <2>3. InResults' = InResults
    BY <2>1 DEF InResults
  <2> QED BY <2>1, <2>2, <2>3 DEF Answered
<1>5. UNCHANGED <<resultCh, ordered, out>> \/ (\E w \in Workers : Worker(w) /\ SendResult(w))
        \/ ReceiveResult \/ EmitReady
  <2>1. ASSUME NEW w \in Workers, Worker(w), ~SendResult(w) PROVE UNCHANGED <<resultCh, ordered, out>>
    BY <2>1 DEF Worker, AcquireSlot, TakeBatch, NoMoreBatches, PassGate, BatchAnswered,
       BatchReplaced, BatchFails, CountBatch
  <2>2. ASSUME Collector, ~ReceiveResult, ~EmitReady PROVE UNCHANGED <<resultCh, ordered, out>>
    BY <2>2 DEF Collector, EmitFails, NothingReady, Conclude
  <2> QED BY <2>1, <2>2 DEF Next, Producer, CallerCancels, Finished, vars
<1> QED BY <1>1, <1>2, <1>3, <1>4, <1>5

(* A batch in a worker's hands has not been answered.                      *)
LEMMA HeldUnanswered ==
  ASSUME TypeOK, Custody, NEW w \in Workers PROVE HeldBy(w) \cap Answered = {}
<1>c. Cut /\ Apart /\ Waiting
  BY DEF Custody
<1>1. HeldBy(w) \cap InResults = {}
  <2>1. resultCh \in Seq(Results) /\ DOMAIN resultCh = 1 .. Len(resultCh)
    BY DEF TypeOK
  <2>2. \A i \in 1 .. Len(resultCh) : HeldBy(w) \cap InResult(i) = {}
    BY <1>c DEF Apart
  <2> QED BY <2>1, <2>2 DEF InResults, InResult
<1>2. HeldBy(w) \cap Written = {}
  <2>1. CASE wpc[w] \in Holding
    <3>1. wjob[w].first \in Nat /\ wjob[w].len \in Nat /\ wjob[w].first >= Len(out) /\ Len(out) \in Nat
      BY <1>c, <2>1, Sizes DEF Waiting
    <3>2. HeldBy(w) = wjob[w].first .. wjob[w].first + wjob[w].len - 1
      BY <2>1 DEF HeldBy, RecordsOf, Holding
    <3> QED BY <3>1, <3>2, AnsweredBefore
  <2>2. CASE wpc[w] \notin Holding
    BY <2>2 DEF HeldBy, Holding
  <2> QED BY <2>1, <2>2
<1>3. HeldBy(w) \cap DOMAIN ordered = {}
  BY <1>c DEF Waiting
<1> QED BY <1>1, <1>2, <1>3 DEF Answered

LEMMA CountedStep ==
  ASSUME TypeOK, Custody, Counted, [Next]_vars
  PROVE  Counted' /\ processed' \in 0 .. NRec
<1> USE DEF readVars, workVars, sinkVars, settings
<1>c. Cut
  BY DEF Custody
<1>z. NRec \in Nat /\ idx \in Nat /\ idx <= NRec /\ processed \in 0 .. NRec
  BY <1>c, Sizes DEF TypeOK
<1>t. /\ wpc \in [Workers -> {"start", "take", "gate", "wait", "call", "send", "count", "exit"}]
      /\ wjob \in [Workers -> Batches \cup {[first |-> 0, len |-> 0]}]
  BY DEF TypeOK
<1>k. /\ \A w \in Workers : Counting(w) => RecordsOf(wjob[w]) \subseteq Answered
      /\ \A v, w \in Workers : Counting(v) /\ Counting(w) /\ v # w
            => RecordsOf(wjob[v]) \cap RecordsOf(wjob[w]) = {}
      /\ processed = Cardinality(Answered \ Uncounted)
  BY DEF Counted
<1>u. \A n : n \in Uncounted <=> \E w \in Workers : Counting(w) /\ n \in RecordsOf(wjob[w])
  BY DEF Uncounted
<1>v. \A n : n \in Uncounted' <=> \E w \in Workers : wpc'[w] = "count" /\ n \in RecordsOf(wjob'[w])
  BY DEF Uncounted, Counting
<1>1. ASSUME Answered' = Answered, processed' = processed,
             \A w \in Workers : (wpc'[w] = "count" <=> wpc[w] = "count")
                                /\ (wpc[w] = "count" => wjob'[w] = wjob[w])
      PROVE  Counted' /\ processed' \in 0 .. NRec
  <2>1. Uncounted' = Uncounted
    BY <1>1, <1>u, <1>v DEF Counting
  <2>2. /\ \A w \in Workers : wpc'[w] = "count" => RecordsOf(wjob'[w]) \subseteq Answered'
        /\ \A v, w \in Workers : wpc'[v] = "count" /\ wpc'[w] = "count" /\ v # w
              => RecordsOf(wjob'[v]) \cap RecordsOf(wjob'[w]) = {}
    BY <1>1, <1>k DEF Counting
  <2>3. processed' = Cardinality(Answered' \ Uncounted')
    BY <1>1, <1>k, <2>1
  <2> QED BY <1>1, <1>z, <2>2, <2>3 DEF Counted, Counting
<1>2. ASSUME NEW w \in Workers, Worker(w), SendResult(w)
      PROVE  Counted' /\ processed' \in 0 .. NRec
  <2> DEFINE H == RecordsOf(wjob[w])
  <2>0. /\ wpc[w] = "send" /\ UNCHANGED <<processed, wjob>> /\ wpc' = [wpc EXCEPT ![w] = "count"]
    BY <1>2 DEF SendResult, GoTo
  <2>1. HeldBy(w) = H
    BY <2>0 DEF HeldBy
  <2>2. Answered' = Answered \cup H /\ H \cap Answered = {}
    BY <1>2, <2>1, AnsweredStep, HeldUnanswered
  <2>3. /\ wpc'[w] = "count" /\ ~Counting(w)
        /\ \A v \in Workers : v # w => wpc'[v] = wpc[v]
    BY <1>t, <2>0 DEF Counting
  <2>4. Uncounted' = Uncounted \cup H
    BY <1>u, <1>v, <2>0, <2>3 DEF Counting
  <2>5. Answered' \ Uncounted' = Answered \ Uncounted
    BY <2>2, <2>4
  <2>6. /\ \A v \in Workers : wpc'[v] = "count" => RecordsOf(wjob'[v]) \subseteq Answered'
        /\ \A u, v \in Workers : wpc'[u] = "count" /\ wpc'[v] = "count" /\ u # v
              => RecordsOf(wjob'[u]) \cap RecordsOf(wjob'[v]) = {}
    <3>1. \A v \in Workers : wpc'[v] = "count" => v = w \/ (v # w /\ Counting(v))
      BY <2>3 DEF Counting
    <3> QED BY <1>k, <2>0, <2>2, <3>1
  <2>7. processed' = Cardinality(Answered' \ Uncounted')
    BY <1>k, <2>0, <2>5
  <2> QED BY <1>z, <2>0, <2>6, <2>7 DEF Counted, Counting
<1>3. ASSUME NEW w \in Workers, Worker(w), CountBatch(w)
      PROVE  Counted' /\ processed' \in 0 .. NRec
  <2> DEFINE H == RecordsOf(wjob[w])
  <2>0. /\ wpc[w] = "count" /\ processed' = processed + wjob[w].len
        /\ wpc' = [wpc EXCEPT ![w] = "take"] /\ wjob' = [wjob EXCEPT ![w] = [first |-> 0, len |-> 0]]
    BY <1>3 DEF CountBatch, GoTo
  <2>1. \A v \in Workers : ~(Worker(v) /\ SendResult(v))
    <3>1. wpc'[w] = "take"
      BY <1>t, <2>0
    <3>2. ASSUME NEW v \in Workers, SendResult(v) PROVE FALSE
      <4>1. wpc[v] = "send" /\ wpc' = [wpc EXCEPT ![v] = "count"]
        BY <3>2 DEF SendResult, GoTo
      <4> QED BY <1>t, <2>0, <3>1, <4>1
    <3> QED BY <3>2
  <2>2. Answered' = Answered
    BY <2>1, AnsweredStep
  <2>3. /\ wpc'[w] # "count" /\ Counting(w)
        /\ \A v \in Workers : v # w => wpc'[v] = wpc[v] /\ wjob'[v] = wjob[v]
    BY <1>t, <2>0 DEF Counting
  <2>4. Uncounted' = Uncounted \ H /\ H \subseteq Uncounted
    <3>1. \A v \in Workers : v # w /\ Counting(v) => RecordsOf(wjob[v]) \cap H = {}
      BY <1>k, <2>3
    <3>2. \A v \in Workers : wpc'[v] = "count" <=> (v # w /\ Counting(v))
      BY <2>3 DEF Counting
    <3>3. ASSUME NEW n PROVE n \in Uncounted' <=> n \in Uncounted /\ n \notin H
      BY <1>u, <1>v, <2>3, <3>1, <3>2
    <3>4. H \subseteq Uncounted
      BY <1>u, <2>3
    <3> QED BY <3>3, <3>4
  <2>5. H \subseteq Answered
    BY <1>k, <2>3
  <2> DEFINE S == Answered \ Uncounted
  <2>6. Answered' \ Uncounted' = S \cup H /\ S \cap H = {}
    BY <2>2, <2>4, <2>5
  <2>7. wjob[w].first \in Nat /\ wjob[w].len \in Nat \ {0}
    BY <1>c, <2>0, Sizes
  <2>8. IsFiniteSet(H) /\ Cardinality(H) = wjob[w].len
    <3>1. H = wjob[w].first .. wjob[w].first + wjob[w].len - 1
      BY DEF RecordsOf
    <3>2. ASSUME NEW a \in Nat, NEW l \in Nat \ {0}
          PROVE  IsFiniteSet(a .. a + l - 1) /\ Cardinality(a .. a + l - 1) = l
      <4>1. a \in Int /\ a + l - 1 \in Int /\ ~(a > a + l - 1) /\ (a + l - 1) - a + 1 = l
        OBVIOUS
      <4> QED BY <4>1, FS_Interval
    <3> QED BY <2>7, <3>1, <3>2
  <2>9. IsFiniteSet(0 .. idx - 1) /\ Cardinality(0 .. idx - 1) = idx
    BY <1>z, FS_Interval
  <2>10. S \subseteq 0 .. idx - 1 /\ S \cup H \subseteq 0 .. idx - 1
    BY <2>5, AnsweredBefore
  <2>11. IsFiniteSet(S) /\ IsFiniteSet(S \cup H) /\ Cardinality(S \cup H) <= idx
    BY <2>9, <2>10, FS_Subset
  <2>12. Cardinality(S \cup H) = Cardinality(S) + Cardinality(H) - Cardinality(S \cap H)
    BY <2>8, <2>11, FS_Union
  <2>13. processed' = Cardinality(Answered' \ Uncounted')
    <3>1. Cardinality(S \cap H) = 0
      BY <2>6, FS_EmptySet
    <3>2. Cardinality(S) = processed
      BY <1>k
    <3> HIDE DEF S, H
    <3>3. Cardinality(S \cup H) = processed'
      BY <1>z, <2>0, <2>7, <2>8, <2>12, <3>1, <3>2
    <3> QED BY <2>6, <3>3
  <2>14. processed' \in 0 .. NRec
    <3>1. Cardinality(S \cup H) \in Nat
      BY <2>11, FS_CardinalityType
    <3> HIDE DEF S, H
    <3> QED BY <1>z, <2>6, <2>11, <2>13, <3>1
  <2>15. /\ \A v \in Workers : wpc'[v] = "count" => RecordsOf(wjob'[v]) \subseteq Answered'
         /\ \A u, v \in Workers : wpc'[u] = "count" /\ wpc'[v] = "count" /\ u # v
               => RecordsOf(wjob'[u]) \cap RecordsOf(wjob'[v]) = {}
    <3>1. \A v \in Workers : wpc'[v] = "count" => v # w /\ Counting(v) /\ wjob'[v] = wjob[v]
      BY <2>3 DEF Counting
    <3> QED BY <1>k, <2>2, <3>1
  <2> QED BY <2>13, <2>14, <2>15 DEF Counted, Counting
<1>4. ASSUME NEW w \in Workers, Worker(w), ~SendResult(w), ~CountBatch(w)
      PROVE  Counted' /\ processed' \in 0 .. NRec
  <2>1. \A v \in Workers : ~(Worker(v) /\ SendResult(v))
    <3>1. ASSUME NEW v \in Workers, SendResult(v) PROVE FALSE
      <4>1. wpc[v] = "send" /\ wpc' = [wpc EXCEPT ![v] = "count"]
        BY <3>1 DEF SendResult, GoTo
      <4>0. wpc[w] # "send"
        BY <1>4 DEF Worker, AcquireSlot, TakeBatch, NoMoreBatches, PassGate, BatchAnswered,
           BatchReplaced, BatchFails
      <4>2. wpc'[v] = "count" /\ v # w
        BY <1>t, <4>0, <4>1
      <4>3. wpc'[v] = wpc[v]
        BY <1>4, <1>t, <4>2 DEF Worker, AcquireSlot, TakeBatch, NoMoreBatches, PassGate, BatchAnswered,
           BatchReplaced, BatchFails, GoTo
      <4> QED BY <4>1, <4>2, <4>3
    <3> QED BY <3>1
  <2>2. Answered' = Answered
    BY <2>1, AnsweredStep
  <2>3. processed' = processed
    BY <1>4 DEF Worker, AcquireSlot, TakeBatch, NoMoreBatches, PassGate, BatchAnswered,
       BatchReplaced, BatchFails
  <2>4. \A v \in Workers : (wpc'[v] = "count" <=> wpc[v] = "count")
    BY <1>4, <1>t DEF Worker, AcquireSlot, TakeBatch, NoMoreBatches, PassGate, BatchAnswered,
       BatchReplaced, BatchFails, GoTo
  <2>5. \A v \in Workers : wpc[v] = "count" => wjob'[v] = wjob[v]
    BY <1>4, <1>t DEF Worker, AcquireSlot, TakeBatch, NoMoreBatches, PassGate, BatchAnswered,
       BatchReplaced, BatchFails
  <2> QED BY <1>1, <2>2, <2>3, <2>4, <2>5
<1>5. ASSUME Producer \/ Collector \/ CallerCancels \/ UNCHANGED vars
      PROVE  Counted' /\ processed' \in 0 .. NRec
  <2>1. UNCHANGED <<wpc, wjob, processed>>
    BY <1>5 DEF Producer, Collector, CallerCancels, vars
  <2>2. \A v \in Workers : ~(Worker(v) /\ SendResult(v))
    <3>1. ASSUME NEW v \in Workers, SendResult(v) PROVE FALSE
      BY <1>t, <2>1, <3>1 DEF SendResult, GoTo
    <3> QED BY <3>1
  <2>3. Answered' = Answered
    BY <2>2, AnsweredStep
  <2> QED BY <1>1, <2>1, <2>3
<1> QED BY <1>2, <1>3, <1>4, <1>5 DEF Next, Finished

-----------------------------------------------------------------------------
(* The invariant holds.                                                    *)

LEMMA BatchStep == BatchInv /\ [Next]_vars => BatchInv'
<1> SUFFICES ASSUME BatchInv, [Next]_vars PROVE BatchInv'
  OBVIOUS
<1>0. TypeOK /\ Custody /\ Cut /\ Contract /\ Forsaken /\ Endings /\ Counted
  BY DEF BatchInv, Custody
<1>1. TypeOK'
  <2>1. CASE Producer
    BY <1>0, <2>1, ProducerTypes
  <2>2. CASE Collector
    BY <1>0, <2>2, CollectorTypes
  <2>3. ASSUME NEW w \in Workers, Worker(w), ~CountBatch(w) PROVE TypeOK'
    BY <1>0, <2>3, WorkerTypes
  <2>4. ASSUME NEW w \in Workers, Worker(w), CountBatch(w) PROVE TypeOK'
    <3>1. processed' \in 0 .. NRec
      BY <1>0, CountedStep
    <3>2. wpc' \in [Workers -> {"start", "take", "gate", "wait", "call", "send", "count", "exit"}]
      BY <1>0, <2>4 DEF TypeOK, CountBatch, GoTo
    <3>3. wjob' \in [Workers -> Batches \cup {[first |-> 0, len |-> 0]}]
      BY <1>0, <2>4 DEF TypeOK, CountBatch
    <3>4. UNCHANGED <<jobs, wout, failed, firstErr, cancelled, resultCh, continueOnError, strict, pool,
                      prod, idx, have, producerErr, callerDone, ordered, coll, out, deliverErr, outcome>>
      BY <2>4 DEF Worker, CountBatch, settings, readVars, sinkVars
    <3>5. ChanCap' = ChanCap
      BY <3>4 DEF ChanCap
    <3> QED BY <1>0, <3>1, <3>2, <3>3, <3>4, <3>5 DEF TypeOK
  <2>5. CASE CallerCancels \/ UNCHANGED vars
    <3>1. UNCHANGED <<jobs, wpc, wjob, wout, failed, firstErr, cancelled, resultCh, continueOnError,
                      strict, pool, prod, idx, have, producerErr, ordered, coll, out, deliverErr,
                      outcome, processed>>
      BY <2>5 DEF CallerCancels, vars, settings, readVars, workVars, sinkVars
    <3>2. callerDone' \in BOOLEAN
      BY <1>0, <2>5 DEF CallerCancels, vars, TypeOK
    <3>3. ChanCap' = ChanCap
      BY <3>1 DEF ChanCap
    <3> QED BY <1>0, <3>1, <3>2, <3>3 DEF TypeOK
  <2> QED BY <2>1, <2>2, <2>3, <2>4, <2>5 DEF Next, Finished
<1>2. Custody'
  BY <1>0, CustodyStep
<1>3. Contract'
  BY <1>0, ContractStep
<1>4. Forsaken'
  BY <1>0, ForsakenStep
<1>5. Endings'
  BY <1>0, EndingsStep
<1>6. Counted'
  BY <1>0, CountedStep
<1> QED BY <1>1, <1>2, <1>3, <1>4, <1>5, <1>6 DEF BatchInv

LEMMA BatchInvariant == Spec => []BatchInv
<1> QED BY BatchInit, BatchStep, PTL DEF Spec

(* Every variable keeps its type: the channels their capacity, the number  *)
(* of records counted the number there are.                                *)
THEOREM TypeCorrect == Spec => []TypeOK
<1>1. BatchInv => TypeOK
  BY DEF BatchInv
<1> QED BY <1>1, BatchInvariant, PTL

-----------------------------------------------------------------------------
(* What the invariant means.                                               *)

LEMMA PlacesDisjoint == BatchInv => NothingLostInBatches
<1> SUFFICES ASSUME BatchInv PROVE NothingLostInBatches
  OBVIOUS
<1>0. TypeOK /\ Custody /\ Cut /\ Apart /\ Waiting /\ Found /\ InOrder
  BY DEF BatchInv, Custody
<1>t. /\ jobs \in Seq(Batches) /\ DOMAIN jobs = 1 .. Len(jobs)
      /\ resultCh \in Seq(Results) /\ DOMAIN resultCh = 1 .. Len(resultCh)
      /\ Len(out) \in Nat /\ idx \in Nat /\ Len(out) <= idx
  BY <1>0, Sizes DEF TypeOK
<1>j. \A n : n \in InJobs <=> \E i \in 1 .. Len(jobs) : n \in RecordsOf(jobs[i])
  BY <1>t DEF InJobs
<1>r. \A n : n \in InResults <=> \E i \in 1 .. Len(resultCh) : n \in InResult(i)
  BY <1>t DEF InResults, InResult
<1>w. Written = 0 .. Len(out) - 1
  BY <1>0, AnsweredBefore
<1>1. InJobs \cap InResults = {}
  BY <1>0, <1>j, <1>r DEF Apart
<1>2. InJobs \cap DOMAIN ordered = {}
  BY <1>0, <1>j DEF Waiting
<1>3. InResults \cap DOMAIN ordered = {}
  BY <1>0, <1>r DEF Waiting
<1>4. InJobs \cap Written = {}
  <2>1. SUFFICES ASSUME NEW n \in InJobs PROVE n >= Len(out) /\ n \in Int
    BY <1>t, <1>w
  <2>2. PICK i \in 1 .. Len(jobs) : n \in RecordsOf(jobs[i])
    BY <1>j
  <2>3. jobs[i].first \in Nat /\ jobs[i].len \in Nat /\ jobs[i].first >= Len(out)
    BY <1>0, Sizes DEF Waiting
  <2> QED BY <1>t, <2>2, <2>3 DEF RecordsOf
<1>5. InResults \cap Written = {}
  <2>1. SUFFICES ASSUME NEW n \in InResults PROVE n >= Len(out) /\ n \in Int
    BY <1>t, <1>w
  <2>2. PICK i \in 1 .. Len(resultCh) : n \in InResult(i)
    BY <1>r
  <2>3. /\ resultCh[i].first \in Nat /\ Len(resultCh[i].outs) \in Nat
        /\ resultCh[i].first >= Len(out)
    BY <1>0, Sizes DEF Waiting
  <2> QED BY <1>t, <2>2, <2>3 DEF InResult
<1>6. DOMAIN ordered \cap Written = {}
  BY <1>0, <1>t, <1>w, Sizes DEF Waiting
<1>7. \A i, j \in 1 .. 4 : i # j =>
        <<InJobs, InResults, DOMAIN ordered, Written>>[i]
           \cap <<InJobs, InResults, DOMAIN ordered, Written>>[j] = {}
  BY <1>1, <1>2, <1>3, <1>4, <1>5, <1>6
<1>8. ASSUME NEW w \in Workers
      PROVE  HeldBy(w) \cap (InJobs \cup Answered \cup UNION {HeldBy(v) : v \in Workers \ {w}}) = {}
  <2>1. HeldBy(w) \cap InJobs = {}
    BY <1>0, <1>j DEF Apart
  <2>2. HeldBy(w) \cap Answered = {}
    BY <1>0, HeldUnanswered
  <2>3. HeldBy(w) \cap UNION {HeldBy(v) : v \in Workers \ {w}} = {}
    BY <1>0 DEF Apart
  <2> QED BY <2>1, <2>2, <2>3
<1>9. ASSUME ~Done
      PROVE  InJobs \cup Answered \cup UNION {HeldBy(w) : w \in Workers} = 0 .. idx - 1
  <2>1. ASSUME NEW n \in 0 .. idx - 1
        PROVE  n \in InJobs \cup Answered \cup UNION {HeldBy(w) : w \in Workers}
    <3>1. \/ \E i \in 1 .. Len(jobs) : n \in RecordsOf(jobs[i])
          \/ \E w \in Workers : n \in HeldBy(w)
          \/ \E k \in 1 .. Len(resultCh) : n \in InResult(k)
          \/ n \in DOMAIN ordered \/ n < Len(out)
      BY <1>0, <1>9 DEF Found
    <3>2. n < Len(out) => n \in Written
      BY <1>t, <1>w
    <3> QED BY <1>j, <1>r, <3>1, <3>2 DEF Answered
  <2>2. InJobs \subseteq 0 .. idx - 1 /\ \A w \in Workers : HeldBy(w) \subseteq 0 .. idx - 1
    BY <1>0, <1>j, BeforeIdx
  <2>3. Answered \subseteq 0 .. idx - 1
    BY <1>0, AnsweredBefore
  <2> QED BY <2>1, <2>2, <2>3
<1> QED BY <1>7, <1>8, <1>9 DEF NothingLostInBatches

(* Batches are cut and put together again for every input without doubling *)
(* a record, and without losing one while the context lives.               *)
THEOREM BatchesConserveRecords == Spec => []NothingLostInBatches
<1> QED BY PlacesDisjoint, BatchInvariant, PTL

(* A strict job writes for a record nothing but the element at its place   *)
(* of the answer to its batch, or the placeholder of a batch that failed,  *)
(* whatever the model answers and in whatever order the batches arrive.    *)
THEOREM StrictContractKept == Spec => []StrictByPlace
<1>1. BatchInv => StrictByPlace
  <2> SUFFICES ASSUME BatchInv, strict PROVE StrictByPlace
    BY DEF StrictByPlace
  <2>1. /\ \A n \in DOMAIN ordered : Fits(n, ordered[n], Blanked)
        /\ \A i \in 1 .. Len(resultCh) : \A k \in 1 .. Len(resultCh[i].outs) :
              Fits(resultCh[i].first + k - 1, resultCh[i].outs[k], Blanked)
    BY DEF BatchInv, Contract
  <2>2. \A n, c : Fits(n, c, Blanked) => Proper(n, c)
    BY DEF Fits, Blanked, Proper
  <2>3. /\ DOMAIN resultCh = 1 .. Len(resultCh)
        /\ \A i \in 1 .. Len(resultCh) : DOMAIN resultCh[i].outs = 1 .. Len(resultCh[i].outs)
    <3>1. \A i \in 1 .. Len(resultCh) : resultCh[i].outs \in Seq(Contents)
      BY Sizes DEF BatchInv, Custody
    <3> QED BY <3>1 DEF BatchInv, TypeOK
  <2> QED BY <2>1, <2>2, <2>3 DEF StrictByPlace
<1> QED BY <1>1, BatchInvariant, PTL

(* A job that ended without an error and without a cancellation has        *)
(* written everything.                                                     *)
LEMMA AllWritten ==
  ASSUME BatchInv, coll # "emit", WorkersGone, prod = "done", resultCh = <<>>,
         producerErr = "none", ~deliverErr, ~firstErr, ~callerDone
  PROVE  Written = Records /\ Answered = Records
<1>0. TypeOK /\ Cut /\ Custody /\ Found /\ ReaderEnds /\ ErrorsKept /\ WorkersEnd /\ CollectorEnds
  BY DEF BatchInv, Custody, Endings
<1>1. ~Done
  BY <1>0 DEF ErrorsKept, Done
<1>2. idx = NRec
  BY <1>0, <1>1 DEF ReaderEnds
<1>3. jobs = <<>>
  <2>1. \E w \in pool : w \in Workers
    <3>1. pool \in Pools
      BY <1>0 DEF TypeOK
    <3>2. pool \subseteq Workers /\ pool # {}
      BY <3>1, BatchAssumption
    <3> QED BY <3>2
  <2>2. \E w \in pool : wpc[w] = "exit"
    BY <2>1 DEF WorkersGone
  <2> QED BY <1>0, <1>1, <2>2 DEF WorkersEnd
<1>4. \A w \in Workers : HeldBy(w) = {}
  BY DEF HeldBy, WorkersGone
<1>5. \A n \in 0 .. NRec - 1 : n \in DOMAIN ordered \/ n < Len(out)
  BY <1>0, <1>1, <1>2, <1>3, <1>4 DEF Found
<1>6. Len(out) \notin DOMAIN ordered
  BY <1>0 DEF CollectorEnds
<1>7. Len(out) \in Nat /\ Len(out) <= NRec /\ NRec \in Nat
  BY <1>0, <1>2, Sizes
<1>8. Len(out) = NRec
  BY <1>5, <1>6, <1>7
<1>9. Written = 0 .. Len(out) - 1 /\ Answered \subseteq 0 .. idx - 1
  BY <1>0, AnsweredBefore
<1> QED BY <1>2, <1>8, <1>9 DEF Records, Answered

(* The verdict is true for every input, fault and cancellation, and when   *)
(* it is known nobody reads the input or calls the model any more.         *)
THEOREM EndsCleanly == Spec => []CleanEnd
<1>1. BatchInv => CleanEnd
  <2> SUFFICES ASSUME BatchInv PROVE CleanEnd
    OBVIOUS
  <2>0. TypeOK /\ ReaderEnds /\ ErrorsKept /\ CollectorEnds
    BY DEF BatchInv, Endings
  <2>1. outcome # "none" => /\ coll = "done" /\ outcome = Verdict
                            /\ WorkersGone /\ prod = "done" /\ resultCh = <<>>
    BY <2>0 DEF CollectorEnds
  <2>2. producerErr \in {"none", "io", "ctx"} /\ deliverErr \in BOOLEAN /\ firstErr \in BOOLEAN
    BY <2>0 DEF TypeOK
  <2>3. outcome = "ok" => ~firstErr /\ ~deliverErr /\ producerErr = "none"
    BY <2>1, <2>2 DEF Verdict
  <2>4. outcome = "ok" => Written = Records \/ callerDone
    BY <2>1, <2>3, AllWritten
  <2>5. outcome = "io" => "read" \in Faults /\ producerErr = "io"
    BY <2>0, <2>1, <2>2 DEF Verdict, ReaderEnds
  <2>6. outcome = "ctx" => callerDone \/ firstErr \/ deliverErr
    BY <2>0, <2>1, <2>2 DEF Verdict, ReaderEnds, ErrorsKept, Done
  <2>7. outcome = "write" => deliverErr
    BY <2>0, <2>1, <2>2 DEF Verdict
  <2>8. outcome = "call" => firstErr /\ failed # {}
    BY <2>0, <2>1, <2>2 DEF Verdict, ErrorsKept
  <2> QED BY <2>1, <2>3, <2>4, <2>5, <2>6, <2>7, <2>8 DEF CleanEnd, HonestOutcome, QuietAtTheEnd
<1> QED BY <1>1, BatchInvariant, PTL

-----------------------------------------------------------------------------
(* Ordered delivery.                                                       *)

Lost == failed \ (Answered \cup (IF continueOnError THEN Records ELSE {}))

LEMMA LostIs == BatchInv => /\ Lost = IF continueOnError THEN {} ELSE failed
                            /\ Answered \subseteq Records
<1> SUFFICES ASSUME BatchInv PROVE /\ Lost = IF continueOnError THEN {} ELSE failed
                                   /\ Answered \subseteq Records
  OBVIOUS
<1>0. TypeOK /\ Custody /\ Cut /\ Forsaken
  BY DEF BatchInv, Custody
<1>1. /\ failed \subseteq Records /\ idx \in Nat /\ idx <= NRec /\ NRec \in Nat /\ Len(out) \in Nat
      /\ resultCh \in Seq(Results)
  BY <1>0, Sizes DEF TypeOK
<1>2. Answered \subseteq 0 .. idx - 1 /\ Written = 0 .. Len(out) - 1
  BY <1>0, AnsweredBefore
<1>3. Answered \subseteq Records
  BY <1>1, <1>2 DEF Records
<1>4. ~continueOnError => \A n \in failed : n \notin Answered
  <2>1. SUFFICES ASSUME ~continueOnError, NEW n \in failed
                 PROVE  n \notin InResults /\ n \notin DOMAIN ordered /\ n \notin Written
    BY DEF Answered
  <2>2. /\ n >= Len(out) /\ n \notin DOMAIN ordered
        /\ \A k \in 1 .. Len(resultCh) : n \notin InResult(k)
    BY <1>0, <2>1 DEF Forsaken
  <2>3. n \notin InResults
    BY <1>1, <2>2 DEF InResults, InResult
  <2>4. n \notin Written
    BY <1>1, <1>2, <2>2
  <2> QED BY <2>2, <2>3, <2>4
<1> QED BY <1>1, <1>3, <1>4 DEF Lost

LEMMA LostNext == BatchInv' => /\ Lost' = IF continueOnError' THEN {} ELSE failed'
                               /\ Answered' \subseteq Records
<1>1. (BatchInv => /\ Lost = IF continueOnError THEN {} ELSE failed
                   /\ Answered \subseteq Records)'
  BY LostIs, PTL
<1> QED BY <1>1 DEF Records

LEMMA BatchDeliveryStep ==
  BatchInv /\ BatchInv' /\ [Next]_vars => [Delivery!Next]_Delivery!vars
<1> SUFFICES ASSUME BatchInv, BatchInv', [Next]_vars PROVE [Delivery!Next]_Delivery!vars
  OBVIOUS
<1> USE DEF settings, readVars, workVars, sinkVars
<1> DEFINE V == CASE outcome = "none" -> "none" [] outcome = "ok" -> "ok" [] OTHER -> "error"
<1>v. /\ Answered' = Answered /\ Lost' = Lost /\ out' = out /\ callerDone' = callerDone /\ V' = V
         => UNCHANGED Delivery!vars
  BY DEF Delivery!vars, Lost
<1>i. TypeOK /\ Custody /\ ErrorsKept /\ CollectorEnds
  BY DEF BatchInv, Endings
<1>c. UNCHANGED continueOnError
  BY DEF Next, Producer, Worker, Collector, CallerCancels, Finished, vars
<1>a. /\ Lost = IF continueOnError THEN {} ELSE failed
      /\ Lost' = IF continueOnError THEN {} ELSE failed'
      /\ Answered' \subseteq Records
  BY <1>c, LostIs, LostNext
<1>1. CASE Producer \/ UNCHANGED vars
  <2>1. UNCHANGED <<failed, out, callerDone, outcome, wpc>>
    BY <1>1 DEF Producer, vars
  <2>2. Answered' = Answered
    <3>1. \A w \in Workers : ~SendResult(w)
      BY <1>i, <2>1 DEF SendResult, GoTo, TypeOK
    <3> QED BY <1>i, <3>1, AnsweredStep
  <2> QED BY <1>a, <1>c, <1>v, <2>1, <2>2
<1>2. ASSUME NEW w \in Workers, Worker(w) PROVE [Delivery!Next]_Delivery!vars
  <2>0. UNCHANGED <<out, callerDone, outcome>>
    BY <1>2 DEF Worker
  <2>1. V = "none"
    <3>1. wpc[w] # "exit"
      BY <1>2 DEF Worker, AcquireSlot, TakeBatch, NoMoreBatches, PassGate, BatchAnswered,
         BatchReplaced, BatchFails, SendResult, CountBatch
    <3> QED BY <1>i, <3>1 DEF CollectorEnds, WorkersGone
  <2>2. Answered \subseteq Answered' /\ failed \subseteq failed'
    <3>1. Answered \subseteq Answered'
      <4>1. CASE \E v \in Workers : Worker(v) /\ SendResult(v)
        BY <1>i, <4>1, AnsweredStep
      <4>2. CASE ~ \E v \in Workers : Worker(v) /\ SendResult(v)
        BY <1>i, <4>2, AnsweredStep
      <4> QED BY <4>1, <4>2
    <3>2. failed \subseteq failed'
      BY <1>2 DEF Worker, AcquireSlot, TakeBatch, NoMoreBatches, PassGate, BatchAnswered,
         BatchReplaced, BatchFails, SendResult, CountBatch
    <3> QED BY <3>1, <3>2
  <2>3. Lost \subseteq Lost' /\ Lost' \subseteq Records /\ Answered' \cap Lost' = {}
    <3>1. failed' \subseteq Records
      BY DEF BatchInv, TypeOK, Records
    <3>2. Answered' \cap Lost' = {}
      BY DEF Lost
    <3> QED BY <1>a, <2>2, <3>1, <3>2
  <2>4. Delivery!Resolve
    BY <1>a, <2>0, <2>1, <2>2, <2>3 DEF Delivery!Resolve, Delivery!Records, Records, Lost
  <2> QED BY <2>4 DEF Delivery!Next
<1>3. CASE Collector
  <2>0. UNCHANGED <<callerDone, failed, wpc>>
    BY <1>3 DEF Collector
  <2>1. Answered' = Answered
    <3>1. \A w \in Workers : ~SendResult(w)
      BY <1>i, <2>0 DEF SendResult, GoTo, TypeOK
    <3> QED BY <1>i, <3>1, AnsweredStep
  <2>2. Lost' = Lost
    BY <1>a, <2>0
  <2>3. CASE EmitReady
    <3>1. /\ coll = "emit" /\ Len(out) \in DOMAIN ordered /\ out' = Append(out, Len(out))
          /\ UNCHANGED outcome
      BY <2>3 DEF EmitReady, NextEmit
    <3>2. V = "none" /\ Len(out) \in Answered
      BY <1>i, <3>1 DEF CollectorEnds, Answered
    <3>3. Delivery!Deliver
      BY <2>0, <2>1, <2>2, <3>1, <3>2 DEF Delivery!Deliver, Lost
    <3> QED BY <3>3 DEF Delivery!Next
  <2>4. CASE ReceiveResult \/ EmitFails \/ NothingReady
    <3>1. UNCHANGED <<out, outcome>>
      BY <2>4 DEF ReceiveResult, EmitFails, NothingReady
    <3> QED BY <1>v, <2>0, <2>1, <2>2, <3>1
  <2>5. CASE Conclude
    <3>1. /\ coll = "recv" /\ resultCh = <<>> /\ WorkersGone /\ prod = "done" /\ outcome' = Verdict
          /\ UNCHANGED <<out, deliverErr>>
      BY <2>5 DEF Conclude, Verdict
    <3>2. outcome = "none" /\ V = "none"
      BY <1>i, <3>1 DEF CollectorEnds
    <3>3. producerErr \in {"none", "io", "ctx"}
      BY <1>i DEF TypeOK
    <3>4. CASE outcome' = "ok"
      <4>1. producerErr = "none" /\ ~deliverErr /\ ~firstErr
        BY <3>1, <3>3, <3>4 DEF Verdict
      <4>2. ~callerDone => Answered \cup Lost = Records
        <5>1. failed \subseteq Records
          BY <1>i DEF TypeOK
        <5>2. ~callerDone => Answered = Records
          BY <3>1, <4>1, AllWritten
        <5> QED BY <1>a, <5>1, <5>2
      <4>3. Len(out) \notin Answered
        <5>1. InResults = {}
          BY <3>1 DEF InResults
        <5>2. Len(out) \notin DOMAIN ordered
          BY <1>i, <3>1, <4>1 DEF CollectorEnds
        <5>3. Len(out) \notin Written
          <6>1. out \in Seq(Records) /\ Written = 0 .. Len(out) - 1
            BY <1>i, AnsweredBefore DEF TypeOK
          <6> QED BY <6>1
        <5> QED BY <5>1, <5>2, <5>3 DEF Answered
      <4>4. Delivery!Conclude("ok")
        BY <2>0, <2>1, <2>2, <3>1, <3>2, <3>4, <4>2, <4>3
        DEF Delivery!Conclude, Delivery!Records, Records, Lost
      <4> QED BY <4>4 DEF Delivery!Next
    <3>5. CASE outcome' # "ok"
      <4>1. V' = "error"
        BY <3>1, <3>3, <3>5 DEF Verdict
      <4>2. Delivery!Conclude("error")
        BY <2>0, <2>1, <2>2, <3>1, <3>2, <4>1 DEF Delivery!Conclude, Lost
      <4> QED BY <4>2 DEF Delivery!Next
    <3> QED BY <3>4, <3>5
  <2> QED BY <1>3, <2>3, <2>4, <2>5 DEF Collector
<1>4. CASE CallerCancels
  <2>1. callerDone' = TRUE /\ UNCHANGED <<failed, out, outcome, wpc, resultCh, ordered>>
    BY <1>4 DEF CallerCancels
  <2>2. Answered' = Answered
    BY <2>1 DEF Answered, InResults, Written
  <2>3. Lost' = Lost
    BY <1>a, <2>1
  <2>4. Delivery!Interrupt
    BY <2>1, <2>2, <2>3 DEF Delivery!Interrupt, Lost
  <2> QED BY <2>4 DEF Delivery!Next
<1> QED BY <1>1, <1>2, <1>3, <1>4 DEF Next, Finished

(* Batches too are invisible from outside: the records leave in input      *)
(* order, none is skipped, and the run ends with one true verdict.         *)
THEOREM BatchesDeliverInOrder == Spec => BatchDelivers
<1>1. Init => Delivery!Init
  <2> SUFFICES ASSUME Init PROVE Delivery!Init
    OBVIOUS
  <2>1. Answered = {} /\ Lost = {}
    BY DEF Init, Answered, InResults, Written, Lost
  <2> QED BY <2>1 DEF Init, Delivery!Init, Lost
<1> QED BY <1>1, BatchDeliveryStep, BatchInvariant, PTL DEF Spec, BatchDelivers, Delivery!Spec
=============================================================================
