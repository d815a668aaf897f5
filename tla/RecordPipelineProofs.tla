------------------------ MODULE RecordPipelineProofs ------------------------
(***************************************************************************)
(* RecordPipeline for every number of records, workers and limiter slots,  *)
(* every combination of faults and both error policies.                    *)
(***************************************************************************)
EXTENDS RecordPipeline, FiniteSetTheorems, TLAPS

LEMMA ChanCapNat == ChanCap \in Nat
BY FS_CardinalityType, PipelineAssumption DEF ChanCap

-----------------------------------------------------------------------------
(* Type correctness.  TypeOK is not inductive: an answer is a record of    *)
(* the input because its worker took it from jobs.                         *)

Taken == \A w \in At({"gate", "wait", "call", "send"}) : wrec[w] \in 0 .. taken - 1

TypeInv == TypeOK /\ Taken

LEMMA TypeInit == Init => TypeInv
<1> SUFFICES ASSUME Init PROVE TypeInv
  OBVIOUS
<1>1. sent \in 0 .. NRec /\ taken \in 0 .. sent /\ foreign \in 0 .. MaxForeign /\ used \in Int
  BY PipelineAssumption DEF Init
<1>2. resCh \in Seq(Records) /\ Len(resCh) <= ChanCap
  BY ChanCapNat DEF Init
<1>3. TypeOK
  BY <1>1, <1>2 DEF Init, TypeOK, WorkerStates
<1>4. Taken
  BY DEF Init, Taken, At
<1> QED BY <1>3, <1>4 DEF TypeInv

LEMMA TypeStep == TypeInv /\ [Next]_vars => TypeInv'
<1> SUFFICES ASSUME TypeInv, [Next]_vars PROVE TypeInv'
  OBVIOUS
<1> USE PipelineAssumption, ChanCapNat DEF TypeInv
<1>0. \A w \in At({"gate", "wait", "call", "send"}) : wrec[w] \in Records
  BY DEF TypeOK, Taken, Records
<1>1. CASE Producer
  <2> USE <1>1 DEF Producer, TypeOK, Taken, At, workerVars, jobVars, slotVars, answerVars, progressVars, sinkVars, producerVars
  <2>1. CASE ReadRecord BY <2>1 DEF ReadRecord
  <2>2. CASE ReadEOF BY <2>2 DEF ReadEOF
  <2>3. CASE ReadFails BY <2>3 DEF ReadFails
  <2>4. CASE SendJob BY <2>4 DEF SendJob
  <2>5. CASE SendAbandoned BY <2>5 DEF SendAbandoned
  <2> QED BY <1>1, <2>1, <2>2, <2>3, <2>4, <2>5 DEF Producer
<1>2. ASSUME NEW w \in Workers, Worker(w) PROVE TypeInv'
  <2>0. UNCHANGED <<continueOnError, producerVars, sinkVars, callerDone, outcome>>
    BY <1>2 DEF Worker
  <2> USE <1>0, <2>0 DEF TypeOK, Taken, At, GoTo, Leave, WorkerStates, jobVars, slotVars, answerVars, progressVars, sinkVars, producerVars
  <2>1. CASE Move(w)
    <3>0. used' \in Int
      BY <2>1 DEF Move, AcquireSlot, AcquireCancelled, JobsDrained, DropJob, PassGate, RateTick
    <3>1. /\ wpc' \in [Workers -> WorkerStates]
          /\ \A v \in Workers : wpc'[v] \in {"gate", "wait", "call", "send"}
                                => wpc[v] \in {"gate", "wait", "call", "send"}
      BY <2>1 DEF Move, AcquireSlot, AcquireCancelled, JobsDrained, DropJob, PassGate, RateTick
    <3>2. TypeOK'
      BY <2>1, <3>0, <3>1 DEF Move
    <3>3. Taken'
      BY <2>1, <3>0, <3>1 DEF Move
    <3> QED BY <3>2, <3>3
  <2>2. CASE TakeJob(w)
    BY <2>2 DEF TakeJob, Claim
  <2>3. CASE CallSucceeds(w)
    BY <2>3 DEF CallSucceeds
  <2>4. CASE CallFails(w)
    <3>a. used' = used \/ used' = used - 1
      BY <2>4 DEF CallFails
    <3>b. firstErr' \in BOOLEAN /\ jobsCancel' \in BOOLEAN
      BY <2>4 DEF CallFails
    <3>0. used' \in Int /\ firstErr' \in BOOLEAN /\ jobsCancel' \in BOOLEAN
      BY <3>a, <3>b
    <3>1. /\ wpc' \in [Workers -> WorkerStates]
          /\ \A v \in Workers : wpc'[v] \in {"gate", "wait", "call", "send"}
                                => wpc[v] \in {"gate", "wait", "call", "send"}
      BY <2>4 DEF CallFails
    <3>2. TypeOK'
      BY <2>4, <3>0, <3>1 DEF CallFails
    <3>3. Taken'
      BY <2>4, <3>0, <3>1 DEF CallFails
    <3> QED BY <3>2, <3>3
  <2>5. CASE SendResult(w)
    BY <2>5 DEF SendResult
  <2>6. CASE CountResult(w)
    BY <2>6 DEF CountResult
  <2>7. CASE ReportProgress(w)
    BY <2>7 DEF ReportProgress
  <2> QED BY <1>2, <2>1, <2>2, <2>3, <2>4, <2>5, <2>6, <2>7 DEF Worker
<1>3. CASE Collector
  <2> USE <1>3 DEF Collector, TypeOK, Taken, At, workerVars, jobVars, slotVars, answerVars, progressVars, sinkVars, producerVars
  <2>1. CASE ReceiveResult BY <2>1 DEF ReceiveResult
  <2>2. CASE EmitRecord BY <2>2 DEF EmitRecord
  <2>3. CASE EmitFails BY <2>3 DEF EmitFails
  <2>4. CASE EmitNothingReady BY <2>4 DEF EmitNothingReady
  <2>5. CASE ResultsDrained BY <2>5 DEF ResultsDrained
  <2> QED BY <1>3, <2>1, <2>2, <2>3, <2>4, <2>5 DEF Collector
<1>4. CASE Return
  BY <1>4 DEF Return, TypeOK, Taken, At, workerVars, jobVars, slotVars, answerVars, progressVars, producerVars
<1>5. CASE CallerCancels
  BY <1>5 DEF CallerCancels, TypeOK, Taken, At, workerVars, jobVars, slotVars, answerVars, progressVars, sinkVars, producerVars
<1>6. CASE Foreign
  <2>1. used' \in Int /\ foreign' \in 0 .. MaxForeign
    BY <1>6 DEF Foreign, ForeignAcquires, ForeignReleases, TypeOK
  <2>2. TypeOK'
    BY <1>6, <2>1 DEF Foreign, TypeOK, jobVars, answerVars, progressVars, sinkVars, producerVars
  <2>3. Taken'
    BY <1>6 DEF Foreign, Taken, At, jobVars
  <2> QED BY <2>2, <2>3
<1>7. CASE Finished \/ UNCHANGED vars
  <2>1. UNCHANGED vars
    BY <1>7 DEF Finished
  <2>2. TypeOK'
    BY <2>1 DEF vars, TypeOK, workerVars, jobVars, slotVars, answerVars, progressVars, sinkVars, producerVars
  <2>3. Taken'
    BY <2>1 DEF vars, Taken, At, workerVars, jobVars
  <2> QED BY <2>2, <2>3
<1> QED BY <1>1, <1>2, <1>3, <1>4, <1>5, <1>6, <1>7 DEF Next

(* Every variable keeps its type: in particular the limiter's and the      *)
(* channels' occupancy stay within their capacities.                       *)
THEOREM TypeCorrect == Spec => []TypeOK
<1>1. TypeInv => TypeOK
  BY DEF TypeInv
<1> QED BY <1>1, TypeInit, TypeStep, PTL DEF Spec

-----------------------------------------------------------------------------
(* Custody.  A taken record is in the hands of one worker, or failed, or   *)
(* answered; an answer is being sent, in resultCh, in the map, or written. *)
(* The answers are moved from one of these places to the next, never       *)
(* copied: pointwise, so that each step has little to show.                *)

Hands == {"gate", "wait", "call"}

Owned ==
    /\ \A w \in Workers : wpc[w] \in Hands => wrec[w] \notin ok \cup failed
    /\ \A v, w \in Workers :
          /\ wpc[v] \in Hands \cup {"send"} /\ wpc[w] \in Hands \cup {"send"}
          /\ wrec[v] = wrec[w]
          => v = w
    /\ ok \cup failed \subseteq 0 .. taken - 1
    /\ ok \cap failed = {}

Placed ==
    /\ \A w \in Workers : wpc[w] = "send" =>
          /\ wrec[w] \in ok /\ wrec[w] \notin ordered /\ wrec[w] >= nextEmit
          /\ \A k \in 1 .. Len(resCh) : resCh[k] # wrec[w]
    /\ \A k \in 1 .. Len(resCh) :
          resCh[k] \in ok /\ resCh[k] \notin ordered /\ resCh[k] >= nextEmit
    /\ \A j, k \in 1 .. Len(resCh) : resCh[j] = resCh[k] => j = k
    /\ \A i \in ordered : i \in ok /\ i >= nextEmit
    /\ \A i \in 0 .. nextEmit - 1 : i \in ok

Found ==
    \A i \in ok :
        \/ \E w \in Workers : wpc[w] = "send" /\ wrec[w] = i
        \/ \E k \in 1 .. Len(resCh) : resCh[k] = i
        \/ i \in ordered \cup 0 .. nextEmit - 1

Accounted ==
    ~JobsDone => \A i \in 0 .. taken - 1 :
        \/ i \in ok \cup failed
        \/ \E w \in Workers : wpc[w] \in Hands /\ wrec[w] = i

Written == out = [k \in 1 .. nextEmit |-> k - 1]

Custody == Owned /\ Placed /\ Found /\ Accounted /\ Written

LEMMA CustodyInit == Init => Custody
<1> SUFFICES ASSUME Init PROVE Custody
  OBVIOUS
<1>1. Owned /\ Placed /\ Found /\ Accounted
  BY DEF Init, Owned, Placed, Found, Accounted, Hands
<1>2. Written
  BY DEF Init, Written
<1> QED BY <1>1, <1>2 DEF Custody

custodyVars == <<wpc, wrec, taken, resCh, ordered, nextEmit, out, ok, failed>>

(* Steps that move no record: nearly all of them.                          *)
LEMMA CustodyKept ==
  ASSUME Custody, UNCHANGED custodyVars, JobsDone => JobsDone'
  PROVE  Custody'
BY DEF custodyVars, Custody, Owned, Placed, Found, Accounted, Written, Hands

(* A worker that moves on without touching a record; it may drop one if    *)
(* the workers' context is done.                                           *)
LEMMA CustodyMoved ==
  ASSUME TypeInv, Custody, NEW w \in Workers,
         NEW to \in {"take", "gate", "wait", "call", "count", "report", "exit"},
         GoTo(w, to), wpc[w] # "send",
         wpc[w] \in Hands => to \in Hands \/ JobsDone,
         to \in Hands => wpc[w] \in Hands,
         UNCHANGED <<wrec, taken, resCh, ordered, nextEmit, out, ok, failed>>,
         UNCHANGED <<callerDone, jobsCancel>>
  PROVE  Custody'
<1> USE DEF GoTo, TypeInv, TypeOK, Hands
<1>1. \A v \in Workers :
        /\ wpc'[v] = "send" <=> wpc[v] = "send"
        /\ wpc'[v] \in Hands => wpc[v] \in Hands
        /\ ~JobsDone /\ wpc[v] \in Hands => wpc'[v] \in Hands
  OBVIOUS
<1>2. Owned'
  BY <1>1 DEF Custody, Owned
<1>3. Placed'
  BY <1>1 DEF Custody, Placed
<1>4. Found'
  BY <1>1 DEF Custody, Found
<1>5. Accounted'
  BY <1>1 DEF Custody, Accounted, JobsDone
<1>6. Written'
  BY DEF Custody, Written
<1> QED BY <1>2, <1>3, <1>4, <1>5, <1>6 DEF Custody

LEMMA TakeJobCustody ==
  ASSUME TypeInv, Custody, NEW w \in Workers, TakeJob(w),
         UNCHANGED <<sinkVars, callerDone>>
  PROVE  Custody'
<1> USE DEF TakeJob, Claim, GoTo, TypeInv, TypeOK, Hands, sinkVars, answerVars
<1>1. /\ taken' = taken + 1 /\ wrec' = [wrec EXCEPT ![w] = taken]
      /\ wpc' = [wpc EXCEPT ![w] = "gate"] /\ wpc[w] = "take"
      /\ UNCHANGED <<resCh, ordered, nextEmit, out, ok, failed, callerDone, jobsCancel>>
  OBVIOUS
<1>2. \A v \in Workers : wpc[v] \in Hands \cup {"send"} => v # w /\ wrec[v] < taken
  BY <1>1 DEF Taken, At
<1>3. Owned'
  <2>1. \A v \in Workers : wpc'[v] \in Hands => wrec'[v] \notin ok' \cup failed'
    BY <1>1, <1>2 DEF Custody, Owned
  <2>2. ASSUME NEW u \in Workers, NEW v \in Workers,
               wpc'[u] \in Hands \cup {"send"}, wpc'[v] \in Hands \cup {"send"},
               wrec'[u] = wrec'[v]
        PROVE  u = v
    BY <1>1, <1>2, <2>2 DEF Custody, Owned
  <2>3. ok' \cup failed' \subseteq 0 .. taken' - 1 /\ ok' \cap failed' = {}
    BY <1>1 DEF Custody, Owned
  <2> QED BY <2>1, <2>2, <2>3 DEF Owned
<1>4. \A v \in Workers : (wpc'[v] = "send" <=> wpc[v] = "send") /\ (wpc[v] = "send" => wrec'[v] = wrec[v])
  BY <1>1
<1>5. Placed'
  BY <1>1, <1>4 DEF Custody, Placed
<1>6. Found'
  BY <1>1, <1>4 DEF Custody, Found
<1>7. Accounted'
  <2> SUFFICES ASSUME ~JobsDone', NEW i \in 0 .. taken,
                      i \notin ok' \cup failed'
               PROVE  \E v \in Workers : wpc'[v] \in Hands /\ wrec'[v] = i
    BY <1>1 DEF Accounted
  <2>1. CASE i = taken
    BY <1>1, <2>1
  <2>2. CASE i # taken
    <3>1. PICK v \in Workers : wpc[v] \in Hands /\ wrec[v] = i
      BY <1>1, <2>2 DEF Custody, Accounted, JobsDone
    <3> QED BY <1>1, <1>2, <3>1
  <2> QED BY <2>1, <2>2
<1>8. Written'
  BY <1>1 DEF Custody, Written
<1> QED BY <1>3, <1>5, <1>6, <1>7, <1>8 DEF Custody

LEMMA CallCustody ==
  ASSUME TypeInv, Custody, NEW w \in Workers, CallSucceeds(w) \/ CallFails(w),
         UNCHANGED <<sinkVars, callerDone>>
  PROVE  Custody'
<1> USE DEF TypeInv, TypeOK, Hands
<1>1. /\ wpc[w] = "call"
      /\ UNCHANGED <<taken, wrec, resCh, ordered, nextEmit, out, callerDone>>
  BY DEF CallSucceeds, CallFails, jobVars, sinkVars
<1>2. JobsDone => JobsDone'
  BY DEF CallSucceeds, CallFails, JobsDone
<1>3. \/ ok' = ok \cup {wrec[w]} /\ failed' = failed /\ wpc' = [wpc EXCEPT ![w] = "send"]
      \/ /\ failed' = failed \cup {wrec[w]} /\ ok' = ok
         /\ \E to \in {"take", "exit"} : wpc' = [wpc EXCEPT ![w] = to]
  BY DEF CallSucceeds, CallFails, GoTo, Leave
<1>4. wrec[w] \in 0 .. taken - 1 /\ wrec[w] \notin ok \cup failed
  BY <1>1 DEF Custody, Owned, Taken, At
<1>5. \A v \in Workers : v # w /\ wpc[v] \in Hands \cup {"send"} => wrec[v] # wrec[w]
  BY <1>1 DEF Custody, Owned
<1>6. Owned'
  BY <1>1, <1>3, <1>4, <1>5 DEF Custody, Owned
<1>7. Placed'
  <2>1. ASSUME wrec[w] \notin ok
        PROVE  /\ wrec[w] \notin ordered /\ wrec[w] >= nextEmit
               /\ \A k \in 1 .. Len(resCh) : resCh[k] # wrec[w]
    BY <1>4, <2>1 DEF Custody, Placed
  <2>2. ok \subseteq ok' /\ \A v \in Workers : wpc'[v] = "send" => wrec[v] \in ok' /\ (wpc[v] = "send" \/ v = w)
    BY <1>1, <1>3 DEF Custody, Placed
  <2>3. \A v \in Workers : wpc'[v] = "send" =>
          /\ wrec[v] \notin ordered /\ wrec[v] >= nextEmit
          /\ \A k \in 1 .. Len(resCh) : resCh[k] # wrec[v]
    BY <1>4, <2>1, <2>2 DEF Custody, Placed
  <2> QED BY <1>1, <2>2, <2>3 DEF Custody, Placed
<1>8. Found'
  BY <1>1, <1>3, <1>4, <1>5 DEF Custody, Found
<1>9. Accounted'
  BY <1>1, <1>2, <1>3, <1>4, <1>5 DEF Custody, Accounted
<1>10. Written'
  BY <1>1 DEF Custody, Written
<1> QED BY <1>6, <1>7, <1>8, <1>9, <1>10 DEF Custody

LEMMA SendCustody ==
  ASSUME TypeInv, Custody, NEW w \in Workers, SendResult(w),
         UNCHANGED <<sinkVars, callerDone>>
  PROVE  Custody'
<1> USE DEF TypeInv, TypeOK, Hands
<1>1. /\ wpc[w] = "send" /\ wpc' = [wpc EXCEPT ![w] = "count"]
      /\ resCh' = Append(resCh, wrec[w])
      /\ UNCHANGED <<taken, wrec, ordered, nextEmit, out, ok, failed, callerDone, jobsCancel>>
  BY DEF SendResult, GoTo, jobVars, sinkVars, answerVars
<1>2. /\ Len(resCh') = Len(resCh) + 1 /\ Len(resCh) \in Nat
      /\ \A k \in 1 .. Len(resCh) : resCh'[k] = resCh[k]
      /\ resCh'[Len(resCh) + 1] = wrec[w]
  BY <1>1
<1>3. Owned'
  BY <1>1 DEF Custody, Owned
<1>4. Placed'
  <2>1. ASSUME NEW v \in Workers, wpc'[v] = "send"
        PROVE  /\ wrec[v] \in ok /\ wrec[v] \notin ordered /\ wrec[v] >= nextEmit
               /\ \A k \in 1 .. Len(resCh') : resCh'[k] # wrec[v]
    <3>1. wpc[v] = "send" /\ wrec[v] # wrec[w]
      BY <1>1, <2>1 DEF Custody, Owned
    <3>2. /\ wrec[v] \in ok /\ wrec[v] \notin ordered /\ wrec[v] >= nextEmit
          /\ \A k \in 1 .. Len(resCh) : resCh[k] # wrec[v]
      BY <3>1 DEF Custody, Placed
    <3>3. ASSUME NEW k \in 1 .. Len(resCh') PROVE resCh'[k] # wrec[v]
      <4>1. CASE k \in 1 .. Len(resCh)
        BY <1>2, <3>2, <4>1
      <4>2. CASE k = Len(resCh) + 1
        BY <1>2, <3>1, <4>2
      <4> QED BY <1>2, <4>1, <4>2
    <3> QED BY <3>2, <3>3
  <2>2. \A k \in 1 .. Len(resCh') :
           resCh'[k] \in ok /\ resCh'[k] \notin ordered /\ resCh'[k] >= nextEmit
    BY <1>1, <1>2 DEF Custody, Placed
  <2>3. \A j, k \in 1 .. Len(resCh') : resCh'[j] = resCh'[k] => j = k
    BY <1>1, <1>2 DEF Custody, Placed
  <2> QED BY <1>1, <2>1, <2>2, <2>3 DEF Custody, Placed
<1>5. Found'
  <2> SUFFICES ASSUME NEW i \in ok, i \notin ordered \cup 0 .. nextEmit - 1
               PROVE  \/ \E v \in Workers : wpc'[v] = "send" /\ wrec[v] = i
                      \/ \E k \in 1 .. Len(resCh') : resCh'[k] = i
    BY <1>1 DEF Found
  <2>1. CASE \E v \in Workers : wpc[v] = "send" /\ wrec[v] = i
    BY <1>1, <1>2, <2>1
  <2>2. CASE \E k \in 1 .. Len(resCh) : resCh[k] = i
    BY <1>2, <2>2
  <2> QED BY <2>1, <2>2 DEF Custody, Found
<1>6. Accounted'
  <2>1. \A v \in Workers : wpc[v] \in Hands => wpc'[v] \in Hands
    BY <1>1
  <2> QED BY <1>1, <2>1 DEF Custody, Accounted, JobsDone
<1>7. Written'
  BY <1>1 DEF Custody, Written
<1> QED BY <1>3, <1>4, <1>5, <1>6, <1>7 DEF Custody

LEMMA ReceiveCustody ==
  ASSUME TypeInv, Custody, ReceiveResult,
         UNCHANGED <<workerVars, callerDone>>
  PROVE  Custody'
<1> USE DEF TypeInv, TypeOK
<1>1. /\ resCh # <<>> /\ resCh' = Tail(resCh) /\ ordered' = ordered \cup {Head(resCh)}
      /\ UNCHANGED <<wpc, wrec, taken, nextEmit, out, ok, failed, callerDone, jobsCancel>>
  BY DEF ReceiveResult, workerVars, jobVars, answerVars
<1>2. /\ Len(resCh) \in Nat \ {0} /\ Len(resCh') = Len(resCh) - 1 /\ Head(resCh) = resCh[1]
      /\ \A k \in 1 .. Len(resCh') : k + 1 \in 1 .. Len(resCh) /\ resCh'[k] = resCh[k + 1]
  BY <1>1
<1>3. Owned'
  BY <1>1 DEF Custody, Owned
<1>4. Placed'
  <2>1. \A v \in Workers : wpc[v] = "send" =>
          /\ wrec[v] \in ok /\ wrec[v] \notin ordered' /\ wrec[v] >= nextEmit
          /\ \A k \in 1 .. Len(resCh') : resCh'[k] # wrec[v]
    BY <1>1, <1>2 DEF Custody, Placed
  <2>2. ASSUME NEW k \in 1 .. Len(resCh')
        PROVE  resCh'[k] \in ok /\ resCh'[k] \notin ordered' /\ resCh'[k] >= nextEmit
    <3>1. resCh[k + 1] # resCh[1]
      BY <1>2 DEF Custody, Placed
    <3>2. resCh[k + 1] \in ok /\ resCh[k + 1] \notin ordered /\ resCh[k + 1] >= nextEmit
      BY <1>2 DEF Custody, Placed
    <3> QED BY <1>1, <1>2, <3>1, <3>2
  <2>3. ASSUME NEW j \in 1 .. Len(resCh'), NEW k \in 1 .. Len(resCh'), resCh'[j] = resCh'[k]
        PROVE  j = k
    <3>1. resCh[j + 1] = resCh[k + 1] /\ j + 1 \in 1 .. Len(resCh) /\ k + 1 \in 1 .. Len(resCh)
      BY <1>2, <2>3
    <3>2. j + 1 = k + 1
      BY <3>1 DEF Custody, Placed
    <3> QED BY <1>2, <3>2
  <2>4. \A i \in ordered' : i \in ok /\ i >= nextEmit
    BY <1>1, <1>2 DEF Custody, Placed
  <2> QED BY <1>1, <2>1, <2>2, <2>3, <2>4 DEF Custody, Placed
<1>5. Found'
  <2> SUFFICES ASSUME NEW i \in ok,
                      ~ \E v \in Workers : wpc[v] = "send" /\ wrec[v] = i,
                      i \notin ordered' \cup 0 .. nextEmit - 1
               PROVE  \E k \in 1 .. Len(resCh') : resCh'[k] = i
    BY <1>1 DEF Found
  <2>1. PICK k \in 1 .. Len(resCh) : resCh[k] = i
    BY <1>1 DEF Custody, Found
  <2>2. k # 1
    BY <1>1, <1>2, <2>1
  <2>3. k - 1 \in 1 .. Len(resCh') /\ resCh'[k - 1] = i
    BY <1>2, <2>1, <2>2
  <2> QED BY <2>3
<1>6. Accounted'
  BY <1>1 DEF Custody, Accounted, JobsDone
<1>7. Written'
  BY <1>1 DEF Custody, Written
<1> QED BY <1>3, <1>4, <1>5, <1>6, <1>7 DEF Custody

LEMMA EmitCustody ==
  ASSUME TypeInv, Custody, EmitRecord,
         UNCHANGED <<workerVars, callerDone>>
  PROVE  Custody'
<1> USE DEF TypeInv, TypeOK
<1>1. /\ nextEmit \in ordered /\ nextEmit' = nextEmit + 1 /\ ordered' = ordered \ {nextEmit}
      /\ out' = Append(out, nextEmit)
      /\ UNCHANGED <<wpc, wrec, taken, resCh, ok, failed, callerDone, jobsCancel>>
  BY DEF EmitRecord, workerVars, jobVars, answerVars
<1>2. nextEmit \in Nat /\ nextEmit \in ok
  BY <1>1 DEF Custody, Placed
<1>3. Owned'
  BY <1>1 DEF Custody, Owned
<1>4. Placed'
  <2>1. \A v \in Workers : wpc[v] = "send" =>
          /\ wrec[v] \in ok /\ wrec[v] \notin ordered' /\ wrec[v] >= nextEmit'
          /\ \A k \in 1 .. Len(resCh) : resCh[k] # wrec[v]
    BY <1>1, <1>2 DEF Custody, Placed
  <2>2. \A k \in 1 .. Len(resCh) :
           resCh[k] \in Nat /\ resCh[k] \in ok /\ resCh[k] \notin ordered /\ resCh[k] >= nextEmit
    <3>1. \A i \in ok : i \in Nat
      BY DEF Records
    <3> QED BY <3>1 DEF Custody, Placed
  <2>3. \A k \in 1 .. Len(resCh) : resCh[k] # nextEmit
    BY <1>1, <2>2
  <2>4. \A k \in 1 .. Len(resCh) :
           resCh[k] \in ok /\ resCh[k] \notin ordered' /\ resCh[k] >= nextEmit'
    BY <1>1, <1>2, <2>2, <2>3
  <2>5. \A i \in ordered' : i \in ok /\ i >= nextEmit'
    BY <1>1, <1>2 DEF Custody, Placed, Records
  <2>6. \A i \in 0 .. nextEmit' - 1 : i \in ok
    BY <1>1, <1>2 DEF Custody, Placed
  <2> QED BY <1>1, <2>1, <2>4, <2>5, <2>6 DEF Custody, Placed
<1>5. Found'
  <2>1. ordered \cup 0 .. nextEmit - 1 \subseteq ordered' \cup 0 .. nextEmit' - 1
    BY <1>1, <1>2
  <2> QED BY <1>1, <2>1 DEF Custody, Found
<1>6. Accounted'
  BY <1>1 DEF Custody, Accounted, JobsDone
<1>7. Written'
  <2>1. out = [k \in 1 .. nextEmit |-> k - 1]
    BY DEF Custody, Written
  <2>2. Append(out, nextEmit) = [k \in 1 .. nextEmit + 1 |-> k - 1]
    BY <1>2, <2>1
  <2> QED BY <1>1, <2>2 DEF Written
<1> QED BY <1>3, <1>4, <1>5, <1>6, <1>7 DEF Custody

LEMMA CustodyStep == TypeInv /\ Custody /\ [Next]_vars => Custody'
<1> SUFFICES ASSUME TypeInv, Custody, [Next]_vars PROVE Custody'
  OBVIOUS
<1>1. CASE Producer
  BY <1>1, CustodyKept DEF Producer, custodyVars, JobsDone, workerVars, jobVars, answerVars, sinkVars
<1>2. ASSUME NEW w \in Workers, Worker(w) PROVE Custody'
  <2>0. UNCHANGED <<sinkVars, callerDone>>
    BY <1>2 DEF Worker
  <2>1. CASE Move(w)
    <3>1. UNCHANGED <<wrec, taken, resCh, ordered, nextEmit, out, ok, failed, callerDone, jobsCancel>>
      BY <2>0, <2>1 DEF Move, jobVars, sinkVars, answerVars
    <3>2. \E to \in {"take", "gate", "wait", "call", "count", "report", "exit"} :
             /\ GoTo(w, to)
             /\ to \in Hands => wpc[w] \in Hands
             /\ wpc[w] \in Hands => to \in Hands \/ JobsDone
             /\ wpc[w] # "send"
      <4>1. CASE AcquireSlot(w) BY <4>1 DEF AcquireSlot, Hands
      <4>2. CASE AcquireCancelled(w) BY <4>2 DEF AcquireCancelled, Hands
      <4>3. CASE JobsDrained(w) BY <4>3 DEF JobsDrained, Leave, Hands
      <4>4. CASE DropJob(w) BY <4>4 DEF DropJob, Leave, Hands
      <4>5. CASE PassGate(w) BY <4>5 DEF PassGate, Hands
      <4>6. CASE RateTick(w) BY <4>6 DEF RateTick, Hands
      <4> QED BY <2>1, <4>1, <4>2, <4>3, <4>4, <4>5, <4>6 DEF Move
    <3> QED BY <3>1, <3>2, CustodyMoved
  <2>2. CASE TakeJob(w)
    BY <2>0, <2>2, TakeJobCustody
  <2>3. CASE CallSucceeds(w) \/ CallFails(w)
    BY <2>0, <2>3, CallCustody
  <2>4. CASE SendResult(w)
    BY <2>0, <2>4, SendCustody
  <2>5. CASE CountResult(w)
    BY <2>0, <2>5, CustodyMoved DEF CountResult, Hands, jobVars, sinkVars, answerVars
  <2>6. CASE ReportProgress(w)
    BY <2>0, <2>6, CustodyMoved DEF ReportProgress, Hands, jobVars, sinkVars, answerVars
  <2> QED BY <1>2, <2>1, <2>2, <2>3, <2>4, <2>5, <2>6 DEF Worker
<1>3. CASE Collector
  <2>0. UNCHANGED <<workerVars, callerDone>>
    BY <1>3 DEF Collector
  <2>1. CASE ReceiveResult
    BY <2>0, <2>1, ReceiveCustody
  <2>2. CASE EmitRecord
    BY <2>0, <2>2, EmitCustody
  <2>3. CASE EmitFails \/ EmitNothingReady \/ ResultsDrained
    BY <2>0, <2>3, CustodyKept
       DEF EmitFails, EmitNothingReady, ResultsDrained, custodyVars, JobsDone, workerVars, jobVars, answerVars
  <2> QED BY <1>3, <2>1, <2>2, <2>3 DEF Collector
<1>4. CASE Return
  BY <1>4, CustodyKept DEF Return, custodyVars, JobsDone, workerVars, jobVars, answerVars
<1>5. CASE CallerCancels
  BY <1>5, CustodyKept DEF CallerCancels, custodyVars, JobsDone, workerVars, jobVars, answerVars, sinkVars
<1>6. CASE Foreign
  BY <1>6, CustodyKept DEF Foreign, custodyVars, JobsDone, jobVars, answerVars, sinkVars
<1>7. CASE Finished \/ UNCHANGED vars
  BY <1>7, CustodyKept DEF Finished, vars, custodyVars, JobsDone, workerVars, jobVars, answerVars, sinkVars
<1> QED BY <1>1, <1>2, <1>3, <1>4, <1>5, <1>6, <1>7 DEF Next

LEMMA CustodyInvariant == Spec => [](TypeInv /\ Custody)
<1>1. Init => TypeInv /\ Custody
  BY TypeInit, CustodyInit
<1>2. TypeInv /\ Custody /\ [Next]_vars => TypeInv' /\ Custody'
  BY TypeStep, CustodyStep
<1> QED BY <1>1, <1>2, PTL DEF Spec

(* The output is the input order without a gap and holds only answered     *)
(* records, whatever the workers' interleaving, the faults and the sizes.  *)
THEOREM OutputOrdered == Spec => []OutputInOrder
<1>1. TypeInv /\ Custody => OutputInOrder
  <2> SUFFICES ASSUME TypeInv, Custody PROVE OutputInOrder
    OBVIOUS
  <2>1. out = [k \in 1 .. nextEmit |-> k - 1] /\ nextEmit \in Nat
    BY DEF Custody, Written, TypeInv, TypeOK
  <2>2. \A k \in DOMAIN out : out[k] \in 0 .. nextEmit - 1
    BY <2>1
  <2>3. \A i \in 0 .. nextEmit - 1 : i \in ok \ failed
    BY DEF Custody, Placed, Owned
  <2> QED BY <2>1, <2>2, <2>3 DEF OutputInOrder
<1> QED BY <1>1, CustodyInvariant, PTL

(* No record is in two hands, two channel places or two map entries, so    *)
(* none is asked of the model or written twice.                            *)
THEOREM NoneDuplicated == Spec => []SingleCustody
<1>1. TypeInv /\ Custody => SingleCustody
  <2> SUFFICES ASSUME TypeInv, Custody PROVE SingleCustody
    OBVIOUS
  <2> USE DEF At, Hands
  <2>0. DOMAIN resCh = 1 .. Len(resCh) /\ nextEmit \in Nat
    BY DEF TypeInv, TypeOK
  <2>1. \A v, w \in At({"gate", "wait", "call", "send"}) : wrec[v] = wrec[w] => v = w
    BY DEF Custody, Owned
  <2>2. \A j, k \in DOMAIN resCh : resCh[j] = resCh[k] => j = k
    BY <2>0 DEF Custody, Placed
  <2>3. InHand \cap (ok \cup failed) = {}
    BY DEF Custody, Owned, InHand
  <2>4. Sending \cap Arrived = {}
    <3> SUFFICES ASSUME NEW i \in Sending, i \in Arrived PROVE FALSE
      OBVIOUS
    <3>1. PICK w \in Workers : wpc[w] = "send" /\ wrec[w] = i
      BY DEF Sending
    <3>2. /\ i \notin ordered /\ i >= nextEmit
          /\ \A k \in 1 .. Len(resCh) : resCh[k] # i
      BY <3>1 DEF Custody, Placed
    <3> QED BY <2>0, <3>2 DEF Arrived
  <2>5. \A k \in DOMAIN resCh : resCh[k] \notin ordered \cup 0 .. nextEmit - 1
    BY <2>0 DEF Custody, Placed
  <2>6. ordered \cap 0 .. nextEmit - 1 = {}
    BY <2>0 DEF Custody, Placed
  <2> QED BY <2>1, <2>2, <2>3, <2>4, <2>5, <2>6 DEF SingleCustody
<1> QED BY <1>1, CustodyInvariant, PTL

(* No answer is lost even when the run is cancelled, and no taken record   *)
(* is forgotten as long as it is not.                                      *)
THEOREM NoneLost == Spec => []NothingLost
<1>1. TypeInv /\ Custody => NothingLost
  <2> SUFFICES ASSUME TypeInv, Custody PROVE NothingLost
    OBVIOUS
  <2> USE DEF At, Hands
  <2>0. DOMAIN resCh = 1 .. Len(resCh)
    BY DEF TypeInv, TypeOK
  <2>1. Sending \cup Arrived \subseteq ok
    BY <2>0 DEF Custody, Placed, Sending, Arrived
  <2>2. ok \subseteq Sending \cup Arrived
    BY <2>0 DEF Custody, Found, Sending, Arrived
  <2>3. InHand \cup ok \cup failed \subseteq 0 .. taken - 1
    BY DEF Custody, Owned, TypeInv, Taken, InHand
  <2>4. ~JobsDone => 0 .. taken - 1 \subseteq InHand \cup ok \cup failed
    BY DEF Custody, Accounted, InHand
  <2> QED BY <2>1, <2>2, <2>3, <2>4 DEF NothingLost
<1> QED BY <1>1, CustodyInvariant, PTL

(* Every record is accounted for, and once: for every interleaving, fault  *)
(* and size.                                                               *)
THEOREM RecordsAccounted == Spec => []AllAccounted
<1>1. SingleCustody /\ NothingLost => AllAccounted
  BY DEF AllAccounted
<1> QED BY <1>1, NoneDuplicated, NoneLost, PTL

-----------------------------------------------------------------------------
(* How a run ends: who stopped, and what the recorded errors say of it.    *)

Endings ==
    /\ coll = "done" => resCh = <<>> /\ \A w \in Workers : wpc[w] = "exit"
    /\ coll # "emit" /\ ~deliverErr => nextEmit \notin ordered
    /\ jobsCancel <=> deliverErr \/ firstErr
    /\ prod = "done" /\ ~readErr /\ ~callerDone => sent = NRec
    /\ ~JobsDone /\ (\E w \in Workers : wpc[w] = "exit") => prod = "done" /\ taken = sent
    /\ failed # {} /\ ~continueOnError => firstErr
    /\ outcome # "none" => coll = "done" /\ prod = "done"
    /\ outcome = "ok" => ~readErr /\ ~deliverErr /\ ~firstErr

LEMMA EndingsInit == Init => Endings
<1> SUFFICES ASSUME Init PROVE Endings
  OBVIOUS
<1> QED BY DEF Init, Endings, JobsDone

LEMMA EndingsStep == TypeInv /\ Endings /\ [Next]_vars => Endings'
<1> SUFFICES ASSUME TypeInv, Endings, [Next]_vars PROVE Endings'
  OBVIOUS
<1> USE DEF TypeInv, TypeOK, JobsDone
<1>1. CASE Producer
  <2> USE DEF Endings, workerVars, jobVars, slotVars, answerVars, progressVars, sinkVars
  <2>1. CASE ReadRecord BY <1>1, <2>1 DEF Producer, ReadRecord
  <2>2. CASE ReadEOF BY <1>1, <2>2 DEF Producer, ReadEOF
  <2>3. CASE ReadFails BY <1>1, <2>3 DEF Producer, ReadFails
  <2>4. CASE SendJob BY <1>1, <2>4 DEF Producer, SendJob
  <2>5. CASE SendAbandoned BY <1>1, <2>5 DEF Producer, SendAbandoned
  <2> QED BY <1>1, <2>1, <2>2, <2>3, <2>4, <2>5 DEF Producer
<1>2. ASSUME NEW w \in Workers, Worker(w) PROVE Endings'
  <2>0. /\ UNCHANGED <<continueOnError, prod, sent, readErr, callerDone, outcome>>
        /\ UNCHANGED <<ordered, nextEmit, coll, deliverErr>>
    BY <1>2 DEF Worker, producerVars, sinkVars
  <2>1. CASE Move(w)
    <3>1. UNCHANGED <<taken, firstErr, failed, resCh, jobsCancel>>
      BY <2>1 DEF Move, jobVars, answerVars
    <3>2. /\ wpc[w] # "exit"
          /\ \A v \in Workers : v # w => wpc'[v] = wpc[v]
          /\ wpc'[w] = "exit" => JobsDone \/ (prod = "done" /\ taken = sent)
      <4>1. PICK to \in WorkerStates :
               /\ GoTo(w, to) /\ wpc[w] # "exit"
               /\ to = "exit" => JobsDone \/ (prod = "done" /\ taken = sent)
        <5> HIDE DEF TypeInv, TypeOK
        <5> USE DEF WorkerStates
        <5>1. CASE AcquireSlot(w) BY <5>1 DEF AcquireSlot
        <5>2. CASE AcquireCancelled(w) BY <5>2 DEF AcquireCancelled
        <5>3. CASE JobsDrained(w) BY <5>3 DEF JobsDrained, Leave
        <5>4. CASE DropJob(w) BY <5>4 DEF DropJob, Leave
        <5>5. CASE PassGate(w) BY <5>5 DEF PassGate
        <5>6. CASE RateTick(w) BY <5>6 DEF RateTick
        <5> QED BY <2>1, <5>1, <5>2, <5>3, <5>4, <5>5, <5>6 DEF Move
      <4> QED BY <4>1 DEF GoTo
    <3> QED BY <2>0, <3>1, <3>2 DEF Endings
  <2>2. CASE TakeJob(w)
    BY <2>0, <2>2 DEF TakeJob, Claim, GoTo, answerVars, Endings
  <2>3. CASE CallSucceeds(w)
    BY <2>0, <2>3 DEF CallSucceeds, GoTo, jobVars, Endings
  <2>4. CASE CallFails(w)
    <3>1. /\ UNCHANGED <<taken, resCh>> /\ failed' # {} /\ wpc[w] = "call"
          /\ \A v \in Workers : v # w => wpc'[v] = wpc[v]
      BY <2>4 DEF CallFails, GoTo, Leave, jobVars
    <3>2. \/ continueOnError /\ wpc'[w] = "take" /\ UNCHANGED <<firstErr, jobsCancel>>
          \/ ~continueOnError /\ firstErr' = TRUE /\ jobsCancel' = IF firstErr THEN jobsCancel ELSE TRUE
      BY <2>4 DEF CallFails, GoTo, Leave
    <3>3. CASE continueOnError /\ wpc'[w] = "take" /\ UNCHANGED <<firstErr, jobsCancel>>
      BY <2>0, <3>1, <3>3 DEF Endings
    <3>4. CASE ~continueOnError /\ firstErr' = TRUE /\ jobsCancel' = IF firstErr THEN jobsCancel ELSE TRUE
      BY <2>0, <3>1, <3>4 DEF Endings
    <3> QED BY <3>2, <3>3, <3>4
  <2>5. CASE SendResult(w)
    BY <2>0, <2>5 DEF SendResult, GoTo, jobVars, answerVars, Endings
  <2>6. CASE CountResult(w)
    BY <2>0, <2>6 DEF CountResult, GoTo, jobVars, answerVars, Endings
  <2>7. CASE ReportProgress(w)
    BY <2>0, <2>7 DEF ReportProgress, GoTo, jobVars, answerVars, Endings
  <2> QED BY <1>2, <2>1, <2>2, <2>3, <2>4, <2>5, <2>6, <2>7 DEF Worker
<1>3. CASE Collector
  <2>0. UNCHANGED <<continueOnError, prod, sent, readErr, wpc, taken, firstErr, failed, callerDone, outcome>>
    BY <1>3 DEF Collector, producerVars, workerVars, jobVars, answerVars
  <2>1. CASE ReceiveResult BY <2>0, <2>1 DEF ReceiveResult, Endings
  <2>2. CASE EmitRecord BY <2>0, <2>2 DEF EmitRecord, Endings
  <2>3. CASE EmitFails BY <2>0, <2>3 DEF EmitFails, Endings
  <2>4. CASE EmitNothingReady BY <2>0, <2>4 DEF EmitNothingReady, Endings
  <2>5. CASE ResultsDrained BY <2>0, <2>5 DEF ResultsDrained, Endings
  <2> QED BY <1>3, <2>1, <2>2, <2>3, <2>4, <2>5 DEF Collector
<1>4. CASE Return
  BY <1>4 DEF Return, Endings, producerVars, workerVars, jobVars, answerVars
<1>5. CASE CallerCancels
  BY <1>5 DEF CallerCancels, Endings, producerVars, workerVars, jobVars, answerVars, sinkVars
<1>6. CASE Foreign
  BY <1>6 DEF Foreign, Endings, producerVars, jobVars, answerVars, sinkVars
<1>7. CASE Finished \/ UNCHANGED vars
  BY <1>7 DEF Finished, vars, Endings, producerVars, workerVars, jobVars, answerVars, sinkVars
<1> QED BY <1>1, <1>2, <1>3, <1>4, <1>5, <1>6, <1>7 DEF Next

PipelineInv == TypeInv /\ Custody /\ Endings

LEMMA PipelineInvariant == Spec => []PipelineInv
<1>1. Init => PipelineInv
  BY TypeInit, CustodyInit, EndingsInit DEF PipelineInv
<1>2. PipelineInv /\ [Next]_vars => PipelineInv'
  BY TypeStep, CustodyStep, EndingsStep DEF PipelineInv
<1> QED BY <1>1, <1>2, PTL DEF Spec

(* When everything is drained nothing deliverable is left, and unless the  *)
(* workers were stopped every record has been worked on.                   *)
LEMMA Drained ==
  ASSUME PipelineInv, coll = "done", prod = "done", ~readErr, ~deliverErr, ~firstErr
  PROVE  /\ nextEmit \notin ok
         /\ ~callerDone => ok \cup failed = Records /\ nextEmit \in failed \cup {NRec}
<1> USE PipelineAssumption DEF PipelineInv, TypeInv, TypeOK
<1>1. resCh = <<>> /\ nextEmit \notin ordered /\ \A w \in Workers : wpc[w] = "exit"
  BY DEF Endings
<1>2. nextEmit \notin ok
  <2>1. \A w \in Workers : wpc[w] # "send"
    BY <1>1
  <2>2. nextEmit \notin ordered \cup 0 .. nextEmit - 1 /\ 1 .. Len(resCh) = {}
    BY <1>1
  <2> QED BY <2>1, <2>2 DEF Custody, Found
<1>3. ASSUME ~callerDone
      PROVE  ok \cup failed = Records /\ nextEmit \in failed \cup {NRec}
  <2>1. taken = NRec
    <3>1. ~JobsDone /\ \E w \in Workers : wpc[w] = "exit"
      BY <1>1, <1>3 DEF Endings, JobsDone
    <3> QED BY <1>3, <3>1 DEF Endings
  <2>2. ok \cup failed = Records
    <3>1. \A i \in 0 .. NRec - 1 : i \in ok \cup failed
      BY <1>1, <1>3, <2>1 DEF Custody, Accounted, JobsDone, Endings, Hands
    <3> QED BY <3>1 DEF Records
  <2>3. nextEmit <= NRec
    <3>1. CASE nextEmit # 0
      <4>1. nextEmit \in Nat /\ NRec \in Nat /\ nextEmit - 1 \in 0 .. nextEmit - 1
        BY <3>1
      <4>2. nextEmit - 1 \in Records
        BY <4>1 DEF Custody, Placed
      <4> HIDE DEF PipelineInv, TypeInv, TypeOK
      <4> QED BY <4>1, <4>2 DEF Records
    <3> QED BY <3>1
  <2>4. nextEmit = NRec \/ nextEmit \in Records
    BY <2>3 DEF Records
  <2> QED BY <1>2, <2>2, <2>4
<1> QED BY <1>2, <1>3

(* "ok" means that nothing failed unnoticed: for every input, pool size    *)
(* and fault.                                                              *)
THEOREM OkIsOk == Spec => []OkVerdict
<1>1. PipelineInv => OkVerdict
  <2> SUFFICES ASSUME PipelineInv, outcome = "ok" PROVE OkVerdict
    BY DEF OkVerdict
  <2>1. coll = "done" /\ prod = "done" /\ ~readErr /\ ~deliverErr /\ ~firstErr
    BY DEF PipelineInv, Endings
  <2>2. continueOnError \/ failed = {}
    BY <2>1 DEF PipelineInv, Endings
  <2> QED BY <2>1, <2>2, Drained DEF OkVerdict
<1> QED BY <1>1, PipelineInvariant, PTL

-----------------------------------------------------------------------------
(* The limiter.  The workers between acquire and return hold one slot each.*)

Holders == Workers \ At({"start", "exit"})

SlotInv == used = foreign + Cardinality(Holders) /\ used <= Slots

LEMMA HoldersFinite == IsFiniteSet(Holders)
BY FS_Subset, PipelineAssumption DEF Holders

LEMMA SlotInit == Init => SlotInv
<1> SUFFICES ASSUME Init PROVE SlotInv
  OBVIOUS
<1>1. Holders = {}
  BY DEF Init, Holders, At
<1> QED BY <1>1, FS_EmptySet, PipelineAssumption DEF Init, SlotInv

(* A worker enters by AcquireSlot and leaves by Leave; in between and on   *)
(* the cancelled acquire it moves without touching the limiter.            *)
LEMMA SlotMoved ==
  ASSUME TypeInv, TypeInv', SlotInv, NEW w \in Workers, NEW to \in WorkerStates, GoTo(w, to),
         foreign' = foreign,
         \/ wpc[w] = "start" /\ to = "take" /\ used' = used + 1 /\ used < Slots
         \/ wpc[w] \notin {"start", "exit"} /\ to = "exit" /\ used' = used - 1
         \/ wpc[w] = "start" /\ to = "exit" /\ used' = used
         \/ wpc[w] \notin {"start", "exit"} /\ to \notin {"start", "exit"} /\ used' = used
  PROVE  SlotInv'
<1>1. wpc' = [wpc EXCEPT ![w] = to] /\ wpc \in [Workers -> WorkerStates]
      /\ used \in Int /\ foreign \in Int /\ Slots \in Int
  BY PipelineAssumption DEF GoTo, TypeInv, TypeOK
<1>2. Cardinality(Holders) \in Nat
  BY HoldersFinite, FS_CardinalityType
<1>3. CASE wpc[w] = "start" /\ to = "take" /\ used' = used + 1 /\ used < Slots
  <2>1. Holders' = Holders \cup {w} /\ w \notin Holders
    BY <1>1, <1>3 DEF Holders, At
  <2>2. Cardinality(Holders') = Cardinality(Holders) + 1
    BY <2>1, HoldersFinite, FS_AddElement
  <2> QED BY <1>1, <1>2, <1>3, <2>2 DEF SlotInv
<1>4. CASE wpc[w] \notin {"start", "exit"} /\ to = "exit" /\ used' = used - 1
  <2>1. Holders' = Holders \ {w} /\ w \in Holders
    BY <1>1, <1>4 DEF Holders, At
  <2>2. Cardinality(Holders') = Cardinality(Holders) - 1
    BY <2>1, HoldersFinite, FS_RemoveElement
  <2> QED BY <1>1, <1>2, <1>4, <2>2 DEF SlotInv
<1>5. CASE \/ wpc[w] = "start" /\ to = "exit" /\ used' = used
           \/ wpc[w] \notin {"start", "exit"} /\ to \notin {"start", "exit"} /\ used' = used
  <2>1. Holders' = Holders
    BY <1>1, <1>5 DEF Holders, At
  <2> QED BY <1>5, <2>1 DEF SlotInv
<1> QED BY <1>3, <1>4, <1>5

LEMMA SlotKept ==
  ASSUME SlotInv, UNCHANGED <<wpc, slotVars>>
  PROVE  SlotInv'
BY DEF SlotInv, Holders, At, slotVars

LEMMA SlotStep == TypeInv /\ SlotInv /\ [Next]_vars => SlotInv'
<1> SUFFICES ASSUME TypeInv, SlotInv, [Next]_vars PROVE SlotInv'
  OBVIOUS
<1>0. TypeInv'
  BY TypeStep
<1>1. CASE Producer
  BY <1>1, SlotKept DEF Producer, workerVars
<1>2. ASSUME NEW w \in Workers, Worker(w) PROVE SlotInv'
  <2> USE DEF WorkerStates
  <2>1. CASE Move(w)
    <3>1. foreign' = foreign
      BY <2>1 DEF Move
    <3>2. CASE AcquireSlot(w)
      BY <1>0, <3>1, <3>2, SlotMoved DEF AcquireSlot
    <3>3. CASE AcquireCancelled(w)
      BY <1>0, <3>1, <3>3, SlotMoved DEF AcquireCancelled
    <3>4. CASE JobsDrained(w)
      BY <1>0, <3>1, <3>4, SlotMoved DEF JobsDrained, Leave
    <3>5. CASE DropJob(w)
      BY <1>0, <3>1, <3>5, SlotMoved DEF DropJob, Leave
    <3>6. CASE PassGate(w)
      BY <1>0, <3>1, <3>6, SlotMoved DEF PassGate
    <3>7. CASE RateTick(w)
      BY <1>0, <3>1, <3>7, SlotMoved DEF RateTick
    <3> QED BY <2>1, <3>2, <3>3, <3>4, <3>5, <3>6, <3>7 DEF Move
  <2>2. CASE TakeJob(w)
    BY <1>0, <2>2, SlotMoved DEF TakeJob, Claim, slotVars
  <2>3. CASE CallSucceeds(w)
    BY <1>0, <2>3, SlotMoved DEF CallSucceeds, slotVars
  <2>4. CASE CallFails(w)
    <3>1. /\ wpc[w] = "call" /\ foreign' = foreign
          /\ \/ GoTo(w, "take") /\ used' = used
             \/ GoTo(w, "exit") /\ used' = used - 1
      BY <2>4 DEF CallFails, Leave
    <3> QED BY <1>0, <3>1, SlotMoved
  <2>5. CASE SendResult(w)
    BY <1>0, <2>5, SlotMoved DEF SendResult, slotVars
  <2>6. CASE CountResult(w)
    BY <1>0, <2>6, SlotMoved DEF CountResult, slotVars
  <2>7. CASE ReportProgress(w)
    BY <1>0, <2>7, SlotMoved DEF ReportProgress, slotVars
  <2> QED BY <1>2, <2>1, <2>2, <2>3, <2>4, <2>5, <2>6, <2>7 DEF Worker
<1>3. CASE Collector
  BY <1>3, SlotKept DEF Collector, workerVars
<1>4. CASE Return
  BY <1>4, SlotKept DEF Return, workerVars
<1>5. CASE CallerCancels
  BY <1>5, SlotKept DEF CallerCancels, workerVars
<1>6. CASE Foreign
  <2>1. /\ \/ used' = used + 1 /\ foreign' = foreign + 1 /\ used < Slots
           \/ used' = used - 1 /\ foreign' = foreign - 1
        /\ wpc' = wpc
    BY <1>6 DEF Foreign, ForeignAcquires, ForeignReleases
  <2>2. Holders' = Holders /\ Cardinality(Holders) \in Nat
    BY <2>1, HoldersFinite, FS_CardinalityType DEF Holders, At
  <2>3. used \in Int /\ foreign \in Int /\ Slots \in Int
    BY PipelineAssumption DEF TypeInv, TypeOK
  <2> QED BY <2>1, <2>2, <2>3 DEF SlotInv
<1>7. CASE Finished \/ UNCHANGED vars
  BY <1>7, SlotKept DEF Finished, vars, workerVars
<1> QED BY <1>1, <1>2, <1>3, <1>4, <1>5, <1>6, <1>7 DEF Next

(* LLMFLOW_MAX_WORKERS bounds the workers of all jobs together: no exit    *)
(* path keeps a slot or gives one back twice.                              *)
THEOREM SlotsAccounted == Spec => []SlotAccounting
<1>1. Init => TypeInv /\ SlotInv
  BY TypeInit, SlotInit
<1>2. TypeInv /\ SlotInv /\ [Next]_vars => TypeInv' /\ SlotInv'
  BY TypeStep, SlotStep
<1>3. SlotInv => SlotAccounting
  BY DEF SlotInv, SlotAccounting, Holders
<1> QED BY <1>1, <1>2, <1>3, PTL DEF Spec

(* Run leaves nothing behind: no goroutine, no unread answer, no slot.     *)
THEOREM ReturnsQuiescent == Spec => []QuiescentReturn
<1>1. PipelineInv /\ SlotAccounting => QuiescentReturn
  <2> SUFFICES ASSUME PipelineInv, SlotAccounting, outcome # "none"
               PROVE  prod = "done" /\ resCh = <<>> /\ At({"exit"}) = Workers /\ used = foreign
    BY DEF QuiescentReturn
  <2>1. prod = "done" /\ resCh = <<>> /\ \A w \in Workers : wpc[w] = "exit"
    BY DEF PipelineInv, Endings
  <2>2. At({"exit"}) = Workers /\ Workers \ At({"start", "exit"}) = {}
    BY <2>1 DEF At
  <2>3. Cardinality(Workers \ At({"start", "exit"})) = 0
    BY <2>2, FS_EmptySet
  <2> QED BY <2>1, <2>2, <2>3 DEF SlotAccounting, PipelineInv, TypeInv, TypeOK
<1> QED BY <1>1, PipelineInvariant, SlotsAccounted, PTL

-----------------------------------------------------------------------------
(* The progress counter.  It lags behind the answers by the workers that   *)
(* have an answer and have not counted it yet.                             *)

Uncounted == At({"send", "count"})

ProgressInv ==
    /\ processed = Cardinality(ok) - Cardinality(Uncounted)
    /\ shown <= processed
    /\ \A w \in Workers : wcur[w] <= processed

LEMMA ProgressFinite ==
  ASSUME TypeInv
  PROVE  /\ IsFiniteSet(ok) /\ Cardinality(ok) \in Nat
         /\ IsFiniteSet(Uncounted) /\ Cardinality(Uncounted) \in Nat
<1>1. IsFiniteSet(Records)
  BY FS_Interval, PipelineAssumption DEF Records
<1>2. IsFiniteSet(ok) /\ IsFiniteSet(Uncounted)
  BY <1>1, FS_Subset, PipelineAssumption DEF TypeInv, TypeOK, Uncounted, At
<1> QED BY <1>2, FS_CardinalityType

LEMMA ProgressInit == Init => ProgressInv
<1> SUFFICES ASSUME Init PROVE ProgressInv
  OBVIOUS
<1>1. Uncounted = {} /\ ok = {}
  BY DEF Init, Uncounted, At
<1> QED BY <1>1, FS_EmptySet DEF Init, ProgressInv

LEMMA ProgressKept ==
  ASSUME TypeInv, ProgressInv, UNCHANGED <<ok, progressVars>>,
         \A v \in Workers : wpc'[v] \in {"send", "count"} <=> wpc[v] \in {"send", "count"}
  PROVE  ProgressInv'
<1>1. Uncounted' = Uncounted
  BY DEF Uncounted, At
<1> QED BY <1>1 DEF ProgressInv, progressVars

LEMMA ProgressStep == TypeInv /\ Custody /\ ProgressInv /\ [Next]_vars => ProgressInv'
<1> SUFFICES ASSUME TypeInv, Custody, ProgressInv, [Next]_vars PROVE ProgressInv'
  OBVIOUS
<1>0. wpc \in [Workers -> WorkerStates] /\ processed \in Nat /\ shown \in Nat /\ wcur \in [Workers -> Nat]
  BY DEF TypeInv, TypeOK
<1>1. CASE Producer
  BY <1>1, ProgressKept DEF Producer, workerVars, answerVars
<1>2. ASSUME NEW w \in Workers, Worker(w) PROVE ProgressInv'
  <2>1. CASE Move(w)
    <3>1. UNCHANGED <<ok, progressVars>>
      BY <2>1 DEF Move, answerVars
    <3>2. \E to \in WorkerStates \ {"send", "count"} : GoTo(w, to) /\ wpc[w] \notin {"send", "count"}
      <4> USE DEF WorkerStates
      <4>1. CASE AcquireSlot(w) BY <4>1 DEF AcquireSlot
      <4>2. CASE AcquireCancelled(w) BY <4>2 DEF AcquireCancelled
      <4>3. CASE JobsDrained(w) BY <4>3 DEF JobsDrained, Leave
      <4>4. CASE DropJob(w) BY <4>4 DEF DropJob, Leave
      <4>5. CASE PassGate(w) BY <4>5 DEF PassGate
      <4>6. CASE RateTick(w) BY <4>6 DEF RateTick
      <4> QED BY <2>1, <4>1, <4>2, <4>3, <4>4, <4>5, <4>6 DEF Move
    <3> QED BY <1>0, <3>1, <3>2, ProgressKept DEF GoTo
  <2>2. CASE TakeJob(w)
    BY <1>0, <2>2, ProgressKept DEF TakeJob, Claim, GoTo, answerVars
  <2>3. CASE CallSucceeds(w)
    <3>1. /\ wpc' = [wpc EXCEPT ![w] = "send"] /\ wpc[w] = "call"
          /\ ok' = ok \cup {wrec[w]} /\ UNCHANGED progressVars
      BY <2>3 DEF CallSucceeds, GoTo
    <3>2. wrec[w] \notin ok
      BY <3>1 DEF Custody, Owned, Hands
    <3>3. Uncounted' = Uncounted \cup {w} /\ w \notin Uncounted
      BY <1>0, <3>1 DEF Uncounted, At
    <3>4. /\ Cardinality(ok') = Cardinality(ok) + 1
          /\ Cardinality(Uncounted') = Cardinality(Uncounted) + 1
      BY <3>1, <3>2, <3>3, ProgressFinite, FS_AddElement
    <3> QED BY <3>1, <3>4, ProgressFinite DEF ProgressInv, progressVars
  <2>4. CASE CallFails(w)
    <3>1. \E to \in {"take", "exit"} : wpc' = [wpc EXCEPT ![w] = to]
      BY <2>4 DEF CallFails, GoTo, Leave
    <3>2. UNCHANGED <<ok, progressVars>> /\ wpc[w] = "call"
      BY <2>4 DEF CallFails
    <3> QED BY <1>0, <3>1, <3>2, ProgressKept
  <2>5. CASE SendResult(w)
    BY <1>0, <2>5, ProgressKept DEF SendResult, GoTo, answerVars
  <2>6. CASE CountResult(w)
    <3>1. /\ wpc' = [wpc EXCEPT ![w] = "report"] /\ wpc[w] = "count"
          /\ processed' = processed + 1 /\ wcur' = [wcur EXCEPT ![w] = processed + 1]
          /\ UNCHANGED <<ok, shown>>
      BY <2>6 DEF CountResult, GoTo, answerVars
    <3>2. Uncounted' = Uncounted \ {w} /\ w \in Uncounted
      BY <1>0, <3>1 DEF Uncounted, At
    <3>3. Cardinality(Uncounted') = Cardinality(Uncounted) - 1
      BY <3>2, ProgressFinite, FS_RemoveElement
    <3>4. \A v \in Workers : wcur'[v] <= processed + 1
      BY <1>0, <3>1 DEF ProgressInv
    <3> QED BY <1>0, <3>1, <3>3, <3>4, ProgressFinite DEF ProgressInv
  <2>7. CASE ReportProgress(w)
    <3>1. /\ wpc' = [wpc EXCEPT ![w] = "take"] /\ wpc[w] = "report"
          /\ shown' = wcur[w] /\ UNCHANGED <<ok, processed, wcur>>
      BY <2>7 DEF ReportProgress, GoTo, answerVars
    <3>2. Uncounted' = Uncounted
      BY <1>0, <3>1 DEF Uncounted, At
    <3> QED BY <3>1, <3>2 DEF ProgressInv
  <2> QED BY <1>2, <2>1, <2>2, <2>3, <2>4, <2>5, <2>6, <2>7 DEF Worker
<1>3. CASE Collector
  BY <1>3, ProgressKept DEF Collector, workerVars, answerVars
<1>4. CASE Return
  BY <1>4, ProgressKept DEF Return, workerVars, answerVars
<1>5. CASE CallerCancels
  BY <1>5, ProgressKept DEF CallerCancels, workerVars, answerVars
<1>6. CASE Foreign
  BY <1>6, ProgressKept DEF Foreign, answerVars
<1>7. CASE Finished \/ UNCHANGED vars
  BY <1>7, ProgressKept DEF Finished, vars, workerVars, answerVars
<1> QED BY <1>1, <1>2, <1>3, <1>4, <1>5, <1>6, <1>7 DEF Next

(* Every answer is counted once, and the display never shows more records  *)
(* than were answered, however the callbacks overtake each other.          *)
THEOREM ProgressAccounted == Spec => []ProgressAccounting
<1>1. Init => TypeInv /\ Custody /\ ProgressInv
  BY TypeInit, CustodyInit, ProgressInit
<1>2. TypeInv /\ Custody /\ ProgressInv /\ [Next]_vars => TypeInv' /\ Custody' /\ ProgressInv'
  BY TypeStep, CustodyStep, ProgressStep
<1>3. ProgressInv => ProgressAccounting
  BY DEF ProgressInv, ProgressAccounting, Uncounted
<1> QED BY <1>1, <1>2, <1>3, PTL DEF Spec

-----------------------------------------------------------------------------
(* The detailed pipeline implements the promise.                           *)

LEMMA DeliveryInit == Init => Delivery!Init
BY DEF Init, Delivery!Init

LEMMA DeliveryStep ==
  PipelineInv /\ PipelineInv' /\ [Next]_vars => [Delivery!Next]_Delivery!vars
<1> SUFFICES ASSUME PipelineInv, PipelineInv', [Next]_vars
             PROVE  [Delivery!Next]_Delivery!vars
  OBVIOUS
<1> USE DEF Delivery!vars
<1>0. ASSUME UNCHANGED <<ok, failed, out, callerDone, outcome>>
      PROVE  [Delivery!Next]_Delivery!vars
  BY <1>0
<1>1. CASE Producer
  BY <1>0, <1>1 DEF Producer, workerVars, answerVars, sinkVars
<1>2. ASSUME NEW w \in Workers, Worker(w) PROVE [Delivery!Next]_Delivery!vars
  <2>0. UNCHANGED <<out, callerDone, outcome>>
    BY <1>2 DEF Worker, sinkVars
  <2>1. CASE CallSucceeds(w) \/ CallFails(w)
    <3>1. outcome = "none"
      BY <2>1 DEF CallSucceeds, CallFails, PipelineInv, Endings, TypeInv, TypeOK
    <3>2. ok \subseteq ok' /\ failed \subseteq failed'
      BY <2>1 DEF CallSucceeds, CallFails
    <3>3. ok' \subseteq Records /\ failed' \subseteq Records /\ ok' \cap failed' = {}
      BY DEF PipelineInv, TypeInv, TypeOK, Custody, Owned
    <3>4. Delivery!Resolve
      BY <2>0, <3>1, <3>2, <3>3 DEF Delivery!Resolve, Delivery!Records, Records
    <3> QED BY <3>4 DEF Delivery!Next
  <2>2. CASE Move(w) \/ TakeJob(w) \/ SendResult(w) \/ CountResult(w) \/ ReportProgress(w)
    <3>1. UNCHANGED <<ok, failed>>
      BY <2>2 DEF Move, TakeJob, Claim, SendResult, CountResult, ReportProgress, answerVars
    <3> QED BY <1>0, <2>0, <3>1
  <2> QED BY <1>2, <2>1, <2>2 DEF Worker
<1>3. CASE Collector
  <2>0. UNCHANGED <<ok, failed, callerDone, outcome>>
    BY <1>3 DEF Collector, workerVars, answerVars
  <2>1. CASE EmitRecord
    <3>1. coll = "emit" /\ nextEmit \in ordered /\ out' = Append(out, nextEmit)
      BY <2>1 DEF EmitRecord
    <3>2. outcome = "none"
      BY <3>1 DEF PipelineInv, Endings
    <3>3. Len(out) = nextEmit
      BY DEF PipelineInv, Custody, Written, TypeInv, TypeOK
    <3>4. nextEmit \in ok
      BY <3>1 DEF PipelineInv, Custody, Placed
    <3>5. Delivery!Deliver
      BY <2>0, <3>1, <3>2, <3>3, <3>4 DEF Delivery!Deliver
    <3> QED BY <3>5 DEF Delivery!Next
  <2>2. CASE ReceiveResult \/ EmitFails \/ EmitNothingReady \/ ResultsDrained
    <3>1. out' = out
      BY <2>2 DEF ReceiveResult, EmitFails, EmitNothingReady, ResultsDrained
    <3> QED BY <1>0, <2>0, <3>1
  <2> QED BY <1>3, <2>1, <2>2 DEF Collector
<1>4. CASE Return
  <2>1. /\ outcome = "none" /\ coll = "done" /\ prod = "done"
        /\ UNCHANGED <<ok, failed, out, callerDone>>
    BY <1>4 DEF Return, workerVars, answerVars
  <2>2. outcome' \in {"ok", "read", "write", "call"}
    BY <1>4 DEF Return
  <2>3. CASE outcome' = "ok"
    <3>1. ~readErr /\ ~deliverErr /\ ~firstErr
      BY <1>4, <2>3 DEF Return
    <3>2. Len(out) = nextEmit
      BY DEF PipelineInv, Custody, Written, TypeInv, TypeOK
    <3>3. nextEmit \notin ok /\ (~callerDone => ok \cup failed = Records)
      BY <2>1, <3>1, Drained
    <3>4. Delivery!Conclude("ok")
      BY <2>1, <2>3, <3>2, <3>3 DEF Delivery!Conclude, Delivery!Records, Records
    <3> QED BY <3>4 DEF Delivery!Next
  <2>4. CASE outcome' # "ok"
    <3>1. Delivery!Conclude("error")
      BY <2>1, <2>2, <2>4 DEF Delivery!Conclude
    <3> QED BY <3>1 DEF Delivery!Next
  <2> QED BY <2>3, <2>4
<1>5. CASE CallerCancels
  <2>1. Delivery!Interrupt
    BY <1>5 DEF CallerCancels, Delivery!Interrupt, workerVars, answerVars, sinkVars
  <2> QED BY <2>1 DEF Delivery!Next
<1>6. CASE Foreign
  BY <1>0, <1>6 DEF Foreign, answerVars, sinkVars
<1>7. CASE Finished \/ UNCHANGED vars
  BY <1>0, <1>7 DEF Finished, vars, workerVars, answerVars, sinkVars
<1> QED BY <1>1, <1>2, <1>3, <1>4, <1>5, <1>6, <1>7 DEF Next

(* Goroutines, channels and the limiter are invisible from outside: a run  *)
(* delivers in input order, skips nothing, and ends with a true verdict.   *)
THEOREM ImplementsOrderedDelivery == Spec => ImplementsDelivery
<1> QED BY DeliveryInit, DeliveryStep, PipelineInvariant, PTL DEF Spec, ImplementsDelivery, Delivery!Spec
=============================================================================
