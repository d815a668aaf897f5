--------------------------- MODULE ModelCallProofs ---------------------------
(***************************************************************************)
(* ModelCall for every number of attempts, rounds and tool calls, every    *)
(* Retry-After and every set of settings.                                  *)
(***************************************************************************)
EXTENDS ModelCall, SequenceTheorems, FiniteSetTheorems, TLAPS

Message == [role : {"system", "user", "assistant", "tool"}, ids : Seq(Nat)]

Types == TypeOK /\ msgs \in Seq(Message)

(* Call k of the assistant's message i has its result in its place.        *)
Told(i, k) == i + k \in DOMAIN msgs /\ msgs[i + k] = Msg("tool", <<msgs[i].ids[k]>>)

Complete(i) == \A k \in DOMAIN msgs[i].ids : Told(i, k)

(* The calls told so far come first, the others are pending, in order.     *)
Underway(i) ==
    LET ids == msgs[i].ids
        n   == Len(msgs) - i
    IN  /\ n < Len(ids) /\ \A k \in 1..n : Told(i, k)
        /\ Len(pending) = Len(ids) - n
        /\ \A k \in 1..Len(pending) : pending[k] = ids[n + k]

Assistants == {i \in DOMAIN msgs : msgs[i].role = "assistant"}

Conversed ==
    /\ Len(msgs) >= 2
    /\ \A i \in DOMAIN msgs : msgs[i].role = "system" <=> i = 1
    /\ \A i \in Assistants : msgs[i].ids # <<>> /\ (Complete(i) \/ Underway(i))
    /\ \A i \in DOMAIN msgs : msgs[i].role = "tool" =>
          \E j \in Assistants : j < i /\ i - j \in DOMAIN msgs[j].ids
    /\ pending # <<>> => pc = "tool" /\ \E i \in Assistants : Underway(i)

(* What the rounds before this one may have cost, and this one so far.     *)
Spent == MaxRetries * (IF purpose = "repair" THEN round ELSE round - 1) + attempt

Counted ==
    /\ requests + (IF pc = "ask" THEN 1 ELSE 0) <= Spent
    /\ pc = "wait" => attempt < MaxRetries /\ delay >= owed /\ delay >= 1

CanStore == {StoreResponseField(text, named) : named \in MayName(text)}

Judged ==
    /\ result # "none" => pc = "done"
    /\ IF result = "record" THEN Accepted(text) /\ stored \in CanStore
       ELSE stored = "nothing"

Panics == pc = "panic" => WrapsToolless

CallInv == Types /\ Conversed /\ Counted /\ Judged /\ Panics

-----------------------------------------------------------------------------
(* The operators.                                                          *)

LEMMA BackoffProperties ==
    ASSUME NEW n \in Nat, n >= 1
    PROVE  Backoff(n) \in Nat /\ Backoff(n) >= 1
<1> DEFINE e == (IF n > 6 THEN 6 ELSE n) - 1
<1>1. e \in {0, 1, 2, 3, 4, 5}
  OBVIOUS
<1>2. Backoff(n) = 2 ^ e
  BY DEF Backoff
<1> HIDE DEF e
<1>3. 2 ^ 0 = 1 /\ 2 ^ 1 = 2 /\ 2 ^ 2 = 4 /\ 2 ^ 3 = 8 /\ 2 ^ 4 = 16 /\ 2 ^ 5 = 32
  OBVIOUS
<1>4. /\ e = 0 => Backoff(n) = 1
      /\ e = 1 => Backoff(n) = 2
      /\ e = 2 => Backoff(n) = 4
      /\ e = 3 => Backoff(n) = 8
      /\ e = 4 => Backoff(n) = 16
      /\ e = 5 => Backoff(n) = 32
  BY <1>2, <1>3, Zenon
<1> QED BY <1>1, <1>4

LEMMA Rounds ==
    ASSUME NEW a \in Nat, NEW b \in Nat, a <= b
    PROVE  /\ MaxRetries * a \in Nat /\ MaxRetries * (a + 1) = MaxRetries * a + MaxRetries
           /\ MaxRetries * a <= MaxRetries * b
<1>1. MaxRetries \in Nat
  BY CallAssumption
<1>2. PICK d \in Nat : b = a + d
  <2>1. b - a \in Nat /\ b = a + (b - a)
    OBVIOUS
  <2> QED BY <2>1
<1>3. MaxRetries * a \in Nat /\ MaxRetries * d \in Nat
  BY <1>1
<1>4. MaxRetries * b = MaxRetries * a + MaxRetries * d
  BY <1>1, <1>2
<1>5. MaxRetries * (a + 1) = MaxRetries * a + MaxRetries
  BY <1>1
<1> QED BY <1>3, <1>4, <1>5

(* A reply that is not one has an outcome the debug wrapper made.          *)
LEMMA OutcomeCases ==
    ASSUME TypeOK, NEW r \in Replies
    PROVE  /\ Outcome(r) \in {"text", "calls", "nil", "error", "rate"}
           /\ Outcome(r) \in {"calls", "nil"} => AsksWithTools
           /\ Outcome(r) = "nil" => ~IsAgent
<1>1. Failure(r) \in {"rate", "error"}
  BY DEF Failure
<1>2. setup.client \in Clients
  BY DEF TypeOK, AllSetups
<1>3. Generate(r) \in {"text", "error", "rate"}
  <2>1. \A x \in {OpenAIGenerate(r), AnthropicGenerate(r), GeminiGenerate(r), OllamaGenerate(r)} :
           x \in {"text", "error", "rate"}
    BY <1>1 DEF OpenAIGenerate, AnthropicGenerate, GeminiGenerate, OllamaGenerate
  <2>2. \/ Generate(r) \in {OpenAIGenerate(r), AnthropicGenerate(r), GeminiGenerate(r), OllamaGenerate(r)}
        \/ Generate(r) = "text"
    BY <1>2 DEF Generate, Clients
  <2> QED BY <2>1, <2>2
<1>4. OpenAIAgent(r) \in {"text", "calls", "error", "rate"}
  BY <1>1 DEF OpenAIAgent
<1>5. AnthropicAgent(r) \in {"text", "calls", "error", "rate"}
  BY <1>1 DEF AnthropicAgent
<1>6. IF IsAgent THEN GenerateAgent(r) \in {"text", "calls", "error", "rate"}
      ELSE GenerateAgent(r) = "nil"
  BY <1>2, <1>4, <1>5 DEF GenerateAgent, IsAgent, Clients
<1> QED BY <1>3, <1>6 DEF Outcome

(* The system prompt comes first and nowhere else: without it the other    *)
(* messages move up by one.                                                *)
LEMMA WireProperties ==
    ASSUME msgs \in Seq(Message), Len(msgs) >= 2, setup.client = "anthropic",
           \A i \in DOMAIN msgs : msgs[i].role = "system" <=> i = 1
    PROVE  /\ DOMAIN Wire(msgs) = 1..(Len(msgs) - 1) /\ Len(Wire(msgs)) = Len(msgs) - 1
           /\ \A n \in 1..(Len(msgs) - 1) :
                 Wire(msgs)[n] = IF msgs[n + 1].role = "tool" THEN Msg("user", msgs[n + 1].ids)
                                 ELSE msgs[n + 1]
<1> DEFINE kept == {i \in DOMAIN msgs : msgs[i].role # "system"}
           Place(i) == Cardinality({j \in kept : j <= i})
           At(n) == msgs[CHOOSE i \in kept : Place(i) = n]
           Put(m) == IF m.role = "tool" THEN Msg("user", m.ids) ELSE m
           w == [n \in 1..Cardinality(kept) |-> Put(At(n))]
<1>1. Wire(msgs) = w
  BY DEF Wire
<1>2. Len(msgs) \in Nat /\ DOMAIN msgs = 1..Len(msgs)
  BY LenProperties
<1>3. kept = 2..Len(msgs)
  BY <1>2
<1>4. ASSUME NEW i \in Nat, i >= 1 PROVE Cardinality(2..i) = i - 1
  BY <1>4, FS_Interval
<1>5. Cardinality(kept) = Len(msgs) - 1
  <2>1. Cardinality(2..Len(msgs)) = Len(msgs) - 1
    BY <1>2, <1>4
  <2> QED BY <1>3, <2>1, Zenon
<1> HIDE DEF kept
<1>6. ASSUME NEW i \in kept PROVE Place(i) = i - 1
  <2>1. {j \in kept : j <= i} = 2..i /\ i \in Nat /\ i >= 1
    BY <1>2, <1>3
  <2> QED BY <1>4, <2>1
<1> HIDE DEF Place
<1>7. ASSUME NEW n \in 1..(Len(msgs) - 1) PROVE At(n) = msgs[n + 1]
  <2>1. n + 1 \in kept /\ Place(n + 1) = n
    BY <1>2, <1>3, <1>6
  <2>2. \A i \in kept : Place(i) = n => i = n + 1
    BY <1>2, <1>3, <1>6
  <2>3. (CHOOSE i \in kept : Place(i) = n) = n + 1
    BY <2>1, <2>2
  <2> QED BY <2>3
<1> HIDE DEF At
<1>8. w = [n \in 1..(Len(msgs) - 1) |-> Put(At(n))]
  BY <1>5
<1>9. DOMAIN w = 1..(Len(msgs) - 1) /\ \A n \in 1..(Len(msgs) - 1) : w[n] = Put(msgs[n + 1])
  BY <1>7, <1>8
<1> HIDE DEF w, Put
<1>10. Len(w) = Len(msgs) - 1
  <2>1. Len(msgs) - 1 \in Nat
    BY <1>2
  <2>2. w = [n \in 1..(Len(msgs) - 1) |-> Put(At(n))]
    BY <1>8 DEF w
  <2> QED BY <2>1, <2>2
<1> QED BY <1>1, <1>9, <1>10 DEF Put, w

-----------------------------------------------------------------------------
(* Every step preserves the types, the counts and the judgement.           *)

StepNow ==
    \/ \E r \in Replies : Answered(r) \/ ToolsRequested(r) \/ NilResponse(r) \/ RequestFails(r)
    \/ Retry \/ WaitCancelled \/ ExecuteTool \/ NextRound \/ AcceptAnswer \/ RefuseAnswer
    \/ Cancel \/ UNCHANGED vars

LEMMA StepCases == [Next]_vars => StepNow
<1> QED BY Zenon DEF Next, Step, Ended, StepNow

LEMMA TypesStep ==
    ASSUME Types, Counted, StepNow
    PROVE  Types'
<1>0. /\ setup \in AllSetups /\ ctxDone \in BOOLEAN
      /\ pc \in {"ask", "wait", "tool", "parse", "done", "panic"}
      /\ purpose \in {"answer", "repair"}
      /\ attempt \in 1..MaxRetries /\ round \in 1..MaxRounds /\ requests \in Nat
      /\ msgs \in Seq(Message) /\ pending \in Seq(Nat) /\ text \in Texts
      /\ owed \in RetryAfters \cup {0} /\ delay \in Nat
      /\ result \in {"none", "record", "error"}
      /\ stored \in {"nothing", "parsed", "raw", "final"}
  BY DEF Types, TypeOK
<1>c. /\ MaxRetries \in Nat /\ MaxRetries >= 1 /\ MaxRounds \in Nat /\ MaxRounds >= 1
      /\ MaxCalls \in Nat /\ RetryAfters \subseteq Nat
  BY CallAssumption
<1>r. ASSUME NEW r, Reply(r) PROVE UNCHANGED <<setup, ctxDone, purpose, round>> /\ requests' \in Nat
  BY <1>0, <1>r DEF Reply
<1>t. ASSUME setup' \in AllSetups, ctxDone' \in BOOLEAN,
             pc' \in {"ask", "wait", "tool", "parse", "done", "panic"},
             purpose' \in {"answer", "repair"},
             attempt' \in 1..MaxRetries, round' \in 1..MaxRounds, requests' \in Nat,
             msgs' \in Seq(Message), pending' \in Seq(Nat), text' \in Texts,
             owed' \in RetryAfters \cup {0}, delay' \in Nat,
             result' \in {"none", "record", "error"},
             stored' \in {"nothing", "parsed", "raw", "final"}
      PROVE  Types'
  <2>1. \A i \in DOMAIN msgs' : msgs'[i].role \in {"system", "user", "assistant", "tool"}
    <3>1. \A i \in DOMAIN msgs' : msgs'[i] \in Message
      BY <1>t, LenProperties
    <3> QED BY <3>1 DEF Message
  <2> QED BY <1>t, <2>1 DEF Types, TypeOK
<1>1. ASSUME NEW r \in Replies, Answered(r) PROVE Types'
  <2>1. NoText \in Texts /\ DryRunText \in Texts
    <3>1. (setup.schema = "own" => PlaceholderFits(setup.hint)) \in BOOLEAN
      OBVIOUS
    <3> QED BY <3>1 DEF NoText, DryRunText, Texts
  <2>2. text' \in Texts
    <3>1. text' \in {DryRunText} \/ text' \in {NoText} \/ text' \in Texts
      BY <1>1, Zenon DEF Answered
    <3> QED BY <2>1, <3>1
  <2> QED BY <1>0, <1>1, <1>r, <1>t, <2>2 DEF Answered
<1>2. ASSUME NEW r \in Replies, ToolsRequested(r) PROVE Types'
  <2>1. PICK n \in 1..MaxCalls :
           /\ msgs' = Append(msgs, Msg("assistant", [i \in 1..n |-> Len(msgs) * MaxCalls + i]))
           /\ pending' = [i \in 1..n |-> Len(msgs) * MaxCalls + i]
    BY <1>2 DEF ToolsRequested
  <2> DEFINE ids == [i \in 1..n |-> Len(msgs) * MaxCalls + i]
  <2>2. ids \in Seq(Nat)
    <3>1. Len(msgs) \in Nat /\ n \in Nat
      BY <1>0, LenProperties
    <3>2. Len(msgs) * MaxCalls \in Nat
      BY <1>c, <3>1
    <3> QED BY <3>1, <3>2
  <2>3. msgs' = Append(msgs, Msg("assistant", ids)) /\ pending' = ids
    BY <2>1
  <2> HIDE DEF ids
  <2>4. Msg("assistant", ids) \in Message
    BY <2>2 DEF Msg, Message
  <2>5. msgs' \in Seq(Message)
    BY <1>0, <2>3, <2>4, AppendProperties
  <2> QED BY <1>0, <1>2, <1>r, <1>t, <2>2, <2>3, <2>5 DEF ToolsRequested
<1>3. ASSUME NEW r \in Replies, NilResponse(r) PROVE Types'
  BY <1>0, <1>3, <1>r, <1>t DEF NilResponse
<1>4. ASSUME NEW r \in Replies, RequestFails(r) PROVE Types'
  <2>1. UNCHANGED <<attempt, msgs, pending, text, stored>> /\ Reply(r)
    BY <1>4 DEF RequestFails
  <2>2. CASE attempt = MaxRetries
    <3>1. UNCHANGED <<owed, delay>> /\ pc' = "done" /\ result' = "error"
      BY <1>4, <2>2 DEF RequestFails, Finish
    <3> QED BY <1>0, <1>r, <1>t, <2>1, <3>1
  <2>3. CASE attempt # MaxRetries
    <3>1. /\ pc' = "wait" /\ result' = result
          /\ \E after \in IF Outcome(r) = "rate" THEN RetryAfters ELSE {0} :
                owed' = after /\ delay' = RetryDelay(Outcome(r) = "rate", after, attempt)
      BY <1>4, <2>3 DEF RequestFails
    <3>2. PICK after \in RetryAfters \cup {0} :
             owed' = after /\ delay' = RetryDelay(Outcome(r) = "rate", after, attempt)
      BY <3>1
    <3>3. Backoff(attempt) \in Nat /\ after \in Nat
      BY <1>0, <1>c, BackoffProperties
    <3>4. delay' \in Nat
      BY <3>2, <3>3 DEF RetryDelay, AtLeast
    <3> QED BY <1>0, <1>r, <1>t, <2>1, <3>1, <3>2, <3>4
  <2> QED BY <2>2, <2>3
<1>5. CASE Retry
  <2>1. attempt' \in 1..MaxRetries
    BY <1>0, <1>5, <1>c DEF Retry, Counted
  <2> QED BY <1>0, <1>5, <1>t, <2>1 DEF Retry
<1>6. CASE WaitCancelled
  BY <1>0, <1>6, <1>t DEF WaitCancelled, Finish
<1>7. CASE ExecuteTool
  <2>1. /\ pending # <<>> /\ msgs' = Append(msgs, Msg("tool", <<Head(pending)>>))
        /\ pending' = Tail(pending)
    BY <1>7 DEF ExecuteTool
  <2>2. Head(pending) \in Nat /\ pending' \in Seq(Nat)
    BY <1>0, <2>1, HeadTailProperties
  <2>3. <<Head(pending)>> \in Seq(Nat)
    BY <2>2
  <2>4. Msg("tool", <<Head(pending)>>) \in Message
    BY <2>3 DEF Msg, Message
  <2>5. msgs' \in Seq(Message)
    BY <1>0, <2>1, <2>4, AppendProperties
  <2> QED BY <1>0, <1>7, <1>t, <2>2, <2>5 DEF ExecuteTool
<1>8. CASE NextRound
  <2>1. 1 \in 1..MaxRetries /\ (round # MaxRounds => round + 1 \in 1..MaxRounds)
    BY <1>0, <1>c
  <2> QED BY <1>0, <1>8, <1>t, <2>1 DEF NextRound, Finish
<1>9. CASE AcceptAnswer
  <2>1. stored' \in {"nothing", "parsed", "raw", "final"}
    <3>1. PICK named \in MayName(text) : stored' = StoreResponseField(text, named)
      BY <1>9 DEF AcceptAnswer
    <3>2. named \in BOOLEAN
      BY DEF MayName
    <3>3. \/ StoreResponseField(text, named) = "parsed"
          \/ StoreResponseField(text, named) = "raw"
          \/ StoreResponseField(text, named) = "final"
      BY <3>2, Zenon DEF StoreResponseField
    <3> QED BY <3>1, <3>3
  <2> QED BY <1>0, <1>9, <1>t, <2>1 DEF AcceptAnswer, Finish
<1>10. CASE RefuseAnswer
  <2>1. 1 \in 1..MaxRetries
    BY <1>c
  <2> QED BY <1>0, <1>10, <1>t, <2>1 DEF RefuseAnswer, Finish
<1>11. CASE Cancel
  <2>1. TRUE \in BOOLEAN
    OBVIOUS
  <2> QED BY <1>0, <1>11, <1>t, <2>1 DEF Cancel
<1>12. CASE UNCHANGED vars
  BY <1>0, <1>12, <1>t DEF vars
<1> QED BY <1>1, <1>2, <1>3, <1>4, <1>5, <1>6, <1>7, <1>8, <1>9, <1>10, <1>11, <1>12 DEF StepNow

(* A round, and the repair, may cost as many requests as there are         *)
(* attempts.                                                               *)
LEMMA CountedStep ==
    ASSUME Types, Counted, StepNow
    PROVE  Counted'
<1> DEFINE before == IF purpose = "repair" THEN round ELSE round - 1
           after == IF purpose' = "repair" THEN round' ELSE round' - 1
<1>0. /\ attempt \in Nat /\ attempt >= 1 /\ attempt <= MaxRetries /\ requests \in Nat
      /\ round \in Nat /\ round >= 1 /\ MaxRetries \in Nat /\ purpose \in {"answer", "repair"}
      /\ RetryAfters \subseteq Nat
  BY CallAssumption DEF Types, TypeOK
<1>1. /\ requests + (IF pc = "ask" THEN 1 ELSE 0) <= MaxRetries * before + attempt
      /\ pc = "wait" => attempt < MaxRetries /\ delay >= owed /\ delay >= 1
  BY Zenon DEF Counted, Spent
<1>2. before \in Nat /\ MaxRetries * before \in Nat
      /\ MaxRetries * (before + 1) = MaxRetries * before + MaxRetries
  <2>1. before \in Nat
    BY <1>0
  <2> QED BY <2>1, Rounds
<1>s. ASSUME requests' + (IF pc' = "ask" THEN 1 ELSE 0) <= MaxRetries * after + attempt',
             pc' = "wait" => attempt' < MaxRetries /\ delay' >= owed' /\ delay' >= 1
      PROVE  Counted'
  BY <1>s, Zenon DEF Counted, Spent
<1> HIDE DEF before, after
<1>k. ASSUME UNCHANGED <<purpose, round>> PROVE after = before
  BY <1>k DEF before, after
<1>3. ASSUME NEW r \in Replies, Reply(r), attempt' = attempt, pc' # "ask", pc' # "wait" PROVE Counted'
  <2>1. requests' = requests + 1 /\ pc = "ask" /\ after = before
    BY <1>3, <1>k DEF Reply
  <2>2. requests' + (IF pc' = "ask" THEN 1 ELSE 0) <= MaxRetries * after + attempt'
    BY <1>0, <1>1, <1>2, <1>3, <2>1
  <2> QED BY <1>s, <1>3, <2>2
<1>4. ASSUME NEW r \in Replies, RequestFails(r) PROVE Counted'
  <2>1. Reply(r) /\ attempt' = attempt
    BY <1>4 DEF RequestFails
  <2>2. CASE attempt = MaxRetries
    <3>1. pc' = "done"
      BY <1>4, <2>2 DEF RequestFails, Finish
    <3> QED BY <1>3, <2>1, <3>1
  <2>3. CASE attempt # MaxRetries
    <3>1. /\ pc' = "wait"
          /\ \E a \in IF Outcome(r) = "rate" THEN RetryAfters ELSE {0} :
                owed' = a /\ delay' = RetryDelay(Outcome(r) = "rate", a, attempt)
      BY <1>4, <2>3 DEF RequestFails
    <3>2. PICK a \in IF Outcome(r) = "rate" THEN RetryAfters ELSE {0} :
             owed' = a /\ delay' = RetryDelay(Outcome(r) = "rate", a, attempt)
      BY <3>1
    <3>3. Backoff(attempt) \in Nat /\ Backoff(attempt) >= 1 /\ a \in Nat
      BY <1>0, BackoffProperties
    <3>4. delay' >= owed' /\ delay' >= 1
      <4>1. CASE Outcome(r) = "rate"
        BY <3>2, <3>3, <4>1 DEF RetryDelay, AtLeast
      <4>2. CASE Outcome(r) # "rate"
        BY <3>2, <3>3, <4>2 DEF RetryDelay
      <4> QED BY <4>1, <4>2
    <3>5. attempt' < MaxRetries
      BY <1>0, <2>1, <2>3
    <3>6. requests' = requests + 1 /\ pc = "ask" /\ after = before
      BY <2>1, <1>k DEF Reply
    <3>7. requests' + (IF pc' = "ask" THEN 1 ELSE 0) <= MaxRetries * after + attempt'
      BY <1>0, <1>1, <1>2, <2>1, <3>1, <3>6
    <3> QED BY <1>s, <3>4, <3>5, <3>7
  <2> QED BY <2>2, <2>3
<1>5. ASSUME after = before + 1, attempt' = 1, requests' = requests, pc' = "ask" PROVE Counted'
  <2>1. requests' + 1 <= MaxRetries * after + 1
    BY <1>0, <1>1, <1>2, <1>5
  <2> QED BY <1>s, <1>5, <2>1
<1>6. ASSUME after = before, UNCHANGED <<attempt, requests>>, pc' # "ask", pc' # "wait" PROVE Counted'
  <2>1. requests' + (IF pc' = "ask" THEN 1 ELSE 0) <= MaxRetries * after + attempt'
    BY <1>0, <1>1, <1>2, <1>6
  <2> QED BY <1>s, <1>6, <2>1
<1>7. CASE \E r \in Replies : Answered(r) \/ ToolsRequested(r) \/ NilResponse(r) \/ RequestFails(r)
  <2>1. ASSUME NEW r \in Replies, Answered(r) PROVE Counted'
    BY <1>3, <2>1 DEF Answered
  <2>2. ASSUME NEW r \in Replies, ToolsRequested(r) PROVE Counted'
    BY <1>3, <2>2 DEF ToolsRequested
  <2>3. ASSUME NEW r \in Replies, NilResponse(r) PROVE Counted'
    BY <1>3, <2>3 DEF NilResponse
  <2> QED BY <1>4, <1>7, <2>1, <2>2, <2>3
<1>8. CASE Retry
  <2>1. /\ requests' = requests /\ attempt' = attempt + 1 /\ pc = "wait" /\ pc' = "ask"
        /\ after = before
    BY <1>8, <1>k DEF Retry
  <2>2. requests' + (IF pc' = "ask" THEN 1 ELSE 0) <= MaxRetries * after + attempt'
    BY <1>0, <1>1, <1>2, <2>1
  <2> QED BY <1>s, <2>1, <2>2
<1>9. CASE WaitCancelled
  BY <1>6, <1>9, <1>k DEF WaitCancelled, Finish
<1>10. CASE ExecuteTool
  BY <1>6, <1>10, <1>k DEF ExecuteTool
<1>11. CASE NextRound
  <2>1. CASE round = MaxRounds
    BY <1>6, <1>11, <1>k, <2>1 DEF NextRound, Finish
  <2>2. CASE round # MaxRounds
    <3>1. /\ round' = round + 1 /\ attempt' = 1 /\ pc' = "ask"
          /\ purpose' = purpose /\ requests' = requests
      BY <1>11, <2>2 DEF NextRound
    <3>2. after = before + 1
      BY <1>0, <3>1 DEF before, after
    <3> QED BY <1>5, <3>1, <3>2
  <2> QED BY <2>1, <2>2
<1>12. CASE AcceptAnswer
  BY <1>6, <1>12, <1>k DEF AcceptAnswer, Finish
<1>13. CASE RefuseAnswer
  <2>1. CASE purpose = "answer"
    <3>1. /\ round' = round /\ attempt' = 1 /\ pc' = "ask"
          /\ purpose' = "repair" /\ requests' = requests
      BY <1>13, <2>1 DEF RefuseAnswer
    <3>2. after = before + 1
      BY <1>0, <2>1, <3>1 DEF before, after
    <3> QED BY <1>5, <3>1, <3>2
  <2>2. CASE purpose # "answer"
    BY <1>6, <1>13, <1>k, <2>2 DEF RefuseAnswer, Finish
  <2> QED BY <2>1, <2>2
<1>14. ASSUME UNCHANGED <<purpose, round, attempt, requests, pc, delay, owed>> PROVE Counted'
  <2>1. after = before
    BY <1>14, <1>k
  <2> QED BY <1>1, <1>s, <1>14, <2>1
<1>15. CASE Cancel
  BY <1>14, <1>15 DEF Cancel
<1>16. CASE UNCHANGED vars
  BY <1>14, <1>16 DEF vars
<1> QED BY <1>7, <1>8, <1>9, <1>10, <1>11, <1>12, <1>13, <1>15, <1>16 DEF StepNow

(* The answer that made the record was accepted, and stays as it was.      *)
LEMMA JudgedStep ==
    ASSUME Types, Judged, StepNow
    PROVE  Judged'
<1>1. ASSUME pc # "done", UNCHANGED <<result, stored>> PROVE Judged'
  <2>1. result = "none"
    BY <1>1 DEF Judged, Types, TypeOK
  <2> QED BY <1>1, <2>1 DEF Judged
<1>2. ASSUME pc # "done", result' = "error", pc' = "done", stored' = stored PROVE Judged'
  <2>1. result = "none"
    BY <1>2 DEF Judged, Types, TypeOK
  <2> QED BY <1>2, <2>1 DEF Judged
<1>3. CASE \E r \in Replies : Answered(r) \/ ToolsRequested(r) \/ NilResponse(r) \/ RequestFails(r)
  <2>1. ASSUME NEW r \in Replies, Answered(r) PROVE Judged'
    BY <1>1, <2>1 DEF Answered, Reply
  <2>2. ASSUME NEW r \in Replies, ToolsRequested(r) PROVE Judged'
    BY <1>1, <2>2 DEF ToolsRequested, Reply
  <2>3. ASSUME NEW r \in Replies, NilResponse(r) PROVE Judged'
    BY <1>1, <2>3 DEF NilResponse, Reply
  <2>4. ASSUME NEW r \in Replies, RequestFails(r) PROVE Judged'
    <3>1. pc = "ask" /\ stored' = stored /\ (result' = result \/ (pc' = "done" /\ result' = "error"))
      BY <2>4 DEF RequestFails, Reply, Finish
    <3> QED BY <1>1, <1>2, <3>1
  <2> QED BY <1>3, <2>1, <2>2, <2>3, <2>4
<1>4. CASE Retry
  BY <1>1, <1>4 DEF Retry
<1>5. CASE WaitCancelled
  BY <1>2, <1>5 DEF WaitCancelled, Finish
<1>6. CASE ExecuteTool
  BY <1>1, <1>6 DEF ExecuteTool
<1>7. CASE NextRound
  BY <1>1, <1>2, <1>7 DEF NextRound, Finish
<1>8. CASE AcceptAnswer
  <2>1. /\ pc' = "done" /\ result' = "record" /\ text' = text /\ setup' = setup
        /\ Accepted(text) /\ stored' \in CanStore
    BY <1>8 DEF AcceptAnswer, Finish, CanStore
  <2>2. Accepted(text)'
    BY <2>1 DEF Accepted, StrictlyReadable
  <2>3. CanStore' = CanStore
    BY <2>1 DEF CanStore, StoreResponseField, MayName, Hiding, HasParsed, LastObjectFound
  <2> QED BY <2>1, <2>2, <2>3 DEF Judged
<1>9. CASE RefuseAnswer
  BY <1>1, <1>2, <1>9 DEF RefuseAnswer, Finish
<1>10. ASSUME UNCHANGED <<setup, pc, text, result, stored>> PROVE Judged'
  <2>1. Accepted(text)' <=> Accepted(text)
    BY <1>10 DEF Accepted, StrictlyReadable
  <2>2. CanStore' = CanStore
    BY <1>10 DEF CanStore, StoreResponseField, MayName, Hiding, HasParsed, LastObjectFound
  <2> QED BY <1>10, <2>1, <2>2 DEF Judged
<1>11. CASE Cancel
  BY <1>10, <1>11 DEF Cancel
<1>12. CASE UNCHANGED vars
  BY <1>10, <1>12 DEF vars
<1> QED BY <1>3, <1>4, <1>5, <1>6, <1>7, <1>8, <1>9, <1>11, <1>12 DEF StepNow

(* Only the debug wrapper around a client without tools ends the process.  *)
LEMMA PanicsStep ==
    ASSUME Types, Panics, StepNow
    PROVE  Panics'
<1>1. ASSUME pc' # "panic" PROVE Panics'
  BY <1>1 DEF Panics
<1>2. ASSUME UNCHANGED <<pc, setup>> PROVE Panics'
  BY <1>2 DEF Panics, WrapsToolless, IsAgent
<1>3. CASE \E r \in Replies : Answered(r) \/ ToolsRequested(r) \/ NilResponse(r) \/ RequestFails(r)
  <2>1. ASSUME NEW r \in Replies, Answered(r) PROVE Panics'
    BY <1>1, <2>1 DEF Answered
  <2>2. ASSUME NEW r \in Replies, ToolsRequested(r) PROVE Panics'
    BY <1>1, <2>2 DEF ToolsRequested
  <2>3. ASSUME NEW r \in Replies, NilResponse(r) PROVE Panics'
    <3>1. pc' = "panic" /\ Outcome(r) = "nil" /\ setup' = setup
      BY <2>3 DEF NilResponse, Reply
    <3>2. AsksWithTools /\ ~IsAgent
      BY <3>1, OutcomeCases DEF Types
    <3>3. setup.tools /\ setup.debug
      BY <3>2 DEF AsksWithTools
    <3> QED BY <3>1, <3>2, <3>3 DEF Panics, WrapsToolless, IsAgent
  <2>4. ASSUME NEW r \in Replies, RequestFails(r) PROVE Panics'
    BY <1>1, <2>4 DEF RequestFails, Finish
  <2> QED BY <1>3, <2>1, <2>2, <2>3, <2>4
<1>4. CASE Retry \/ WaitCancelled \/ NextRound \/ AcceptAnswer \/ RefuseAnswer
  BY <1>1, <1>4 DEF Retry, WaitCancelled, NextRound, AcceptAnswer, RefuseAnswer, Finish
<1>5. CASE ExecuteTool \/ Cancel \/ UNCHANGED vars
  BY <1>2, <1>5 DEF ExecuteTool, Cancel, vars
<1> QED BY <1>3, <1>4, <1>5 DEF StepNow

-----------------------------------------------------------------------------
(* Every step preserves the conversation.                                  *)

LEMMA MessageProperties ==
    ASSUME msgs \in Seq(Message), NEW i \in DOMAIN msgs
    PROVE  /\ i \in 1..Len(msgs) /\ i \in Nat /\ Len(msgs) \in Nat
           /\ msgs[i] \in Message /\ msgs[i].ids \in Seq(Nat) /\ Len(msgs[i].ids) \in Nat
           /\ DOMAIN msgs[i].ids = 1..Len(msgs[i].ids)
<1>1. i \in 1..Len(msgs) /\ Len(msgs) \in Nat /\ msgs[i] \in Message
  BY LenProperties
<1>2. msgs[i].ids \in Seq(Nat)
  BY <1>1 DEF Message
<1> QED BY <1>1, <1>2, LenProperties

LEMMA NothingUnderway ==
    ASSUME msgs \in Seq(Message), pending = <<>>, NEW i \in Assistants
    PROVE  ~Underway(i)
<1> SUFFICES ASSUME Underway(i) PROVE FALSE
  OBVIOUS
<1>1. Len(msgs[i].ids) \in Nat /\ Len(msgs) - i \in Int
  BY MessageProperties DEF Assistants
<1>2. Len(pending) = 0
  OBVIOUS
<1>3. Len(msgs) - i < Len(msgs[i].ids) /\ Len(pending) = Len(msgs[i].ids) - (Len(msgs) - i)
  BY Zenon DEF Underway
<1>4. \A a \in Nat, n \in Int : n < a => 0 # a - n
  OBVIOUS
<1> QED BY <1>1, <1>2, <1>3, <1>4, Zenon

(* A longer conversation keeps what was told.                              *)
LEMMA ToldStays ==
    ASSUME msgs \in Seq(Message), NEW m \in Message, msgs' = Append(msgs, m)
    PROVE  /\ Len(msgs) \in Nat /\ Len(msgs') = Len(msgs) + 1
           /\ DOMAIN msgs = 1..Len(msgs) /\ DOMAIN msgs' = 1..(Len(msgs) + 1)
           /\ msgs'[Len(msgs) + 1] = m /\ \A i \in DOMAIN msgs : msgs'[i] = msgs[i]
           /\ \A i \in DOMAIN msgs : Complete(i) => Complete(i)'
           /\ \A i \in DOMAIN msgs : \A k \in Nat : Told(i, k) => Told(i, k)'
<1>1. /\ Len(msgs) \in Nat /\ Len(msgs') = Len(msgs) + 1
      /\ DOMAIN msgs = 1..Len(msgs) /\ DOMAIN msgs' = 1..(Len(msgs) + 1)
      /\ msgs'[Len(msgs) + 1] = m /\ \A i \in 1..Len(msgs) : msgs'[i] = msgs[i]
  BY AppendProperties, LenProperties
<1>2. ASSUME NEW i \in DOMAIN msgs, NEW k, Told(i, k) PROVE Told(i, k)'
  BY <1>1, <1>2 DEF Told
<1>3. ASSUME NEW i \in DOMAIN msgs, Complete(i) PROVE Complete(i)'
  <2>1. msgs'[i] = msgs[i]
    BY <1>1
  <2>2. \A k \in DOMAIN msgs[i].ids : Told(i, k)
    BY <1>3 DEF Complete
  <2>3. \A k \in DOMAIN msgs[i].ids : Told(i, k)'
    BY <1>2, <2>2
  <2> QED BY <2>1, <2>3 DEF Complete
<1> QED BY <1>1, <1>2, <1>3

LEMMA ToolsRequestedStep ==
    ASSUME Types, Conversed, NEW r \in Replies, ToolsRequested(r)
    PROVE  Conversed'
<1>1. pc = "ask" /\ pc' = "tool"
  BY DEF ToolsRequested, Reply
<1>2. PICK n \in 1..MaxCalls :
         /\ msgs' = Append(msgs, Msg("assistant", [i \in 1..n |-> Len(msgs) * MaxCalls + i]))
         /\ pending' = [i \in 1..n |-> Len(msgs) * MaxCalls + i]
  BY DEF ToolsRequested
<1> DEFINE ids == [i \in 1..n |-> Len(msgs) * MaxCalls + i]
           m == Msg("assistant", ids)
<1>0. PICK L : L = Len(msgs) + 1
  OBVIOUS
<1>3. msgs \in Seq(Message) /\ n \in Nat /\ n >= 1 /\ MaxCalls \in Nat /\ Len(msgs) \in Nat
  BY CallAssumption, LenProperties DEF Types
<1>4. ids \in Seq(Nat) /\ Len(ids) = n /\ ids # <<>>
  <2>1. Len(msgs) * MaxCalls \in Nat
    BY <1>3
  <2>2. ids \in Seq(Nat) /\ Len(ids) = n
    BY <1>3, <2>1
  <2> QED BY <1>3, <2>2
<1>5. msgs' = Append(msgs, m) /\ pending' = ids
  BY <1>2
<1> HIDE DEF ids
<1>6. m \in Message /\ m.role = "assistant" /\ m.ids = ids
  BY <1>4 DEF Msg, Message
<1> HIDE DEF m
<1>7. /\ Len(msgs') = L /\ DOMAIN msgs = 1..Len(msgs) /\ DOMAIN msgs' = 1..L
      /\ msgs'[L] = m /\ \A i \in DOMAIN msgs : msgs'[i] = msgs[i]
      /\ \A i \in DOMAIN msgs : Complete(i) => Complete(i)'
  BY <1>0, <1>3, <1>5, <1>6, ToldStays
<1>8. /\ Len(msgs) >= 2
      /\ \A i \in DOMAIN msgs : msgs[i].role = "system" <=> i = 1
      /\ \A i \in Assistants : msgs[i].ids # <<>> /\ (Complete(i) \/ Underway(i))
      /\ \A i \in DOMAIN msgs : msgs[i].role = "tool" =>
            \E j \in Assistants : j < i /\ i - j \in DOMAIN msgs[j].ids
      /\ pending = <<>>
  BY <1>1 DEF Conversed
<1>9. \A i \in Assistants : Complete(i)
  BY <1>3, <1>8, NothingUnderway
<1>10. Assistants' = Assistants \cup {L}
  BY <1>0, <1>3, <1>6, <1>7 DEF Assistants
<1>11. \A i \in DOMAIN msgs' : msgs'[i].role = "system" <=> i = 1
  BY <1>0, <1>3, <1>6, <1>7, <1>8
<1>12. Underway(L)'
  <2>1. Len(msgs') - L = 0
    BY <1>0, <1>3, <1>7
  <2>2. Len(pending') = Len(msgs'[L].ids) - 0 /\ 0 < Len(msgs'[L].ids)
    BY <1>0, <1>3, <1>4, <1>5, <1>6, <1>7
  <2>3. \A k \in 1..0 : Told(L, k)'
    OBVIOUS
  <2>4. \A k \in 1..Len(pending') : pending'[k] = msgs'[L].ids[0 + k]
    <3>1. pending' = msgs'[L].ids /\ Len(pending') \in Nat
      BY <1>0, <1>3, <1>4, <1>5, <1>6, <1>7
    <3> QED BY <3>1
  <2> QED BY <2>1, <2>2, <2>3, <2>4 DEF Underway
<1>13. \A i \in Assistants' : msgs'[i].ids # <<>> /\ (Complete(i)' \/ Underway(i)')
  <2>1. \A i \in Assistants : msgs'[i].ids # <<>> /\ Complete(i)'
    BY <1>7, <1>8, <1>9 DEF Assistants
  <2>2. msgs'[L].ids # <<>>
    BY <1>0, <1>3, <1>4, <1>6, <1>7
  <2> QED BY <1>10, <1>12, <2>1, <2>2
<1>14. \A i \in DOMAIN msgs' : msgs'[i].role = "tool" =>
          \E j \in Assistants' : j < i /\ i - j \in DOMAIN msgs'[j].ids
  <2> SUFFICES ASSUME NEW i \in DOMAIN msgs', msgs'[i].role = "tool"
               PROVE  \E j \in Assistants' : j < i /\ i - j \in DOMAIN msgs'[j].ids
    OBVIOUS
  <2>1. i \in DOMAIN msgs /\ msgs[i].role = "tool"
    BY <1>0, <1>3, <1>6, <1>7
  <2>2. PICK j \in Assistants : j < i /\ i - j \in DOMAIN msgs[j].ids
    BY <1>8, <2>1
  <2> QED BY <1>7, <1>10, <2>2 DEF Assistants
<1>15. Len(msgs') >= 2
  BY <1>0, <1>3, <1>7, <1>8
<1>16. \E i \in Assistants' : Underway(i)'
  BY <1>10, <1>12
<1> QED BY <1>1, <1>11, <1>13, <1>14, <1>15, <1>16, Zenon DEF Conversed

LEMMA ExecuteToolStep ==
    ASSUME Types, Conversed, ExecuteTool
    PROVE  Conversed'
<1> DEFINE m == Msg("tool", <<Head(pending)>>)
<1>0. PICK L : L = Len(msgs) + 1
  OBVIOUS
<1>1. /\ pc = "tool" /\ pc' = "tool" /\ pending # <<>> /\ msgs' = Append(msgs, m)
      /\ pending' = Tail(pending)
  BY DEF ExecuteTool
<1>2. msgs \in Seq(Message) /\ pending \in Seq(Nat) /\ Len(msgs) \in Nat
  BY LenProperties DEF Types, TypeOK
<1>3. /\ Head(pending) = pending[1] /\ Head(pending) \in Nat /\ pending' \in Seq(Nat)
      /\ Len(pending) \in Nat /\ Len(pending) >= 1 /\ Len(pending') = Len(pending) - 1
      /\ \A k \in 1..Len(pending') : pending'[k] = pending[k + 1]
  <2>1. /\ Head(pending) \in Nat /\ pending' \in Seq(Nat) /\ Len(pending') = Len(pending) - 1
        /\ \A k \in 1..Len(pending') : pending'[k] = pending[k + 1]
    BY <1>1, <1>2, HeadTailProperties
  <2>2. Head(pending) = pending[1]
    BY <1>2
  <2>3. Len(pending) \in Nat /\ Len(pending) # 0
    BY <1>1, <1>2, EmptySeq, LenProperties
  <2> QED BY <2>1, <2>2, <2>3
<1>4. m \in Message /\ m.role = "tool" /\ m = Msg("tool", <<pending[1]>>)
  <2>1. <<Head(pending)>> \in Seq(Nat)
    BY <1>3
  <2> QED BY <1>3, <2>1 DEF Msg, Message
<1> HIDE DEF m
<1>5. /\ Len(msgs') = L /\ DOMAIN msgs = 1..Len(msgs) /\ DOMAIN msgs' = 1..L
      /\ msgs'[L] = m /\ \A i \in DOMAIN msgs : msgs'[i] = msgs[i]
      /\ \A i \in DOMAIN msgs : Complete(i) => Complete(i)'
      /\ \A i \in DOMAIN msgs : \A k \in Nat : Told(i, k) => Told(i, k)'
  BY <1>0, <1>1, <1>2, <1>4, ToldStays
<1>6. /\ Len(msgs) >= 2
      /\ \A i \in DOMAIN msgs : msgs[i].role = "system" <=> i = 1
      /\ \A i \in Assistants : msgs[i].ids # <<>> /\ (Complete(i) \/ Underway(i))
      /\ \A i \in DOMAIN msgs : msgs[i].role = "tool" =>
            \E j \in Assistants : j < i /\ i - j \in DOMAIN msgs[j].ids
      /\ \E i \in Assistants : Underway(i)
  BY <1>1 DEF Conversed
<1>7. Assistants' = Assistants
  BY <1>0, <1>2, <1>4, <1>5 DEF Assistants
(* The call that was first in line is told; the others move up.            *)
<1>8. ASSUME NEW i \in Assistants, Underway(i)
      PROVE  /\ L - i \in DOMAIN msgs[i].ids /\ i < L
             /\ IF pending' = <<>> THEN Complete(i)' ELSE Underway(i)'
  <2>0. PICK n : n = Len(msgs) - i
    OBVIOUS
  <2> DEFINE ids == msgs[i].ids
  <2>1. /\ i \in 1..Len(msgs) /\ i \in Nat /\ Len(ids) \in Nat /\ DOMAIN ids = 1..Len(ids)
    BY <1>2, MessageProperties DEF Assistants
  <2>2. /\ n < Len(ids) /\ \A k \in 1..n : Told(i, k)
        /\ Len(pending) = Len(ids) - n /\ \A k \in 1..Len(pending) : pending[k] = ids[n + k]
    BY <1>8, <2>0 DEF Underway
  <2>3. n \in Nat /\ n + 1 = L - i /\ n + 1 \in 1..Len(ids) /\ i \in DOMAIN msgs
    BY <1>0, <1>2, <1>5, <2>0, <2>1, <2>2
  <2>4. msgs'[i].ids = ids
    BY <1>5, <2>3
  <2>5. Told(i, n + 1)'
    <3>1. pending[1] = ids[n + 1]
      BY <1>3, <2>2
    <3>2. i + (n + 1) = L /\ L \in DOMAIN msgs'
      BY <1>0, <1>2, <1>5, <2>0, <2>1
    <3>3. msgs'[i + (n + 1)] = Msg("tool", <<msgs'[i].ids[n + 1]>>)
      BY <1>4, <1>5, <2>4, <3>1, <3>2
    <3> QED BY <3>2, <3>3 DEF Told
  <2>6. \A k \in 1..(n + 1) : Told(i, k)'
    <3> SUFFICES ASSUME NEW k \in 1..(n + 1) PROVE Told(i, k)'
      OBVIOUS
    <3>1. CASE k = n + 1
      BY <2>5, <3>1
    <3>2. CASE k # n + 1
      <4>1. k \in 1..n /\ k \in Nat
        BY <2>3, <3>2
      <4> QED BY <1>5, <2>2, <2>3, <4>1
    <3> QED BY <3>1, <3>2
  <2>7. /\ Len(msgs') - i = n + 1 /\ Len(pending') = Len(ids) - (n + 1)
        /\ Len(pending') = 0 => n + 1 = Len(ids)
        /\ Len(pending') # 0 => n + 1 < Len(ids)
    <3>1. ASSUME NEW p \in Nat, NEW q \in Nat, NEW l \in Nat, p = l - n, q = p - 1
          PROVE  q = l - (n + 1) /\ (q = 0 => n + 1 = l) /\ (q # 0 => n + 1 < l)
      BY <2>3, <3>1
    <3>2. Len(pending) \in Nat /\ Len(pending') \in Nat
      BY <1>2, <1>3, LenProperties
    <3>3. Len(msgs') - i = n + 1
      BY <1>0, <1>2, <1>5, <2>0, <2>1
    <3> HIDE DEF ids
    <3> QED BY <1>3, <2>1, <2>2, <3>1, <3>2, <3>3
  <2>8. \A k \in 1..Len(pending') : pending'[k] = ids[(n + 1) + k]
    <3> SUFFICES ASSUME NEW k \in 1..Len(pending') PROVE pending'[k] = ids[(n + 1) + k]
      OBVIOUS
    <3>1. k + 1 \in 1..Len(pending) /\ pending'[k] = pending[k + 1]
      BY <1>3
    <3>2. n + (k + 1) = (n + 1) + k
      BY <1>3, <2>3
    <3> QED BY <2>2, <3>1, <3>2
  <2> HIDE DEF ids
  <2>9. CASE pending' = <<>>
    <3>1. Len(pending') = 0
      BY <2>9
    <3>2. n + 1 = Len(ids)
      BY <2>7, <3>1, Zenon
    <3>3. Complete(i)'
      BY <2>1, <2>4, <2>6, <3>2 DEF Complete
    <3> QED BY <1>0, <1>2, <2>1, <2>3, <2>9, <3>3 DEF ids
  <2>10. CASE pending' # <<>>
    <3>1. Len(pending') # 0
      BY <1>3, <2>10, EmptySeq, LenProperties
    <3>2. n + 1 < Len(ids)
      BY <2>7, <3>1, Zenon
    <3>3. Underway(i)'
      BY <2>4, <2>6, <2>7, <2>8, <3>2 DEF Underway
    <3> QED BY <1>0, <1>2, <2>1, <2>3, <2>10, <3>3 DEF ids
  <2> QED BY <2>9, <2>10
<1>9. \A i \in DOMAIN msgs' : msgs'[i].role = "system" <=> i = 1
  BY <1>0, <1>2, <1>4, <1>5, <1>6
<1>10. \A i \in Assistants' : msgs'[i].ids # <<>> /\ (Complete(i)' \/ Underway(i)')
  <2> SUFFICES ASSUME NEW i \in Assistants
               PROVE  msgs'[i].ids # <<>> /\ (Complete(i)' \/ Underway(i)')
    BY <1>7
  <2>1. msgs'[i].ids # <<>>
    BY <1>5, <1>6 DEF Assistants
  <2>2. CASE Complete(i)
    BY <1>5, <2>1, <2>2 DEF Assistants
  <2>3. CASE Underway(i)
    BY <1>8, <2>1, <2>3
  <2> QED BY <1>6, <2>2, <2>3
<1>11. PICK a \in Assistants : Underway(a)
  BY <1>6
<1>12. \A i \in DOMAIN msgs' : msgs'[i].role = "tool" =>
          \E j \in Assistants' : j < i /\ i - j \in DOMAIN msgs'[j].ids
  <2> SUFFICES ASSUME NEW i \in DOMAIN msgs', msgs'[i].role = "tool"
               PROVE  \E j \in Assistants : j < i /\ i - j \in DOMAIN msgs'[j].ids
    BY <1>7
  <2>1. CASE i = L
    <3>1. a < i /\ i - a \in DOMAIN msgs[a].ids /\ msgs'[a] = msgs[a]
      BY <1>5, <1>8, <1>11, <2>1 DEF Assistants
    <3> QED BY <3>1
  <2>2. CASE i # L
    <3>1. i \in DOMAIN msgs /\ msgs[i].role = "tool"
      BY <1>0, <1>2, <1>5, <2>2
    <3>2. PICK j \in Assistants : j < i /\ i - j \in DOMAIN msgs[j].ids
      BY <1>6, <3>1
    <3> QED BY <1>5, <3>2 DEF Assistants
  <2> QED BY <2>1, <2>2
<1>13. pending' # <<>> => \E i \in Assistants' : Underway(i)'
  BY <1>7, <1>8, <1>11
<1>14. Len(msgs') >= 2
  BY <1>0, <1>2, <1>5, <1>6
<1> QED BY <1>1, <1>9, <1>10, <1>12, <1>13, <1>14, Zenon DEF Conversed

LEMMA ConversedStep ==
    ASSUME Types, Conversed, StepNow
    PROVE  Conversed'
<1>1. ASSUME UNCHANGED <<msgs, pending>>, pending # <<>> => pc' = "tool" PROVE Conversed'
  <2>1. Assistants' = Assistants
    BY <1>1 DEF Assistants
  <2>2. ASSUME NEW i PROVE (Complete(i)' <=> Complete(i)) /\ (Underway(i)' <=> Underway(i))
    <3>1. Complete(i)' <=> Complete(i)
      BY <1>1, Zenon DEF Complete, Told
    <3>2. Underway(i)' <=> Underway(i)
      BY <1>1, Zenon DEF Underway, Told
    <3> QED BY <3>1, <3>2
  <2>3. /\ Len(msgs') >= 2
        /\ \A i \in DOMAIN msgs' : msgs'[i].role = "system" <=> i = 1
        /\ \A i \in DOMAIN msgs' : msgs'[i].role = "tool" =>
              \E j \in Assistants' : j < i /\ i - j \in DOMAIN msgs'[j].ids
    BY <1>1, <2>1, Zenon DEF Conversed
  <2>4. \A i \in Assistants' : msgs'[i].ids # <<>> /\ (Complete(i)' \/ Underway(i)')
    BY <1>1, <2>1, <2>2, Zenon DEF Conversed
  <2>5. pending' # <<>> => pc' = "tool" /\ \E i \in Assistants' : Underway(i)'
    BY <1>1, <2>1, <2>2, Zenon DEF Conversed
  <2> QED BY <2>3, <2>4, <2>5, Zenon DEF Conversed
<1>2. pending # <<>> => pc = "tool"
  BY DEF Conversed
<1>3. CASE \E r \in Replies : Answered(r) \/ ToolsRequested(r) \/ NilResponse(r) \/ RequestFails(r)
  <2>1. ASSUME NEW r \in Replies, Answered(r) PROVE Conversed'
    BY <1>1, <1>2, <2>1 DEF Answered, Reply
  <2>2. ASSUME NEW r \in Replies, NilResponse(r) PROVE Conversed'
    BY <1>1, <1>2, <2>2 DEF NilResponse, Reply
  <2>3. ASSUME NEW r \in Replies, RequestFails(r) PROVE Conversed'
    BY <1>1, <1>2, <2>3 DEF RequestFails, Reply
  <2> QED BY <1>3, <2>1, <2>2, <2>3, ToolsRequestedStep
<1>4. CASE Retry
  BY <1>1, <1>2, <1>4 DEF Retry
<1>5. CASE WaitCancelled
  BY <1>1, <1>2, <1>5 DEF WaitCancelled
<1>6. CASE ExecuteTool
  BY <1>6, ExecuteToolStep
<1>7. CASE NextRound
  BY <1>1, <1>2, <1>7 DEF NextRound
<1>8. CASE AcceptAnswer
  BY <1>1, <1>2, <1>8 DEF AcceptAnswer
<1>9. CASE RefuseAnswer
  BY <1>1, <1>2, <1>9 DEF RefuseAnswer
<1>10. CASE Cancel
  BY <1>1, <1>2, <1>10 DEF Cancel
<1>11. CASE UNCHANGED vars
  BY <1>1, <1>2, <1>11 DEF vars
<1> QED BY <1>3, <1>4, <1>5, <1>6, <1>7, <1>8, <1>9, <1>10, <1>11 DEF StepNow

-----------------------------------------------------------------------------
(* The invariant, and what follows from it.                                *)

LEMMA InitCall == Init => CallInv
<1> SUFFICES ASSUME Init PROVE CallInv
  OBVIOUS
<1> DEFINE a == Msg("system", <<>>)
           b == Msg("user", <<>>)
<1>0. /\ setup \in Setups /\ ctxDone = FALSE /\ pc = "ask" /\ purpose = "answer" /\ attempt = 1
      /\ round = 1 /\ requests = 0 /\ msgs = <<a, b>> /\ pending = <<>> /\ text = NoText
      /\ owed = 0 /\ delay = 0 /\ result = "none" /\ stored = "nothing"
  BY DEF Init
<1>1. a \in Message /\ b \in Message /\ a.role = "system" /\ b.role = "user"
  <2>1. <<>> \in Seq(Nat)
    OBVIOUS
  <2> QED BY <2>1 DEF Msg, Message
<1> HIDE DEF a, b
<1>2. /\ msgs \in Seq(Message) /\ Len(msgs) = 2 /\ DOMAIN msgs = 1..2
      /\ msgs[1] = a /\ msgs[2] = b
  BY <1>0, <1>1
<1>3. /\ MaxRetries \in Nat /\ MaxRetries >= 1 /\ MaxRounds \in Nat /\ MaxRounds >= 1
  BY CallAssumption
<1>4. Types
  <2>1. \A i \in DOMAIN msgs : msgs[i].role \in {"system", "user", "assistant", "tool"}
    BY <1>1, <1>2
  <2>2. text \in Texts
    BY <1>0 DEF NoText, Texts
  <2>3. setup \in AllSetups /\ ctxDone \in BOOLEAN /\ pending \in Seq(Nat)
    <3>1. setup \in AllSetups
      BY <1>0, SetupAssumption, Zenon
    <3>2. FALSE \in BOOLEAN /\ <<>> \in Seq(Nat)
      OBVIOUS
    <3> QED BY <1>0, <3>1, <3>2, Zenon
  <2> QED BY <1>0, <1>2, <1>3, <2>1, <2>2, <2>3 DEF Types, TypeOK
<1>5. Conversed
  <2>1. Assistants = {}
    BY <1>1, <1>2 DEF Assistants
  <2>2. \A i \in DOMAIN msgs : (msgs[i].role = "system" <=> i = 1) /\ msgs[i].role # "tool"
    BY <1>1, <1>2
  <2> QED BY <1>0, <1>2, <2>1, <2>2 DEF Conversed
<1>6. Counted
  <2>1. MaxRetries * 0 \in Nat
    BY <1>3
  <2>2. requests + (IF pc = "ask" THEN 1 ELSE 0) = 1 /\ Spent = MaxRetries * 0 + 1
    BY <1>0 DEF Spent
  <2> QED BY <1>0, <2>1, <2>2 DEF Counted
<1>7. Judged /\ Panics
  BY <1>0 DEF Judged, Panics
<1> QED BY <1>4, <1>5, <1>6, <1>7 DEF CallInv

LEMMA CallInvariant == Spec => []CallInv
<1>1. CallInv /\ [Next]_vars => CallInv'
  BY StepCases, TypesStep, ConversedStep, CountedStep, JudgedStep, PanicsStep DEF CallInv
<1> QED BY <1>1, InitCall, PTL DEF Spec

(* The state keeps its type for any settings, attempts and rounds.         *)
THEOREM TypeCorrect == Spec => []TypeOK
<1>1. CallInv => TypeOK
  BY DEF CallInv, Types
<1> QED BY <1>1, CallInvariant, PTL

(* However many tools the model calls, and whether they are known, work or *)
(* fail, the next request answers each call once, in its place, in the     *)
(* wire format of either kind of client.                                   *)
THEOREM ConversationAnswered == Spec => []ConversationAccepted
<1>1. CallInv => ConversationAccepted
  <2> SUFFICES ASSUME Types, Conversed, pc = "ask"
               PROVE  LET w == Wire(msgs)
                          Result(i, id) == i \in DOMAIN w /\ w[i].ids = <<id>>
                             /\ w[i].role = IF setup.client = "anthropic" THEN "user" ELSE "tool"
                      IN  /\ \A i \in DOMAIN w : w[i].role = "assistant" =>
                                \A k \in DOMAIN w[i].ids : Result(i + k, w[i].ids[k])
                          /\ \A i \in DOMAIN w : w[i].role = "tool" => \E j \in 1 .. i - 1 :
                                w[j].role = "assistant" /\ i - j \in DOMAIN w[j].ids
                          /\ w[Len(w)].role # "assistant"
    BY DEF CallInv, ConversationAccepted
  <2> DEFINE w == Wire(msgs)
             role == IF setup.client = "anthropic" THEN "user" ELSE "tool"
             Result(i, id) == i \in DOMAIN w /\ w[i].ids = <<id>> /\ w[i].role = role
  <2>1. /\ Len(msgs) >= 2
        /\ \A i \in DOMAIN msgs : msgs[i].role = "system" <=> i = 1
        /\ \A i \in Assistants : msgs[i].ids # <<>> /\ (Complete(i) \/ Underway(i))
        /\ \A i \in DOMAIN msgs : msgs[i].role = "tool" =>
              \E j \in Assistants : j < i /\ i - j \in DOMAIN msgs[j].ids
        /\ pending = <<>>
    BY DEF Conversed
  <2>2. msgs \in Seq(Message) /\ Len(msgs) \in Nat /\ DOMAIN msgs = 1..Len(msgs)
    BY LenProperties DEF Types
  <2>3. \A i \in Assistants : ~Underway(i)
    BY <2>1, <2>2, NothingUnderway
  <2>4. ASSUME NEW i \in Assistants, NEW k \in DOMAIN msgs[i].ids
        PROVE  /\ i + k \in DOMAIN msgs /\ msgs[i + k].role = "tool"
               /\ msgs[i + k].ids = <<msgs[i].ids[k]>>
    <3>1. Told(i, k)
      BY <2>1, <2>3 DEF Complete
    <3> QED BY <3>1 DEF Told, Msg
  <2>5. ASSUME NEW i \in Assistants
        PROVE  i \in Nat /\ i >= 2 /\ i < Len(msgs) /\ DOMAIN msgs[i].ids \subseteq Nat
    <3>1. /\ i \in 1..Len(msgs) /\ msgs[i].ids \in Seq(Nat) /\ Len(msgs[i].ids) \in Nat
          /\ DOMAIN msgs[i].ids = 1..Len(msgs[i].ids)
      BY <2>2, MessageProperties DEF Assistants
    <3>2. Len(msgs[i].ids) # 0
      BY <2>1, <3>1, EmptySeq
    <3>3. i + 1 \in DOMAIN msgs
      BY <2>4, <3>1, <3>2
    <3>4. i # 1
      BY <2>1 DEF Assistants
    <3> QED BY <2>2, <3>1, <3>3, <3>4
  <2>6. CASE setup.client # "anthropic"
    <3>1. w = msgs /\ role = "tool"
      BY <2>6 DEF Wire
    <3>2. \A i \in DOMAIN w : w[i].role = "assistant" =>
             \A k \in DOMAIN w[i].ids : Result(i + k, w[i].ids[k])
      BY <2>4, <3>1 DEF Assistants
    <3>3. \A i \in DOMAIN w : w[i].role = "tool" => \E j \in 1 .. i - 1 :
             w[j].role = "assistant" /\ i - j \in DOMAIN w[j].ids
      <4> SUFFICES ASSUME NEW i \in DOMAIN msgs, msgs[i].role = "tool"
                   PROVE  \E j \in 1 .. i - 1 : msgs[j].role = "assistant" /\ i - j \in DOMAIN msgs[j].ids
        BY <3>1
      <4>1. PICK j \in Assistants : j < i /\ i - j \in DOMAIN msgs[j].ids
        BY <2>1
      <4>2. j \in 1 .. i - 1
        BY <2>2, <2>5, <4>1
      <4> QED BY <4>1, <4>2 DEF Assistants
    <3>4. w[Len(w)].role # "assistant"
      <4> SUFFICES ASSUME msgs[Len(msgs)].role = "assistant" PROVE FALSE
        BY <3>1
      <4>1. Len(msgs) \in Assistants
        BY <2>1, <2>2 DEF Assistants
      <4> QED BY <2>2, <2>5, <4>1
    <3> QED BY <2>6, <3>2, <3>3, <3>4
  <2>7. CASE setup.client = "anthropic"
    <3>1. role = "user"
      BY <2>7
    <3>2. /\ DOMAIN w = 1..(Len(msgs) - 1) /\ Len(w) = Len(msgs) - 1
          /\ \A n \in 1..(Len(msgs) - 1) :
                w[n] = IF msgs[n + 1].role = "tool" THEN Msg("user", msgs[n + 1].ids) ELSE msgs[n + 1]
      BY <2>1, <2>2, <2>7, WireProperties
    <3> HIDE DEF w
    <3>3. ASSUME NEW i \in DOMAIN w
          PROVE  /\ i + 1 \in DOMAIN msgs /\ w[i].ids = msgs[i + 1].ids
                 /\ w[i].role = IF msgs[i + 1].role = "tool" THEN "user" ELSE msgs[i + 1].role
      BY <2>2, <3>2 DEF Msg
    <3>4. \A i \in DOMAIN w : w[i].role = "assistant" =>
             \A k \in DOMAIN w[i].ids : Result(i + k, w[i].ids[k])
      <4> SUFFICES ASSUME NEW i \in DOMAIN w, w[i].role = "assistant", NEW k \in DOMAIN w[i].ids
                   PROVE  Result(i + k, w[i].ids[k])
        OBVIOUS
      <4>1. i + 1 \in Assistants /\ w[i].ids = msgs[i + 1].ids
        BY <3>3 DEF Assistants
      <4>2. /\ (i + 1) + k \in DOMAIN msgs /\ msgs[(i + 1) + k].role = "tool"
            /\ msgs[(i + 1) + k].ids = <<w[i].ids[k]>>
        BY <2>4, <4>1
      <4>3. k \in Nat /\ k >= 1
        <5>1. DOMAIN msgs[i + 1].ids = 1..Len(msgs[i + 1].ids)
          BY <2>2, <3>3, MessageProperties
        <5> QED BY <4>1, <5>1
      <4>4. i + k \in DOMAIN w /\ (i + 1) + k = (i + k) + 1
        <5>1. i \in 1..(Len(msgs) - 1) /\ (i + 1) + k \in 1..Len(msgs)
          BY <2>2, <3>2, <4>2, Zenon
        <5>2. i + k \in 1..(Len(msgs) - 1) /\ (i + 1) + k = (i + k) + 1
          BY <2>2, <4>3, <5>1
        <5> QED BY <3>2, <5>2, Zenon
      <4> QED BY <3>1, <3>3, <4>2, <4>4
    <3>5. \A i \in DOMAIN w : w[i].role # "tool"
      BY <3>3
    <3>6. w[Len(w)].role # "assistant"
      <4> SUFFICES ASSUME w[Len(w)].role = "assistant" PROVE FALSE
        OBVIOUS
      <4>1. Len(w) \in DOMAIN w /\ Len(w) + 1 = Len(msgs)
        BY <2>1, <2>2, <3>2
      <4>2. Len(msgs) \in Assistants
        BY <3>3, <4>1 DEF Assistants
      <4> QED BY <2>2, <2>5, <4>2
    <3> QED BY <2>7, <3>4, <3>5, <3>6 DEF w
  <2> QED BY <2>6, <2>7
<1> QED BY <1>1, CallInvariant, PTL

(* Whatever the text, the retries and the repair, a strict record is made  *)
(* of one object that satisfies the schema, and no closed thinking block   *)
(* is stored that the job hides.                                           *)
THEOREM ContractKept == Spec => []AnswerContract
<1>1. CallInv => AnswerContract
  <2> SUFFICES ASSUME Types, Judged PROVE AnswerContract
    BY DEF CallInv
  <2>1. StrictContract
    <3> SUFFICES ASSUME setup.strict, result = "record" PROVE StrictContract
      BY DEF StrictContract
    <3>1. StrictlyReadable(text)
      BY DEF Judged, Accepted
    <3> QED BY <3>1 DEF StrictlyReadable, StrictContract
  <2>2. ThinkingHidden
    <3> SUFFICES ASSUME Hiding, stored = "raw"
                 PROVE  text.think = "no" \/ (text.think = "open" /\ ~setup.strict)
      BY DEF ThinkingHidden
    <3>1. PICK named \in MayName(text) : StoreResponseField(text, named) = "raw"
      BY DEF Judged, CanStore
    <3>2. text.think \in {"no", "closed", "open"} /\ Accepted(text)
      BY DEF Types, TypeOK, Texts, Judged
    <3>3. text.think # "closed"
      <4> SUFFICES ASSUME text.think = "closed" PROVE FALSE
        OBVIOUS
      <4>1. CASE named
        BY <3>1, <4>1 DEF StoreResponseField
      <4>2. CASE ~named
        BY <3>1, <4>2 DEF StoreResponseField, Hiding
      <4> QED BY <4>1, <4>2
    <3>4. setup.strict => text.think # "open"
      BY <3>2 DEF Accepted, StrictlyReadable
    <3> QED BY <3>2, <3>3, <3>4
  <2> QED BY <2>1, <2>2 DEF AnswerContract
<1> QED BY <1>1, CallInvariant, PTL

(* A record costs at most max_retries requests for each round and for the  *)
(* repair, no retry comes before the provider's Retry-After, and only the  *)
(* debug wrapper around a client without tools ends the process.           *)
THEOREM CallBounded == Spec => [](RequestsBounded /\ RetryAfterHonoured /\ Panics)
<1>1. CallInv => RequestsBounded /\ RetryAfterHonoured /\ Panics
  <2> SUFFICES ASSUME Types, Counted PROVE RequestsBounded /\ RetryAfterHonoured
    BY DEF CallInv
  <2> DEFINE before == IF purpose = "repair" THEN round ELSE round - 1
  <2>1. /\ requests \in Nat /\ attempt \in Nat /\ attempt <= MaxRetries
        /\ before \in Nat /\ before <= MaxRounds /\ MaxRounds \in Nat /\ MaxRetries \in Nat
    BY CallAssumption DEF Types, TypeOK
  <2>2. requests + (IF pc = "ask" THEN 1 ELSE 0) <= MaxRetries * before + attempt
    BY Zenon DEF Counted, Spent
  <2> HIDE DEF before
  <2>3. /\ MaxRetries * before \in Nat /\ MaxRetries * MaxRounds \in Nat
        /\ MaxRetries * before <= MaxRetries * MaxRounds
        /\ MaxRetries * (MaxRounds + 1) = MaxRetries * MaxRounds + MaxRetries
    BY <2>1, Rounds
  <2>4. requests <= MaxRetries * (MaxRounds + 1)
    BY <2>1, <2>2, <2>3
  <2> QED BY <2>4 DEF RequestsBounded, RetryAfterHonoured, Counted
<1> QED BY <1>1, CallInvariant, PTL
=============================================================================
