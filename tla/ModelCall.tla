------------------------------ MODULE ModelCall ------------------------------
(***************************************************************************)
(* What a worker does for one record between taking it and handing in its  *)
(* answer: the retries of generateWithRetry and agentStepWithRetry, the    *)
(* rounds of runAgentic with their tool calls, the strict or lenient       *)
(* reading of the answer, the one attempt to repair it, and what goes into *)
(* the response field (internal/app/app.go); the clients' reading of a     *)
(* provider's reply (internal/llm); the debug wrapper and the dry run.     *)
(* RecordPipeline takes all of this as one step with an answer or an error.*)
(***************************************************************************)
EXTENDS Integers, Sequences, FiniteSets

CONSTANTS
    Setups,        \* the jobs' settings considered, a subset of AllSetups
    MaxRetries,    \* processing.max_retries
    MaxRounds,     \* tools.max_rounds
    MaxCalls,      \* bound: tool calls in one reply
    RetryAfters    \* bound: values of a Retry-After header, in seconds

ASSUME CallAssumption ==
    /\ MaxRetries \in Nat \ {0} /\ MaxRounds \in Nat \ {0}   \* ApplyDefaults sees to it
    /\ MaxCalls \in Nat \ {0} /\ RetryAfters \subseteq Nat

(* A type hint of response_schema: whether it lists values, the type word  *)
(* among its tokens, and the type names that are substrings of it: the     *)
(* validation looks for words, the dry run for substrings.                 *)
Hints == [enum : BOOLEAN, word : {"bool", "int", "number", "string", "array", "object", "any"},
          has : SUBSET {"bool", "int", "number"}]

Clients == {"openai", "anthropic", "gemini", "ollama", "dryrun"}

(* schema "field": the default one, with response_field as only key; "own":*)
(* the user's keys; "none": response_format json without a schema.         *)
AllSetups == [client : Clients, debug : BOOLEAN, tools : BOOLEAN, strict : BOOLEAN,
              thinking : BOOLEAN, hide : BOOLEAN, schema : {"field", "own", "none"}, hint : Hints]

ASSUME SetupAssumption == Setups \subseteq AllSetups

VARIABLES
    setup,         \* the job's settings: never change
    ctxDone,       \* the context of processJobs is done
    pc,            \* "ask", "wait", "tool", "parse", "done", or "panic"
    purpose,       \* what is asked for: the "answer", or its "repair"
    attempt, round,
    requests,      \* requests sent so far
    msgs,          \* the conversation of runAgentic
    pending,       \* ids of the tool calls still to be executed
    text,          \* the answer that is being read
    owed, delay,   \* seconds the provider asked to wait; seconds waited
    result,        \* "none", "record" or "error"
    stored         \* what the response field of the record shows
vars == <<setup, ctxDone, pc, purpose, attempt, round, requests, msgs, pending, text, owed,
          delay, result, stored>>

(* An answer's text: a <thinking> block that is closed, or cut off; then   *)
(* one JSON object, bare or in a code fence, two of them, one among prose, *)
(* one followed by a stray brace, null, no JSON, or nothing; and whether   *)
(* the object satisfies the schema.                                        *)
Texts == [think : {"no", "closed", "open"},
          body : {"object", "fenced", "two", "amongProse", "strayBrace", "null", "prose", "empty"},
          fits : BOOLEAN]
NoText == [think |-> "no", body |-> "empty", fits |-> FALSE]

Msg(role, ids) == [role |-> role, ids |-> ids]

Init ==
    /\ setup \in Setups
    /\ ctxDone = FALSE
    /\ pc = "ask" /\ purpose = "answer" /\ attempt = 1 /\ round = 1 /\ requests = 0
    /\ msgs = <<Msg("system", <<>>), Msg("user", <<>>)>> /\ pending = <<>>
    /\ text = NoText /\ owed = 0 /\ delay = 0
    /\ result = "none" /\ stored = "nothing"

-----------------------------------------------------------------------------
(* internal/llm: what a client makes of the provider's reply.              *)

(* "lost": transport or read error; "limited": status 429, or an error     *)
(* whose text speaks of a rate limit; "refused": another status or error;  *)
(* "empty": no choice, candidate or block; "null": a choice without        *)
(* content; "both": text and tool calls.                                   *)
Replies == {"lost", "limited", "refused", "garbled", "empty", "null", "text", "calls", "both"}

Failure(r) == IF r = "limited" THEN "rate" ELSE "error"

OpenAIGenerate(r)    == IF r \in {"text", "both"} THEN "text" ELSE Failure(r)
AnthropicGenerate(r) == IF r \in {"text", "both"} THEN "text" ELSE Failure(r)
GeminiGenerate(r)    == IF r = "text" THEN "text" ELSE Failure(r)
OllamaGenerate(r)    == IF r \in {"text", "empty"} THEN "text" ELSE Failure(r)

\* Tool calls take precedence over text; a missing content is an empty text.
OpenAIAgent(r) ==
    CASE r \in {"calls", "both"} -> "calls"
      [] r \in {"text", "null"}  -> "text"
      [] OTHER                   -> Failure(r)
AnthropicAgent(r) ==
    CASE r \in {"calls", "both"} -> "calls"
      [] r \in {"text", "empty"} -> "text"
      [] OTHER                   -> Failure(r)

IsAgent == setup.client \in {"openai", "anthropic"}

Generate(r) ==
    CASE setup.client = "openai"    -> OpenAIGenerate(r)
      [] setup.client = "anthropic" -> AnthropicGenerate(r)
      [] setup.client = "gemini"    -> GeminiGenerate(r)
      [] setup.client = "ollama"    -> OllamaGenerate(r)
      [] setup.client = "dryrun"    -> "text"

(* The debug wrapper implements AgentGenerator for every client; around    *)
(* one that does not, it returns neither a response nor an error.          *)
GenerateAgent(r) ==
    CASE setup.client = "openai"    -> OpenAIAgent(r)
      [] setup.client = "anthropic" -> AnthropicAgent(r)
      [] OTHER                      -> "nil"

(* runAgentic asks with tools when the generator it holds can; the repair  *)
(* never does.                                                             *)
AsksWithTools == purpose = "answer" /\ setup.tools /\ (IsAgent \/ setup.debug)

Outcome(r) == IF AsksWithTools THEN GenerateAgent(r) ELSE Generate(r)

(* Backoff and RetryDelay, in seconds.                                     *)
Backoff(n) == 2 ^ ((IF n > 6 THEN 6 ELSE n) - 1)
AtLeast(a, b) == IF a < b THEN b ELSE a

\* Mutant: a Retry-After shorter than the rate-limit minimum would be taken as is.
RetryDelayAsTold(rate, after, n) == IF rate THEN after - 1 ELSE Backoff(n)

RetryDelay(rate, after, n) ==
    IF rate THEN AtLeast(AtLeast(Backoff(n), 5), after) ELSE Backoff(n)

(* The wire format: Anthropic takes the system prompt out of the messages  *)
(* and tool results as messages of the user.                               *)
Wire(m) ==
    IF setup.client # "anthropic" THEN m
    ELSE LET kept == {i \in DOMAIN m : m[i].role # "system"}
             Place(i) == Cardinality({j \in kept : j <= i})
             At(n) == m[CHOOSE i \in kept : Place(i) = n]
         IN  [n \in 1 .. Cardinality(kept) |->
                 IF At(n).role = "tool" THEN Msg("user", At(n).ids) ELSE At(n)]

-----------------------------------------------------------------------------
(* Reading the answer.                                                     *)

\* Dry run: placeholderValueForHint looks for substrings ...
PlaceholderKind(h) ==
    CASE "bool" \in h.has -> "bool"
      [] "bool" \notin h.has /\ h.has # {} -> "number"     \* the integer 0
      [] OTHER -> "string"

\* ... inferSchemaConstraint and validateSchemaValue go by words and lists.
PlaceholderFits(h) ==
    IF h.enum THEN FALSE
    ELSE \/ h.word = "any"
         \/ h.word = PlaceholderKind(h)
         \/ h.word = "int" /\ PlaceholderKind(h) = "number"

(* Without a schema the dry run answers {response_field: "[dry-run]"}, and *)
(* the default schema asks for a string in that field.                     *)
DryRunText ==
    [think |-> "no", body |-> "object",
     fits |-> setup.schema = "own" => PlaceholderFits(setup.hint)]

(* extractStrictJSON: with thinking a closed block may come first.  Without*)
(* a schema every object is valid, and null counts as an empty one.        *)
StrictlyReadable(t) ==
    /\ t.think = "no" \/ (setup.thinking /\ t.think = "closed")
    /\ \/ t.body \in {"object", "fenced"} /\ (t.fits \/ setup.schema = "none")
       \/ t.body = "null" /\ setup.schema = "none"

(* extractLastJSON: what ends at the last closing brace of the text.       *)
LastObjectFound(t) == t.body \in {"object", "fenced", "two", "amongProse"}

\* Mutant: validation of the answer would end with a parsed object.
AcceptedUnchecked(t) == ~setup.strict \/ t.body \in {"object", "fenced", "null"}

Accepted(t) == ~setup.strict \/ StrictlyReadable(t)

(* The parsed object is merged into the record unless nothing was found.   *)
HasParsed(t) == IF setup.strict THEN t.body # "null" ELSE LastObjectFound(t)

(* Whether the parsed object holds response_field itself: one that keeps   *)
(* the default schema does, any other may.                                 *)
MayName(t) ==
    CASE ~HasParsed(t) -> {FALSE}
      [] HasParsed(t) /\ setup.schema = "field" /\ t.fits -> {TRUE}
      [] HasParsed(t) /\ ~(setup.schema = "field" /\ t.fits) -> BOOLEAN

Hiding == setup.thinking /\ setup.hide

\* Mutant: the raw answer would be stored although thinking is to be hidden.
StoreRawAlways(t, named) == "raw"

(* storeResponseField.  "raw" is the text with its thinking block, if any; *)
(* "final" is a text or object without one.                                *)
StoreResponseField(t, named) ==
    CASE named -> "parsed"
      [] ~named /\ ~Hiding -> "raw"
      [] ~named /\ Hiding ->
            IF HasParsed(t) \/ t.think = "closed" THEN "final" ELSE "raw"

-----------------------------------------------------------------------------
Finish(r) == pc' = "done" /\ result' = r

(* One HTTP exchange.  A done context ends it at once.                     *)
Reply(r) ==
    /\ pc = "ask"
    /\ ctxDone /\ setup.client # "dryrun" => r = "lost"
    /\ r \in {"calls", "both"} => AsksWithTools
    /\ requests' = requests + 1
    /\ UNCHANGED <<setup, ctxDone, purpose, round>>

\* An answer; an empty one if the reply carried none.
Answered(r) ==
    /\ Reply(r) /\ Outcome(r) = "text"
    /\ text' \in CASE setup.client = "dryrun" -> {DryRunText}
                   [] setup.client # "dryrun" /\ r \in {"null", "empty"} -> {NoText}
                   [] OTHER -> Texts
    /\ pc' = "parse"
    /\ UNCHANGED <<attempt, msgs, pending, owed, delay, result, stored>>

\* The model calls tools: they go into the conversation with their ids.
ToolsRequested(r) ==
    /\ Reply(r) /\ Outcome(r) = "calls"
    /\ \E n \in 1 .. MaxCalls :
          LET ids == [i \in 1 .. n |-> Len(msgs) * MaxCalls + i]
          IN  /\ msgs' = Append(msgs, Msg("assistant", ids))
              /\ pending' = ids
    /\ pc' = "tool"
    /\ UNCHANGED <<attempt, text, owed, delay, result, stored>>

\* resp.ToolCalls of a nil response: the worker goroutine panics.
NilResponse(r) ==
    /\ Reply(r) /\ Outcome(r) = "nil"
    /\ pc' = "panic"
    /\ UNCHANGED <<attempt, msgs, pending, text, owed, delay, result, stored>>

(* Every kind of error is retried; after the last attempt it is returned   *)
(* at once.  An error of the repair leaves the refusal of the answer.      *)
RequestFails(r) ==
    /\ Reply(r) /\ Outcome(r) \in {"error", "rate"}
    /\ IF attempt = MaxRetries
       THEN Finish("error") /\ UNCHANGED <<owed, delay>>
       ELSE /\ \E after \in IF Outcome(r) = "rate" THEN RetryAfters ELSE {0} :
                  /\ owed' = after
                  /\ delay' = RetryDelay(Outcome(r) = "rate", after, attempt)
            /\ pc' = "wait" /\ UNCHANGED result
    /\ UNCHANGED <<attempt, msgs, pending, text, stored>>

Retry ==
    /\ pc = "wait"
    /\ attempt' = attempt + 1
    /\ pc' = "ask" /\ owed' = 0 /\ delay' = 0
    /\ UNCHANGED <<setup, ctxDone, purpose, round, requests, msgs, pending, text, result, stored>>

WaitCancelled ==
    /\ pc = "wait" /\ ctxDone
    /\ Finish("error") /\ owed' = 0 /\ delay' = 0
    /\ UNCHANGED <<setup, ctxDone, purpose, attempt, round, requests, msgs, pending, text, stored>>

\* Mutant: an unknown tool or a failed one would leave no message.
ToolErrorDropped ==
    /\ pc = "tool" /\ pending # <<>>
    /\ \E ok \in BOOLEAN :
          msgs' = IF ok THEN Append(msgs, Msg("tool", <<Head(pending)>>)) ELSE msgs
    /\ pending' = Tail(pending)
    /\ UNCHANGED <<setup, ctxDone, pc, purpose, attempt, round, requests, text, owed, delay,
                   result, stored>>

(* Whether the tool is known, works or fails, its call gets one message    *)
(* with its id: the error is told to the model.                            *)
ExecuteTool ==
    /\ pc = "tool" /\ pending # <<>>
    /\ msgs' = Append(msgs, Msg("tool", <<Head(pending)>>))
    /\ pending' = Tail(pending)
    /\ UNCHANGED <<setup, ctxDone, pc, purpose, attempt, round, requests, text, owed, delay,
                   result, stored>>

\* Mutant: the loop would end without a result.
LastRoundForgotten ==
    /\ pc = "tool" /\ pending = <<>> /\ round < MaxRounds
    /\ round' = round + 1 /\ attempt' = 1 /\ pc' = "ask"
    /\ UNCHANGED <<setup, ctxDone, purpose, requests, msgs, pending, text, owed, delay, result,
                   stored>>

NextRound ==
    /\ pc = "tool" /\ pending = <<>>
    /\ IF round = MaxRounds
       THEN Finish("error") /\ UNCHANGED <<round, attempt>>
       ELSE round' = round + 1 /\ attempt' = 1 /\ pc' = "ask" /\ UNCHANGED result
    /\ UNCHANGED <<setup, ctxDone, purpose, requests, msgs, pending, text, owed, delay, stored>>

AcceptAnswer ==
    /\ pc = "parse" /\ Accepted(text)
    /\ Finish("record")
    /\ \E named \in MayName(text) : stored' = StoreResponseField(text, named)
    /\ UNCHANGED <<setup, ctxDone, purpose, attempt, round, requests, msgs, pending, text, owed,
                   delay>>

\* Mutant: a refused repair would be repaired again.
RepairAgain ==
    /\ pc = "parse" /\ ~Accepted(text)
    /\ purpose' = "repair" /\ attempt' = 1 /\ pc' = "ask"
    /\ UNCHANGED <<setup, ctxDone, round, requests, msgs, pending, text, owed, delay, result,
                   stored>>

(* A refused answer is sent back once, with its retries, to be repaired.   *)
RefuseAnswer ==
    /\ pc = "parse" /\ ~Accepted(text)
    /\ IF purpose = "answer"
       THEN purpose' = "repair" /\ attempt' = 1 /\ pc' = "ask" /\ UNCHANGED result
       ELSE Finish("error") /\ UNCHANGED <<purpose, attempt>>
    /\ UNCHANGED <<setup, ctxDone, round, requests, msgs, pending, text, owed, delay, stored>>

Cancel ==
    /\ ~ctxDone /\ pc \notin {"done", "panic"}
    /\ ctxDone' = TRUE
    /\ UNCHANGED <<setup, pc, purpose, attempt, round, requests, msgs, pending, text, owed, delay,
                   result, stored>>

Step ==
    \/ \E r \in Replies :
          Answered(r) \/ ToolsRequested(r) \/ NilResponse(r) \/ RequestFails(r)
    \/ Retry \/ WaitCancelled \/ ExecuteTool \/ NextRound \/ AcceptAnswer \/ RefuseAnswer

Ended == pc \in {"done", "panic"} /\ UNCHANGED vars

Next == Step \/ Cancel \/ Ended

Spec == Init /\ [][Next]_vars

(* A worker's goroutine runs; a request is bounded by the HTTP timeout, a  *)
(* wait by its timer, a tool by the context it is given.                   *)
LiveSpec == Spec /\ WF_vars(Step)

-----------------------------------------------------------------------------
TypeOK ==
    /\ setup \in AllSetups /\ ctxDone \in BOOLEAN
    /\ pc \in {"ask", "wait", "tool", "parse", "done", "panic"}
    /\ purpose \in {"answer", "repair"}
    /\ attempt \in 1 .. MaxRetries /\ round \in 1 .. MaxRounds /\ requests \in Nat
    /\ \A i \in DOMAIN msgs : msgs[i].role \in {"system", "user", "assistant", "tool"}
    /\ pending \in Seq(Nat) /\ text \in Texts
    /\ owed \in RetryAfters \cup {0} /\ delay \in Nat
    /\ result \in {"none", "record", "error"}
    /\ stored \in {"nothing", "parsed", "raw", "final"}

(* Every request carries a conversation providers accept: each tool call   *)
(* of an assistant message is answered, in order and exactly once, by the  *)
(* messages right behind it, in the wire format of the client.             *)
ConversationAccepted ==
    pc = "ask" =>
        LET w == Wire(msgs)
            Result(i, id) == i \in DOMAIN w /\ w[i].ids = <<id>>
                             /\ w[i].role = IF setup.client = "anthropic" THEN "user" ELSE "tool"
        IN  /\ \A i \in DOMAIN w : w[i].role = "assistant" =>
                  \A k \in DOMAIN w[i].ids : Result(i + k, w[i].ids[k])
            /\ \A i \in DOMAIN w : w[i].role = "tool" => \E j \in 1 .. i - 1 :
                  w[j].role = "assistant" /\ i - j \in DOMAIN w[j].ids
            /\ w[Len(w)].role # "assistant"

(* One record costs a bounded number of requests: every round and the one  *)
(* repair has its own max_retries.                                         *)
RequestsBounded == requests <= MaxRetries * (MaxRounds + 1)

(* A retry never comes before the provider's Retry-After has passed, and   *)
(* never at once.                                                          *)
RetryAfterHonoured == pc = "wait" => delay >= owed /\ delay >= 1

(* Under the strict contract a record is made only of one JSON object that *)
(* satisfies the schema, be it the answer or the repaired one: no prose,   *)
(* no second object, no visible thinking that was not asked for.           *)
StrictContract ==
    setup.strict /\ result = "record" =>
        /\ text.body \in {"object", "fenced", "null"}
        /\ setup.schema = "own" => text.fits /\ text.body # "null"
        /\ text.think = "no" \/ setup.thinking

(* With include_thinking_in_response_field off, no closed thinking block   *)
(* is stored in the response field, whichever way the answer was read; one *)
(* that was cut off is, under the lenient contract.                        *)
ThinkingHidden ==
    Hiding /\ stored = "raw" =>
        text.think = "no" \/ (text.think = "open" /\ ~setup.strict)

(* Under either contract what is stored is what the job asked for.         *)
AnswerContract == StrictContract /\ ThinkingHidden

(* The debug wrapper claims tools for every client, and around one without *)
(* them resp.ToolCalls of its nil response ends the process.               *)
WrapsToolless == setup.debug /\ setup.tools /\ ~IsAgent

(* A call ends, with a record or an error, whatever the provider answers,  *)
(* after a bounded number of requests and with the waits it asked for.     *)
(* Calls through the debug wrapper around a client without tools are left  *)
(* out: DebugTransparent says what should hold of them.                    *)
CallEnds ==
    /\ ~WrapsToolless => <>(pc = "done")
    /\ []RequestsBounded /\ []RetryAfterHonoured

(* "NewDebuggingGenerator returns a Generator that transparently wraps     *)
(* inner": logging a call changes nothing of it, so it ends the process    *)
(* under the wrapper no more than without it.  The code breaks this.       *)
DebugTransparent == pc # "panic"
=============================================================================
