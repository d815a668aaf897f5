# TLA+ models of llmflow

llmflow sends the records of a file or table through a language model and
writes the answers to another file or table.  It runs from the command line,
as a web server that keeps a history of jobs and watches directories, and
comes with a separate gateway that balances requests over several model
servers.  The modules in this directory model the parts of it that are
concurrent, must survive failures, or must read what another part wrote; TLC
checks them on small instances and TLAPS proves the central results for all sizes.

Paths below are relative to the repository (`src/` in PROJECT.json).

## 1. Inventory

### Record pipeline (`internal/app/app.go`)

State: the channel of records to do (`jobs`), the channel of answers
(`resultCh`), the map of answers that wait for their turn, `firstErr`,
the processed counter, two contexts, and the limiter's slots, which all jobs of
the process share.

Operations: a producer goroutine reads and sends records; workers acquire a
slot, take a record, wait for the rate limiter, call the model (with retries,
tools, repair of malformed answers) and send the answer; a collector puts the
answers in input order and hands them to the writer; the caller may cancel.
With `batch_size > 1` a worker takes several records per call.

Hard: answers arrive in any order; an error or a failed write stops only some
of the goroutines; every early return must give its slot back; "ok" is put
together from errors recorded by three goroutines.

Correct when: the output is in input order without gaps or duplicates; no
answer is lost; the verdict is true; nothing is left running; slots add up;
Run returns.

### Job server (`internal/web/server.go`)

State: the list of jobs with their status, the id counter, the cancel function
of each job, the state file and its backup, one mutex for the list and one
for the file, a WaitGroup of running jobs.

Operations: run, rerun, cancel, archive, delete, list; progress, log and result
callbacks from the pipeline, each of which saves the whole list; load on
start, with unfinished jobs marked as failed; graceful shutdown.

Hard: a job is visible before it can be cancelled; the callbacks save
concurrently; a crash between any two steps; ids after a restart; a save that
fails.

Correct when: a final status stays final, a cancelled job stops, the file
holds the last state once all saves are done, every job listed as running
runs, two jobs never have the same id.

### Batches (`processRecordStreamBatch`, `processBatch`)

The pipeline for `batch_size > 1` is code of its own: the producer cuts the
input into batches, a worker makes one call per batch and takes the answer
apart, and one context serves reader, workers and writer.

Hard: indices (a partial last batch, an answer with too few elements); the
cancellation by one failed batch reaches the reader, whose own context error
competes with the cause.

Correct when: each record gets its own element of the answer; order, verdict
and end as above.

### One model call (`internal/app/app.go`, `internal/llm`)

State: the conversation with its tool calls, the attempt, the round, the wait
the provider asked for.  Operations: send a request, retry, execute tools, read
the answer under the strict or the lenient contract, have it repaired once,
store the response field; the reading of a reply by each of the clients; the
debug wrapper; the dry run.

Hard: retries multiply over rounds and the repair; a tool that fails; answers
that are cut off, fenced, doubled or null.

Correct when: every request carries a conversation the provider accepts; only an
answer that keeps the contract makes a record; the call ends after a bounded number of
requests.

### Directory watchers (`internal/web/server.go`, 3232-3490)

State: watcher configurations and their file; the files in a watched
directory, in `active/` and in `done/`.

Operations: every 5 seconds each active watcher moves matching files to
`active/`, starts a job and a goroutine that moves the file to `done/` when the
job is no longer shown as running; create, delete and toggle watchers.

Hard: a second file of the same name arrives while the first is processed; a job
is cancelled, and so shown as ended, while its run still reads; a rename fails; the
server stops or crashes with a file in `active/`; the poll works on copies.

Correct when: a file is submitted once, a job that is not cancelled finds it, and it
leaves `active/` unless its rename failed or the server stopped; the saved list is the newest.

### Durable files (`writeFileAtomicWithBackup`, `loadJobStateWithBackup`)

Write a temporary file, sync it, copy the old file to `.bak`, rename, sync the
directory; load the file or, if it cannot be parsed, the backup, and save what
was recovered.  Hard: a crash or power failure between any two steps, ignored
errors of the copy.  Correct when: a load finds the old or the new content.

### Writers, readers, downloads (`internal/output`, `internal/input`, `internal/web/server.go`)

State: a file of one of six formats as a writer has left it so far; the
columns and rows the writer keeps in memory.  Operations: Prepare, WriteRecord,
Close; the readers; column exclusion; preview, download with conversion, delete.

Hard: records differ in their fields, and a csv whose header grows is written
again; files are read while they are written, after a failed write and after a
crash.

Correct when: no reader takes a value for another field's, skips or doubles
a record, but for a csv reader that is overtaken by a rewrite; what was accepted
stays readable, up to the length of line a reader takes; conversions agree.

### LLM gateway (`internal/llmgateway`)

State: per backend a health flag, an error and a count of active connections;
the smooth weighted round robin state; the current configuration with its
version, the latest snapshots, audit trail, feature flags and decisions; the
subscribers of the event stream; the listeners.

Operations: resolve a request to an ordered list of backends and try them in
turn; probe backends periodically; apply a configuration, roll back, set a
flag; publish, subscribe, unsubscribe; start and stop.

Hard: probes, requests and reloads interleave; requests use a captured
configuration; a cancelled client; slow subscribers; a subscriber that leaves
while others publish.

### Parts without a model

See "Not modelled" at the end.

## 2. Modules

| module | models |
| --- | --- |
| `OrderedDelivery` | what a run promises: records get an answer or an error in any order, are delivered in input order, and the run ends with one true verdict |
| `RecordPipeline` | one job with `batch_size <= 1`: producer, workers, limiter, collector, contexts, verdict |
| `MCRecordPipeline` | `RecordPipeline` for TLC |
| `RecordPipelineProofs` | its theorems |
| `JobServer` | the job history: submit, run, cancel, archive, delete, save, stop, crash, restart |
| `MCJobServer` | `JobServer` for TLC |
| `JobServerProofs` | its theorems |
| `Gateway` | routing, balancing, failover, health probes and reloads of the LLM gateway |
| `MCGateway` | `Gateway` for TLC |
| `GatewayProofs` | its theorems |
| `BatchPipeline` | one job with `batch_size > 1`, as another implementation of `OrderedDelivery` |
| `MCBatchPipeline` | `BatchPipeline` for TLC |
| `BatchPipelineProofs` | its theorems |
| `ModelCall` | one record's call: clients, retries, tool rounds, contract, repair |
| `MCModelCall` | `ModelCall` for TLC |
| `ModelCallProofs` | its theorems |
| `GatewayAdmin` | the gateway's control plane: versions, snapshots, admin API, event stream, start and stop |
| `MCGatewayAdmin` | `GatewayAdmin` for TLC: the configurations and requests |
| `GatewayAdminProofs` | its theorems |
| `DurableFile` | one state file and its backup, call by call |
| `Watcher` | the directory watchers and the way of a file |
| `MCWatcher` | `Watcher` for TLC |
| `WatcherProofs` | its theorems |
| `RecordFiles` | the records of a job in its output file: writers, readers, conversions |
| `MCFiles` | `RecordFiles` and `DurableFile` for TLC: the records' fields and sizes |
| `FilesProofs` | the theorems of `RecordFiles` and `DurableFile` |

How they fit together: `RecordPipeline` and `BatchPipeline` both implement
`OrderedDelivery`.  Each takes a model call as one step with an answer or an
error, which is what `ModelCall` spells out; each hands records to a writer,
whose file `RecordFiles` follows.  `JobServer` takes a pipeline's run as one
step that ends when its context is done (`Returns`), and a save as one that
happens or does not, which `DurableFile` justifies.  `Watcher` submits jobs
through the `enqueueJob` of `JobServer`, of which it sees the end.  `Gateway`
takes a new configuration from `GatewayAdmin` as one step, and `GatewayAdmin` a
request's walk over the backends as an answer or none.

### RecordPipeline

Each goroutine has a program counter: `prod` for the producer, `wpc[w]` for a
worker, `coll` for the goroutine that called `processJobs` (collector, then the
end of `processRecordStream`).  The worker's states follow its loop: `start`
(waits for a slot), `take` (waits for a record), `gate` (first look at the
context), `wait` (rate limiter), `call` (prompt, model, parsing), `send`
(`resultCh <-`), `count` (the atomic counter), `report` (callbacks), `exit`.

Records are numbers.  `jobs` is a FIFO channel with one sender, so its content
is `taken .. sent - 1` and needs no sequence.  `resultCh` has several senders
and is a sequence.  `ok` and `failed` are history: the records whose call
returned an answer or an error.  `out` is what the writer received, `disk` what
is in the file: at once for csv, jsonl, xml and sql, at `Close` for json and
xlsx (`Buffered`).

There are two contexts.  `callerDone` is the one Run gets; the producer, the
readers and the writers look at it.  The one `processJobs` derives is cancelled
also by the first error and by a failed write (`jobsCancel`); only the workers
look at it.  When both a send and a cancellation are possible the Go `select`
takes either one, and so does the model.

One model call, with enrichment, retries, waiting between them, tool rounds,
parsing and repair, is one step (`ModelCall` has its inside): it touches nothing
that another goroutine sees.  It yields an answer or an error; the three error exits of the worker
loop do the same.  Faults (`cancel`, `read`, `call`, `write`, `close`) are
switched on by the constant `Faults`.

### JobServer

`mu` guards the list and the fields of the jobs; each action is what the code
does under one hold of it.  `persistMu` is held by `persistJobs` from before it
copies the list until the file is written, so a save is two actions,
`SaveBegin` (lock, copy) and `Save` (write, unlock), with other steps between
them.  `pending` is the set of callers inside `persistJobs`, `copies` the copy
of the one that holds the lock.

`pc[j]` follows a job from `enqueueJob` (`reserved`: it has an id; `saving`:
it is listed; `undo`: the save failed; `saved`; `launch`: it has a context)
through `runJob` (`run`, `finish`) to `over`.  After a restart a job of the file is
`old`, any other one of the dead process `gone`.  A POST handler, a rerun and a watcher
all submit through `enqueueJob`; `Watched` are the watchers' jobs, which no
handler waits for.  A client's handler changes the list and then waits in
`persistJobs`; `req[c]` is the request it will answer.

`server` is `up`, `stopping` (SIGINT: the context all jobs derive from is
done), `draining` (`srv.Shutdown` has closed the listener and waits for the handlers, then
`wg.Wait` for the runs), `exited` or `crashed`.  A request counts as taken with
its first critical section, since only the taking depends on the listener.

Not in this model: the 30 second limit of `Shutdown`; a crash in the middle of
writing the file (`DurableFile`); log
entries and previews, which behave as `progress` does.

`disk` may hold one entry the history does not: if another caller's save copies the list
while a submission is pending and the submission's own save fails, the job is taken
out of the list but stays in the file until the next save.  `DiskIsRecent`
excepts exactly these.

### Gateway

`pc[r]` follows a request through `proxyHandler`: `route` (the router builds the
ordered list of backends), `select` (`Balancer.Select`, one step per selection,
since the balancer's lock is held for one), `try` (`proxyWithFailover` looks at
the next candidate), `call` (`proxyOnce`), `succeeded` and `failed` (the call has
returned and its connection is discounted, but the backend's health flag is not yet
set).  `order` is the list being built and then what is left of it to try.

A route's pools are its backends that are healthy and whose context length
suffices (all healthy ones if none suffices), then its fallback; an empty list
of names stands for all backends (`AllOr`), as in `BackendManager.Resolve`.  A list
may name a backend twice, and backends that are configured but disabled, which
are passed over: `Configured` are the names a list may hold, `Backends` those
that are enabled, and a candidate is a position in the list, since the
balancer raises a backend's weight once for each time it is named.  `Swing` is
at least twice the weight of any such list less the weights of any two backends: the unit
in which `SmoothBalanced` bounds how far a group of backends can get ahead of the others.
There is always such a number, since the lists are finitely many.  After the
matching routes come the defaults and then everything.  Which routes match is a matter
of the request's text: it is the request's `kind`, a constant, and so is what a
classifier picks.  The flags of one pool are read in one step.

`version` numbers the runtime states.  A request and a round of the health loop
keep the one they captured (`on[r]`, `probe.on`); each has its own backends and
balancer.  `Apply` is the replacement only; versions, snapshots, logs and
events belong to `GatewayAdmin`, and every version has the same backends here.  `up` is outside the program: which model servers answer.  `good[r]` is history.

### BatchPipeline

The same goroutines as in `RecordPipeline`, with batches `[first, len]` in the
channels; `prod` has one more state, `last`, for the partial batch that is sent
after the input's end or a read error.  `Done` is the one context.  `wout[w]` is
what the worker's batch became, record by record: `own` (the element
at the record's place in the answer to its batch), `other` (the whole answer for all of
them, or nothing, which the lenient contract allows), `blank` (the placeholder of a
failed batch).  Which input an element is about is up to the model, and nothing in the
code looks: `StrictByPlace` speaks of places, and an answer whose elements the model
has permuted is stored as it came.
`Answers` are the shapes of answer that the parsing tells apart.  The limiter and
the callbacks are as in `RecordPipeline` and left to it.

### ModelCall

`setup` holds the job's settings and never changes.  `pc` is the place in
`generateWithRetry`, `agentStepWithRetry` and `runAgentic`; `purpose` tells
the answer from its repair, which runs through the same loops.  A reply of the
provider is one of a few kinds, and each client's `Outcome` of it follows that
client's code.  A text is a thinking block (none, closed, cut off), a body
(`object`, `fenced`, `two`, `amongProse`, ...) and whether it fits the schema: the
cases `parseJSONResponseFields` and the validation tell apart.  `Wire` is the
conversation as the client sends it: one client moves the system prompt out of the
messages, so that each other message takes the place its rank gives it (`Place`).
`Setups` are the jobs' settings considered, a subset of all there are (`SetupAssumption`).  A type hint is reduced to the words and
substrings the validation and the dry run look for.  With `debug` on a client
is wrapped (`WrapsToolless`), and `panic` is what becomes of a client without tools
behind the wrapper (see the findings).  A lenient answer without the response field is stored as
its raw text (`StoreResponseField`).

### GatewayAdmin

The state of `RuntimeManager` under its one lock, one action for each hold of it:
`apply` builds outside the lock and commits under it; a rollback finds, applies and
notes in three holds.  `Validate`, `Buildable` and `Usable` are the checks a
configuration has to pass, with every reference to a backend (defaults, fallbacks,
classifiers and their labels), the least sizes of logs and snapshots, and a pool that is
disabled as a whole; `Matches`, `RouteFor` and `Candidates` the router's
choice.  `EventHub.Publish` holds the read lock over several steps, one for each
subscriber (`sending`), and `Unsubscribe` waits for it.  `call` and `request`
follow the handlers; `run` is `Gateway.Run` with its listeners and shutdown.
`applied` is history.  Configurations are data (`Config`): their lists are sequences,
priorities and limits numbers (`ConfigAssumption`), and the one the process
started with is usable and names the listeners (`StartupAssumption`), since `New`
fails otherwise.  Walks over backends, health and balancing are `Gateway`'s.

### DurableFile

A content is the number of the save that wrote it, `Torn` one that does not parse.
One action for each system call of `writeFileAtomicWithBackup` and `copyFile`,
with the error paths that remove the temporary file and those that are ignored.
The file system is external: a write needs a sync to survive a power failure
(`dirty`), a rename needs the directory's (`undone`).  `Load` is
`loadJobs` with the backup; what it found is saved again at once (`recover`).
Its definitions that `RecordFiles` has too start with `SF`, since one module proves about both.

### Watcher

`order` is the list in memory, `disk` the watchers' file, `handler[h]` a request
that changes the list and saves it with its copy.  `poll` is the loop's program
counter with the watchers and names that are left; `top`, `active` and `done`
are the directories by name.  `jobs[f]` holds of a file's job the run (`run`), the status
shown (`status`) and the goroutine that waits (`mover`).  The last looks at the status
alone: `CancelJob` is `handleCancelJob`, after which the status is terminal and the run
goes on until `RunEnds`.  `ClaimFails`, `MoveFails` and the renaming half of `SubmitFails` are
renames that return an error: at the claim the file stays for the next round, at the
others nobody tries again and the file is `stranded`, as is one that is in flight when the
server stops.  All watchers share a directory, and files may share a name; `met` marks
those that are in flight under one name at a time, for which the code promises nothing.

### RecordFiles

A record is a function from its fields to values marked with record, field and
size, so that a value in the wrong place shows, and a value can be too long for a line
(1 MiB for the jsonl reader and the preview, 10 MiB for a download) or a cell.  A file is a sequence of units (opening,
one for each record, closing), each written in two steps, the first of which leaves it torn: this is
where a crash or a concurrent reader finds it.  `wpc` follows `App.Run` through
Prepare, WriteRecord and Close, a csv's rewriting (`WriteCSV`) included; `kept` is what csv, json
and xlsx hold in memory.  Each reader is an operator from a file to the records
it returns and how it ends (`eof`, `error`, or `cut`, an EOF behind a torn row);
they, the preview with its limit (`Shown`) and the conversions are applied in every reachable
state rather than as actions, since they change nothing and, where a writer only
appends, a lazy reader returns what the file holds when it comes to the end.

A csv is not only appended to, so its reader is also modelled as the code has it: `reader`
opens the file and takes line after line between the writer's steps (`OpenReader`, `ReadLine`,
`ReadEnd`).  When `WriteCSV` truncates the file under a reader that has begun, the reader is
`lost`: it goes on at its old offset in the new file, where no line need begin, and
the properties say nothing about what it returns from there on.

xml is what `encoding/xml` and mxj make of it: `XMLName` is `sanitizeXMLName`, by which
fields may share an element; the reader nests each value in a map under the element's
name, keeps the last of elements of one name and adds the white space of the indentation
as `#text` (`ToMap`, `Node`).  `AsRead` states for each format what a record is when it is read
again: for xml other names and nesting, for xlsx text cut at a cell's limit, for sql the
columns alone.

## 3. Runs

| run | shows | bounds |
| --- | --- | --- |
| `pipeline_safe` | every record is accounted for once, the verdict, quiescence, slots, and the refinement of `OrderedDelivery` | 2 workers, 4 records (the channels hold 4 each), 2 slots of which another job may hold 1, so that a worker waits for a slot another one has, all faults, both error policies, rate limiting, a buffered writer |
| `pipeline_live` | Run returns except from one state, and from there too once it is cancelled | 1 worker, 5 records: more than the channel (2), the worker (1) and the producer (1) can hold together, so every place where a goroutine can wait is reached |
| `batch` | batches lose and shift nothing, strict output is the element at the record's place, a clean end, the refinement of `OrderedDelivery`, the end | 5 records in batches of 2 (the last is partial), jobs of 1 or 2 workers, both policies, both contracts, cancellation, read and write errors |
| `call` | conversations, contract, the end and its cost | 2 attempts, 2 rounds of at most 2 tool calls, every client and setting, Retry-After of 0 and 20 s |
| `jobs_safe` | unique ids, nothing is running in the list for ever, the file is recent, answered requests survive, outcomes are final, a clean exit | 2 submitted jobs, 1 client, 1 failing save, 1 exit or crash with a restart; no progress callbacks, which only add saves of the same kind |
| `jobs_live` | every request is answered, a cancelled run ends, every shutdown ends | 1 job of a watcher with one progress callback, 1 client, 1 failing save, 1 stop |
| `watch` | one submission for each file, which a job that is not cancelled finds; the saved list; files leave `active/` unless stranded | 2 watchers on one directory, one broken, 2 files of one name, 2 handlers with 2 changes, 1 failure of a save or a rename, 1 stop, a cancel of each job |
| `files` | readers, preview and conversions of an output file in every state; of a state file a load finds old or new, and history is lost only to a second fault | 3 records of 6 shapes over 3 fields (two of one xml element), values of 4 sizes, 6 formats, 2 lists of output fields, 2 of excluded columns, previews of 1 and 2 lines; 5 saves, 4 faults |
| `debug` | violated: the debug wrapper does not wrap transparently (see the findings) | as `call` |
| `gateway_safe` | weights that never drift, connection counts, no backend asked twice, failover | 2 requests at a time without end, 2 backends of weights 2 and 1 that both fail and come back and a disabled one, a list that names a backend twice, hang-ups, one version |
| `gateway_live` | requests end, backends up come back, backends down drop out, counts across a reload | 1 request, 2 versions, 2 backends of which one fails; least connections, a list that names a backend twice and a disabled one, a fallback, a request too long for one backend |
| `admin` | versions and snapshots, one configuration for a request, read_only, the end of the process, no handler is held up | 2 admin calls, 1 request, 1 event client with a buffer of 1, 9 configurations (7 refused, each at another check), an audit trail of 3, a log of 1, 1 listener, 3 arrivals in all |

For the pipelines two workers are enough for every race between workers (they are
interchangeable, and `pipeline_safe` uses that symmetry); four records
let the answers of two workers arrive in each order while a third record waits
and a fourth is being read.  Three batches do the same for batches, and one worker alone lets
its channels fill up.

Fairness (`Fairness` in `RecordPipeline`): a goroutine that can take a step
takes one, since Go schedules all of them; a worker that waits for a limiter
slot gets one if slots become free again and again (strong fairness), since a
Go channel serves its waiting senders in order; other jobs give their slots
back.  No fault, no cancellation and no new work of another job is ever
forced.  That the model call returns is justified by the timeout of its HTTP
client and by `CallEnds`, which assumes only that the call's own steps go on.

For the job server two jobs and one client give three concurrent callers of
`persistJobs` (two submissions, two ends of runs, a handler); one failing save and one stop
can happen at any step.  Its fairness: a goroutine that can go on does;
`persistMu` goes to whoever waits (strong fairness: `sync.Mutex` hands over
in FIFO order once a waiter has starved for a millisecond); a file operation
ends; `Run` of a job whose context is done returns, which `Returns` says of
the pipeline.  A job is never obliged to end by itself, nor a client to ask.  For the
watchers a job is obliged to: `FilesFinish` speaks of jobs that end.

For a state file five saves and four faults let every pair of faults meet every
step of a save after a good save, and a third one a recovery.

Three records are the fewest in which a csv grows a column after rows of two lengths were
written, and a third field is needed for two columns of one xml element.  A line that is too long can be
the first, in the middle or the last, and a preview of 2 lines can stop before, at or behind it.
Output file and state file share nothing; in `files` each runs while the other is in its
first state.

For the gateway two requests draw on one balancer and count on one backend, and each can
mark the other's candidates; the number of requests is not bounded, and so the
weights are those of any number of selections.  Its fairness: the health
loop goes on (each probe has a timeout) and so does each handler (the HTTP
client has one).  Backends and clients are not obliged to anything.

In `admin` two calls race with each other and with a request; a third arrival is a second
call of one of them, after which snapshots were trimmed.  The program's own steps go on
(`Work`); callers, event clients that read or leave, signals and failing
listeners are not obliged to.  Deadlock is not checked in the runs in which the
process ends, or in which a run may wait for ever by design of the code (`pipeline_live`).

The type invariants are theorems and not repeated in the runs.

### Findings

`debug` checks `DebugTransparent`, what the comments of `internal/llm/debug.go` say: that the wrapper
"transparently wraps inner" (line 21) and "implements AgentGenerator when the wrapped generator supports it"
(line 55): a job that succeeds or fails without `debug` does not panic with it.  TLC finds it violated:
the wrapper has `GenerateAgent` whatever it wraps, and for a client without tools that returns nil
without an error (line 59), so that a job with tools takes the agentic path and `runAgentic`
dereferences the nil.  Without `debug` the same job never takes that path.  `CallEnds` in `call` says of
every other end how a call comes to it, and leaves this one to the finding.

### Observations

What the properties except or describe, as the code has it:

* A run that never returns (`Stuck` in `RecordPipeline`; `app.go:1089`).  With
  `continue_on_error: false` the first error cancels the workers'
  context, the workers return, and nobody receives from `jobs` any more.  The
  producer waits for room or for *its* context, which
  `processRecordStream` cancels only on return, after waiting for the producer.
  The slots are free and cancelling the job ends it; otherwise it stays
  "running".  The test of this setting (`app_test.go:160`) calls
  `processRecords`, where the channel is filled beforehand.  Batches share one
  context and do not have this (`BatchTermination`).
* Answers that are dropped (`OkVerdict`; `app.go:1707`).  With
  `continue_on_error: true` a failed record sends nothing into `resultCh`, so the
  collector waits for its number until the channel is closed, and later answers,
  announced to the result callback, are never written by a run that returns nil.  Batch mode sends
  placeholders instead.  A caller that cancels late may also get nil with a
  truncated output.
* In batch mode the reader's "context canceled" may be returned for the failed
  batch that caused it (`CleanEnd`), and the placeholders ignore
  `output_fields`.
* A job cancelled before it has a context (`CancelledRunsEnd`; `server.go:1353`).
  `enqueueJob` lists the job as running and saves before it sets `cancelFn`; a
  cancel request in between is answered, and the run goes on to its end.
* A watcher's job at exit (`ExitIsClean` excepts it; `server.go:285`).  `wg` counts a
  job from the start of its goroutine; before that a handler is waited for by
  `Shutdown`, but the watcher loop by nobody, so that the file may show the
  job as running after a graceful exit.
* A client that hangs up on the gateway (`good` in `FailoverReaches`;
  `proxy.go:107`).  The calls to backends carry the client's context, and every error
  counts against the backend, so that one client may take all backends out of service
  until the next probe (`Lively` says that there is an end to it).
* A dry run's placeholder may fail the job's own strict schema, since it reads type hints by
  substring and the validation by word (`app.go:1930`).
* A thinking block that was cut off is stored under the lenient contract
  (`ThinkingHidden`); a Retry-After is waited out however long, with the worker's slot.
* A second file of the name of one in flight replaces it in `active/`, and the first
  one's goroutine may move it away under its job (`met`); in `done/` the later of two files of one
  name replaces the earlier.  The watchers' file has a backup that is never read
  (`LoadOfOne` is how `loadWatchers` reads).
* A cancelled job's input is moved to `done/` while its run may still read it (`InputStays`
  excepts cancelled jobs; `server.go:3479`): the goroutine waits for the status, and
  `handleCancelJob` sets it before the run has noticed.
* A file stays in `active/` for good when its rename to `done/` fails, which is neither reported nor
  tried again, and when the server stops while it is in flight, as nothing looks into `active/` on
  start (`stranded` in `FilesFinish`).
* Recovering the history from the backup first overwrites the backup with the damaged
  file (`OneFaultTolerated` counts faults since file and backup were last both good).
* A run may end ok with an output that its own reader does not read to the end
  (`Reachable` in `OkMeansStored` and `AcceptedSurvives`; `input/json.go:46`): the jsonl writer takes lines of
  any length, the reader and the preview stop at one of more than 1 MiB and the download at
  10 MiB.  The reader returns an error there and not EOF.
* xml does not give back what was written: fields whose names sanitize to the same element become one,
  the later column's value stays, and each value comes back as a map (`AsRead`), so that
  `excluded_columns` matches elements and not fields.  xlsx cuts text at 32767 characters without
  an error.
* A csv that grows a column is truncated and written again under whoever reads it; the reader keeps its
  old header (`Overtaken`; `input/csv.go:161`).
* json and xlsx files are written by Close, whose error is discarded (`OkMeansStored`
  excepts it), and are never synced; a csv that is written again is truncated first
  (`Rewriting` in `AcceptedSurvives`).  The json array reader takes a document cut
  between two elements for complete; rows without any value disappear from csv files of
  one column and from sheets; xml and sql leave out fields that are no column.
* The admin call that validates a configuration accepts some that applying it refuses (`Buildable`); flags
  set through the API are lost with the next configuration; a read-only configuration
  cannot be undone through the API (`FrozenStays`); an open event stream makes a
  graceful shutdown time out and return an error (`EndsAsIntended`).

## 4. Proofs

`RecordPipelineProofs` proves for every number of records, workers and slots,
every set of faults and both error policies, from `PipelineAssumption` alone:
type correctness (`TypeCorrect`), the order of the output (`OutputOrdered`),
single custody (`NoneDuplicated`), that nothing is lost (`NoneLost`), the two
together (`RecordsAccounted`), the verdict (`OkIsOk`), quiescence (`ReturnsQuiescent`), the limiter's and the
counter's accounting (`SlotsAccounted`, `ProgressAccounted`) and the refinement
(`ImplementsOrderedDelivery`).

None of the checked invariants is inductive as it stands.  The inductive
invariant is built in layers, each preserved given the ones before it:

* `TypeInv`: types, and a record in a worker's hands has been taken from `jobs`
  (`Taken`), without which an answer need not be a record of the input;
* `Custody`: `Owned` (no two workers have one record, and a record in hand has
  neither answer nor error), `Placed` (a worker about to send, a place of
  `resultCh`, an entry of the map and a place of the output never have the same
  answer), `Found` (each answer is in one of them), `Accounted` (each taken
  record is in hand, answered or failed, unless the workers were stopped) and
  `Written`;
* `Endings`: which errors are recorded and which goroutines are gone when the
  collector is done;
* `SlotInv` and `ProgressInv`: a slot or a count moves with exactly one worker.

`OutputOrdered` needs `Owned` because an answered record could otherwise fail
later, and `Placed` because an emitted one could otherwise arrive again.  The
refinement needs all layers: `Drained` shows that a run that ends without an
error left nothing deliverable behind.

`JobServerProofs` proves for every set of jobs and clients and any number of
callbacks, failing saves, exits, crashes and restarts: `TypeCorrect`,
`IdsAreUnique`, `RunningAlive`, `AnsweredIsDurable` and `OutcomesAreFinal`.
The difficulty is that a save writes a copy that is old by then.  The
inductive invariant `History` therefore speaks of three lists, the one in memory, the one
copied and the one on disk:

* `Waiting`: who waits in `persistJobs` is at the place of the code that calls
  it, so that a request's answer is that of its own save;
* `Lifecycle` (`Shown`): where a job's goroutine is when it is listed or running;
* `Agreement`: the copy and the disk have the ids of memory, and no outcome
  that memory does not have;
* `Ahead`: a copy about to be written has every outcome the disk has; this is what
  fails without `persistMu`;
* `Ids`: an id in use by the process or in the file is at most `seq` and belongs to one
  job, so that taking the highest id of the file after a crash is enough;
* `Kept`: a promised request shows in the disk, in the copy and in memory; one
  handled but not yet answered shows in memory and in the copy made for it.

Two more layers say what the file shows once nobody has to save any more:

* `Recent`: if nobody is between a change of the list and the copy that will hold it,
  the copy being written, or else the disk, is the list in memory, but for the entries
  of submissions taken back (`DiskIsRecent`);
* `Closed`: as long as no write failed, a run is over only when its outcome is in the
  file, and no copy on its way to the file takes that back; a graceful exit waits for
  the runs, so it leaves none as running (`ExitIsClean`).

`BatchPipelineProofs` proves for every number of records, batch size and set of workers,
and every mix of policies, contracts and faults: `TypeCorrect`, `BatchesConserveRecords`,
`StrictContractKept`, `EndsCleanly` and the refinement (`BatchesDeliverInOrder`).  Its
invariant `BatchInv` speaks of intervals where `RecordPipelineProofs` speaks of records:

* `Cut`: batches are not empty and end before what was read; `Apart`: those sent, held and
  answered do not overlap; `Waiting`: all are ahead of what was written; `Found`: none is
  forgotten while the context lives;
* `Contract` and `Forsaken`: what is on its way to the writer is the element at the record's place, or
  blank in a batch that failed, and without `continue_on_error` a failed batch is nowhere;
* `Endings`: which errors are kept and who has stopped; the verdict follows from them;
* `Counted`: the processed counter is the answered records less those whose worker has
  not counted them yet.

`FilesProofs` proves of `RecordFiles`, for records with any fields, any number of them, every
format and all settings: `RecordsTyped`, `NothingReadWrong`, `AcceptedReadable`, `RunStoresAll`
and `DownloadsAgree`.  A reader folds over the units of a file, so that the first part of the
module shows what a fold over positions yields: what each reader makes of a file that agrees
with the layout of some records as far as it goes (`Fits`).  `FilesInv` says that the file
always is such a one:

* `Memory`: what the writer keeps agrees with the records given; the columns cover their fields;
* `Writing`: before Close, the file and what is left to write are the layout of those records, so
  that a csv which is written again passes through prefixes of its new layout only;
* `Ending`: after Close, a failure or a crash the file agrees with the layout of the records
  given or with that and the one in hand, and with all of it after a clean end;
* `AcceptedSynced`: what was accepted has been synced, except in a csv that is being written again;
* `ReaderInv`: while a csv reader reads, the lines it has taken are the first ones of the file
  (`Taken`); once it is done, they tell the first of the records given or in hand (`Heeds`), whatever
  becomes of the file.

None of the four properties is inductive, since none says what a file that is torn now will
hold when the second half of its unit is written.

Of `DurableFile` it proves, for any number of saves and of faults, `SFTypeCorrect`, that a load finds
what the last save or the one under way wrote (`AtomicReplacement`), and that one fault since
file and backup were last both good loses nothing (`SurvivesOneFault`).  The
invariant ties the place in the save to what it has done: `Saving` (the temporary file is whole
and synced before it is renamed), `Loadable` (also what a power failure may bring
back is allowed), `Copied` and `Guarded` (without a fault the backup is good whenever it is
not being written, with one at most one of the two is).

`ModelCallProofs` proves for every number of attempts, rounds and tool calls, every
Retry-After and every set of settings: `TypeCorrect`, `ConversationAnswered`,
`ContractKept` and `CallBounded`.  `Conversed` is the invariant of the conversation: each
assistant message is followed by the results of its calls, in order, except the last, whose
remaining calls are the pending ones; `WireProperties` carries this over to the messages
as each client sends them.  `Counted` bounds the requests by the rounds and attempts so far,
and makes a wait at least as long as the provider asked; `Judged` says that only
an accepted text makes a record and which of its fields is stored.

`GatewayProofs` proves for every configuration, with lists that overlap, repeat backends
or name disabled ones: `TypeCorrect`, `NoneAskedTwice`, `ConnectionsCounted`, `FailoverCovers` and
`WeightsStayBalanced`.  `Covered` is the invariant behind failover: each backend that was good
ever since the request arrived, and that a pool opened so far offers, is in the list
(`Searched`, while the list is being built) and stays in it until it is asked (`Listed`).
A backend that is asked and fails is not good.  Conserved weight needs that a fold over a finite set is a sum: `SumProperties`,
`SumSame` and `SumChanged` prove it from the fold's definition, each by a smallest
counterexample (`NoSmallest`), since an induction theorem cannot be instantiated.
That no backend drifts needs more than a bound on each one, which is not inductive: a
backend that is passed over gains from every selection.  `Bounded` therefore bounds the sum of
every group of backends.  A selection raises a group by its share of the list and takes the whole list's
weight from the winner.  If the winner is
inside, the group does not rise.  If it is outside, no member that was available was ahead of it by
more than the winner gained less that member's own weight (`HeaviestWins`, `NotFarAhead`); so the group
is, but for one selection's weight, halfway between the group without that member and the
group with the winner, which are within their bounds (`BetweenBounds`, `SelectStaysBounded`).

`GatewayAdminProofs` proves for every set of configurations and any number of calls, requests
and subscribers: `TypeCorrect`, `OneLineOfVersions`, `OneConfigurationLeads`, `IntendedEnd` and
`ReadOnlyStays`.  `Versioned` says that the snapshots are the newest part of the one line of
configurations applied, and that a configuration about to be committed passed the checks;
`Led` that a request was let in, and is led, by the one it captured, also after newer ones
and after snapshots were trimmed; `Channels` that nobody offers an event to a channel that may
be closed.  Types need `Limits` besides: the version and the calls that may still make one
are together no more than the arrivals and one, and a listener serves, failed or was asked about.

`WatcherProofs` proves for any number of watchers, files, handlers and failures: `TypeCorrect`,
`FilesInCustody` and `FileIsNewest`.  `Newest` says where the newest list is while handlers
save; `Unclaimed`, `Submitting` and `Alone` follow a file: claimed once and before it has a job,
and alone under its name unless it met another one (`met`).

Only model-checked, and why:

* Liveness (`Returns`, `BatchTermination`, `CallEnds`, `WaitsEnd`, `HandlersEnd`, `FilesFinish`,
  `Lively`): fairness and ENABLED are beyond the prover.

No module declares a RECURSIVE operator.

## 5. Plan

The modules and the proofs of the plan exist, in the order pipeline, job server, gateway, batches,
model call, control plane, files and watchers.  Every invariant and
every action property that a run checks is a theorem.  What is left needs another tool: the
liveness properties, whose proofs need fairness.

## 6. Not modelled

* Command line programs (`cmd/`), configuration (`internal/config`) and prompt
  templates (`internal/prompt`): straight-line code from flags and text to values,
  without state that lasts.  The defaults the models rely on are assumptions on
  constants.
* Tools and enrichment (`internal/tools`, `internal/enrich`): each call gets a
  string or an error from outside and touches nothing shared; in `ModelCall` it is
  one step with either result.
* `internal/openai`: no package imports it.
* Of the readers: delimiter sniffing, the choice of the xml record path, csv
  without header, numbers and text as such.
* Of the web server: validation, suggestions, connection tests, upload, OpenAPI
  text and the page; of the gateway: its page, the text of its metrics and the wire
  formats of its classifier.  They keep no state that another part reads.
* Of the job server: the 30 second limit of `Shutdown`, and logs and previews of
  a job, which are saved as its progress is.
* Shares of first choices in the gateway's balancing: every request drains whole
  pools through the weight table, so that with equal backends the first choices need not
  follow the weights; a probability is out of reach, and no document states one.
