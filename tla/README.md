# TLA+ verification of the OpenAI proxy logger

Two programs: `proxy` forwards OpenAI traffic and hands a record of each
transaction to an asynchronous log client; `log-server` takes the records over
HTTP, appends them to one JSONL file per UTC hour, and compresses the files
that have gone idle. This directory models both, checks the models with TLC and proves
what TLAPS can prove.

    tlc -config LogClient_queue.cfg MCLogClient       # any run of PROJECT.json
    tlapm LogClientProofs.tla                         # and the other *Proofs

`PROJECT.json` lists the runs, the mutant that breaks each property, the source
lines each definition stands for, the hazards, the findings and the theorems.

## The system

| Part | Source | State it keeps | Operations |
|---|---|---|---|
| Log client | `internal/logclient/client.go` | channel `ch`, channel `stopCh`, counters, one attempt counter per worker | `Enqueue`, `worker` (receive, drain), `sendWithRetry`, `Stop` |
| Proxy handler | `internal/proxy/proxy.go` | locals of one goroutine per request, the tee's buffer, goroutines of `enqueueError` | `ServeHTTP`, `handleStreamingResponse`, `enqueueError` |
| Proxy process | `cmd/proxy/main.go` | how far `main` is | signal, `Shutdown`, deferred `Stop`, `log.Fatalf` |
| Log server and writer | `internal/logserver/server.go`, `internal/jsonl/writer.go`, `cmd/log-server/main.go` | handle cache, open files, idle times, semaphore, files on disk | `POST /logs`, `Write`, cleanup sweep, `Close` |
| Archiver | `internal/archiver/archiver.go` | `.tar.zst` files | `ArchiveFile`, `IsArchived` |
| SSE assembly | `internal/sseutil/sseutil.go` | the tee's buffer | `TeeReader.Read`, `HasDone`, `AssembleFinalState` |
| Route policy | `internal/proxy/route_policy.go` | none | `shouldLogPath` |
| Capture limit, record schema | `internal/proxy/proxy.go`, `internal/logschema/record.go` | the record of a request | `newRecord`, `applyCaptureMax`, `sanitizeResponseBody`, `SanitizeRawMessages` |
| Forwarding headers, configuration | `internal/proxy`, `internal/config` | none | pure functions |

How they interact:

- A handler calls `Enqueue`, a non-blocking send on `ch`. Workers receive from
  `ch` and POST to the log server, with retries and back-off.
- `main` waits for a signal, then for `server.Shutdown` (all handlers), and then,
  in its deferred call, `Stop`: close `stopCh`, close `ch`, wait for the workers.
  Error records are handed over by a goroutine that nobody waits for.
- The handler assembles a stream's record from what the tee captured, cuts bodies
  at `CAPTURE_MAX_BYTES`, and lets the route policy decide whether to hand it over;
  the worker replaces what is not JSON by null just before it sends.
- The server's handlers share `handles` and each `fileHandle` with the cleanup
  goroutine. The sweep takes idle handles out of the map under `handlesMu`, closes
  them outside it, and starts one archive goroutine per file but the current hour's. An
  archive goroutine shares only the file system with the writers.

What is hard: several workers draining one channel while `Stop` closes it; a
client timeout racing the server's late write; a handle closed between `getHandle`
and the write; an append between an archive's copy and its remove; errors and
crashes in the middle of an archive; a line stored in part; the order of `Shutdown`
and `Stop`; a stream that ends, says `[DONE]` and loses its client at once, or that
holds an event the parser refuses; records that come after their hour, or before it.

What makes each part correct:

- *Log client*: nothing taken on is lost or doubled inside; `Stop` leaves nothing
  undecided; counters are true; copies at the server are bounded; progress.
- *Handler*: one record per logged request whichever path it takes; the record's
  status is true; what it holds was delivered; it never waits for logging.
- *Process*: an orderly exit decides every record handed over; no handler calls
  `Enqueue` on a closed channel; a shutdown ends.
- *Writer and archiver*: what was answered 202 in its hour stays readable; a torn
  line costs one record; no descriptor leaks; only completed periods should be archived;
  archives are final; idle handles are closed; `Close` ends.
- *Record*: the assembled text and response are those the client was given; a stream
  becomes null only if nothing could be read; a cut is marked.

## The modules

### LogDelivery: the abstract promise of the log client

Each record is unseen, pending, refused, delivered or abandoned, with a number of
copies at the server; the client stops only when nothing is pending. No queue, no
worker, no channel.

### LogClient: internal/logclient

One action per channel operation or HTTP attempt. `ch` is the channel's buffer,
`stopper` how far `Stop` is (so that both channels' closedness follows),
`wpc`/`wrec`/`attempt`/`draining` each worker's place and locals, and
`dropped`/`sent`/`retries` the atomic counters. `fate` is a history of what the
code decided on each record. `stored` and `lingering` belong to the server: copies
written, and POSTs that outlived the client's 10 s timeout.

| Code | Action |
|---|---|
| `Enqueue`: send, or `default` | `EnqueueBuffered`, `EnqueueHandoff` (unbuffered), `EnqueueDrop`, `EnqueuePanic` (closed `ch`) |
| `worker`: select and drain | `ReceiveRecord`, `ObserveStop`, `ObserveClosed` |
| `sendWithRetry`, `send` | `SendAccepted`, `SendRejected` (4xx), `SendFailed` (5xx or transport), `Backoff` |
| `Stop` | `CloseStopCh`, `CloseCh`, `WaitReturns` |
| the server, after the timeout | `LateFinish` |

Go's `select` picks any ready case, so a worker may take a record after `stopCh`
is closed; the model leaves that choice open. The back-off's length is left out.

### ProxyHandler: internal/proxy/proxy.go

One handler goroutine per request. A step ends where the handler can wait: at its
client, at the upstream, or at `Enqueue`. `status` is `terminalStatus`, `captured`
what the tee has copied, `written` what the client was given, `errlog` the
goroutine that `enqueueError` starts, `calls` a history of `Enqueue` calls. A
stream's body is a number of reads, each with data, an error or both, any of which
may complete a `[DONE]`. The client may leave at any time; its writes may fail from
then on, and `net/http` may notice later and cancel the context. The two are
separate steps because the code looks at both. Only streams look at their client,
so `ClientLeaves` is limited to them: for the others a client that leaves is one of
the reasons of `DoFails` and `ReadResponseFails`.

### SseAssembly, CaptureLimit, RoutePolicy: the functions a record is made with

`SseAssembly` is `AssembleFinalState` over the events the parser yields. Of the JSON
in an event only the fields the code looks at are kept, and a delta's text is a
sequence of tokens. An event the parser refuses ends what can be read. JSON's `null`
is a payload like an object, with no fields (`Payloads`), and a null `response` is a
response. A choice's index is any JSON number, counted in halves so that there are
fractions; `IntOf` is Go's `int(float64)`, and a negative choice is merged and never
shown. A missing index panics, and the recovered function returns nothing. `Tokens`,
`Values` and `MaxInt` are what texts consist of, what other fields hold and the largest
`int`; all that is asked of them is `AssemblyAssumption`. `CaptureLimit` is
the way of a body through `sanitizeResponseBody`, `applyCaptureMax` and
`SanitizeRawMessages`; a body is its length and how much of it is a JSON value, which
tells whether a cut leaves JSON behind. `RoutePolicy` is `shouldLogPath` with its
tables; it gives `LoggedRequests` its value in the runs of `ProxyRecord`.

### ProxyRecord: the handler with its data

`ProxyHandler` with the request's body, the stream's events as the tee reads them,
the upstream's status class and the record. Each action is one of `ProxyHandler`
together with what it does to the data:

| Code | Action |
|---|---|
| `io.ReadAll(r.Body)`, `requestIsStream` | `ReadRequest` |
| the four error paths, `enqueueError` | `FailEarly`, `FailAtUpstream` |
| `Do`, the status check | `UpstreamAnswers` |
| `io.ReadAll(resp.Body)` of a plain request | `ReadAnswer` |
| its record | `RecordAnswer` |
| `tee.Read` | `TeeRead` |
| `Captured`, `HasDone`, `AssembleFinalState`, `newRecord` | `RecordStream` |
| the rest | `Unrecorded` |

The record is kept as the log client sends it: `Sent` is applied when it is built,
since nothing reads it in between.

### ProxyProcess: cmd/proxy/main.go

Instances of `ProxyHandler` and `LogClient` over common variables; a record goes by
the name of its request. A handler's step that calls `Enqueue` is one step with
the client's `Enqueue`. `main` goes from serving to shutdown, stopping and exited, or
to fatal by `log.Fatalf`, which skips the deferred `Stop`. `Shutdown` waits for
handlers and not for the goroutines of `enqueueError`.

### LogStore: the abstract promise of the log server

A set of promised records and a set of readable ones; what is promised never becomes
unreadable. No file, no handle, no archive.

### JsonlWriter: internal/jsonl, internal/archiver, internal/logserver

A file is an inode: `path` maps an hour to at most one, handles and archive jobs
keep the inode they opened, `os.Remove` frees the path only. `handles` is
`w.handles`; `fh` are the `fileHandle` objects; `req`, `hour`, `got` the locals of
the POST handlers; `sweep` those of `closeStaleHandles`; `job` the archive
goroutines; `archive` the archive of each hour (none, partial, torn by two writers,
complete). A write that stores part of a line makes the file `torn`: the next line is
appended to the fragment and no reader finds it. The histories are `early` (hours a
record came for before they began), `accepted` (answered 202), and of these `kept` (in
their own hour, which is not early, on a line of their own) and `spoiled` (in their own
hour, behind a fragment). A step is a critical section or a system call.

| Code | Action |
|---|---|
| `handlePostLogs`, `Write`, `getHandle` | `Post`, `GetHandleFound`, `GetHandleOpens`, `GetHandleFails`, `WriteLine`, `WriteShort`, `WriteFails` |
| `cleanupLoop`, `closeStaleHandles` | `SweepScan`, `SweepClose`, `SweepSpawn`, `SweepStops` |
| `startArchive`, `ArchiveFile` | `JobAcquire`, `JobCheck`, `JobCreate`, `JobCopy`, `JobFlush`, `JobRemove` |
| `main`, `Close` | `CloseBegins`, `CloseHandles`, `CloseReturns` |
| the process | `Crash`, `Restart` |

The copy of a file compares what is in it with the size read at `os.Stat`: more
than that is an error of the tar writer. `LateRecords` says whether a record may
arrive after the hour of its request (a long stream, a retry), `EarlyRecords` whether
it may arrive before it (the proxy's clock is ahead of the server's, and nothing
compares the two) and `IOErrors` whether system calls may fail; all are true of the
real system, and only the runs that show something without them switch them off. `MaxShortWrites` bounds the
writes that store part of a line.

## What the runs check

| Run | Instance | Shows |
|---|---|---|
| `client_queue` | 3 records, 2 workers, 1 slot, 1 retry | `AcceptedInOnePlace`, `StopDrains`, `CountersTellTheTruth`, `CopiesBounded`, that `LogClient` implements `LogDelivery`, and `AcceptedIsDecided` and `StopReturns` under `FairSpec` |
| `client_unbuffered` | 3 records, queue size 0 | the same bookkeeping when a record goes straight to a worker |
| `handler_records` | a stream and a plain request on logged paths, a plain one on a denied path, each by itself; 3 reads; 12 events; bodies below and above the limit | `OneRecordPerRequest`, `StreamStatusHonest`, `CapturedWasDelivered`, `ChatTextFaithful`, `CompletedResponseKept`, `NullOnlyIfNothing`, `CutsAreMarked` |
| `stream_status` | the same, 1 read | **violated**: a refused stream is recorded as completed |
| `record_truncation` | the same, 1 read | **violated**: the original size is the size of the cut |
| `process_shutdown` | a stream and a plain request, 1 worker, 1 slot, 1 retry, no data reads | `ExitLosesNothing`, `HandlersDoneBeforeStop`, `EveryRequestAccounted`, `NeverBlocksTraffic`, `ShutdownCompletes` |
| `process_panic` | the same | **violated**: `Enqueue` panics on the closed channel |
| `server_durability` | 2 records, prompt, late or early, 2 handles, 3 inodes, 2 jobs, 2 hours, I/O errors, 1 short write, crashes | `PromptDurable`, `TornLineCostsOne`, `OpenHandlesTracked`, `ArchivesAreFinal`, and that `JsonlWriter` implements `LogStore` |
| `server_liveness` | the same, prompt records, no short write | `StaleHandlesClosed`, `CloseTerminates` |
| `server_lost` | late records, no I/O errors | **violated**: a record answered 202 disappears |
| `server_early` | early records, nothing fails | **violated**: a file is archived before its hour |
| `server_unarchived` | 1 record, nothing fails | **violated**: a stale file is never archived |

### Why the bounds are enough

- *Client*: with two workers and one slot, three records fill the slot and both
  workers; a fourth meets the same full queue. One retry gives a first, a repeated
  and a last attempt. TLAPS proves the safety part for all bounds.
- *Handler*: handlers share nothing with each other, so `handler_records` takes one of
  each kind, one at a time (`OneRequest`); `process_shutdown` interleaves them, and
  `ProxyHandlerProofs` covers any number. Three reads give a first, a middle and a last
  iteration, and streams in which a choice, an unreadable event and a
  `response.completed` event come in every order. `MaxChunks` bounds them. The indices
  of choices are 0, 1, a fraction, a negative one, one past `MaxInt` (4) and none; there
  is an event `data: null` and one with a null response. The bodies
  are empty, below the limit, above it and JSON, above it and not JSON, and above it
  with white space after the JSON, so that a cut may leave JSON or not; what is
  assembled from a stream is above the limit, which is off in half of the behaviours. A
  stream whose request body is above the limit is followed up to its second read only
  (`LargeRequestsShort`): that body is cut whatever the stream brings.
- *Process*: two requests and one slot give an accepted record, a drop, and a
  record left for the drain. `MaxChunks` is 0, because the reads of a stream do not
  touch the log client; `handler_records` has them.
- *Writer*: two ticks per hour let a handle go stale within its hour or after it.
  Two records make a writer meet a sweep or an archive another one caused: a late one
  re-creates a file under its archive job. One short write is enough for a fragment
  and for the line it swallows. An early record is taken by itself (`EarlyAlone`: after
  the first, no handler works on a record behind its hour, and no write is short) to keep
  the run short; the safety theorems cover every combination. The archive limit is the
  default of one. The clock ends at `MaxTime`; a handle, inode or job that nothing refers to is used
  again, so these sets bound only what exists at one time. `StaleHandleTimeout = 0`
  means less than a tick; a sweep acts once a tick has passed since the last write.

Symmetry is used only where no temporal property with fairness is checked.
`CHECK_DEADLOCK` stays on: modules that may stop say so with an action
(`Terminated`, `Settled`, `Ended`).

### Fairness

- `LogClient!FairSpec`: each worker and a `Stop` already begun keep going. Go runs
  every runnable goroutine, the HTTP client gives up after 10 s and sleeps end.
  Nothing is assumed of the server's answers, of the handlers, or of when `Stop` is
  called.
- `ProxyProcess!FairSpec`: a handler's own steps, which Go's scheduler runs or
  `UPSTREAM_TIMEOUT` ends (set positive, as its default of 120 s is). No fairness
  for clients (the server has no read or write timeout), workers or the log server,
  so `NeverBlocksTraffic` says a handler never waits for logging. `ShutdownCompletes`
  is an implication: it adds fair workers, a `main` that goes on, and clients that
  respond. The last is not the code's to give, and the property is false without it:
  `Shutdown` has no deadline.
- `JsonlWriter!FairSpec`: handlers, the cleanup goroutine and `Close`, whose
  system calls return and whose timers expire. Archive jobs may hang, as the 5 s
  limit in `Close` presumes. `ArchivingSpec`, used for the violation
  `server_unarchived`, adds that they do not.

## What is proved

`LogClientProofs` proves of `LogClient`, for any finite set of records, any
nonempty set of workers, any queue size and any configured number of retries:

| Theorem | Property |
|---|---|
| `TypeCorrect` | `TypeOK` |
| `NothingLostInside` | `AcceptedInOnePlace` |
| `StopDrainsEverything` | `StopDrains` |
| `DuplicatesBounded` | `CopiesBounded` |
| `CountersTruthful` | `CountersTellTheTruth` |
| `ClientImplementsDelivery` | `ImplementsDelivery`, the refinement of `LogDelivery` |

The only assumption is `LogClientAssumption`, stated in `LogClient` and evaluated
by TLC in every run of the module. The inductive invariant `IInv` has these parts:

- `ControlInv`: types; a worker's record, attempt and place agree (it holds a record
  exactly while sending or backing off); and workers are gone only after `ch` was
  closed and found empty. `StopDrains` is not inductive without the last part: it
  says why nobody appends to `ch` behind the workers' backs.
- `AcceptedInOnePlace`: itself inductive given the first part.
- `CopiesOK`: a queued record has no copy, one in a worker's hands at most one per
  attempt made so far, any other at most `MaxRetries + 1`. The bound alone is not
  inductive; it has to follow the attempt in progress.
- `CountersTellTheTruth`: by the cardinality of the set of records of one fate.

Each action has a lemma for the parts it disturbs; the refinement maps each action
to one of `LogDelivery` or to a stutter.

`ProxyHandlerProofs` proves of `ProxyHandler`, for any requests, streams, logged
paths and lengths of streams (assuming only `HandlerAssumption`):

| Theorem | Property |
|---|---|
| `TypeCorrect` | `TypeOK` |
| `OneRecord` | `OneRecordPerRequest` |
| `StreamRecordsHonest` | `StreamStatusHonest` |
| `StreamRecordsDelivered` | `CapturedWasDelivered` |

Handlers do not interact, so its `IInv` speaks of one request at a time:
`RecordInv` (before its exit a handler has logged nothing, after it exactly one
record is logged or owed), `PathInv` and `PlainInv` (streams and other requests keep
to their own code), `StatusInv` (what the status says inside the loop and after it,
with the read's error), `DeliveryInv` (at most the read being written, or the last
one of a client that is gone, is captured and not written) and `HonestInv`. The type
invariant is not inductive alone: that `written` stays in range needs
`DeliveryInv`. `OneRequest` reduces each action to the request it is about.

`SequenceInduction` and `SseAssemblyProofs` are about the operators of `SseAssembly`,
for every sequence of events. The library's induction theorems take an operator as a
parameter, which the provers cannot instantiate; `SequenceInduction` therefore states
induction about sets (a set that holds `<<>>` and is closed under `Append` holds every
finite sequence), which follows from `<` being well founded on the numbers, and the
proofs define the set of the sequences for which a fact holds. `SseAssemblyProofs`
proves that `FlattenSeq` and `FoldLeft`, as the community modules define them, go
through a sequence element by element, and from that

| Theorem | Says |
|---|---|
| `MergedText` | after any deltas, the merged choices are those the deltas name, each with the texts of its deltas in order |
| `ChatAssembled` | an assembled completion shows the text of each of its choices, and leaves one out only if its index is negative or behind a gap in the indices |

`ProxyRecordProofs` proves of `ProxyRecord`, for any bodies, events, limits and lengths
of streams (assuming `HandlerAssumption`, `AssemblyAssumption`, `RecordAssumption`):

| Theorem | Property |
|---|---|
| `HandlerWithData` | every behaviour of `ProxyRecord` is one of `ProxyHandler`, so the theorems above hold of it |
| `CutsMarked` | `CutsAreMarked` |
| `RecordTypes` | `RecordTypeOK` |
| `ChatFaithful` | `ChatTextFaithful` |
| `CompletedKept` | `CompletedResponseKept` |
| `NullForCause` | `NullOnlyIfNothing` |

`DataInv` says that a record is built only when the handler leaves, from a request
body and an answer that do not change any more. `AssembledInv` joins the record to the tee: the
tee holds `captured[r]` events, and the state of a stream's record is what
`AssembleFinalState` makes of them, or null where a cut is marked or no bytes were
assembled. Neither property is inductive without it, since
the tee is read long before the record is built. The properties of a record then
follow from lemmas about the assembly and from the handler's `DeliveryInv`: what the
client was given is a beginning of the tee, one read shorter at most, and a
beginning of the events has a beginning of the text (`PrefixOfBeginning`) and the same
first `response.completed` event (`FirstCompleted`).

`ProxyProcessProofs` proves of the whole proxy process, for any requests, workers,
queue and retries:

| Theorem | Property |
|---|---|
| `TypeCorrect` | `TypeOK` |
| `OrderlyExit` | `ExitLosesNothing` |
| `HandlersNeverPanic` | `HandlersDoneBeforeStop` |
| `AllAccounted` | `EveryRequestAccounted` |
| `ProcessComposed` | every behaviour of the process is one of the handlers and one of the client |
| `ProcessImplementsDelivery` | the client inside the process implements `LogDelivery` |

The proof is by composition. Every step of the process is a step of the handlers or
leaves their variables alone (`HandlerPart`), and the same of the log client
(`ClientPart`); the invariants of the two parts therefore hold inside the process, and
their lemmas are cited, not proved again. What the parts do not know is `PhaseInv`
(once `Stop` has begun, `main` is past `Shutdown`, every handler has returned and no
request arrives) and `HandedInv` (a record handed over by a handler has a fate). With
the client's drain, that is `OrderlyExit`. `LinkInv` relates the two histories in both
directions: the client has decided about a record if and only if a handler handed it
over, but for the call that ended the process. With the handlers' `RecordInv` and
the client's `CopiesOK` that is `AllAccounted`.

`JsonlWriterProofs` proves of `JsonlWriter`, for any finite set of jobs, any records,
handles, inodes, archive limit and clock (assuming only `JsonlWriterAssumption`):

| Theorem | Property |
|---|---|
| `TypeCorrect` | `TypeOK` |
| `HandlesTracked` | `OpenHandlesTracked` |
| `TornLinesBounded` | `TornLineCostsOne` |

Its `Inv` adds `WritingInv` (a handler's handle is open for its record's hour, or
closed, and is not used again while held), `JobsBegun` and `SweepInv` (what has an
archive job, or is on the sweep's list, is past or is early) and `TornInv` (each spoiled record has used up a fragment,
each fragment a short write; `TornLineCostsOne` alone is not inductive).

`JsonlStoreProofs` proves, for `ArchiveMaxConcurrent = 1`, the default, and for any
limit if `LateRecords` and `EarlyRecords` are `FALSE`:

| Theorem | Property |
|---|---|
| `PromptRecordsKept` | `PromptDurable` |
| `FinishedArchivesStay` | `ArchivesAreFinal` |
| `WriterImplementsStore` | `ImplementsStore`, the refinement of `LogStore` |

The argument: of one hour at most one job is at work (`Exclusive`), so an archive that
`IsArchived` did not see is that job's alone (`JobsInv`, `ArchiveInv`). Only completed
periods and early hours have jobs, so a handle open for the current hour, if that is not
early, is open on the file its path names (`ActiveInv`), and a record written in its hour goes where a reader looks. When
a job for that hour starts, the hour is over: what was promised is in the file and in
the `size` the job stats (`JobsInv`), and stays there until the finished archive holds
it (`KeptInv`).

`Exclusive` has two causes. With a limit of one the semaphore leaves one job at work.
Without late and early records it needs no semaphore (`OnceInv`): handles are opened for the
current hour only, so a past hour has one of a pending handle, a path in the sweep's
list or a job, once and never again; a handle the sweep closes as its active file is
not pending.

The hypothesis cannot be dropped. With a higher limit a late record re-creates the
file of an hour while its job has yet to check, a second job passes `IsArchived` beside
the first, truncates its archive, and the first removes the file: the default limit
hides this. (`JsonlWriter_durability.cfg` with `ArchiveMaxConcurrent = 2` violates
`PromptDurable` in 24 steps, without I/O errors too.)

Every safety property the passing runs check is proved. Only model-checked is
liveness: `AcceptedIsDecided`, `StopReturns`, `NeverBlocksTraffic`, `ShutdownCompletes`,
`StaleHandlesClosed` and `CloseTerminates`. Fairness and `ENABLED` are out of the
prover's reach.

## Findings

1. `enqueueError`'s goroutine (`proxy.go:349`) may call `Enqueue` after `Stop` has
   closed the channel: the process panics, against `client.go:48`. (`process_panic`)
2. A stream the upstream answers with an error status is recorded as `completed` when
   it ends: EOF (`proxy.go:250`) overrides the `upstream_error` set at
   `proxy.go:221-223`. The same answer to a plain request is `upstream_error`.
   (`stream_status`)
3. `OriginalBytes` (`proxy.go:377`) is taken after the cut, so it equals the limit; a
   cut of the response alone leaves it 0. (`record_truncation`)
4. A late record appended between `io.Copy` (`archiver.go:81`) and `os.Remove`
   (`archiver.go:95`) is answered 202 and lost. `PromptDurable` says what is left: a
   record answered in its hour, and not behind a fragment, stays. (`server_lost`)
5. A file that goes stale in its own hour loses its handle and is not archived
   then (`writer.go:123`), and later sweeps look at open handles only.
   (`server_unarchived`)
6. The file of a record whose sender's clock is ahead differs from the active file, so
   it is archived when it goes stale, before its hour (`writer.go:123`), against the
   comment above that line. The hour then has an archive, and `IsArchived` keeps the
   records of the hour itself out of it. (`server_early`)

Met while modelling, without a run:

- `LOG_CLIENT_MAX_RETRIES=0` is replaced by 2 (`client.go:121`), so retries cannot be
  switched off; README.md:41 calls the value "Max retries per record".
- README.md:141 says that `X-Forwarded-For` from a source that is not trusted is
  "overwritten with the direct client IP"; `proxy.go:429` deletes it.
- Records of failed requests do not pass `applyCaptureMax` (`proxy.go:343`), so a
  large request body is recorded whole; README.md:42 calls the limit "Max bytes
  captured from request/response bodies".
- A short write is answered 500 and retried, and the retry is appended to its own
  fragment: answered 202, and unreadable (`writer.go:200`). `TornLineCostsOne` bounds
  the damage.
- `ARCHIVE_MAX_CONCURRENT` above one lets two jobs of one hour write one archive when a
  late record re-opens its file; records answered in their hour can then be lost, as
  told under *What is proved*.
- A later `tool_calls` delta replaces the earlier ones (`sseutil.go:248`), so the
  record of a streamed tool call holds its last fragment only.
- An event `data: null` after the last JSON of a stream, or a null `response`, makes the
  record null (`sseutil.go:177`), and a choice with a negative index is merged and then
  left out (`sseutil.go:261`). `NullOnlyIfNothing` and `ChatTextFaithful` name both.

## Not modelled, and why

- *Forwarding headers, configuration*: functions of one request's address or of the
  environment at start; they share no state and nothing of the headers set there
  reaches a record.
- `shouldBlockUA` and `ReassembleDataLines` are called only by tests.
- `normalizeWindowSize`, `normalizeEncoderConcurrency`: parameters of the compressor.
- TLS, profiling, scripts and test servers: outside the logic.
- In `JsonlWriter`: requests refused for their token or body, which change no state,
  and the mutexes: a critical section is one step. Only the scan of
  `closeStaleHandles` nests them, `handlesMu` before a handle's `mu`, and `Write` has
  given up `handlesMu` when it takes a handle's, so there is no cycle to look for.
- `profileServer.Shutdown` (`main.go:80-84`), which profiling puts before
  `server.Shutdown`, and a client that stalls while the first bytes of a stream are
  flushed to it (`proxy.go:213-218`): both are taken to end.
- A compressed answer (the client's `Accept-Encoding` is copied upstream) is captured
  as it is; bodies and events are decoded ones in the models.
- Archiving again after an error that left a partial archive: `IsArchived` forbids it
  for ever. The model does the same; no document promises otherwise.

## Plan

Everything planned is done: the log client, the handler with its data, the process,
and the log server with its archiver, each with an abstract specification or a
composition and their proofs. A single module from `Enqueue` to a line in a file was
dropped: `LogDelivery` and `LogStore` meet at `POST /logs`, where a delivered record is
one the server answered 202, and nothing else is shared.
