---------------------------- MODULE JsonlWriter ----------------------------
(***************************************************************************)
(* The log server: POST /logs handlers (internal/logserver) calling        *)
(* Writer.Write, the cleanup goroutine, the archive goroutines             *)
(* (internal/jsonl, internal/archiver), Close, and crashes of the process. *)
(*                                                                         *)
(* A file is an inode: a path names at most one, handles and archive jobs  *)
(* keep the one they opened, and os.Remove frees the path but not the      *)
(* inode.  A step is a critical section or a system call.  A line is the   *)
(* record it encodes; a path is the hour in its name.  A write that stores *)
(* only part of a line leaves the file torn: its end is a fragment that    *)
(* swallows the next line.                                                 *)
(***************************************************************************)
EXTENDS Integers, FiniteSets

CONSTANTS
    Records,                \* records the log clients POST, perhaps repeatedly
    Handles, Inodes, Jobs,  \* *fileHandle, inode and goroutine identities
    None,                   \* the nil of each of these
    TicksPerHour,           \* clock ticks in one period of UTC_HOURLY_LAYOUT
    MaxTime,                \* bound on the clock
    StaleHandleTimeout,     \* STALE_HANDLE_TIMEOUT, in ticks
    ArchiveEnabled,         \* ARCHIVE_ENABLED
    ArchiveMaxConcurrent,   \* ARCHIVE_MAX_CONCURRENT; <= 0 makes no semaphore
    LateRecords,            \* may a record arrive after the hour of its request?
    EarlyRecords,           \* may it arrive before, from a sender whose clock is ahead?
    IOErrors,               \* may a system call fail?
    MaxShortWrites          \* bound on the writes that store part of a line

ASSUME JsonlWriterAssumption ==
    /\ IsFiniteSet(Jobs)
    /\ None \notin Handles \cup Inodes
    /\ TicksPerHour \in Nat \ {0} /\ MaxTime \in Nat /\ StaleHandleTimeout \in Nat
    /\ MaxShortWrites \in Nat
    /\ ArchiveEnabled \in BOOLEAN /\ IOErrors \in BOOLEAN
    /\ LateRecords \in BOOLEAN /\ EarlyRecords \in BOOLEAN
    /\ ArchiveMaxConcurrent \in Int

VARIABLES
    now,            \* the clock
    proc,           \* the process: up, closing, waiting (for archives), down
    req, hour, got, \* per record: its handler, its hour, the handle it holds
    handles,        \* w.handles: path -> handle
    fh,             \* the fileHandle objects
    path,           \* the directory: path -> inode
    content,        \* records with a line of their own on each inode
    torn,           \* inodes that end in a fragment of a line
    sweep,          \* locals of closeStaleHandles
    job,            \* the archive goroutines
    archive,        \* the .tar.zst of each hour
    early,          \* history: hours a record came for before they began;
    accepted,       \* records answered 202;
    kept,           \* of these, the ones answered in their own hour, no early one,
                    \* whose line is a line of its own,
    spoiled,        \* and the ones answered in it whose line a fragment swallowed;
    shortWrites     \* writes that stored part of a line

fsVars == <<path, content, torn, archive>>
history == <<early, accepted, kept, spoiled, shortWrites>>
reqVars == <<req, hour, got, history>>
vars == <<now, proc, req, hour, got, handles, fh, path, content, torn, sweep, job,
          archive, early, accepted, kept, spoiled, shortWrites>>

HourOf(t) == t \div TicksPerHour
Hours == 0..HourOf(MaxTime)

NoJob == [pc |-> "none", hour |-> 0, src |-> None, size |-> {},
          grown |-> FALSE]
NoSweep == [pc |-> "idle", stale |-> {}, hour |-> 0, paths |-> {}]
NoArchive == [state |-> "none", lines |-> {}]
ClosedHandle == [open |-> FALSE, hour |-> 0, inode |-> None, lastWrite |-> 0]

\* What NewWriter starts with.
NoHandles == [h \in Hours |-> None]
NoFiles == [x \in Handles |-> ClosedHandle]
NoJobs == [j \in Jobs |-> NoJob]

Init ==
    /\ now = 0 /\ proc = "up"
    /\ req = [r \in Records |-> "idle"]
    /\ hour = [r \in Records |-> -1]
    /\ got = [r \in Records |-> None]
    /\ path = [h \in Hours |-> None]
    /\ content = [i \in Inodes |-> {}]
    /\ torn = {}
    /\ archive = [h \in Hours |-> NoArchive]
    /\ early = {} /\ accepted = {} /\ kept = {} /\ spoiled = {} /\ shortWrites = 0
    /\ handles = NoHandles /\ fh = NoFiles /\ sweep = NoSweep /\ job = NoJobs

-----------------------------------------------------------------------------
(* The clock, and the requests it finds in flight.                         *)

\* Without late records no request is in flight across the end of an hour.
Tick ==
    /\ now < MaxTime
    /\ \/ LateRecords
       \/ HourOf(now + 1) = HourOf(now)
       \/ \A r \in Records : req[r] = "idle"
    /\ now' = now + 1
    /\ UNCHANGED <<proc, reqVars, handles, fh, fsVars, sweep, job>>

\* Bug variant: the time is rounded to the next hour, not truncated.
PostRoundsUp(r) ==
    /\ proc = "up"
    /\ req[r] = "idle"
    /\ hour[r] = -1
    /\ hour' = [hour EXCEPT ![r] = HourOf(now + TicksPerHour - 1)]
    /\ req' = [req EXCEPT ![r] = "posted"]
    /\ UNCHANGED <<now, proc, got, history, handles, fh, fsVars, sweep, job>>

\* A POST with a valid token and a decodable body reaches Write; the first one
\* fixes the record's RequestTimestamp, which nothing compares with the clock.
Post(r) ==
    /\ proc = "up"
    /\ req[r] = "idle"
    /\ \E h \in Hours :
          /\ hour[r] \in {-1, h}
          /\ LateRecords \/ h >= HourOf(now)
          /\ EarlyRecords \/ h <= HourOf(now)
          /\ hour' = [hour EXCEPT ![r] = h]
          /\ early' = IF h > HourOf(now) THEN early \cup {h} ELSE early
    /\ req' = [req EXCEPT ![r] = "posted"]
    /\ UNCHANGED <<now, proc, got, accepted, kept, spoiled, shortWrites, handles, fh,
                   fsVars, sweep, job>>

-----------------------------------------------------------------------------
(* Write: getHandle, then the append under the handle's own lock.          *)

FreeHandles ==
    {x \in Handles : /\ ~fh[x].open
                     /\ \A r \in Records : got[r] # x
                     /\ x \notin sweep.stale}
FreeInodes ==
    {i \in Inodes : /\ \A h \in Hours : path[h] # i
                    /\ \A x \in Handles : fh[x].open => fh[x].inode # i
                    /\ \A j \in Jobs : job[j].src # i}

\* The handle is in the map: the fast path, or the second look under the lock.
GetHandleFound(r) ==
    /\ req[r] = "posted"
    /\ handles[hour[r]] # None
    /\ got' = [got EXCEPT ![r] = handles[hour[r]]]
    /\ req' = [req EXCEPT ![r] = "writing"]
    /\ UNCHANGED <<now, proc, hour, history, handles, fh, fsVars, sweep, job>>

\* os.OpenFile with O_APPEND|O_CREATE, and the new map entry.
GetHandleOpens(r) ==
    /\ req[r] = "posted"
    /\ handles[hour[r]] = None
    /\ \E x \in FreeHandles, i \in Inodes :
          /\ i = path[hour[r]] \/ (path[hour[r]] = None /\ i \in FreeInodes)
          /\ fh' = [fh EXCEPT ![x] = [open |-> TRUE, hour |-> hour[r], inode |-> i,
                                      lastWrite |-> now]]
          /\ handles' = [handles EXCEPT ![hour[r]] = x]
          /\ got' = [got EXCEPT ![r] = x]
          /\ content' = [content EXCEPT ![i] = IF path[hour[r]] = i THEN @ ELSE {}]
          /\ torn' = IF path[hour[r]] = i THEN torn ELSE torn \ {i}
          /\ path' = [path EXCEPT ![hour[r]] = i]
    /\ req' = [req EXCEPT ![r] = "writing"]
    /\ UNCHANGED <<now, proc, hour, history, archive, sweep, job>>

\* OpenFile fails: 500.
GetHandleFails(r) ==
    /\ IOErrors
    /\ req[r] = "posted"
    /\ handles[hour[r]] = None
    /\ req' = [req EXCEPT ![r] = "idle"]
    /\ UNCHANGED <<now, proc, hour, got, history, handles, fh, fsVars, sweep, job>>

Target(r) == fh[got[r]].inode

\* A file that grows under an archive job outgrows the size in its tar header.
Append(r) ==
    /\ req[r] = "writing"
    /\ fh[got[r]].open
    /\ fh' = [fh EXCEPT ![got[r]].lastWrite = now]
    /\ job' = [j \in Jobs |-> IF job[j].src = Target(r)
                             THEN [job[j] EXCEPT !.grown = TRUE] ELSE job[j]]

\* The handler answers and lets go of the handle.
Answered(r) ==
    /\ req' = [req EXCEPT ![r] = "idle"]
    /\ got' = [got EXCEPT ![r] = None]

\* 202.
Accept(r, readable) ==
    /\ accepted' = accepted \cup {r}
    /\ kept' = IF hour[r] = HourOf(now) /\ hour[r] \notin early /\ readable
               THEN kept \cup {r} ELSE kept
    /\ spoiled' = IF hour[r] = HourOf(now) /\ ~readable THEN spoiled \cup {r}
                  ELSE spoiled
    /\ UNCHANGED <<early, shortWrites>>

\* Bug variant: the line is written without its newline.
WriteLineUnterminated(r) ==
    /\ Append(r)
    /\ content' = IF Target(r) \in torn THEN content
                  ELSE [content EXCEPT ![Target(r)] = @ \cup {r}]
    /\ torn' = torn \cup {Target(r)}
    /\ Accept(r, Target(r) \notin torn)
    /\ Answered(r)
    /\ UNCHANGED <<now, proc, hour, handles, path, archive, sweep>>

\* The line is appended, to the fragment if the file ends in one.
WriteLine(r) ==
    /\ Append(r)
    /\ content' = IF Target(r) \in torn THEN content
                  ELSE [content EXCEPT ![Target(r)] = @ \cup {r}]
    /\ torn' = torn \ {Target(r)}
    /\ Accept(r, Target(r) \notin torn)
    /\ Answered(r)
    /\ UNCHANGED <<now, proc, hour, handles, path, archive, sweep>>

\* The disk takes part of the line: 500.
WriteShort(r) ==
    /\ IOErrors
    /\ shortWrites < MaxShortWrites
    /\ Append(r)
    /\ torn' = torn \cup {Target(r)}
    /\ shortWrites' = shortWrites + 1
    /\ Answered(r)
    /\ UNCHANGED <<now, proc, hour, early, accepted, kept, spoiled, handles, path,
                   content, archive, sweep>>

\* The cleanup goroutine closed the file between getHandle and the lock, or the
\* disk is full: 500, after lastWrite was set (nobody reads a closed handle's).
WriteFails(r) ==
    /\ req[r] = "writing"
    /\ \/ ~fh[got[r]].open /\ UNCHANGED fh
       \/ IOErrors /\ fh[got[r]].open /\ fh' = [fh EXCEPT ![got[r]].lastWrite = now]
    /\ Answered(r)
    /\ UNCHANGED <<now, proc, hour, history, handles, fsVars, sweep, job>>

Handler(r) ==
    \/ GetHandleFound(r) \/ GetHandleOpens(r) \/ GetHandleFails(r)
    \/ WriteLine(r) \/ WriteShort(r) \/ WriteFails(r)

-----------------------------------------------------------------------------
(* closeStaleHandles.                                                      *)

Mapped == {handles[h] : h \in Hours} \ {None}
Idle(x) == now - fh[x].lastWrite > StaleHandleTimeout

\* Under handlesMu: list the stale handles and take them out of the map.  A
\* sweep that finds none changes nothing.
SweepScan ==
    /\ proc \in {"up", "closing"}
    /\ sweep.pc = "idle"
    /\ LET stale == {x \in Mapped : Idle(x)} IN
          /\ stale # {}
          /\ sweep' = [pc |-> "closing", stale |-> stale, hour |-> HourOf(now),
                       paths |-> {}]
          /\ handles' = [h \in Hours |-> IF handles[h] \in stale THEN None
                                         ELSE handles[h]]
    /\ UNCHANGED <<now, proc, reqVars, fh, fsVars, job>>

\* Bug variant: the active file is archived like any other.
SweepCloseAny ==
    /\ sweep.pc = "closing"
    /\ \E x \in sweep.stale :
          /\ fh' = [fh EXCEPT ![x] = ClosedHandle]
          /\ sweep' = [sweep EXCEPT
                !.stale = @ \ {x},
                !.paths = IF ArchiveEnabled THEN @ \cup {fh[x].hour} ELSE @]
    /\ UNCHANGED <<now, proc, reqVars, handles, fsVars, job>>

\* Bug variant: a handle in use by a handler is skipped, though it has already
\* left the map.
SweepCloseUnused ==
    /\ sweep.pc = "closing"
    /\ \E x \in sweep.stale :
          /\ fh' = [fh EXCEPT ![x].open = @ /\ \E r \in Records : got[r] = x]
          /\ sweep' = [sweep EXCEPT !.stale = @ \ {x}]
    /\ UNCHANGED <<now, proc, reqVars, handles, fsVars, job>>

\* One iteration over the list, outside handlesMu.  activeFile was computed from
\* the time of the scan.
SweepClose ==
    /\ sweep.pc = "closing"
    /\ \E x \in sweep.stale :
          /\ fh' = [fh EXCEPT ![x] = ClosedHandle]
          /\ sweep' = [sweep EXCEPT
                !.stale = @ \ {x},
                !.paths = IF ArchiveEnabled /\ fh[x].hour # sweep.hour
                          THEN @ \cup {fh[x].hour} ELSE @]
    /\ UNCHANGED <<now, proc, reqVars, handles, fsVars, job>>

\* startArchive for the next path of the list, or the end of the sweep.
SweepSpawn ==
    /\ sweep.pc = "closing"
    /\ sweep.stale = {}
    /\ \/ \E h \in sweep.paths, j \in Jobs :
             /\ job[j].pc = "none"
             /\ job' = [job EXCEPT ![j] = [NoJob EXCEPT !.pc = "start", !.hour = h]]
             /\ sweep' = [sweep EXCEPT !.paths = @ \ {h}]
       \/ /\ sweep.paths = {}
          /\ sweep' = NoSweep
          /\ UNCHANGED job
    /\ UNCHANGED <<now, proc, reqVars, handles, fh, fsVars>>

\* <-w.stopCh: cleanupLoop returns.
SweepStops ==
    /\ proc = "closing"
    /\ sweep.pc = "idle"
    /\ sweep' = [sweep EXCEPT !.pc = "stopped"]
    /\ UNCHANGED <<now, proc, reqVars, handles, fh, fsVars, job>>

Cleaner == SweepScan \/ SweepClose \/ SweepSpawn \/ SweepStops

-----------------------------------------------------------------------------
(* An archive goroutine: the semaphore, then ArchiveFile.                  *)

Running == {j \in Jobs : job[j].pc \notin {"none", "start"}}

\* Every return of the goroutine, with its deferred release of the semaphore.
JobEnds(j) == job' = [job EXCEPT ![j] = NoJob]

\* A slot of the semaphore, or a return without having archived.
JobAcquire(j) ==
    /\ job[j].pc = "start"
    /\ IF ArchiveMaxConcurrent > 0 /\ Cardinality(Running) >= ArchiveMaxConcurrent
       THEN JobEnds(j)
       ELSE job' = [job EXCEPT ![j].pc = "check"]
    /\ UNCHANGED <<now, proc, reqVars, handles, fh, fsVars, sweep>>

\* Bug variant: an archive that exists does not stop ArchiveFile.
JobCheckFileOnly(j) ==
    /\ job[j].pc = "check"
    /\ IF path[job[j].hour] = None
       THEN JobEnds(j)
       ELSE job' = [job EXCEPT ![j].pc = "create",
                               ![j].src = path[job[j].hour],
                               ![j].size = content[path[job[j].hour]]]
    /\ UNCHANGED <<now, proc, reqVars, handles, fh, fsVars, sweep>>

\* os.Stat on the file, then IsArchived: an archive of any kind ends the job.
JobCheck(j) ==
    /\ job[j].pc = "check"
    /\ IF path[job[j].hour] = None \/ archive[job[j].hour].state # "none"
       THEN JobEnds(j)
       ELSE job' = [job EXCEPT ![j].pc = "create",
                               ![j].src = path[job[j].hour],
                               ![j].size = content[path[job[j].hour]]]
    /\ UNCHANGED <<now, proc, reqVars, handles, fh, fsVars, sweep>>

\* os.Open, then os.Create, which truncates an archive another job is writing.
JobCreate(j) ==
    /\ job[j].pc = "create"
    /\ LET h == job[j].hour
           shared == \E k \in Jobs : job[k].hour = h /\ job[k].pc \in {"copy", "flush"}
       IN \/ /\ path[h] # None
             /\ archive' = [archive EXCEPT ![h] =
                    [state |-> IF shared THEN "torn" ELSE "partial", lines |-> {}]]
             /\ job' = [job EXCEPT ![j].pc = "copy", ![j].src = path[h]]
          \/ /\ path[h] = None \/ IOErrors
             /\ JobEnds(j)
             /\ UNCHANGED archive
    /\ UNCHANGED <<now, proc, reqVars, handles, fh, path, content, torn, sweep>>

Fits(j) == ~job[j].grown /\ content[job[j].src] = job[j].size

\* io.Copy up to the end of the file, which is not read again.  A size other than
\* the tar header's is an error, which leaves the partial archive behind, as any
\* other error does.
JobCopy(j) ==
    /\ job[j].pc = "copy"
    /\ \/ /\ Fits(j)
          /\ job' = [job EXCEPT ![j].pc = "flush", ![j].src = None]
       \/ /\ ~Fits(j) \/ IOErrors
          /\ JobEnds(j)
    /\ UNCHANGED <<now, proc, reqVars, handles, fh, fsVars, sweep>>

\* tw.Close and encoder.Close make the archive readable, or fail.
JobFlush(j) ==
    /\ job[j].pc = "flush"
    /\ \/ /\ archive' = [archive EXCEPT ![job[j].hour] =
                            IF @.state = "torn" THEN @
                            ELSE [state |-> "complete", lines |-> job[j].size]]
          /\ job' = [job EXCEPT ![j].pc = "remove"]
       \/ /\ IOErrors
          /\ JobEnds(j)
          /\ UNCHANGED archive
    /\ UNCHANGED <<now, proc, reqVars, handles, fh, path, content, torn, sweep>>

\* os.Remove, whatever the path names by now.
JobRemove(j) ==
    /\ job[j].pc = "remove"
    /\ \/ path' = [path EXCEPT ![job[j].hour] = None]
       \/ IOErrors /\ UNCHANGED path
    /\ JobEnds(j)
    /\ UNCHANGED <<now, proc, reqVars, handles, fh, content, torn, archive, sweep>>

Archiver(j) ==
    \/ JobAcquire(j) \/ JobCheck(j) \/ JobCreate(j) \/ JobCopy(j)
    \/ JobFlush(j) \/ JobRemove(j)

-----------------------------------------------------------------------------
(* Shutdown, crash, restart.                                               *)

\* server.Shutdown has waited for the handlers; the deferred Close begins.
CloseBegins ==
    /\ proc = "up"
    /\ \A r \in Records : req[r] = "idle"
    /\ proc' = "closing"
    /\ UNCHANGED <<now, reqVars, handles, fh, fsVars, sweep, job>>

\* cleanupWG.Wait has returned: close every handle in the map.
CloseHandles ==
    /\ proc = "closing"
    /\ sweep.pc = "stopped"
    /\ fh' = [x \in Handles |-> IF x \in Mapped THEN ClosedHandle ELSE fh[x]]
    /\ handles' = [h \in Hours |-> None]
    /\ proc' = "waiting"
    /\ UNCHANGED <<now, reqVars, fsVars, sweep, job>>

\* The process ends: its goroutines and its memory are gone, the files stay.
ProcessEnds ==
    /\ proc' = "down"
    /\ req' = [r \in Records |-> "idle"]
    /\ got' = [r \in Records |-> None]
    /\ handles' = NoHandles /\ fh' = NoFiles /\ sweep' = NoSweep /\ job' = NoJobs
    /\ UNCHANGED <<now, hour, history, fsVars>>

\* Bug variant: no timeout.
CloseReturnsAfterArchives ==
    /\ proc = "waiting"
    /\ \A j \in Jobs : job[j].pc = "none"
    /\ ProcessEnds

\* archiveDone, or the 5s timeout with archive jobs still running.
CloseReturns == proc = "waiting" /\ ProcessEnds

Crash == proc # "down" /\ ProcessEnds

Restart ==
    /\ proc = "down"
    /\ proc' = "up"
    /\ UNCHANGED <<now, reqVars, handles, fh, fsVars, sweep, job>>

Next ==
    \/ Tick
    \/ \E r \in Records : Post(r) \/ Handler(r)
    \/ Cleaner
    \/ \E j \in Jobs : Archiver(j)
    \/ CloseBegins \/ CloseHandles \/ CloseReturns
    \/ Crash \/ Restart

Spec == Init /\ [][Next]_vars

\* The handlers, the cleanup goroutine and Close run when they can: their system
\* calls return, the ticker ticks and the shutdown timeout expires.  An archive
\* goroutine gets to run, but compressing may hang.  Nothing is assumed of the
\* clients, of the clock, or of when the process is stopped or crashes.
FairSpec ==
    /\ Spec
    /\ \A r \in Records : WF_vars(Handler(r))
    /\ WF_vars(Cleaner)
    /\ \A j \in Jobs : WF_vars(JobAcquire(j))
    /\ WF_vars(CloseHandles \/ CloseReturns)

\* And no archive job hangs.
ArchivingSpec == FairSpec /\ \A j \in Jobs : WF_vars(Archiver(j))

-----------------------------------------------------------------------------
(* Properties.                                                             *)

HandleStates ==
    [open : BOOLEAN, hour : Hours, inode : Inodes \cup {None}, lastWrite : 0..MaxTime]
SweepStates ==
    [pc : {"idle", "closing", "stopped"}, stale : SUBSET Handles, hour : Hours,
     paths : SUBSET Hours]
JobStates ==
    [pc : {"none", "start", "check", "create", "copy", "flush", "remove"},
     hour : Hours, src : Inodes \cup {None}, size : SUBSET Records, grown : BOOLEAN]
ArchiveStates ==
    [state : {"none", "partial", "torn", "complete"}, lines : SUBSET Records]

TypeOK ==
    /\ now \in 0..MaxTime
    /\ proc \in {"up", "closing", "waiting", "down"}
    /\ req \in [Records -> {"idle", "posted", "writing"}]
    /\ hour \in [Records -> Hours \cup {-1}]
    /\ got \in [Records -> Handles \cup {None}]
    /\ handles \in [Hours -> Handles \cup {None}]
    /\ fh \in [Handles -> HandleStates]
    /\ path \in [Hours -> Inodes \cup {None}]
    /\ content \in [Inodes -> SUBSET Records]
    /\ torn \subseteq Inodes
    /\ sweep \in SweepStates
    /\ job \in [Jobs -> JobStates]
    /\ archive \in [Hours -> ArchiveStates]
    /\ early \subseteq Hours
    /\ accepted \subseteq Records /\ kept \subseteq accepted /\ spoiled \subseteq accepted
    /\ shortWrites \in 0..MaxShortWrites

InFiles == UNION {content[path[h]] : h \in {k \in Hours : path[k] # None}}
InArchives == UNION {archive[h].lines : h \in Hours}

Readable == InFiles \cup InArchives

\* README: the log server "writes each record as a JSON object per line to a file
\* named by UTC hour": a record answered 202 stays readable, in that file or in the
\* finished archive that replaced it.
AcceptedDurable == accepted \subseteq Readable

\* A record answered 202 within its hour, and not behind a fragment, stays
\* readable through stale-handle cleanup, archiving beside late records, failed
\* and repeated archiving, short writes, shutdown and crashes; unless a record
\* came for that hour before it began, and so had its file archived.
PromptDurable == kept \subseteq Readable

\* A write that stores part of a line spoils at most one later record of the file,
\* not every record after it.
TornLineCostsOne == Cardinality(spoiled \ kept) <= shortWrites

\* The files, archives and goroutines keep the promise of LogStore.
Store == INSTANCE LogStore WITH kept <- kept, readable <- Readable
ImplementsStore == Store!Spec

\* No descriptor leaks and none in use is forgotten: an open handle is the one
\* in the map for its path or is waiting for the sweep to close it.  A handle in
\* the map is open on the file its path names, or on one an archive job has
\* removed, and never on one file while its path names another.
OpenHandlesTracked ==
    /\ \A x \in Handles : fh[x].open => x \in Mapped \cup sweep.stale
    /\ \A h \in Hours : handles[h] # None =>
          /\ fh[handles[h]].open /\ fh[handles[h]].hour = h
          /\ \/ path[h] = fh[handles[h]].inode
             \/ path[h] = None /\ archive[h].state # "none"
    /\ Mapped \cap sweep.stale = {}

\* writer.go: "Only archive files from completed periods": a file is given to the
\* archiver when its hour is over.
CompletedPeriodsOnly ==
    \A j \in Jobs : job[j].pc # "none" => job[j].hour < HourOf(now)

\* A finished archive is never truncated or rewritten: the archive limit of one
\* and IsArchived together keep a second job off it, however late records
\* re-create the file it came from.
ArchivesAreFinal ==
    [][\A h \in Hours : archive[h].state = "complete" => archive'[h] = archive[h]]_vars

\* Every handle left idle for longer than StaleHandleTimeout is closed, written
\* to again, or gone with the process.
StaleHandlesClosed ==
    \A x \in Handles : fh[x].open /\ Idle(x) ~> ~fh[x].open \/ ~Idle(x)

\* Close returns whatever the cleanup goroutine is doing, and with an archive job
\* that hangs.
CloseTerminates == proc = "closing" ~> proc = "down"

\* README: the log server "automatically archives stale JSONL files".  A file of
\* a past hour that nobody writes to is archived while the server stays up.
StaleFile(h) ==
    /\ path[h] # None /\ h < HourOf(now)
    /\ \A x \in Handles : fh[x].open /\ fh[x].hour = h => Idle(x)
StaleFilesArchived ==
    [](proc = "up") => \A h \in Hours : StaleFile(h) ~> ~StaleFile(h)
=============================================================================
