-------------------------- MODULE JsonlStoreProofs --------------------------
(***************************************************************************)
(* Proofs about JsonlWriter with an archive limit of one, the default, or  *)
(* with any limit if every record comes in its own hour: a finished        *)
(* archive is final, a promised record stays readable, and the files,      *)
(* archives and goroutines implement LogStore.  With a higher limit and    *)
(* late or early records they do not: two jobs of one period may pass      *)
(* IsArchived together.                                                    *)
(***************************************************************************)
EXTENDS JsonlWriterProofs

(* The invariant.                                                          *)

Runs(j) == job[j].pc \notin {"none", "start"}

\* No two jobs of one period are past the semaphore at a time.
Exclusive ==
    \A j, k \in Jobs : Runs(j) /\ Runs(k) /\ job[j].hour = job[k].hour => j = k

\* A handle open for the current period is open on the file the path names: no
\* job removes that file, unless a record came for the period before it began.
ActiveInv ==
    \A x \in Handles : fh[x].open /\ fh[x].hour = HourOf(now) /\ fh[x].hour \notin early =>
        path[fh[x].hour] = fh[x].inode

PathsDistinct ==
    \A h, k \in Hours : path[h] # None /\ path[h] = path[k] => h = k

\* Only a finished archive can be read.
ArchiveInv == \A h \in Hours : archive[h].state # "complete" => archive[h].lines = {}

\* A job past IsArchived works on an archive of its own; what it found in the
\* file is still there, every record promised for the period among it.
ArchiveStateOf(j) ==
    /\ job[j].pc = "create" => archive[job[j].hour].state = "none"
    /\ job[j].pc \in {"copy", "flush"} => archive[job[j].hour].state = "partial"
    /\ job[j].pc = "remove" =>
          /\ archive[job[j].hour].state = "complete"
          /\ archive[job[j].hour].lines = job[j].size

AtWork(j) == job[j].pc \in {"create", "copy", "flush", "remove"}

SourceOf(j) ==
    AtWork(j) =>
        /\ path[job[j].hour] # None
        /\ job[j].size \subseteq content[path[job[j].hour]]
        /\ \A r \in kept : hour[r] = job[j].hour => r \in job[j].size

JobsInv == \A j \in Jobs : ArchiveStateOf(j) /\ SourceOf(j)

\* A promised record is in its period's file, or in its archive.
Found(r) ==
    /\ hour[r] \in Hours
    /\ \/ path[hour[r]] # None /\ r \in content[path[hour[r]]]
       \/ r \in archive[hour[r]].lines
KeptInv == \A r \in kept : Found(r)

\* It was promised in its own hour, which no record came before.
TimelyInv == \A r \in kept : hour[r] <= HourOf(now) /\ hour[r] \notin early

SInv ==
    /\ Exclusive /\ ActiveInv /\ PathsDistinct /\ ArchiveInv /\ JobsInv /\ KeptInv
    /\ TimelyInv

-----------------------------------------------------------------------------
(* Steps that touch neither the files nor what a job at work knows of them. *)

Quiet ==
    /\ UNCHANGED <<now, path, content, archive, kept>>
    /\ early \subseteq early'
    /\ \A r \in kept : hour'[r] = hour[r] /\ (hour[r] \in early' => hour[r] \in early)
    /\ \A x \in Handles : fh'[x].open =>
          /\ fh[x].open
          /\ fh'[x].hour = fh[x].hour /\ fh'[x].inode = fh[x].inode
    /\ \A j \in Jobs :
          \/ job'[j].pc \in {"none", "start"}
          \/ /\ job'[j].pc = job[j].pc
             /\ job'[j].hour = job[j].hour /\ job'[j].size = job[j].size

LEMMA QuietKeeps ==
    ASSUME Inv, SInv, Quiet
    PROVE  SInv'
<1>0. TypeOK /\ Exclusive /\ ActiveInv /\ PathsDistinct /\ ArchiveInv /\ JobsInv /\ KeptInv
  BY DEF Inv, SInv
<1>1. Exclusive'
  BY <1>0 DEF Quiet, Exclusive, Runs
<1>2. ActiveInv'
  BY <1>0 DEF Quiet, ActiveInv
<1>3. PathsDistinct' /\ ArchiveInv'
  BY <1>0 DEF Quiet, PathsDistinct, ArchiveInv
<1>4. ASSUME NEW j \in Jobs PROVE ArchiveStateOf(j)' /\ SourceOf(j)'
  <2>1. CASE job'[j].pc \in {"none", "start"}
    BY <2>1 DEF ArchiveStateOf, SourceOf, AtWork
  <2>2. CASE /\ job'[j].pc = job[j].pc
             /\ job'[j].hour = job[j].hour /\ job'[j].size = job[j].size
    <3>1. ArchiveStateOf(j)'
      BY <1>0, <2>2 DEF JobsInv, ArchiveStateOf, Quiet
    <3>2. SourceOf(j)'
      BY <1>0, <2>2 DEF JobsInv, SourceOf, AtWork, Quiet
    <3> QED BY <3>1, <3>2
  <2> QED BY <2>1, <2>2 DEF Quiet
<1>5. KeptInv'
  BY <1>0 DEF Quiet, KeptInv, Found
<1>6. TimelyInv'
  BY DEF SInv, Quiet, TimelyInv
<1> QED BY <1>1, <1>2, <1>3, <1>4, <1>5, <1>6 DEF SInv, JobsInv

\* The handlers' steps that write nothing.
LEMMA HandlerQuiet ==
    ASSUME Inv, SInv, NEW r \in Records,
           \/ Post(r) \/ GetHandleFound(r) \/ GetHandleFails(r)
           \/ WriteShort(r) \/ WriteFails(r)
    PROVE  Quiet
<1>0. TypeOK /\ WritingInv /\ KeptInv
  BY DEF Inv, SInv
<1>1. CASE Post(r)
  <2>1. PICK h \in Hours :
           /\ hour[r] \in {-1, h} /\ hour' = [hour EXCEPT ![r] = h]
           /\ early' = IF h > HourOf(now) THEN early \cup {h} ELSE early
    BY <1>1 DEF Post
  <2>2. -1 \notin Hours
    BY HoursAreNat
  <2>3. ASSUME NEW s \in kept PROVE hour'[s] = hour[s]
    BY <1>0, <2>1, <2>2 DEF TypeOK, KeptInv, Found
  <2>4. ASSUME NEW s \in kept, hour[s] \in early' PROVE hour[s] \in early
    <3>1. hour[s] <= HourOf(now) /\ hour[s] \in Nat /\ HourOf(now) \in Nat /\ h \in Nat
      BY <1>0, HourOfType, HoursAreNat DEF TypeOK, KeptInv, Found, SInv, TimelyInv
    <3> QED BY <2>1, <2>4, <3>1
  <2> QED BY <1>0, <1>1, <2>1, <2>3, <2>4 DEF TypeOK, Quiet, Post, fsVars
<1>2. CASE GetHandleFound(r) \/ GetHandleFails(r)
  BY <1>0, <1>2 DEF Quiet, GetHandleFound, GetHandleFails, fsVars, history
<1>3. CASE WriteShort(r)
  <2>1. got[r] \in Handles
    BY <1>0, <1>3 DEF WritingInv, Writing, WriteShort, Append
  <2>2. ASSUME NEW x \in Handles
        PROVE  /\ fh'[x].open = fh[x].open /\ fh'[x].hour = fh[x].hour
               /\ fh'[x].inode = fh[x].inode
    BY <1>0, <1>3 DEF TypeOK, HandleStates, WriteShort, Append
  <2>3. ASSUME NEW j \in Jobs
        PROVE  /\ job'[j].pc = job[j].pc /\ job'[j].hour = job[j].hour
               /\ job'[j].size = job[j].size
    BY <1>0, <1>3 DEF TypeOK, JobStates, WriteShort, Append
  <2> QED BY <1>3, <2>2, <2>3 DEF Quiet, WriteShort
<1>4. CASE WriteFails(r)
  <2>1. ASSUME NEW x \in Handles
        PROVE  /\ fh'[x].open = fh[x].open /\ fh'[x].hour = fh[x].hour
               /\ fh'[x].inode = fh[x].inode
    BY <1>0, <1>4 DEF TypeOK, HandleStates, WriteFails
  <2> QED BY <1>4, <2>1 DEF Quiet, WriteFails, fsVars, history
<1> QED BY <1>1, <1>2, <1>3, <1>4

\* The cleanup goroutine, shutdown, crash and restart.
LEMMA OthersQuiet ==
    ASSUME Inv, Cleaner \/ CloseBegins \/ CloseHandles \/ ProcessEnds \/ Restart
    PROVE  Quiet
<1>0. TypeOK /\ SweepInv
  BY DEF Inv
<1>1. CASE SweepScan \/ SweepStops \/ CloseBegins \/ Restart
  BY <1>1 DEF Quiet, SweepScan, SweepStops, CloseBegins, Restart, reqVars, fsVars, history
<1>2. CASE SweepClose
  BY <1>0, <1>2 DEF TypeOK, SweepStates, Quiet, SweepClose, ClosedHandle, reqVars, fsVars, history
<1>3. CASE SweepSpawn
  <2>1. ASSUME NEW k \in Jobs PROVE job'[k] = job[k] \/ job'[k].pc = "start"
    BY <1>0, <1>3 DEF TypeOK, SweepSpawn, NoJob
  <2> QED BY <1>3, <2>1 DEF Quiet, SweepSpawn, reqVars, fsVars, history
<1>4. CASE CloseHandles
  BY <1>4 DEF Quiet, CloseHandles, ClosedHandle, reqVars, fsVars, history
<1>5. CASE ProcessEnds
  BY <1>5 DEF Quiet, ProcessEnds, NoFiles, ClosedHandle, NoJobs, NoJob, fsVars, history
<1> QED BY <1>1, <1>2, <1>3, <1>4, <1>5 DEF Cleaner

LEMMA StutterQuiet == ASSUME UNCHANGED vars PROVE Quiet
  BY DEF Quiet, vars

-----------------------------------------------------------------------------
(* Steps that do.                                                          *)

\* The clock moves on; a handle open so far is of a period begun before.
LEMMA TickStays ==
    ASSUME Inv, SInv, Tick
    PROVE  SInv'
<1>0. TypeOK /\ HandlesInv /\ Exclusive /\ ActiveInv /\ PathsDistinct /\ ArchiveInv /\ JobsInv
      /\ KeptInv
  BY DEF Inv, SInv
<1>1. /\ fh' = fh /\ path' = path /\ content' = content /\ archive' = archive
      /\ job' = job /\ kept' = kept /\ hour' = hour /\ early' = early
  BY DEF Tick, reqVars, fsVars, history
<1>2. ActiveInv'
  <2>1. ASSUME NEW x \in Handles, fh[x].open, fh[x].hour = HourOf(now)',
               fh[x].hour \notin early
        PROVE  path[fh[x].hour] = fh[x].inode
    <3>1. fh[x].hour \in Nat /\ fh[x].hour <= HourOf(now)
      BY <1>0, <2>1, HoursAreNat DEF TypeOK, HandleStates, HandlesInv, Begun
    <3>2. fh[x].hour = HourOf(now)
      BY <1>0, <2>1, <3>1, TickHour
    <3> QED BY <1>0, <2>1, <3>2 DEF ActiveInv
  <2> QED BY <1>1, <2>1 DEF ActiveInv
<1>3. Exclusive' /\ PathsDistinct' /\ ArchiveInv' /\ KeptInv'
  BY <1>0, <1>1 DEF Exclusive, Runs, PathsDistinct, ArchiveInv, KeptInv, Found
<1>4. JobsInv'
  BY <1>0, <1>1 DEF JobsInv, ArchiveStateOf, SourceOf, AtWork
<1>5. TimelyInv'
  <2>1. \A r \in kept : hour[r] \in Nat
    BY <1>0, HoursAreNat DEF KeptInv, Found
  <2> QED BY <1>1, <2>1, TickHour DEF Inv, SInv, TimelyInv
<1> QED BY <1>2, <1>3, <1>4, <1>5 DEF SInv

\* A new file takes an inode that nobody uses.
LEMMA GetHandleOpensStays ==
    ASSUME Inv, SInv, NEW r \in Records, GetHandleOpens(r)
    PROVE  SInv'
<1>0. TypeOK /\ HandlesInv /\ WritingInv /\ Exclusive /\ ActiveInv /\ PathsDistinct
      /\ ArchiveInv /\ JobsInv /\ KeptInv
  BY DEF Inv, SInv
<1>1. hour[r] \in Hours /\ archive' = archive /\ job' = job /\ kept' = kept /\ hour' = hour
      /\ now' = now /\ early' = early
  BY <1>0 DEF WritingInv, Writing, GetHandleOpens, history
<1>2. PICK x \in Handles, i \in Inodes : OpensAs(r, x, i)
  BY OpensSomehow
<1>3. /\ path' = [path EXCEPT ![hour[r]] = i]
      /\ fh' = [fh EXCEPT ![x] = [open |-> TRUE, hour |-> hour[r], inode |-> i,
                                  lastWrite |-> now]]
      /\ \/ path[hour[r]] = i
         \/ path[hour[r]] = None /\ \A h \in Hours : path[h] # i
  BY <1>2 DEF OpensAs, FreeInodes
<1>4. i # None /\ path \in [Hours -> Inodes \cup {None}] /\ path'[hour[r]] = i
  BY <1>0, <1>1, <1>3, JsonlWriterAssumption DEF TypeOK, JsonlWriterAssumption
<1>5. ASSUME NEW h \in Hours, path[h] # None
      PROVE  path'[h] = path[h] /\ content'[path[h]] = content[path[h]]
  <2>1. path'[h] = path[h]
    BY <1>1, <1>3, <1>4, <1>5
  <2>2. content'[path[h]] = content[path[h]]
    BY <1>0, <1>1, <1>2, <1>3, <1>4, <1>5 DEF TypeOK, OpensAs
  <2> QED BY <2>1, <2>2
<1>6. ActiveInv'
  <2>1. ASSUME NEW y \in Handles, fh'[y].open, fh'[y].hour = HourOf(now),
               fh'[y].hour \notin early
        PROVE  path'[fh'[y].hour] = fh'[y].inode
    <3>1. CASE y = x
      BY <1>0, <1>3, <1>4, <3>1 DEF TypeOK
    <3>2. CASE y # x
      <4>1. fh'[y] = fh[y] /\ fh[y].hour \in Hours /\ fh[y].inode \in Inodes
        BY <1>0, <1>3, <2>1, <3>2 DEF TypeOK, HandleStates, HandlesInv, Begun
      <4>2. path[fh[y].hour] = fh[y].inode /\ path[fh[y].hour] # None
        BY <1>0, <2>1, <4>1, JsonlWriterAssumption DEF ActiveInv, JsonlWriterAssumption
      <4> QED BY <1>5, <4>1, <4>2
    <3> QED BY <3>1, <3>2
  <2> QED BY <1>1, <2>1 DEF ActiveInv
<1>7. PathsDistinct'
  BY <1>0, <1>1, <1>3, <1>4 DEF PathsDistinct
<1>8. Exclusive' /\ ArchiveInv'
  BY <1>0, <1>1 DEF Exclusive, Runs, ArchiveInv
<1>9. KeptInv'
  BY <1>0, <1>1, <1>5 DEF KeptInv, Found
<1>10. ASSUME NEW j \in Jobs PROVE ArchiveStateOf(j)' /\ SourceOf(j)'
  <2>1. ArchiveStateOf(j)'
    BY <1>0, <1>1 DEF JobsInv, ArchiveStateOf
  <2>2. job[j].hour \in Hours
    BY <1>0 DEF TypeOK, JobStates
  <2>3. SourceOf(j)'
    BY <1>0, <1>1, <1>5, <2>2 DEF JobsInv, SourceOf, AtWork
  <2> QED BY <2>1, <2>3
<1>11. TimelyInv'
  BY <1>1 DEF SInv, TimelyInv
<1> QED BY <1>6, <1>7, <1>8, <1>9, <1>10, <1>11 DEF SInv, JobsInv

\* A line for the current period goes to the file the path names; a job is never
\* at work on that period.
LEMMA WriteLineStays ==
    ASSUME Inv, SInv, NEW r \in Records, WriteLine(r)
    PROVE  SInv'
<1>0. TypeOK /\ HandlesInv /\ WritingInv /\ JobsBegun /\ Exclusive /\ ActiveInv
      /\ PathsDistinct /\ ArchiveInv /\ JobsInv /\ KeptInv
  BY DEF Inv, SInv
<1>1. /\ hour[r] \in Hours /\ got[r] \in Handles /\ fh[got[r]].open
      /\ fh[got[r]].hour = hour[r] /\ Target(r) \in Inodes
  BY <1>0 DEF WritingInv, Writing, HandlesInv, Begun, WriteLine, Append, Target
<1>2. path' = path /\ archive' = archive /\ hour' = hour /\ now' = now
      /\ early' = early
  BY DEF WriteLine, Accept
<1>3. ASSUME NEW x \in Handles
      PROVE  /\ fh'[x].open = fh[x].open /\ fh'[x].hour = fh[x].hour
             /\ fh'[x].inode = fh[x].inode
  BY <1>0 DEF TypeOK, HandleStates, WriteLine, Append
<1>4. ASSUME NEW j \in Jobs
      PROVE  /\ job'[j].pc = job[j].pc /\ job'[j].hour = job[j].hour
             /\ job'[j].size = job[j].size
  BY <1>0 DEF TypeOK, JobStates, WriteLine, Append
<1>5. ASSUME NEW i \in Inodes PROVE content[i] \subseteq content'[i]
  BY <1>0 DEF TypeOK, WriteLine
<1>6. \/ kept' = kept
      \/ /\ kept' = kept \cup {r} /\ hour[r] = HourOf(now) /\ hour[r] \notin early
         /\ r \in content'[Target(r)]
  BY <1>0, <1>1 DEF TypeOK, WriteLine, Accept
<1>7. path \in [Hours -> Inodes \cup {None}]
  BY <1>0 DEF TypeOK
<1>8. Exclusive' /\ ActiveInv' /\ PathsDistinct' /\ ArchiveInv'
  BY <1>0, <1>2, <1>3, <1>4 DEF Exclusive, Runs, ActiveInv, PathsDistinct, ArchiveInv
<1>9. KeptInv'
  <2>1. ASSUME NEW s \in kept PROVE Found(s)'
    BY <1>0, <1>2, <1>5, <1>7 DEF KeptInv, Found
  <2>2. ASSUME hour[r] = HourOf(now), hour[r] \notin early, r \in content'[Target(r)] 
        PROVE  Found(r)'
    <3>1. path[hour[r]] = Target(r)
      BY <1>0, <1>1, <2>2 DEF ActiveInv, Target
    <3> QED BY <1>1, <1>2, <2>2, <3>1, JsonlWriterAssumption DEF Found, JsonlWriterAssumption
  <2> QED BY <1>6, <2>1, <2>2 DEF KeptInv
<1>10. ASSUME NEW j \in Jobs PROVE ArchiveStateOf(j)' /\ SourceOf(j)'
  <2>1. ArchiveStateOf(j)'
    BY <1>0, <1>2, <1>4 DEF JobsInv, ArchiveStateOf
  <2>2. ASSUME AtWork(j)
        PROVE  /\ path[job[j].hour] # None
               /\ job[j].size \subseteq content'[path[job[j].hour]]
               /\ \A s \in kept' : hour[s] = job[j].hour => s \in job[j].size
    <3>1. /\ job[j].hour \in Hours /\ HourOf(now) \in Nat
          /\ job[j].hour < HourOf(now) \/ job[j].hour \in early
      BY <1>0, <2>2, HourOfType, HoursAreNat
         DEF TypeOK, JobStates, JobsBegun, AtWork
    <3>2. hour[r] = HourOf(now) /\ hour[r] \notin early => job[j].hour # hour[r]
      BY <3>1, HoursAreNat
    <3>3. path[job[j].hour] # None /\ job[j].size \subseteq content[path[job[j].hour]]
          /\ \A s \in kept : hour[s] = job[j].hour => s \in job[j].size
      BY <1>0, <2>2 DEF JobsInv, SourceOf
    <3> QED BY <1>5, <1>6, <1>7, <3>1, <3>2, <3>3
  <2>3. SourceOf(j)'
    BY <1>2, <1>4, <2>2 DEF SourceOf, AtWork
  <2> QED BY <2>1, <2>3
<1>11. TimelyInv'
  <2>1. HourOf(now) \in Nat
    BY <1>0, HourOfType, HoursAreNat DEF TypeOK
  <2> QED BY <1>2, <1>6, <2>1 DEF SInv, TimelyInv
<1> QED BY <1>8, <1>9, <1>10, <1>11 DEF SInv, JobsInv

-----------------------------------------------------------------------------
(* The archive jobs.                                                       *)

\* The job is the only one of its period that is, or gets, past the semaphore.
Unopposed(j) == \A k \in Jobs : Runs(k) => job[k].hour # job[j].hour

\* Under a limit of one no job takes the slot of another.
LEMMA SlotIsFree ==
    ASSUME ArchiveMaxConcurrent = 1, NEW j \in Jobs,
           ~(Cardinality(Running) >= ArchiveMaxConcurrent)
    PROVE  Unopposed(j)
<1>1. IsFiniteSet(Running)
  <2>1. Running \subseteq Jobs
    BY DEF Running
  <2> QED BY <2>1, JsonlWriterAssumption, FS_Subset DEF JsonlWriterAssumption
<1>2. Cardinality(Running) \in Nat
  BY <1>1, FS_CardinalityType
<1>3. Cardinality(Running) = 0
  BY <1>2
<1>4. Running = {}
  BY <1>1, <1>3, FS_EmptySet
<1> QED BY <1>4 DEF Running, Runs, Unopposed

\* A step of one job that gives up is quiet.
LEMMA JobEndsQuiet ==
    ASSUME Inv, NEW j \in Jobs, JobEnds(j),
           UNCHANGED <<now, reqVars, handles, fh, fsVars, sweep>>
    PROVE  Quiet
<1>1. ASSUME NEW k \in Jobs PROVE job'[k] = job[k] \/ job'[k].pc = "none"
  BY DEF Inv, TypeOK, JobEnds, NoJob
<1> QED BY <1>1 DEF Quiet, reqVars, fsVars, history

\* What a step of job j leaves as it is: all that is of another period or job.
Alone(j) ==
    /\ fh' = fh /\ content' = content /\ kept' = kept /\ hour' = hour /\ now' = now
    /\ early' = early
    /\ \A k \in Jobs : k # j => job'[k] = job[k]
    /\ Runs(j)' => job'[j].hour = job[j].hour
    /\ \A h \in Hours : h # job[j].hour => path'[h] = path[h] /\ archive'[h] = archive[h]

\* A job at work does not meet another of its period.
LEMMA AloneKeeps ==
    ASSUME Inv, SInv, NEW j \in Jobs, Runs(j), Alone(j),
           ArchiveStateOf(j)', SourceOf(j)', ActiveInv', PathsDistinct', ArchiveInv', KeptInv'
    PROVE  SInv'
<1>0. TypeOK /\ Exclusive /\ JobsInv
  BY DEF Inv, SInv
<1>1. Exclusive'
  BY <1>0 DEF Exclusive, Runs, Alone
<1>2. ASSUME NEW k \in Jobs, k # j PROVE ArchiveStateOf(k)' /\ SourceOf(k)'
  <2>1. job'[k] = job[k]
    BY <1>2 DEF Alone
  <2>2. CASE ~Runs(k)
    BY <2>1, <2>2 DEF Runs, ArchiveStateOf, SourceOf, AtWork
  <2>3. CASE Runs(k)
    <3>1. job[k].hour \in Hours /\ job[k].hour # job[j].hour
      BY <1>0, <1>2, <2>3 DEF TypeOK, JobStates, Exclusive
    <3>2. /\ path'[job[k].hour] = path[job[k].hour]
          /\ archive'[job[k].hour] = archive[job[k].hour]
      BY <3>1 DEF Alone
    <3>3. ArchiveStateOf(k) /\ SourceOf(k)
      BY <1>0 DEF JobsInv
    <3>4. ArchiveStateOf(k)'
      BY <2>1, <3>2, <3>3 DEF ArchiveStateOf
    <3>5. SourceOf(k)'
      BY <2>1, <3>2, <3>3 DEF SourceOf, AtWork, Alone
    <3> QED BY <3>4, <3>5
  <2> QED BY <2>2, <2>3
<1>3. TimelyInv'
  BY DEF SInv, Alone, TimelyInv
<1> QED BY <1>1, <1>2, <1>3 DEF SInv, JobsInv

\* A job gets past the semaphore while no other of its period is.
LEMMA JobAcquireStays ==
    ASSUME Inv, SInv, NEW j \in Jobs, JobAcquire(j), Unopposed(j)
    PROVE  SInv'
<1>0. TypeOK /\ Exclusive /\ JobsInv
  BY DEF Inv, SInv
<1>1. CASE JobEnds(j)
  BY <1>1, JobEndsQuiet, QuietKeeps DEF JobAcquire
<1>2. CASE job' = [job EXCEPT ![j].pc = "check"]
  <2>1. /\ job'[j].pc = "check" /\ job'[j].hour = job[j].hour
        /\ \A k \in Jobs : k # j => job'[k] = job[k]
    BY <1>0, <1>2 DEF TypeOK, JobStates
  <2>2. Exclusive'
    BY <1>0, <2>1 DEF Exclusive, Runs, Unopposed
  <2>3. path' = path /\ archive' = archive /\ content' = content /\ kept' = kept
        /\ hour' = hour
    BY DEF JobAcquire, reqVars, fsVars, history
  <2>4. ASSUME NEW k \in Jobs PROVE ArchiveStateOf(k)' /\ SourceOf(k)'
    BY <1>0, <2>1, <2>3 DEF JobsInv, ArchiveStateOf, SourceOf, AtWork
  <2>5. ActiveInv' /\ PathsDistinct' /\ ArchiveInv' /\ KeptInv' /\ TimelyInv'
    BY DEF SInv, ActiveInv, PathsDistinct, ArchiveInv, KeptInv, Found, TimelyInv,
       JobAcquire, reqVars, fsVars, history
  <2> QED BY <2>2, <2>4, <2>5 DEF SInv, JobsInv
<1> QED BY <1>1, <1>2 DEF JobAcquire

\* Without an archive, what is promised for the period is in the file.
LEMMA JobCheckStays ==
    ASSUME Inv, SInv, NEW j \in Jobs, JobCheck(j)
    PROVE  SInv'
<1>0. TypeOK /\ KeptInv /\ ArchiveInv
  BY DEF Inv, SInv
<1>1. CASE path[job[j].hour] = None \/ archive[job[j].hour].state # "none"
  BY <1>1, JobEndsQuiet, QuietKeeps DEF JobCheck
<1>2. CASE ~(path[job[j].hour] = None \/ archive[job[j].hour].state # "none")
  <2>1. /\ job[j].hour \in Hours
        /\ job'[j].pc = "create" /\ job'[j].hour = job[j].hour
        /\ job'[j].size = content[path[job[j].hour]]
    BY <1>0, <1>2 DEF TypeOK, JobStates, JobCheck
  <2>2. Alone(j) /\ path' = path /\ archive' = archive
    BY <1>0, <1>2, <2>1 DEF TypeOK, Alone, JobCheck, reqVars, fsVars, history
  <2>3. archive[job[j].hour].lines = {}
    BY <1>0, <1>2, <2>1 DEF ArchiveInv
  <2>4. ASSUME NEW r \in kept, hour[r] = job[j].hour
        PROVE  r \in content[path[job[j].hour]]
    BY <1>0, <2>3, <2>4 DEF KeptInv, Found
  <2>5. ArchiveStateOf(j)' /\ SourceOf(j)'
    BY <1>2, <2>1, <2>2, <2>4 DEF ArchiveStateOf, SourceOf, AtWork, Alone
  <2>6. Runs(j) /\ ActiveInv' /\ PathsDistinct' /\ ArchiveInv' /\ KeptInv'
    BY <2>2 DEF SInv, Alone, Runs, JobCheck, ActiveInv, PathsDistinct, ArchiveInv, KeptInv,
       Found
  <2> QED BY <2>2, <2>5, <2>6, AloneKeeps
<1> QED BY <1>1, <1>2

\* The archive it creates is its own.
LEMMA JobCreateStays ==
    ASSUME Inv, SInv, NEW j \in Jobs, JobCreate(j)
    PROVE  SInv'
<1>0. TypeOK /\ Exclusive /\ KeptInv /\ ArchiveInv /\ JobsInv
  BY DEF Inv, SInv
<1>1. CASE JobEnds(j) /\ UNCHANGED archive
  BY <1>1, JobEndsQuiet, QuietKeeps DEF JobCreate, fsVars
<1>2. CASE ~(JobEnds(j) /\ UNCHANGED archive)
  <2>1. ASSUME NEW k \in Jobs PROVE ~(job[k].hour = job[j].hour /\ job[k].pc \in {"copy", "flush"})
    BY <1>0 DEF Exclusive, Runs, JobCreate
  <2>2. /\ path[job[j].hour] # None
        /\ archive' = [archive EXCEPT ![job[j].hour] = [state |-> "partial", lines |-> {}]]
        /\ job' = [job EXCEPT ![j].pc = "copy", ![j].src = path[job[j].hour]]
    BY <1>2, <2>1 DEF JobCreate
  <2>3. /\ job[j].hour \in Hours /\ job'[j].pc = "copy"
        /\ job'[j].hour = job[j].hour /\ job'[j].size = job[j].size
        /\ archive'[job[j].hour] = [state |-> "partial", lines |-> {}]
    BY <1>0, <2>2 DEF TypeOK, JobStates
  <2>4. Alone(j) /\ path' = path /\ Runs(j)
    BY <1>0, <2>2 DEF TypeOK, Alone, Runs, JobCreate, reqVars, history
  <2>5. archive[job[j].hour].lines = {}
    BY <1>0, <2>3 DEF JobsInv, ArchiveStateOf, ArchiveInv, JobCreate
  <2>6. ArchiveStateOf(j)' /\ SourceOf(j)'
    BY <1>0, <2>3, <2>4 DEF JobsInv, ArchiveStateOf, SourceOf, AtWork, Alone, JobCreate
  <2>7. ArchiveInv'
    BY <1>0, <2>2 DEF TypeOK, ArchiveInv
  <2>8. KeptInv'
    BY <1>0, <2>2, <2>4, <2>5 DEF TypeOK, KeptInv, Found, Alone
  <2>9. ActiveInv' /\ PathsDistinct'
    BY <2>4 DEF SInv, Alone, ActiveInv, PathsDistinct
  <2> QED BY <2>4, <2>6, <2>7, <2>8, <2>9, AloneKeeps
<1> QED BY <1>1, <1>2

LEMMA JobCopyStays ==
    ASSUME Inv, SInv, NEW j \in Jobs, JobCopy(j)
    PROVE  SInv'
<1>0. TypeOK /\ JobsInv
  BY DEF Inv, SInv
<1>1. CASE JobEnds(j)
  BY <1>1, JobEndsQuiet, QuietKeeps DEF JobCopy
<1>2. CASE ~JobEnds(j)
  <2>1. job' = [job EXCEPT ![j].pc = "flush", ![j].src = None]
    BY <1>2 DEF JobCopy
  <2>2. job'[j].pc = "flush" /\ job'[j].hour = job[j].hour /\ job'[j].size = job[j].size
    BY <1>0, <2>1 DEF TypeOK, JobStates
  <2>3. Alone(j) /\ path' = path /\ archive' = archive /\ Runs(j)
    BY <1>0, <2>1 DEF TypeOK, Alone, Runs, JobCopy, reqVars, fsVars, history
  <2>4. ArchiveStateOf(j)' /\ SourceOf(j)'
    BY <1>0, <2>2, <2>3 DEF JobsInv, ArchiveStateOf, SourceOf, AtWork, Alone, JobCopy
  <2>5. ActiveInv' /\ PathsDistinct' /\ ArchiveInv' /\ KeptInv'
    BY <2>3 DEF SInv, Alone, ActiveInv, PathsDistinct, ArchiveInv, KeptInv, Found
  <2> QED BY <2>3, <2>4, <2>5, AloneKeeps
<1> QED BY <1>1, <1>2

\* A finished archive holds what the job found in the file.
LEMMA JobFlushStays ==
    ASSUME Inv, SInv, NEW j \in Jobs, JobFlush(j)
    PROVE  SInv'
<1>0. TypeOK /\ KeptInv /\ ArchiveInv /\ JobsInv
  BY DEF Inv, SInv
<1>1. CASE JobEnds(j) /\ UNCHANGED archive
  BY <1>1, JobEndsQuiet, QuietKeeps DEF JobFlush, fsVars
<1>2. CASE ~(JobEnds(j) /\ UNCHANGED archive)
  <2>0. job[j].hour \in Hours /\ archive[job[j].hour].state = "partial"
    BY <1>0 DEF TypeOK, JobStates, JobsInv, ArchiveStateOf, JobFlush
  <2>1. /\ archive' = [archive EXCEPT ![job[j].hour] =
                          [state |-> "complete", lines |-> job[j].size]]
        /\ job' = [job EXCEPT ![j].pc = "remove"]
    BY <1>0, <1>2, <2>0 DEF TypeOK, JobFlush
  <2>2. /\ job'[j].pc = "remove" /\ job'[j].hour = job[j].hour /\ job'[j].size = job[j].size
        /\ archive'[job[j].hour] = [state |-> "complete", lines |-> job[j].size]
    BY <1>0, <2>0, <2>1 DEF TypeOK, JobStates
  <2>3. Alone(j) /\ path' = path /\ Runs(j)
    BY <1>0, <2>1 DEF TypeOK, Alone, Runs, JobFlush, reqVars, history
  <2>4. ArchiveStateOf(j)' /\ SourceOf(j)'
    BY <1>0, <2>2, <2>3 DEF JobsInv, ArchiveStateOf, SourceOf, AtWork, Alone, JobFlush
  <2>5. ArchiveInv'
    BY <1>0, <2>1 DEF TypeOK, ArchiveInv
  <2>6. archive[job[j].hour].lines = {}
    BY <1>0, <2>0 DEF ArchiveInv
  <2>7. KeptInv'
    BY <1>0, <2>1, <2>3, <2>6 DEF TypeOK, KeptInv, Found, Alone
  <2>8. ActiveInv' /\ PathsDistinct'
    BY <2>3 DEF SInv, Alone, ActiveInv, PathsDistinct
  <2> QED BY <2>3, <2>4, <2>5, <2>7, <2>8, AloneKeeps
<1> QED BY <1>1, <1>2

\* The file goes when its archive holds all that was promised of it.
LEMMA JobRemoveStays ==
    ASSUME Inv, SInv, NEW j \in Jobs, JobRemove(j)
    PROVE  SInv'
<1>0. TypeOK /\ HandlesInv /\ JobsBegun /\ ActiveInv /\ PathsDistinct /\ KeptInv
      /\ ArchiveInv /\ JobsInv
  BY DEF Inv, SInv
<1>1. CASE UNCHANGED path
  BY <1>1, JobEndsQuiet, QuietKeeps DEF JobRemove, fsVars
<1>2. CASE path' = [path EXCEPT ![job[j].hour] = None]
  <2>1. /\ job[j].hour \in Hours /\ HourOf(now) \in Nat
        /\ job[j].hour < HourOf(now) \/ job[j].hour \in early
        /\ job'[j].pc = "none"
    BY <1>0, HourOfType, HoursAreNat
       DEF TypeOK, JobStates, JobsBegun, JobRemove, JobEnds, NoJob
  <2>2. Alone(j) /\ archive' = archive /\ Runs(j)
    <3>1. \A h \in Hours : h # job[j].hour => path'[h] = path[h]
      BY <1>0, <1>2 DEF TypeOK
    <3>2. \A k \in Jobs : k # j => job'[k] = job[k]
      BY <1>0 DEF TypeOK, JobRemove, JobEnds
    <3> QED BY <2>1, <3>1, <3>2 DEF Alone, Runs, JobRemove, reqVars, history
  <2>3. ArchiveStateOf(j)' /\ SourceOf(j)' /\ ArchiveInv'
    BY <1>0, <2>1, <2>2 DEF ArchiveStateOf, SourceOf, AtWork, ArchiveInv
  <2>4. HourOf(now) \notin early => job[j].hour # HourOf(now)
    BY <2>1, HoursAreNat
  <2>5. ActiveInv'
    <3>1. ASSUME NEW x \in Handles, fh[x].open, fh[x].hour = HourOf(now),
                 fh[x].hour \notin early
          PROVE  path'[fh[x].hour] = fh[x].inode
      <4>1. fh[x].hour \in Hours /\ path[fh[x].hour] = fh[x].inode
        BY <1>0, <3>1 DEF TypeOK, HandleStates, ActiveInv
      <4> QED BY <1>0, <1>2, <2>4, <3>1, <4>1 DEF TypeOK
    <3> QED BY <2>2, <3>1 DEF ActiveInv, Alone
  <2>6. PathsDistinct'
    BY <1>0, <1>2 DEF TypeOK, PathsDistinct
  <2>7. KeptInv'
    <3>1. ASSUME NEW r \in kept PROVE Found(r)'
      <4>1. CASE hour[r] = job[j].hour
        <5>1. r \in archive[hour[r]].lines
          BY <1>0, <4>1 DEF JobsInv, ArchiveStateOf, SourceOf, AtWork, JobRemove
        <5> QED BY <2>1, <2>2, <4>1, <5>1 DEF Found, Alone
      <4>2. CASE hour[r] # job[j].hour
        BY <1>0, <1>2, <2>2, <4>2 DEF TypeOK, KeptInv, Found, Alone
      <4> QED BY <4>1, <4>2
    <3> QED BY <2>2, <3>1 DEF KeptInv, Alone
  <2> QED BY <2>2, <2>3, <2>5, <2>6, <2>7, AloneKeeps
<1> QED BY <1>1, <1>2 DEF JobRemove

-----------------------------------------------------------------------------
(* If every record comes in its own hour, a period is archived once.       *)

\* What may still lead to an archive job: an open handle, unless the sweep is about
\* to close it as its active file.
Pending(x) == fh[x].open /\ (x \in sweep.stale => fh[x].hour # sweep.hour)
Exists(j) == job[j].pc # "none"

PromptInv ==
    /\ early = {}
    /\ \A r \in Records : req[r] # "idle" => hour[r] = HourOf(now)

\* A period has one pending handle, one path in the sweep's list or one job.
HandleOnce(x) ==
    Pending(x) =>
        /\ \A y \in Handles : Pending(y) /\ fh[x].hour = fh[y].hour => x = y
        /\ fh[x].hour \notin sweep.paths
        /\ \A j \in Jobs : Exists(j) => job[j].hour # fh[x].hour
JobOnce(j) ==
    Exists(j) =>
        /\ job[j].hour \notin sweep.paths
        /\ \A k \in Jobs : Exists(k) /\ job[j].hour = job[k].hour => j = k

OnceInv ==
    PromptInv /\ (\A x \in Handles : HandleOnce(x)) /\ (\A j \in Jobs : JobOnce(j))

\* Steps that add no pending handle, no path and no job.
Fewer ==
    /\ \A x \in Handles : Pending(x)' => Pending(x) /\ fh'[x].hour = fh[x].hour
    /\ sweep'.paths \subseteq sweep.paths
    /\ \A j \in Jobs : Exists(j)' => Exists(j) /\ job'[j].hour = job[j].hour

LEMMA FewerKeeps ==
    ASSUME OnceInv, Fewer, PromptInv'
    PROVE  OnceInv'
<1>1. ASSUME NEW x \in Handles PROVE HandleOnce(x)'
  <2>1. HandleOnce(x)
    BY DEF OnceInv
  <2> QED BY <2>1 DEF HandleOnce, Fewer
<1>2. ASSUME NEW j \in Jobs PROVE JobOnce(j)'
  <2>1. JobOnce(j)
    BY DEF OnceInv
  <2> QED BY <2>1 DEF JobOnce, Fewer
<1> QED BY <1>1, <1>2 DEF OnceInv

LEMMA TickOnce ==
    ASSUME Inv, OnceInv, ~LateRecords, ~EarlyRecords, Tick
    PROVE  OnceInv'
<1>1. PromptInv'
  <2>1. now' = now + 1 /\ req' = req /\ hour' = hour /\ early' = early
    BY DEF Tick, reqVars, history
  <2>2. HourOf(now') = HourOf(now) \/ \A r \in Records : req[r] = "idle"
    BY <2>1 DEF Tick
  <2> QED BY <2>1, <2>2 DEF OnceInv, PromptInv
<1>2. Fewer
  BY DEF Tick, Fewer, Pending, Exists
<1> QED BY <1>1, <1>2, FewerKeeps

LEMMA HandlerOnce ==
    ASSUME Inv, OnceInv, ~LateRecords, ~EarlyRecords, NEW r \in Records,
           \/ Post(r) \/ GetHandleFound(r) \/ GetHandleFails(r)
           \/ WriteLine(r) \/ WriteShort(r) \/ WriteFails(r)
    PROVE  OnceInv'
<1>0. TypeOK /\ WritingInv /\ PromptInv
  BY DEF Inv, OnceInv
<1>1. PromptInv'
  <2>1. now' = now
    BY DEF Post, GetHandleFound, GetHandleFails, WriteLine, WriteShort, WriteFails
  <2>2. CASE Post(r)
    <3>1. PICK h \in Hours :
             /\ h >= HourOf(now) /\ h <= HourOf(now)
             /\ hour' = [hour EXCEPT ![r] = h]
             /\ early' = IF h > HourOf(now) THEN early \cup {h} ELSE early
      BY <2>2 DEF Post
    <3>2. h = HourOf(now) /\ early' = early
      <4>1. h \in Nat /\ HourOf(now) \in Nat
        BY <1>0, HourOfType, HoursAreNat DEF TypeOK
      <4> QED BY <3>1, <4>1
    <3> QED BY <1>0, <2>1, <2>2, <3>1, <3>2 DEF TypeOK, PromptInv, Post
  <2>3. CASE ~Post(r)
    <3>1. hour' = hour /\ early' = early /\ req[r] # "idle"
      BY <2>3 DEF GetHandleFound, GetHandleFails, WriteLine, WriteShort, WriteFails, Append,
                  Accept, history
    <3>2. \A q \in Records \ {r} : req'[q] = req[q]
      BY <1>0, <2>3 DEF TypeOK, GetHandleFound, GetHandleFails, WriteLine, WriteShort,
                        WriteFails, Answered
    <3> QED BY <1>0, <2>1, <3>1, <3>2 DEF PromptInv
  <2> QED BY <2>2, <2>3
<1>2. sweep' = sweep
  BY DEF Post, GetHandleFound, GetHandleFails, WriteLine, WriteShort, WriteFails
<1>3. ASSUME NEW x \in Handles
      PROVE  fh'[x].open = fh[x].open /\ fh'[x].hour = fh[x].hour
  BY <1>0 DEF TypeOK, HandleStates, Post, GetHandleFound, GetHandleFails, WriteLine,
              WriteShort, WriteFails, Append
<1>4. ASSUME NEW j \in Jobs
      PROVE  job'[j].pc = job[j].pc /\ job'[j].hour = job[j].hour
  BY <1>0 DEF TypeOK, JobStates, Post, GetHandleFound, GetHandleFails, WriteLine,
              WriteShort, WriteFails, Append
<1>5. Fewer
  BY <1>2, <1>3, <1>4 DEF Fewer, Pending, Exists
<1> QED BY <1>1, <1>5, FewerKeeps

\* A handle is opened for the current period only, and only if the map has none.
LEMMA GetHandleOpensOnce ==
    ASSUME Inv, OnceInv, ~LateRecords, ~EarlyRecords, NEW r \in Records, GetHandleOpens(r)
    PROVE  OnceInv'
<1>0. TypeOK /\ HandlesInv /\ SweepInv /\ JobsBegun /\ PromptInv
  BY DEF Inv, OnceInv
<1>1. PICK x \in Handles, i \in Inodes : OpensAs(r, x, i)
  BY OpensSomehow
<1>2. /\ fh' = [fh EXCEPT ![x] = [open |-> TRUE, hour |-> hour[r], inode |-> i,
                                  lastWrite |-> now]]
      /\ ~fh[x].open /\ x \notin sweep.stale
  BY <1>1 DEF OpensAs, FreeHandles
<1>3. /\ now' = now /\ hour' = hour /\ sweep' = sweep /\ job' = job
      /\ handles[hour[r]] = None /\ hour[r] = HourOf(now)
      /\ \A q \in Records \ {r} : req'[q] = req[q]
  BY <1>0 DEF TypeOK, GetHandleOpens, PromptInv
<1>4. fh'[x].hour = hour[r] /\ \A y \in Handles : y # x => fh'[y] = fh[y]
  BY <1>0, <1>2 DEF TypeOK
<1>5. PromptInv'
  BY <1>0, <1>3 DEF PromptInv, GetHandleOpens, history
<1>6. HourOf(now) \in Hours /\ HourOf(now) \in Nat
  BY <1>0, HourOfType, HoursAreNat DEF TypeOK
<1>7. ASSUME NEW y \in Handles, y # x, Pending(y) PROVE fh[y].hour # HourOf(now)
  <2>1. fh[y].open /\ fh[y].hour \in Nat
    BY <1>0, <1>7, HoursAreNat DEF Pending, TypeOK, HandleStates
  <2>2. CASE y \in sweep.stale
    <3>1. fh[y].hour <= sweep.hour /\ sweep.hour <= HourOf(now) /\ sweep.hour \in Nat
      BY <1>0, <2>2, HoursAreNat DEF SweepInv, TypeOK, SweepStates, PromptInv
    <3>2. fh[y].hour # sweep.hour
      BY <1>7, <2>2 DEF Pending
    <3> QED BY <1>6, <2>1, <3>1, <3>2
  <2>3. CASE y \in Mapped
    <3>1. PICK h \in Hours : handles[h] = y /\ handles[h] # None
      BY <2>3 DEF Mapped
    <3>2. fh[y].hour = h
      BY <1>0, <3>1 DEF HandlesInv, OpenHandlesTracked
    <3> QED BY <1>3, <3>1, <3>2
  <2> QED BY <1>0, <2>1, <2>2, <2>3 DEF HandlesInv, OpenHandlesTracked
<1>8. /\ \A h \in sweep.paths : h # HourOf(now)
      /\ \A j \in Jobs : Exists(j) => job[j].hour # HourOf(now)
  <2>1. \A h \in sweep.paths : h \in Nat /\ h < HourOf(now)
    BY <1>0, HoursAreNat DEF TypeOK, SweepStates, SweepInv, PromptInv
  <2>2. \A j \in Jobs : Exists(j) => job[j].hour \in Nat /\ job[j].hour < HourOf(now)
    BY <1>0, HoursAreNat DEF TypeOK, JobStates, JobsBegun, PromptInv, Exists
  <2> QED BY <1>6, <2>1, <2>2
<1>9. ASSUME NEW y \in Handles, y # x
      PROVE  (Pending(y)' <=> Pending(y)) /\ fh'[y].hour = fh[y].hour
  BY <1>3, <1>4, <1>9 DEF Pending
<1>10. ASSUME NEW y \in Handles PROVE HandleOnce(y)'
  <2>1. CASE y = x
    BY <1>3, <1>4, <1>7, <1>8, <1>9, <2>1 DEF HandleOnce, Exists
  <2>2. CASE y # x
    <3>1. HandleOnce(y)
      BY DEF OnceInv
    <3> QED BY <1>3, <1>4, <1>7, <1>9, <2>2, <3>1 DEF HandleOnce, Exists
  <2> QED BY <2>1, <2>2
<1>11. ASSUME NEW j \in Jobs PROVE JobOnce(j)'
  BY <1>3 DEF OnceInv, JobOnce, Exists
<1> QED BY <1>5, <1>10, <1>11 DEF OnceInv

LEMMA SweepCloseOnce ==
    ASSUME Inv, OnceInv, SweepClose
    PROVE  OnceInv'
<1>0. TypeOK /\ PromptInv
  BY DEF Inv, OnceInv
<1>1. PICK x \in sweep.stale :
         /\ fh' = [fh EXCEPT ![x] = ClosedHandle]
         /\ sweep' = [sweep EXCEPT
               !.stale = @ \ {x},
               !.paths = IF ArchiveEnabled /\ fh[x].hour # sweep.hour
                         THEN @ \cup {fh[x].hour} ELSE @]
  BY DEF SweepClose
<1>2. PromptInv' /\ job' = job
  BY <1>0 DEF PromptInv, SweepClose, reqVars, history
<1>3. /\ x \in Handles /\ fh[x].open /\ ~fh'[x].open
      /\ \A y \in Handles : y # x => fh'[y] = fh[y]
      /\ sweep'.stale = sweep.stale \ {x} /\ sweep'.hour = sweep.hour
  BY <1>0, <1>1 DEF TypeOK, SweepStates, ClosedHandle, Inv, SweepInv
<1>4. \/ sweep'.paths = sweep.paths
      \/ sweep'.paths = sweep.paths \cup {fh[x].hour} /\ fh[x].hour # sweep.hour
  BY <1>0, <1>1 DEF TypeOK, SweepStates
<1>5. ASSUME NEW y \in Handles, Pending(y)'
      PROVE  Pending(y) /\ y # x /\ fh'[y].hour = fh[y].hour
  BY <1>3, <1>5 DEF Pending
<1>6. fh[x].hour # sweep.hour => Pending(x)
  BY <1>3 DEF Pending
<1>7. ASSUME NEW y \in Handles PROVE HandleOnce(y)'
  <2>1. HandleOnce(x) /\ HandleOnce(y)
    BY <1>3 DEF OnceInv
  <2> QED BY <1>2, <1>3, <1>4, <1>5, <1>6, <2>1 DEF HandleOnce, Exists
<1>8. ASSUME NEW j \in Jobs PROVE JobOnce(j)'
  <2>1. HandleOnce(x) /\ JobOnce(j)
    BY <1>3 DEF OnceInv
  <2> QED BY <1>2, <1>4, <1>6, <2>1 DEF HandleOnce, JobOnce, Exists
<1> QED BY <1>2, <1>7, <1>8 DEF OnceInv

\* A path leaves the list when its job starts.
LEMMA SweepSpawnOnce ==
    ASSUME Inv, OnceInv, SweepSpawn
    PROVE  OnceInv'
<1>0. TypeOK /\ PromptInv
  BY DEF Inv, OnceInv
<1>1. PromptInv' /\ fh' = fh /\ sweep.stale = {}
  BY <1>0 DEF PromptInv, SweepSpawn, reqVars, history
<1>2. CASE sweep.paths = {} /\ sweep' = NoSweep /\ UNCHANGED job
  <2>1. Fewer
    BY <1>1, <1>2 DEF Fewer, Pending, Exists, NoSweep
  <2> QED BY <1>1, <2>1, FewerKeeps
<1>3. ASSUME NEW h \in sweep.paths, NEW j \in Jobs, job[j].pc = "none",
             job' = [job EXCEPT ![j] = [NoJob EXCEPT !.pc = "start", !.hour = h]],
             sweep' = [sweep EXCEPT !.paths = @ \ {h}]
      PROVE  OnceInv'
  <2>1. /\ job'[j].pc = "start" /\ job'[j].hour = h
        /\ \A k \in Jobs : k # j => job'[k] = job[k]
    BY <1>0, <1>3 DEF TypeOK, NoJob
  <2>2. sweep'.paths = sweep.paths \ {h} /\ sweep'.stale = {}
    BY <1>0, <1>1, <1>3 DEF TypeOK, SweepStates
  <2>3. ASSUME NEW x \in Handles PROVE Pending(x)' <=> Pending(x)
    BY <1>1, <2>2 DEF Pending
  <2>4. ASSUME NEW x \in Handles PROVE HandleOnce(x)'
    <3>1. HandleOnce(x)
      BY DEF OnceInv
    <3> QED BY <1>1, <1>3, <2>1, <2>2, <2>3, <3>1 DEF HandleOnce, Exists
  <2>5. ASSUME NEW k \in Jobs PROVE JobOnce(k)'
    <3>1. \A i \in Jobs : JobOnce(i)
      BY DEF OnceInv
    <3> QED BY <1>3, <2>1, <2>2, <3>1 DEF JobOnce, Exists
  <2> QED BY <1>1, <2>4, <2>5 DEF OnceInv
<1> QED BY <1>2, <1>3 DEF SweepSpawn

LEMMA JobOnceStays ==
    ASSUME Inv, OnceInv, NEW j \in Jobs, Archiver(j)
    PROVE  OnceInv'
<1>0. TypeOK /\ PromptInv
  BY DEF Inv, OnceInv
<1>1. /\ req' = req /\ hour' = hour /\ now' = now /\ fh' = fh /\ sweep' = sweep
      /\ early' = early /\ job[j].pc # "none"
  BY DEF Archiver, JobAcquire, JobCheck, JobCreate, JobCopy, JobFlush, JobRemove, reqVars,
         history
<1>2. /\ \A k \in Jobs : k # j => job'[k] = job[k]
      /\ job'[j].pc = "none" \/ job'[j].hour = job[j].hour
  BY <1>0 DEF TypeOK, JobStates, Archiver, JobAcquire, JobCheck, JobCreate, JobCopy,
              JobFlush, JobRemove, JobEnds, NoJob
<1>3. Fewer
  BY <1>1, <1>2 DEF Fewer, Pending, Exists
<1>4. PromptInv'
  BY <1>0, <1>1 DEF PromptInv
<1> QED BY <1>3, <1>4, FewerKeeps

\* The other steps of the cleanup goroutine, shutdown, crash and restart.
LEMMA OthersOnce ==
    ASSUME Inv, OnceInv,
           \/ SweepScan \/ SweepStops \/ CloseBegins \/ CloseHandles \/ ProcessEnds
           \/ Restart \/ UNCHANGED vars
    PROVE  OnceInv'
<1>0. TypeOK /\ SweepInv /\ PromptInv
  BY DEF Inv, OnceInv
<1>1. CASE SweepScan
  <2>1. /\ sweep.stale = {} /\ sweep'.paths = {} /\ fh' = fh /\ job' = job
        /\ req' = req /\ hour' = hour /\ now' = now /\ early' = early
    BY <1>0, <1>1 DEF SweepScan, SweepInv, reqVars, history
  <2>2. Fewer
    BY <2>1 DEF Fewer, Pending, Exists
  <2>3. PromptInv'
    BY <1>0, <2>1 DEF PromptInv
  <2> QED BY <2>2, <2>3, FewerKeeps
<1>2. CASE SweepStops \/ CloseBegins \/ Restart \/ UNCHANGED vars
  <2>1. /\ sweep'.stale = sweep.stale /\ sweep'.paths = sweep.paths
        /\ sweep'.hour = sweep.hour /\ fh' = fh /\ job' = job
        /\ req' = req /\ hour' = hour /\ now' = now /\ early' = early
    BY <1>0, <1>2 DEF TypeOK, SweepStates, SweepStops, CloseBegins, Restart, vars, reqVars,
                      history
  <2>2. Fewer
    BY <2>1 DEF Fewer, Pending, Exists
  <2>3. PromptInv'
    BY <1>0, <2>1 DEF PromptInv
  <2> QED BY <2>2, <2>3, FewerKeeps
<1>3. CASE CloseHandles
  <2>1. /\ sweep' = sweep /\ job' = job /\ req' = req /\ hour' = hour /\ now' = now
        /\ early' = early
        /\ \A x \in Handles : fh'[x].open => fh'[x] = fh[x]
    BY <1>3 DEF CloseHandles, ClosedHandle, reqVars, history
  <2>2. Fewer
    BY <2>1 DEF Fewer, Pending, Exists
  <2>3. PromptInv'
    BY <1>0, <2>1 DEF PromptInv
  <2> QED BY <2>2, <2>3, FewerKeeps
<1>4. CASE ProcessEnds
  <2>1. Fewer
    BY <1>4 DEF Fewer, Pending, Exists, ProcessEnds, NoFiles, ClosedHandle, NoSweep,
                NoJobs, NoJob
  <2>2. PromptInv'
    BY <1>0, <1>4 DEF PromptInv, ProcessEnds, history
  <2> QED BY <2>1, <2>2, FewerKeeps
<1> QED BY <1>1, <1>2, <1>3, <1>4

LEMMA InitOnce == Init => OnceInv
BY DEF Init, OnceInv, PromptInv, HandleOnce, JobOnce, Pending, Exists, NoFiles,
       ClosedHandle, NoJobs, NoJob

LEMMA NextOnce ==
    ASSUME Inv, OnceInv, ~LateRecords, ~EarlyRecords, [Next]_vars
    PROVE  OnceInv'
<1>1. ASSUME NEW r \in Records, Post(r) \/ Handler(r) PROVE OnceInv'
  BY <1>1, HandlerOnce, GetHandleOpensOnce DEF Handler
<1>2. CASE Cleaner \/ CloseBegins \/ CloseHandles \/ CloseReturns \/ Crash \/ Restart
  BY <1>2, SweepCloseOnce, SweepSpawnOnce, OthersOnce DEF Cleaner, CloseReturns, Crash
<1> QED BY <1>1, <1>2, TickOnce, JobOnceStays, OthersOnce DEF Next

-----------------------------------------------------------------------------
(* The invariant of the specification.                                     *)

\* One archive job at a time, or one for each period ever.
LimitInv == ArchiveMaxConcurrent = 1 \/ (~LateRecords /\ ~EarlyRecords /\ OnceInv)
StoreInv == Inv /\ SInv /\ LimitInv

LEMMA AcquiresUnopposed ==
    ASSUME Inv, LimitInv, NEW j \in Jobs, JobAcquire(j)
    PROVE  JobEnds(j) \/ Unopposed(j)
<1>1. CASE ArchiveMaxConcurrent = 1
  BY <1>1, SlotIsFree DEF JobAcquire
<1>2. CASE OnceInv
  <2>1. JobOnce(j) /\ Exists(j) /\ ~Runs(j)
    BY <1>2 DEF OnceInv, JobAcquire, Exists, Runs
  <2>2. \A k \in Jobs : Runs(k) => Exists(k)
    BY DEF Runs, Exists
  <2> QED BY <2>1, <2>2 DEF JobOnce, Unopposed
<1> QED BY <1>1, <1>2 DEF LimitInv

LEMMA InitSInv == Init => SInv
<1> SUFFICES ASSUME Init PROVE SInv
  OBVIOUS
<1> QED BY DEF Init, SInv, Exclusive, Runs, ActiveInv, PathsDistinct, ArchiveInv, JobsInv,
           ArchiveStateOf, SourceOf, AtWork, KeptInv, TimelyInv, NoJobs, NoJob, NoFiles, ClosedHandle,
           NoArchive

LEMMA NextSInv ==
    ASSUME LimitInv, Inv, SInv, [Next]_vars
    PROVE  SInv'
<1>1. CASE Tick
  BY <1>1, TickStays
<1>2. ASSUME NEW r \in Records, Post(r) \/ Handler(r) PROVE SInv'
  BY <1>2, HandlerQuiet, QuietKeeps, GetHandleOpensStays, WriteLineStays DEF Handler
<1>3. CASE Cleaner \/ CloseBegins \/ CloseHandles \/ CloseReturns \/ Crash \/ Restart
  BY <1>3, OthersQuiet, QuietKeeps DEF CloseReturns, Crash
<1>4. ASSUME NEW j \in Jobs, JobAcquire(j) PROVE SInv'
  <2>1. CASE JobEnds(j)
    BY <1>4, <2>1, JobEndsQuiet, QuietKeeps DEF JobAcquire
  <2> QED BY <1>4, <2>1, AcquiresUnopposed, JobAcquireStays
<1>5. ASSUME NEW j \in Jobs, Archiver(j) PROVE SInv'
  BY <1>4, <1>5, JobCheckStays, JobCreateStays, JobCopyStays, JobFlushStays,
     JobRemoveStays DEF Archiver
<1>6. CASE UNCHANGED vars
  BY <1>6, StutterQuiet, QuietKeeps
<1> QED BY <1>1, <1>2, <1>3, <1>5, <1>6 DEF Next

LEMMA StoreInvariant ==
    ASSUME ArchiveMaxConcurrent = 1 \/ (~LateRecords /\ ~EarlyRecords)
    PROVE  Spec => []StoreInv
<1>1. Init => StoreInv
  BY InitInv, InitSInv, InitOnce DEF StoreInv, LimitInv
<1>2. StoreInv /\ [Next]_vars => StoreInv'
  <2> SUFFICES ASSUME StoreInv, [Next]_vars PROVE StoreInv'
    OBVIOUS
  <2>1. Inv /\ SInv /\ LimitInv
    BY DEF StoreInv
  <2>2. Inv' /\ SInv'
    BY <2>1, NextInv, NextSInv
  <2>3. LimitInv'
    BY <2>1, NextOnce DEF LimitInv
  <2> QED BY <2>2, <2>3 DEF StoreInv
<1> QED BY <1>1, <1>2, PTL DEF Spec

-----------------------------------------------------------------------------
(* What a reader of the log directory finds.                               *)

LEMMA InReadable ==
    ASSUME NEW r
    PROVE  r \in Readable <=>
              \E h \in Hours : \/ path[h] # None /\ r \in content[path[h]]
                               \/ r \in archive[h].lines
  BY DEF Readable, InFiles, InArchives

LEMMA InReadableNext ==
    ASSUME NEW r
    PROVE  r \in Readable' <=>
              \E h \in Hours : \/ path'[h] # None /\ r \in content'[path'[h]]
                               \/ r \in archive'[h].lines
  BY DEF Readable, InFiles, InArchives

LEMMA ReadableRecords ==
    ASSUME TypeOK
    PROVE  Readable \subseteq Records
<1> SUFFICES ASSUME NEW r \in Readable PROVE r \in Records
  OBVIOUS
<1>1. PICK h \in Hours : \/ path[h] # None /\ r \in content[path[h]]
                         \/ r \in archive[h].lines
  BY InReadable
<1>2. archive[h].lines \subseteq Records /\ (path[h] # None => content[path[h]] \subseteq Records)
  BY DEF TypeOK, ArchiveStates
<1> QED BY <1>1, <1>2

LEMMA KeptReadable == SInv => PromptDurable
<1> SUFFICES ASSUME SInv, NEW r \in kept PROVE r \in Readable
  BY DEF PromptDurable
<1>1. hour[r] \in Hours /\ Found(r)
  BY DEF SInv, KeptInv, Found
<1> QED BY <1>1, InReadable DEF Found

\* With the default archive limit, and with any limit as long as every record comes
\* in its own hour, a record answered 202 in its own hour, which no record came
\* before, and not behind a fragment stays readable: through cleanup, archiving
\* (with the default limit beside late records and records of hours to come, too),
\* I/O errors, short writes, shutdown, crashes and restarts.
THEOREM PromptRecordsKept ==
    ASSUME ArchiveMaxConcurrent = 1 \/ (~LateRecords /\ ~EarlyRecords)
    PROVE  Spec => []PromptDurable
<1>1. StoreInv => PromptDurable
  BY KeptReadable DEF StoreInv
<1> QED BY <1>1, StoreInvariant, PTL

-----------------------------------------------------------------------------
(* Finished archives.                                                      *)

LEMMA CompleteStays ==
    ASSUME Inv, SInv, [Next]_vars, NEW h \in Hours, archive[h].state = "complete"
    PROVE  archive'[h] = archive[h]
<1>0. TypeOK /\ JobsInv
  BY DEF Inv, SInv
<1>1. CASE \E j \in Jobs : JobCreate(j)
  <2>1. PICK j \in Jobs : JobCreate(j)
    BY <1>1
  <2>2. job[j].hour # h
    BY <1>0, <2>1 DEF JobsInv, ArchiveStateOf, JobCreate
  <2> QED BY <1>0, <2>1, <2>2 DEF TypeOK, JobCreate
<1>2. CASE \E j \in Jobs : JobFlush(j)
  <2>1. PICK j \in Jobs : JobFlush(j)
    BY <1>2
  <2>2. job[j].hour # h
    BY <1>0, <2>1 DEF JobsInv, ArchiveStateOf, JobFlush
  <2> QED BY <1>0, <2>1, <2>2 DEF TypeOK, JobFlush
<1>3. CASE UNCHANGED vars \/ Tick \/ \E r \in Records : Post(r) \/ Handler(r)
  BY <1>3 DEF vars, Tick, Post, Handler, GetHandleFound, GetHandleOpens, GetHandleFails,
     WriteLine, WriteShort, WriteFails, fsVars
<1>4. CASE Cleaner \/ CloseBegins \/ CloseHandles \/ CloseReturns \/ Crash \/ Restart
  BY <1>4 DEF Cleaner, SweepScan, SweepClose, SweepSpawn, SweepStops, CloseBegins,
     CloseHandles, CloseReturns, Crash, ProcessEnds, Restart, fsVars
<1>5. CASE \E j \in Jobs : JobAcquire(j) \/ JobCheck(j) \/ JobCopy(j) \/ JobRemove(j)
  BY <1>5 DEF JobAcquire, JobCheck, JobCopy, JobRemove, fsVars
<1> QED BY <1>1, <1>2, <1>3, <1>4, <1>5 DEF Next, Archiver

\* With the default archive limit, and with any limit as long as every record comes
\* in its own hour, no job truncates or rewrites an archive that another has finished.
THEOREM FinishedArchivesStay ==
    ASSUME ArchiveMaxConcurrent = 1 \/ (~LateRecords /\ ~EarlyRecords)
    PROVE  Spec => ArchivesAreFinal
<1>1. StoreInv /\ [Next]_vars =>
         [\A h \in Hours : archive[h].state = "complete" => archive'[h] = archive[h]]_vars
  BY CompleteStays DEF StoreInv
<1> QED BY <1>1, StoreInvariant, PTL DEF Spec, ArchivesAreFinal

-----------------------------------------------------------------------------
(* The server implements LogStore.                                         *)

\* A step after which a reader finds nothing new, and every promise stands.
LEMMA RefineLose ==
    ASSUME TypeOK, SInv', kept' = kept, Readable' \subseteq Readable
    PROVE  Store!Next
<1>1. kept \subseteq Readable'
  <2>1. PromptDurable'
    <3>1. ASSUME NEW r \in kept' PROVE r \in Readable'
      <4>1. hour'[r] \in Hours /\ Found(r)'
        BY <3>1 DEF SInv, KeptInv, Found
      <4> QED BY <4>1, InReadableNext DEF Found
    <3> QED BY <3>1 DEF PromptDurable
  <2> QED BY <2>1 DEF PromptDurable
<1>2. Store!Lose(Readable \ Readable')
  BY <1>1 DEF Store!Lose
<1>3. Readable \ Readable' \in SUBSET Records
  BY ReadableRecords
<1> QED BY <1>2, <1>3 DEF Store!Next

LEMMA RefineQuiet ==
    ASSUME Quiet
    PROVE  UNCHANGED Store!vars
  BY DEF Quiet, Store!vars, Readable, InFiles, InArchives

LEMMA RefineWrite ==
    ASSUME Inv, SInv, SInv', NEW r \in Records, WriteLine(r)
    PROVE  [Store!Next]_Store!vars
<1>0. TypeOK /\ kept' \in {kept, kept \cup {r}}
  BY DEF Inv, WriteLine, Accept
<1>1. path' = path /\ archive' = archive
  BY DEF WriteLine
<1>2. ASSUME NEW i \in Inodes
      PROVE  content[i] \subseteq content'[i] /\ content'[i] \subseteq content[i] \cup {r}
  BY <1>0 DEF TypeOK, WriteLine
<1>3. path \in [Hours -> Inodes \cup {None}]
  BY <1>0 DEF TypeOK
<1>4. Readable \subseteq Readable'
  <2> SUFFICES ASSUME NEW s \in Readable PROVE s \in Readable'
    OBVIOUS
  <2>1. PICK h \in Hours : \/ path[h] # None /\ s \in content[path[h]]
                           \/ s \in archive[h].lines
    BY InReadable
  <2>2. \/ path'[h] # None /\ s \in content'[path'[h]]
        \/ s \in archive'[h].lines
    BY <1>1, <1>2, <1>3, <2>1
  <2> QED BY <2>2, InReadableNext
<1>5. Readable' \subseteq Readable \cup {r}
  <2> SUFFICES ASSUME NEW s \in Readable', s # r PROVE s \in Readable
    OBVIOUS
  <2>1. PICK h \in Hours : \/ path'[h] # None /\ s \in content'[path'[h]]
                           \/ s \in archive'[h].lines
    BY InReadableNext
  <2>2. \/ path[h] # None /\ s \in content[path[h]]
        \/ s \in archive[h].lines
    BY <1>1, <1>2, <1>3, <2>1
  <2> QED BY <2>2, InReadable
<1>6. CASE r \in Readable'
  <2>1. Readable' = Readable \cup {r}
    BY <1>4, <1>5, <1>6
  <2> QED BY <1>0, <2>1 DEF Store!Store, Store!Next
<1>7. CASE r \notin Readable'
  <2>1. Readable' = Readable
    BY <1>4, <1>5, <1>7
  <2>2. r \notin kept'
    <3>1. ASSUME r \in kept' PROVE FALSE
      <4>1. hour'[r] \in Hours /\ Found(r)'
        BY <3>1 DEF SInv, KeptInv, Found
      <4> QED BY <1>7, <4>1, InReadableNext DEF Found
    <3> QED BY <3>1
  <2> QED BY <1>0, <2>1, <2>2 DEF Store!vars
<1> QED BY <1>6, <1>7

\* A file that GetHandleOpens creates is empty.
LEMMA RefineOpen ==
    ASSUME Inv, SInv', NEW r \in Records, GetHandleOpens(r)
    PROVE  Store!Next
<1>0. TypeOK
  BY DEF Inv
<1>1. hour[r] \in Hours /\ archive' = archive /\ kept' = kept
  BY DEF Inv, WritingInv, Writing, GetHandleOpens, history
<1>2. PICK x \in Handles, i \in Inodes : OpensAs(r, x, i)
  BY OpensSomehow
<1>3. /\ path' = [path EXCEPT ![hour[r]] = i]
      /\ content' = [content EXCEPT ![i] = IF path[hour[r]] = i THEN @ ELSE {}]
      /\ path[hour[r]] = i \/ path[hour[r]] = None
  BY <1>2 DEF OpensAs
<1>4. i # None
  BY <1>2, JsonlWriterAssumption DEF JsonlWriterAssumption
<1>5. Readable' \subseteq Readable
  <2> SUFFICES ASSUME NEW s \in Readable' PROVE s \in Readable
    OBVIOUS
  <2>1. PICK h \in Hours : \/ path'[h] # None /\ s \in content'[path'[h]]
                           \/ s \in archive'[h].lines
    BY InReadableNext
  <2>2. \/ path[h] # None /\ s \in content[path[h]]
        \/ s \in archive[h].lines
    BY <1>0, <1>1, <1>3, <1>4, <2>1 DEF TypeOK
  <2> QED BY <2>2, InReadable
<1> QED BY <1>0, <1>1, <1>5, RefineLose

\* An archive is created empty, filled with what is in the file, and then the
\* file goes.
LEMMA RefineJob ==
    ASSUME Inv, SInv, SInv', NEW j \in Jobs, JobCreate(j) \/ JobFlush(j) \/ JobRemove(j)
    PROVE  Store!Next
<1>0. TypeOK /\ JobsInv
  BY DEF Inv, SInv
<1>1. job[j].hour \in Hours
  BY <1>0 DEF TypeOK, JobStates
<1>2. content' = content /\ kept' = kept
  BY DEF JobCreate, JobFlush, JobRemove, reqVars, history
<1>3. ASSUME NEW h \in Hours
      PROVE  /\ path'[h] = path[h] \/ path'[h] = None
             /\ archive'[h].lines \subseteq archive[h].lines
                   \/ /\ path[h] # None
                      /\ archive'[h].lines \subseteq content[path[h]]
  <2>1. CASE JobCreate(j)
    BY <1>0, <1>1, <2>1 DEF TypeOK, JobCreate
  <2>2. CASE JobFlush(j)
    <3>1. path[job[j].hour] # None /\ job[j].size \subseteq content[path[job[j].hour]]
      BY <1>0, <2>2 DEF JobsInv, SourceOf, AtWork, JobFlush
    <3>2. \/ archive' = archive
          \/ archive' = [archive EXCEPT ![job[j].hour] =
                IF @.state = "torn" THEN @ ELSE [state |-> "complete", lines |-> job[j].size]]
      BY <2>2 DEF JobFlush
    <3> QED BY <1>0, <1>1, <2>2, <3>1, <3>2 DEF TypeOK, JobFlush
  <2>3. CASE JobRemove(j)
    BY <1>0, <1>1, <2>3 DEF TypeOK, JobRemove
  <2> QED BY <2>1, <2>2, <2>3
<1>4. Readable' \subseteq Readable
  <2> SUFFICES ASSUME NEW s \in Readable' PROVE s \in Readable
    OBVIOUS
  <2>1. PICK h \in Hours : \/ path'[h] # None /\ s \in content'[path'[h]]
                           \/ s \in archive'[h].lines
    BY InReadableNext
  <2>2. \/ path[h] # None /\ s \in content[path[h]]
        \/ s \in archive[h].lines
    BY <1>2, <1>3, <2>1
  <2> QED BY <2>2, InReadable
<1> QED BY <1>0, <1>2, <1>4, RefineLose

LEMMA RefineNext ==
    ASSUME Inv, SInv, SInv', [Next]_vars
    PROVE  [Store!Next]_Store!vars
<1>1. CASE Tick
  BY <1>1 DEF Tick, reqVars, fsVars, history, Store!vars, Readable, InFiles, InArchives
<1>2. ASSUME NEW r \in Records, Post(r) \/ Handler(r) PROVE [Store!Next]_Store!vars
  BY <1>2, HandlerQuiet, RefineQuiet, RefineOpen, RefineWrite DEF Handler
<1>3. CASE Cleaner \/ CloseBegins \/ CloseHandles \/ CloseReturns \/ Crash \/ Restart
  BY <1>3, OthersQuiet, RefineQuiet DEF CloseReturns, Crash
<1>4. ASSUME NEW j \in Jobs, JobAcquire(j) \/ JobCheck(j) \/ JobCopy(j)
      PROVE  UNCHANGED Store!vars
  BY <1>4 DEF JobAcquire, JobCheck, JobCopy, reqVars, fsVars, history, Store!vars,
     Readable, InFiles, InArchives
<1>5. ASSUME NEW j \in Jobs, Archiver(j) PROVE [Store!Next]_Store!vars
  BY <1>4, <1>5, RefineJob DEF Archiver
<1>6. CASE UNCHANGED vars
  BY <1>6, StutterQuiet, RefineQuiet
<1> QED BY <1>1, <1>2, <1>3, <1>5, <1>6 DEF Next

\* With the default archive limit, and with any limit as long as every record comes
\* in its own hour, handles, files and archive jobs never break a promise of LogStore.
THEOREM WriterImplementsStore ==
    ASSUME ArchiveMaxConcurrent = 1 \/ (~LateRecords /\ ~EarlyRecords)
    PROVE  Spec => ImplementsStore
<1>1. Init => Store!Init
  BY DEF Init, Store!Init, Readable, InFiles, InArchives, NoArchive
<1>2. StoreInv /\ StoreInv' /\ [Next]_vars => [Store!Next]_Store!vars
  BY RefineNext DEF StoreInv
<1> QED BY <1>1, <1>2, StoreInvariant, PTL DEF Spec, ImplementsStore, Store!Spec
=============================================================================
