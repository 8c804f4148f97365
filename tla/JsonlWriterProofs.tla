------------------------- MODULE JsonlWriterProofs -------------------------
(***************************************************************************)
(* Proofs about JsonlWriter for every set of records, handles, inodes and  *)
(* archive goroutines and every clock, the senders' included.  What        *)
(* concerns descriptors and torn lines holds for any archive limit; what   *)
(* is said of archives and of promised records is in JsonlStoreProofs.     *)
(***************************************************************************)
EXTENDS JsonlWriter, FiniteSetTheorems, TLAPS

(* The clock. *)

\* The period of a clock reading is a period the model knows.
LEMMA HourOfType == ASSUME NEW t \in 0..MaxTime PROVE HourOf(t) \in Hours
  BY JsonlWriterAssumption DEF HourOf, Hours, JsonlWriterAssumption

\* Periods do not go back when the clock ticks.
LEMMA HourOfGrows ==
    ASSUME NEW t \in 0..MaxTime, t < MaxTime
    PROVE  HourOf(t) <= HourOf(t + 1)
  BY JsonlWriterAssumption DEF HourOf, JsonlWriterAssumption

LEMMA HoursAreNat == Hours \subseteq Nat
  BY DEF Hours

\* The clock's period after a tick.
LEMMA TickHour ==
    ASSUME TypeOK, Tick
    PROVE  /\ HourOf(now) \in Nat /\ HourOf(now)' \in Nat
           /\ HourOf(now) <= HourOf(now)'
<1>1. now \in 0..MaxTime /\ now' = now + 1 /\ now < MaxTime
  BY DEF TypeOK, Tick
<1>2. now' \in 0..MaxTime
  BY <1>1, JsonlWriterAssumption DEF JsonlWriterAssumption
<1>3. HourOf(now) \in Nat /\ HourOf(now') \in Nat
  BY <1>1, <1>2, HourOfType, HoursAreNat
<1>4. HourOf(now) <= HourOf(now + 1)
  BY <1>1, HourOfGrows
<1> QED BY <1>1, <1>3, <1>4

\* An element more is one more at most.
LEMMA AddOne ==
    ASSUME NEW S, IsFiniteSet(S), NEW x
    PROVE  /\ IsFiniteSet(S \cup {x})
           /\ Cardinality(S) \in Nat /\ Cardinality(S \cup {x}) \in Nat
           /\ Cardinality(S \cup {x}) <= Cardinality(S) + 1
<1>1. Cardinality(S) \in Nat /\ IsFiniteSet(S \cup {x})
  BY FS_CardinalityType, FS_AddElement
<1>2. Cardinality(S \cup {x}) = Cardinality(S) \/ Cardinality(S \cup {x}) = Cardinality(S) + 1
  BY FS_AddElement
<1> QED BY <1>1, <1>2

\* And an element less one less, if it was there.
LEMMA RemoveOne ==
    ASSUME NEW S, IsFiniteSet(S), NEW x
    PROVE  /\ IsFiniteSet(S \ {x})
           /\ Cardinality(S) \in Nat /\ Cardinality(S \ {x}) \in Nat
           /\ Cardinality(S \ {x}) = IF x \in S THEN Cardinality(S) - 1 ELSE Cardinality(S)
<1>1. /\ Cardinality(S) \in Nat /\ IsFiniteSet(S \ {x})
      /\ Cardinality(S \ {x}) = IF x \in S THEN Cardinality(S) - 1 ELSE Cardinality(S)
  BY FS_CardinalityType, FS_RemoveElement
<1>2. Cardinality(S \ {x}) \in Nat
  BY <1>1, FS_CardinalityType
<1> QED BY <1>1, <1>2

\* What is reset is well typed.
LEMMA IdleTypes ==
    NoJob \in JobStates /\ NoSweep \in SweepStates /\ ClosedHandle \in HandleStates
<1>1. 0 \in 0..MaxTime
  BY JsonlWriterAssumption DEF JsonlWriterAssumption
<1>2. HourOf(MaxTime) \in Hours
  BY HourOfType, JsonlWriterAssumption DEF JsonlWriterAssumption
<1>3. 0 \in Hours
  BY <1>2 DEF Hours
<1> QED BY <1>1, <1>3 DEF NoJob, JobStates, NoSweep, SweepStates, ClosedHandle, HandleStates

-----------------------------------------------------------------------------
(* The invariant that holds for any archive limit.                         *)

\* An open handle is open on an inode, for a period that has begun or that a
\* record came for before it began.
Begun(x) ==
    fh[x].open => /\ fh[x].inode \in Inodes
                  /\ fh[x].hour <= HourOf(now) \/ fh[x].hour \in early
HandlesInv == OpenHandlesTracked /\ \A x \in Handles : Begun(x)

\* A handler writes to the file of its record's hour, or finds it closed: its
\* handle is not used again for another file while it holds it.
Writing(r) ==
    /\ req[r] # "idle" => /\ hour[r] \in Hours
                          /\ hour[r] <= HourOf(now) \/ hour[r] \in early
    /\ req[r] = "writing" =>
          got[r] \in Handles /\ (fh[got[r]].open => fh[got[r]].hour = hour[r])
WritingInv == \A r \in Records : Writing(r)

\* What a sweep has yet to close was open at its scan, and what it has yet to
\* archive is of a period over by then, or of one a record came early for.
SweepInv ==
    /\ sweep.pc # "closing" => sweep.stale = {} /\ sweep.paths = {}
    /\ sweep.hour <= HourOf(now)
    /\ \A x \in sweep.stale :
          fh[x].open /\ (fh[x].hour <= sweep.hour \/ fh[x].hour \in early)
    /\ \A h \in sweep.paths : h < HourOf(now) \/ h \in early

\* So is what a job archives; and once os.Create has made the archive, it stays.
JobsBegun ==
    \A j \in Jobs :
        /\ job[j].pc # "none" => job[j].hour < HourOf(now) \/ job[j].hour \in early
        /\ job[j].pc \in {"copy", "flush", "remove"} =>
              archive[job[j].hour].state # "none"

\* Every record spoiled has used up a fragment, and every fragment a short write.
TornInv ==
    /\ IsFiniteSet(torn) /\ IsFiniteSet(spoiled)
    /\ Cardinality(spoiled) + Cardinality(torn) <= shortWrites

Inv == TypeOK /\ HandlesInv /\ WritingInv /\ SweepInv /\ JobsBegun /\ TornInv

-----------------------------------------------------------------------------
(* Each action keeps it.                                                   *)

\* The clock ticks.
LEMMA TickKeeps ==
    ASSUME Inv, Tick
    PROVE  Inv'
<1>0. TypeOK /\ HandlesInv /\ WritingInv /\ SweepInv /\ JobsBegun /\ TornInv
  BY DEF Inv
<1>1. TypeOK'
  BY <1>0, JsonlWriterAssumption DEF TypeOK, Tick, reqVars, fsVars, history
<1>2. HandlesInv'
  <2>1. OpenHandlesTracked'
    BY <1>0 DEF HandlesInv, OpenHandlesTracked, Mapped, Tick, fsVars
  <2>2. ASSUME NEW x \in Handles PROVE Begun(x)'
    <3>1. fh[x].hour \in Nat
      BY <1>0, HoursAreNat DEF TypeOK, HandleStates
    <3> QED BY <1>0, <3>1, TickHour DEF HandlesInv, Begun, Tick, reqVars, history
  <2> QED BY <2>1, <2>2 DEF HandlesInv
<1>3. WritingInv'
  <2>1. ASSUME NEW r \in Records PROVE Writing(r)'
    <3>1. hour[r] \in Hours => hour[r] \in Nat
      BY HoursAreNat
    <3> QED BY <1>0, <3>1, TickHour DEF WritingInv, Writing, Tick, reqVars, history
  <2> QED BY <2>1 DEF WritingInv
<1>4. SweepInv'
  <2>1. /\ sweep' = sweep /\ fh' = fh /\ early' = early
        /\ sweep.hour \in Nat /\ sweep.paths \subseteq Nat
    BY <1>0, HoursAreNat DEF TypeOK, SweepStates, Tick, reqVars, history
  <2>2. sweep.hour <= HourOf(now)'
    BY <1>0, <2>1, TickHour DEF SweepInv
  <2>3. \A h \in sweep.paths : h < HourOf(now)' \/ h \in early
    BY <1>0, <2>1, TickHour DEF SweepInv
  <2> QED BY <1>0, <2>1, <2>2, <2>3 DEF SweepInv
<1>5. JobsBegun'
  <2>1. job' = job /\ archive' = archive /\ early' = early
    BY DEF Tick, fsVars, reqVars, history
  <2>2. ASSUME NEW j \in Jobs, job[j].pc # "none"
        PROVE  job[j].hour < HourOf(now)' \/ job[j].hour \in early
    <3>1. job[j].hour \in Nat
      BY <1>0, HoursAreNat DEF TypeOK, JobStates
    <3> QED BY <1>0, <2>2, <3>1, TickHour DEF JobsBegun
  <2> QED BY <1>0, <2>1, <2>2 DEF JobsBegun
<1>6. TornInv'
  BY <1>0 DEF TornInv, Tick, reqVars, fsVars, history
<1> QED BY <1>1, <1>2, <1>3, <1>4, <1>5, <1>6 DEF Inv

\* A record is posted.
LEMMA PostKeeps ==
    ASSUME Inv, NEW r \in Records, Post(r)
    PROVE  Inv'
<1>0. TypeOK /\ HandlesInv /\ WritingInv /\ SweepInv /\ JobsBegun /\ TornInv
  BY DEF Inv
<1>a. PICK h \in Hours : /\ hour' = [hour EXCEPT ![r] = h]
                         /\ early' = IF h > HourOf(now) THEN early \cup {h} ELSE early
  BY DEF Post
<1>b. early \subseteq early' /\ (h <= HourOf(now) \/ h \in early')
  <2>1. h \in Nat /\ HourOf(now) \in Nat
    BY <1>0, HourOfType, HoursAreNat DEF TypeOK
  <2> QED BY <1>a, <2>1
<1>1. TypeOK'
  <2>1. hour' \in [Records -> Hours \cup {-1}] /\ early' \subseteq Hours
    BY <1>0, <1>a DEF TypeOK
  <2> QED BY <1>0, <2>1 DEF TypeOK, Post, fsVars
<1>2. HandlesInv'
  <2>1. OpenHandlesTracked'
    BY <1>0 DEF HandlesInv, OpenHandlesTracked, Mapped, TypeOK, Post, fsVars
  <2>2. ASSUME NEW x \in Handles PROVE Begun(x)'
    BY <1>0, <1>b DEF HandlesInv, Begun, Post
  <2> QED BY <2>1, <2>2 DEF HandlesInv
<1>3. WritingInv'
  <2>1. ASSUME NEW s \in Records PROVE Writing(s)'
    BY <1>0, <1>a, <1>b DEF TypeOK, WritingInv, Writing, Post
  <2> QED BY <2>1 DEF WritingInv
<1>4. SweepInv'
  BY <1>0, <1>b DEF SweepInv, TypeOK, Post
<1>5. JobsBegun'
  BY <1>0, <1>b DEF JobsBegun, TypeOK, Post, fsVars
<1>6. TornInv'
  BY <1>0 DEF TornInv, Post, fsVars
<1> QED BY <1>1, <1>2, <1>3, <1>4, <1>5, <1>6 DEF Inv

\* The handle was in the map.
LEMMA GetHandleFoundKeeps ==
    ASSUME Inv, NEW r \in Records, GetHandleFound(r)
    PROVE  Inv'
<1>0. TypeOK /\ HandlesInv /\ WritingInv /\ SweepInv /\ JobsBegun /\ TornInv
  BY DEF Inv
<1>1. TypeOK'
  <2>1. hour[r] \in Hours
    BY <1>0 DEF WritingInv, Writing, GetHandleFound
  <2>2. got' \in [Records -> Handles \cup {None}]
    BY <1>0, <2>1 DEF TypeOK, GetHandleFound
  <2> QED BY <1>0, <2>2 DEF TypeOK, GetHandleFound, history, fsVars
<1>2. HandlesInv'
  BY <1>0 DEF HandlesInv, Begun, OpenHandlesTracked, Mapped, TypeOK,
     GetHandleFound, reqVars, fsVars, history
<1>3. WritingInv'
  <2>1. hour[r] \in Hours
    BY <1>0 DEF WritingInv, Writing, GetHandleFound
  <2>2. handles[hour[r]] \in Handles
    BY <1>0, <2>1 DEF TypeOK, GetHandleFound
  <2>3. fh[handles[hour[r]]].hour = hour[r]
    BY <1>0, <2>1 DEF HandlesInv, OpenHandlesTracked, GetHandleFound
  <2>4. ASSUME NEW s \in Records PROVE Writing(s)'
    BY <1>0, <2>1, <2>2, <2>3 DEF TypeOK, WritingInv, Writing, GetHandleFound, history
  <2> QED BY <2>4 DEF WritingInv
<1>4. SweepInv'
  BY <1>0 DEF SweepInv, TypeOK, GetHandleFound, Mapped, reqVars, fsVars, history
<1>5. JobsBegun'
  BY <1>0 DEF JobsBegun, TypeOK, GetHandleFound, Mapped, reqVars,
     fsVars, history
<1>6. TornInv'
  BY <1>0 DEF TornInv, GetHandleFound, Mapped, reqVars, fsVars, history
<1> QED BY <1>1, <1>2, <1>3, <1>4, <1>5, <1>6 DEF Inv

\* What opening a file does, with its choices named.
OpensAs(r, x, i) ==
    /\ x \in Handles /\ ~fh[x].open /\ x \notin sweep.stale
    /\ \A s \in Records : got[s] # x
    /\ i \in Inodes
    /\ i = path[hour[r]] \/ (path[hour[r]] = None /\ i \in FreeInodes)
    /\ fh' = [fh EXCEPT ![x] = [open |-> TRUE, hour |-> hour[r], inode |-> i,
                                lastWrite |-> now]]
    /\ handles' = [handles EXCEPT ![hour[r]] = x]
    /\ got' = [got EXCEPT ![r] = x]
    /\ content' = [content EXCEPT ![i] = IF path[hour[r]] = i THEN @ ELSE {}]
    /\ torn' = IF path[hour[r]] = i THEN torn ELSE torn \ {i}
    /\ path' = [path EXCEPT ![hour[r]] = i]

LEMMA OpensSomehow ==
    ASSUME NEW r \in Records, GetHandleOpens(r)
    PROVE  \E x \in Handles, i \in Inodes : OpensAs(r, x, i)
<1>1. PICK x \in FreeHandles, i \in Inodes :
         /\ i = path[hour[r]] \/ (path[hour[r]] = None /\ i \in FreeInodes)
         /\ fh' = [fh EXCEPT ![x] = [open |-> TRUE, hour |-> hour[r], inode |-> i,
                                     lastWrite |-> now]]
         /\ handles' = [handles EXCEPT ![hour[r]] = x]
         /\ got' = [got EXCEPT ![r] = x]
         /\ content' = [content EXCEPT ![i] = IF path[hour[r]] = i THEN @ ELSE {}]
         /\ torn' = IF path[hour[r]] = i THEN torn ELSE torn \ {i}
         /\ path' = [path EXCEPT ![hour[r]] = i]
  BY DEF GetHandleOpens
<1>2. x \in Handles /\ ~fh[x].open /\ x \notin sweep.stale /\ \A s \in Records : got[s] # x
  BY <1>1 DEF FreeHandles
<1>3. OpensAs(r, x, i)
  BY <1>1, <1>2 DEF OpensAs
<1> QED BY <1>2, <1>3

\* The file is opened, perhaps created.
LEMMA GetHandleOpensKeeps ==
    ASSUME Inv, NEW r \in Records, GetHandleOpens(r)
    PROVE  Inv'
<1>0. TypeOK /\ HandlesInv /\ WritingInv /\ SweepInv /\ JobsBegun /\ TornInv
  BY DEF Inv
<1>1. TypeOK'
  <2>0. hour[r] \in Hours /\ handles[hour[r]] = None
    BY <1>0 DEF WritingInv, Writing, GetHandleOpens
  <2>1. PICK x \in Handles, i \in Inodes : OpensAs(r, x, i)
    BY OpensSomehow
  <2>2. fh' \in [Handles -> HandleStates]
    BY <1>0, <2>0, <2>1 DEF TypeOK, HandleStates, OpensAs
  <2>3. handles' \in [Hours -> Handles \cup {None}]
    BY <1>0, <2>1 DEF TypeOK, OpensAs
  <2>4. got' \in [Records -> Handles \cup {None}]
    BY <1>0, <2>1 DEF TypeOK, OpensAs
  <2>5. content' \in [Inodes -> SUBSET Records] /\ torn' \subseteq Inodes
    BY <1>0, <2>1 DEF TypeOK, OpensAs
  <2>6. path' \in [Hours -> Inodes \cup {None}]
    BY <1>0, <2>1 DEF TypeOK, OpensAs
  <2> QED BY <1>0, <2>2, <2>3, <2>4, <2>5, <2>6 DEF TypeOK, GetHandleOpens, history
<1>2. HandlesInv'
  <2>0. hour[r] \in Hours /\ handles[hour[r]] = None
    BY <1>0 DEF WritingInv, Writing, GetHandleOpens
  <2>1. PICK x \in Handles, i \in Inodes : OpensAs(r, x, i)
    BY OpensSomehow
  <2>2. \A h \in Hours : handles[h] # x
    BY <1>0, <2>1, JsonlWriterAssumption
       DEF TypeOK, HandlesInv, OpenHandlesTracked, OpensAs, JsonlWriterAssumption
  <2>3. Mapped' = Mapped \cup {x}
    BY <1>0, <2>0, <2>1, JsonlWriterAssumption
       DEF TypeOK, Mapped, OpensAs, JsonlWriterAssumption
  <2>4. ASSUME NEW y \in Handles, fh'[y].open PROVE y \in Mapped' \cup sweep.stale
    BY <1>0, <2>1, <2>3, <2>4 DEF TypeOK, HandlesInv, OpenHandlesTracked, OpensAs
  <2>5. ASSUME NEW h \in Hours, handles'[h] # None
        PROVE  /\ fh'[handles'[h]].open /\ fh'[handles'[h]].hour = h
               /\ \/ path'[h] = fh'[handles'[h]].inode
                  \/ path'[h] = None /\ archive'[h].state # "none"
    <3>1. CASE h = hour[r]
      BY <1>0, <2>0, <2>1, <3>1 DEF TypeOK, OpensAs
    <3>2. CASE h # hour[r]
      <4>1. /\ handles'[h] = handles[h] /\ path'[h] = path[h] /\ archive' = archive
            /\ handles[h] \in Handles /\ fh'[handles[h]] = fh[handles[h]]
        BY <1>0, <2>0, <2>1, <2>2, <2>5, <3>2 DEF TypeOK, OpensAs, GetHandleOpens
      <4> QED BY <1>0, <2>5, <4>1 DEF HandlesInv, OpenHandlesTracked
    <3> QED BY <3>1, <3>2
  <2>6. Mapped' \cap sweep.stale = {}
    BY <1>0, <2>1, <2>3 DEF HandlesInv, OpenHandlesTracked, OpensAs
  <2>7. (hour[r] <= HourOf(now) \/ hour[r] \in early) /\ early' = early
    BY <1>0 DEF WritingInv, Writing, GetHandleOpens, history
  <2>8. ASSUME NEW y \in Handles PROVE Begun(y)'
    BY <1>0, <2>1, <2>7 DEF TypeOK, HandlesInv, Begun, OpensAs, GetHandleOpens
  <2> QED BY <2>4, <2>5, <2>6, <2>8 DEF HandlesInv, OpenHandlesTracked, GetHandleOpens
<1>3. WritingInv'
  <2>0. hour[r] \in Hours /\ handles[hour[r]] = None
    BY <1>0 DEF WritingInv, Writing, GetHandleOpens
  <2>1. PICK x \in Handles, i \in Inodes : OpensAs(r, x, i)
    BY OpensSomehow
  <2>2. ASSUME NEW s \in Records PROVE Writing(s)'
    BY <1>0, <2>0, <2>1 DEF TypeOK, WritingInv, Writing, GetHandleOpens, OpensAs, history
  <2> QED BY <2>2 DEF WritingInv
<1>4. SweepInv'
  BY <1>0 DEF SweepInv, TypeOK, GetHandleOpens, FreeHandles, FreeInodes, reqVars,
     fsVars, history
<1>5. JobsBegun'
  BY <1>0 DEF JobsBegun, TypeOK, GetHandleOpens, FreeHandles,
     FreeInodes, reqVars, fsVars, history
<1>6. TornInv'
  <2>1. PICK x \in Handles, i \in Inodes : OpensAs(r, x, i)
    BY OpensSomehow
  <2>2. torn' = torn \/ torn' = torn \ {i}
    BY <2>1 DEF OpensAs
  <2>3. spoiled' = spoiled /\ shortWrites' = shortWrites /\ shortWrites \in Nat
    BY <1>0 DEF TypeOK, GetHandleOpens, history
  <2>4. /\ IsFiniteSet(torn) /\ IsFiniteSet(torn \ {i})
        /\ Cardinality(torn) \in Nat /\ Cardinality(torn \ {i}) \in Nat
        /\ Cardinality(torn \ {i}) <= Cardinality(torn)
    <3>1. IsFiniteSet(torn)
      BY <1>0 DEF TornInv
    <3> QED BY <3>1, RemoveOne
  <2>5. Cardinality(spoiled) \in Nat
    BY <1>0, FS_CardinalityType DEF TornInv
  <2>6. /\ IsFiniteSet(torn') /\ Cardinality(torn') \in Nat
        /\ Cardinality(torn') <= Cardinality(torn)
    BY <2>2, <2>4
  <2> QED BY <1>0, <2>3, <2>4, <2>5, <2>6 DEF TornInv
<1> QED BY <1>1, <1>2, <1>3, <1>4, <1>5, <1>6 DEF Inv

\* The file cannot be opened.
LEMMA GetHandleFailsKeeps ==
    ASSUME Inv, NEW r \in Records, GetHandleFails(r)
    PROVE  Inv'
<1>0. TypeOK /\ HandlesInv /\ WritingInv /\ SweepInv /\ JobsBegun /\ TornInv
  BY DEF Inv
<1>1. TypeOK'
  BY <1>0 DEF TypeOK, GetHandleFails, reqVars, fsVars, history
<1>2. HandlesInv'
  BY <1>0 DEF HandlesInv, Begun, OpenHandlesTracked, Mapped, TypeOK,
     GetHandleFails, reqVars, fsVars, history
<1>3. WritingInv'
  BY <1>0 DEF WritingInv, Writing, TypeOK, GetHandleFails, reqVars, fsVars, history
<1>4. SweepInv'
  BY <1>0 DEF SweepInv, TypeOK, GetHandleFails, reqVars, fsVars, history
<1>5. JobsBegun'
  BY <1>0 DEF JobsBegun, TypeOK, GetHandleFails, reqVars, fsVars, history
<1>6. TornInv'
  BY <1>0 DEF TornInv, GetHandleFails, reqVars, fsVars, history
<1> QED BY <1>1, <1>2, <1>3, <1>4, <1>5, <1>6 DEF Inv

\* A line is appended.
LEMMA WriteLineKeeps ==
    ASSUME Inv, NEW r \in Records, WriteLine(r)
    PROVE  Inv'
<1>0. TypeOK /\ HandlesInv /\ WritingInv /\ SweepInv /\ JobsBegun /\ TornInv
  BY DEF Inv
<1>1. TypeOK'
  <2>0. got[r] \in Handles /\ Target(r) \in Inodes /\ fh[got[r]].open
    BY <1>0 DEF WritingInv, Writing, HandlesInv, Begun, WriteLine, Append, Target
  <2>1. fh' = [fh EXCEPT ![got[r]].lastWrite = now] /\ now \in 0..MaxTime
    BY <1>0 DEF TypeOK, WriteLine, Append
  <2>2. fh' \in [Handles -> HandleStates]
    BY <1>0, <2>0, <2>1 DEF TypeOK, HandleStates
  <2>3. ASSUME NEW j \in Jobs PROVE [job[j] EXCEPT !.grown = TRUE] \in JobStates
    BY <1>0 DEF TypeOK, JobStates
  <2>4. job' \in [Jobs -> JobStates]
    BY <1>0, <2>3 DEF TypeOK, WriteLine, Append
  <2>5. torn' \subseteq Inodes /\ content' \in [Inodes -> SUBSET Records]
    BY <1>0, <2>0 DEF TypeOK, WriteLine
  <2>6. req' \in [Records -> {"idle", "posted", "writing"}]
    BY <1>0 DEF TypeOK, WriteLine, Answered
  <2>7. got' \in [Records -> Handles \cup {None}]
    BY <1>0 DEF TypeOK, WriteLine, Answered
  <2>8. accepted' \subseteq Records /\ kept' \subseteq accepted' /\ spoiled' \subseteq accepted'
    BY <1>0 DEF TypeOK, WriteLine, Accept
  <2>9. shortWrites' \in 0..MaxShortWrites
    BY <1>0 DEF TypeOK, WriteLine, Accept
  <2> QED BY <1>0, <2>2, <2>4, <2>5, <2>6, <2>7, <2>8, <2>9 DEF TypeOK, WriteLine, Accept
<1>2. HandlesInv'
  BY <1>0 DEF HandlesInv, Begun, OpenHandlesTracked, Mapped, TypeOK, WriteLine,
     Append, Answered, Accept, Target, reqVars, fsVars, history
<1>3. WritingInv'
  BY <1>0 DEF WritingInv, Writing, TypeOK, WriteLine, Append, Answered, Accept,
     Target, reqVars, fsVars, history
<1>4. SweepInv'
  BY <1>0 DEF SweepInv, TypeOK, WriteLine, Append, Answered, Accept, Target,
     reqVars, fsVars, history
<1>5. JobsBegun'
  BY <1>0 DEF JobsBegun, TypeOK, WriteLine, Append, Answered, Accept,
     Target, reqVars, fsVars, history
<1>6. TornInv'
  <2>1. /\ IsFiniteSet(torn) /\ IsFiniteSet(spoiled)
        /\ Cardinality(spoiled) \in Nat /\ Cardinality(torn) \in Nat
        /\ Cardinality(spoiled) + Cardinality(torn) <= shortWrites
        /\ shortWrites' = shortWrites /\ shortWrites \in Nat
    BY <1>0, FS_CardinalityType DEF TypeOK, TornInv, WriteLine, Accept
  <2>2. torn' = torn \ {Target(r)} /\ spoiled' \subseteq spoiled \cup {r}
    BY DEF WriteLine, Accept
  <2>3. /\ IsFiniteSet(torn') /\ IsFiniteSet(spoiled')
        /\ Cardinality(torn') \in Nat /\ Cardinality(spoiled') \in Nat
    <3>1. IsFiniteSet(spoiled \cup {r}) /\ IsFiniteSet(torn')
      BY <2>1, <2>2, AddOne, RemoveOne
    <3>2. IsFiniteSet(spoiled')
      BY <3>1, <2>2, FS_Subset
    <3> QED BY <3>1, <3>2, FS_CardinalityType
  <2>4. CASE Target(r) \in torn
    <3>1. Cardinality(torn') = Cardinality(torn) - 1
      BY <2>1, <2>2, <2>4, RemoveOne
    <3>2. Cardinality(spoiled \cup {r}) <= Cardinality(spoiled) + 1
      BY <2>1, AddOne
    <3>3. Cardinality(spoiled') <= Cardinality(spoiled \cup {r})
      BY <2>1, <2>2, AddOne, FS_Subset
    <3>4. Cardinality(spoiled \cup {r}) \in Nat
      BY <2>1, AddOne
    <3> QED BY <2>1, <2>3, <3>1, <3>2, <3>3, <3>4 DEF TornInv
  <2>5. CASE Target(r) \notin torn
    <3>1. torn' = torn /\ spoiled' = spoiled
      BY <2>2, <2>5 DEF WriteLine, Accept
    <3> QED BY <2>1, <3>1 DEF TornInv
  <2> QED BY <2>4, <2>5
<1> QED BY <1>1, <1>2, <1>3, <1>4, <1>5, <1>6 DEF Inv

\* Part of a line is appended.
LEMMA WriteShortKeeps ==
    ASSUME Inv, NEW r \in Records, WriteShort(r)
    PROVE  Inv'
<1>0. TypeOK /\ HandlesInv /\ WritingInv /\ SweepInv /\ JobsBegun /\ TornInv
  BY DEF Inv
<1>1. TypeOK'
  <2>0. got[r] \in Handles /\ Target(r) \in Inodes /\ fh[got[r]].open
    BY <1>0 DEF WritingInv, Writing, HandlesInv, Begun, WriteShort, Append, Target
  <2>1. fh' = [fh EXCEPT ![got[r]].lastWrite = now] /\ now \in 0..MaxTime
    BY <1>0 DEF TypeOK, WriteShort, Append
  <2>2. fh' \in [Handles -> HandleStates]
    BY <1>0, <2>0, <2>1 DEF TypeOK, HandleStates
  <2>3. ASSUME NEW j \in Jobs PROVE [job[j] EXCEPT !.grown = TRUE] \in JobStates
    BY <1>0 DEF TypeOK, JobStates
  <2>4. job' \in [Jobs -> JobStates]
    BY <1>0, <2>3 DEF TypeOK, WriteShort, Append
  <2>5. torn' \subseteq Inodes /\ content' \in [Inodes -> SUBSET Records]
    BY <1>0, <2>0 DEF TypeOK, WriteShort
  <2>6. req' \in [Records -> {"idle", "posted", "writing"}]
    BY <1>0 DEF TypeOK, WriteShort, Answered
  <2>7. got' \in [Records -> Handles \cup {None}]
    BY <1>0 DEF TypeOK, WriteShort, Answered
  <2>8. accepted' \subseteq Records /\ kept' \subseteq accepted' /\ spoiled' \subseteq accepted'
    BY <1>0 DEF TypeOK, WriteShort
  <2>9. shortWrites' \in 0..MaxShortWrites
    BY <1>0, JsonlWriterAssumption DEF TypeOK, WriteShort, JsonlWriterAssumption
  <2> QED BY <1>0, <2>2, <2>4, <2>5, <2>6, <2>7, <2>8, <2>9 DEF TypeOK, WriteShort
<1>2. HandlesInv'
  BY <1>0 DEF HandlesInv, Begun, OpenHandlesTracked, Mapped, TypeOK, WriteShort,
     Append, Answered, Target, reqVars, fsVars, history
<1>3. WritingInv'
  BY <1>0 DEF WritingInv, Writing, TypeOK, WriteShort, Append, Answered, Target,
     reqVars, fsVars, history
<1>4. SweepInv'
  BY <1>0 DEF SweepInv, TypeOK, WriteShort, Append, Answered, Target, reqVars,
     fsVars, history
<1>5. JobsBegun'
  BY <1>0 DEF JobsBegun, TypeOK, WriteShort, Append, Answered, Target,
     reqVars, fsVars, history
<1>6. TornInv'
  <2>1. /\ IsFiniteSet(torn) /\ IsFiniteSet(spoiled)
        /\ Cardinality(spoiled) \in Nat /\ Cardinality(torn) \in Nat
        /\ Cardinality(spoiled) + Cardinality(torn) <= shortWrites
        /\ shortWrites' = shortWrites + 1 /\ shortWrites \in Nat
        /\ spoiled' = spoiled /\ torn' = torn \cup {Target(r)}
    BY <1>0, FS_CardinalityType DEF TypeOK, TornInv, WriteShort
  <2>2. /\ IsFiniteSet(torn') /\ Cardinality(torn') \in Nat
        /\ Cardinality(torn') <= Cardinality(torn) + 1
    BY <2>1, AddOne
  <2> QED BY <2>1, <2>2 DEF TornInv
<1> QED BY <1>1, <1>2, <1>3, <1>4, <1>5, <1>6 DEF Inv

\* Nothing is appended.
LEMMA WriteFailsKeeps ==
    ASSUME Inv, NEW r \in Records, WriteFails(r)
    PROVE  Inv'
<1>0. TypeOK /\ HandlesInv /\ WritingInv /\ SweepInv /\ JobsBegun /\ TornInv
  BY DEF Inv
<1>1. TypeOK'
  <2>1. got[r] \in Handles
    BY <1>0 DEF WritingInv, Writing, WriteFails
  <2>2. fh' \in [Handles -> HandleStates]
    <3>1. now \in 0..MaxTime /\ fh \in [Handles -> HandleStates]
      BY <1>0 DEF TypeOK
    <3>2. CASE UNCHANGED fh
      BY <3>1, <3>2
    <3>3. CASE fh' = [fh EXCEPT ![got[r]].lastWrite = now]
      BY <2>1, <3>1, <3>3 DEF HandleStates
    <3> QED BY <3>2, <3>3 DEF WriteFails
  <2> QED BY <1>0, <2>2 DEF TypeOK, WriteFails, Answered, history, fsVars
<1>2. HandlesInv'
  <2>1. ASSUME NEW x \in Handles
        PROVE  /\ fh'[x].open = fh[x].open /\ fh'[x].hour = fh[x].hour
               /\ fh'[x].inode = fh[x].inode
    BY <1>0 DEF TypeOK, HandleStates, WriteFails
  <2>2. /\ UNCHANGED <<now, early, handles, sweep, path, archive>>
        /\ Mapped \subseteq Handles
    BY <1>0 DEF TypeOK, WriteFails, Mapped, history, fsVars
  <2>3. OpenHandlesTracked'
    BY <1>0, <2>1, <2>2 DEF TypeOK, HandlesInv, OpenHandlesTracked, Mapped
  <2>4. ASSUME NEW x \in Handles PROVE Begun(x)'
    BY <1>0, <2>1, <2>2 DEF HandlesInv, Begun
  <2> QED BY <2>3, <2>4 DEF HandlesInv
<1>3. WritingInv'
  <2>1. ASSUME NEW x \in Handles
        PROVE  /\ fh'[x].open = fh[x].open /\ fh'[x].hour = fh[x].hour
               /\ fh'[x].inode = fh[x].inode
    BY <1>0 DEF TypeOK, HandleStates, WriteFails
  <2>2. ASSUME NEW s \in Records PROVE Writing(s)'
    <3>1. /\ req'[s] # "idle" => s # r
          /\ s # r => req'[s] = req[s] /\ got'[s] = got[s]
          /\ hour' = hour /\ now' = now /\ early' = early
      BY <1>0 DEF TypeOK, WriteFails, Answered, history
    <3> QED BY <1>0, <2>1, <3>1 DEF WritingInv, Writing
  <2> QED BY <2>2 DEF WritingInv
<1>4. SweepInv'
  <2>1. ASSUME NEW x \in Handles
        PROVE  /\ fh'[x].open = fh[x].open /\ fh'[x].hour = fh[x].hour
               /\ fh'[x].inode = fh[x].inode
    BY <1>0 DEF TypeOK, HandleStates, WriteFails
  <2>2. /\ sweep' = sweep /\ now' = now /\ early' = early
        /\ sweep.stale \subseteq Handles
    BY <1>0 DEF TypeOK, SweepStates, WriteFails, history
  <2> QED BY <1>0, <2>1, <2>2 DEF SweepInv
<1>5. JobsBegun'
  BY <1>0 DEF JobsBegun, TypeOK, WriteFails, Answered, reqVars, fsVars,
     history
<1>6. TornInv'
  BY <1>0 DEF TornInv, WriteFails, Answered, reqVars, fsVars, history
<1> QED BY <1>1, <1>2, <1>3, <1>4, <1>5, <1>6 DEF Inv

\* The sweep takes the stale handles out of the map.
LEMMA SweepScanKeeps ==
    ASSUME Inv, SweepScan
    PROVE  Inv'
<1>0. TypeOK /\ HandlesInv /\ WritingInv /\ SweepInv /\ JobsBegun /\ TornInv
  BY DEF Inv
<1>1. TypeOK'
  <2>1. sweep' \in SweepStates
    BY <1>0, HourOfType DEF TypeOK, SweepStates, SweepScan, Mapped
  <2>2. handles' \in [Hours -> Handles \cup {None}]
    BY <1>0 DEF TypeOK, SweepScan
  <2> QED BY <1>0, <2>1, <2>2 DEF TypeOK, SweepScan, reqVars, fsVars, history
<1>2. HandlesInv'
  <2>0. /\ sweep.pc = "idle" /\ sweep.stale = {}
        /\ UNCHANGED <<now, early, fh, path, archive>>
        /\ HourOf(now) \in Nat /\ HourOf(now) \in Hours
    BY <1>0, HourOfType, HoursAreNat
       DEF TypeOK, SweepInv, SweepScan, reqVars, history, fsVars
  <2>1. PICK stale \in SUBSET Mapped :
           /\ sweep' = [pc |-> "closing", stale |-> stale, hour |-> HourOf(now),
                        paths |-> {}]
           /\ handles' = [h \in Hours |-> IF handles[h] \in stale THEN None
                                          ELSE handles[h]]
    BY DEF SweepScan
  <2>2. Mapped \subseteq Handles
    BY <1>0 DEF TypeOK, Mapped
  <2>3. Mapped' = Mapped \ stale
    BY <2>1 DEF Mapped
  <2>4. OpenHandlesTracked'
    BY <1>0, <2>0, <2>1, <2>2, <2>3 DEF HandlesInv, OpenHandlesTracked
  <2>5. ASSUME NEW x \in Handles PROVE Begun(x)'
    BY <1>0, <2>0 DEF HandlesInv, Begun
  <2> QED BY <2>4, <2>5 DEF HandlesInv
<1>3. WritingInv'
  BY <1>0 DEF WritingInv, Writing, TypeOK, SweepScan, Idle, Mapped, reqVars,
     fsVars, history
<1>4. SweepInv'
  <2>0. /\ sweep.pc = "idle" /\ sweep.stale = {}
        /\ UNCHANGED <<now, early, fh, path, archive>>
        /\ HourOf(now) \in Nat /\ HourOf(now) \in Hours
    BY <1>0, HourOfType, HoursAreNat
       DEF TypeOK, SweepInv, SweepScan, reqVars, history, fsVars
  <2>1. PICK stale \in SUBSET Mapped :
           /\ sweep' = [pc |-> "closing", stale |-> stale, hour |-> HourOf(now),
                        paths |-> {}]
           /\ handles' = [h \in Hours |-> IF handles[h] \in stale THEN None
                                          ELSE handles[h]]
    BY DEF SweepScan
  <2>2. Mapped \subseteq Handles
    BY <1>0 DEF TypeOK, Mapped
  <2>3. ASSUME NEW x \in stale PROVE
        fh[x].open /\ (fh[x].hour <= HourOf(now) \/ fh[x].hour \in early)
    BY <1>0, <2>1, <2>2 DEF HandlesInv, OpenHandlesTracked, Begun, Mapped
  <2> QED BY <2>0, <2>1, <2>3 DEF SweepInv
<1>5. JobsBegun'
  BY <1>0 DEF JobsBegun, TypeOK, SweepScan, Idle, Mapped, reqVars,
     fsVars, history
<1>6. TornInv'
  BY <1>0 DEF TornInv, SweepScan, Idle, Mapped, reqVars, fsVars, history
<1> QED BY <1>1, <1>2, <1>3, <1>4, <1>5, <1>6 DEF Inv

\* The sweep closes one.
LEMMA SweepCloseKeeps ==
    ASSUME Inv, SweepClose
    PROVE  Inv'
<1>0. TypeOK /\ HandlesInv /\ WritingInv /\ SweepInv /\ JobsBegun /\ TornInv
  BY DEF Inv
<1>1. TypeOK'
  <2>1. PICK x \in sweep.stale :
           /\ fh' = [fh EXCEPT ![x] = ClosedHandle]
           /\ sweep' = [sweep EXCEPT
                 !.stale = @ \ {x},
                 !.paths = IF ArchiveEnabled /\ fh[x].hour # sweep.hour
                           THEN @ \cup {fh[x].hour} ELSE @]
    BY DEF SweepClose
  <2>2. x \in Handles /\ fh[x].hour \in Hours
    BY <1>0 DEF TypeOK, SweepStates, HandleStates
  <2>3. fh' \in [Handles -> HandleStates]
    BY <1>0, <2>1, IdleTypes DEF TypeOK
  <2>4. sweep' \in SweepStates
    BY <1>0, <2>1, <2>2 DEF TypeOK, SweepStates
  <2> QED BY <1>0, <2>3, <2>4 DEF TypeOK, SweepClose, reqVars, fsVars, history
<1>2. HandlesInv'
  <2>1. PICK x \in sweep.stale :
           /\ fh' = [fh EXCEPT ![x] = ClosedHandle]
           /\ sweep' = [sweep EXCEPT
                 !.stale = @ \ {x},
                 !.paths = IF ArchiveEnabled /\ fh[x].hour # sweep.hour
                           THEN @ \cup {fh[x].hour} ELSE @]
    BY DEF SweepClose
  <2>2. x \in Handles /\ fh[x].hour \in Hours
    BY <1>0 DEF TypeOK, SweepStates, HandleStates
  <2>3. UNCHANGED <<now, early, handles, path, archive>> /\ Mapped' = Mapped
    BY DEF SweepClose, Mapped, reqVars, history, fsVars
  <2>4. x \notin Mapped
    BY <1>0, <2>1 DEF HandlesInv, OpenHandlesTracked
  <2>5. OpenHandlesTracked'
    BY <1>0, <2>1, <2>2, <2>3, <2>4
       DEF TypeOK, SweepStates, HandlesInv, OpenHandlesTracked, Mapped, ClosedHandle
  <2>6. ASSUME NEW y \in Handles PROVE Begun(y)'
    BY <1>0, <2>1, <2>3 DEF TypeOK, HandlesInv, Begun, ClosedHandle
  <2> QED BY <2>5, <2>6 DEF HandlesInv
<1>3. WritingInv'
  BY <1>0 DEF WritingInv, Writing, TypeOK, SweepClose, ClosedHandle, reqVars,
     fsVars, history
<1>4. SweepInv'
  <2>1. PICK x \in sweep.stale :
           /\ fh' = [fh EXCEPT ![x] = ClosedHandle]
           /\ sweep' = [sweep EXCEPT
                 !.stale = @ \ {x},
                 !.paths = IF ArchiveEnabled /\ fh[x].hour # sweep.hour
                           THEN @ \cup {fh[x].hour} ELSE @]
    BY DEF SweepClose
  <2>2. x \in Handles /\ fh[x].hour \in Hours
    BY <1>0 DEF TypeOK, SweepStates, HandleStates
  <2>3. /\ sweep.hour \in Nat /\ HourOf(now) \in Nat /\ UNCHANGED <<now, early>> /\ fh[x].hour \in Nat
        /\ sweep.stale \subseteq Handles /\ sweep.pc = "closing"
    BY <1>0, <2>2, HourOfType, HoursAreNat DEF TypeOK, SweepStates, SweepClose, reqVars, history
  <2>4. /\ sweep'.pc = sweep.pc /\ sweep'.hour = sweep.hour
        /\ sweep'.stale = sweep.stale \ {x}
        /\ \/ sweep'.paths = sweep.paths
           \/ sweep'.paths = sweep.paths \cup {fh[x].hour} /\ fh[x].hour # sweep.hour
    BY <1>0, <2>1 DEF TypeOK, SweepStates
  <2>5. \A h \in sweep'.paths : h < HourOf(now) \/ h \in early
    BY <1>0, <2>1, <2>3, <2>4 DEF SweepInv
  <2>6. \A y \in sweep'.stale :
           fh'[y].open /\ (fh'[y].hour <= sweep.hour \/ fh'[y].hour \in early)
    BY <1>0, <2>1, <2>3, <2>4 DEF TypeOK, SweepInv
  <2> QED BY <1>0, <2>3, <2>4, <2>5, <2>6 DEF SweepInv
<1>5. JobsBegun'
  BY <1>0 DEF JobsBegun, TypeOK, SweepClose, ClosedHandle, reqVars,
     fsVars, history
<1>6. TornInv'
  BY <1>0 DEF TornInv, SweepClose, ClosedHandle, reqVars, fsVars, history
<1> QED BY <1>1, <1>2, <1>3, <1>4, <1>5, <1>6 DEF Inv

\* The sweep starts an archive job, or ends.
LEMMA SweepSpawnKeeps ==
    ASSUME Inv, SweepSpawn
    PROVE  Inv'
<1>0. TypeOK /\ HandlesInv /\ WritingInv /\ SweepInv /\ JobsBegun /\ TornInv
  BY DEF Inv
<1>1. TypeOK'
  <2>1. /\ sweep.pc = "closing" /\ sweep.stale = {} /\ now' = now /\ fh' = fh /\ handles' = handles
        /\ HourOf(now) \in Nat
    BY <1>0, HourOfType, HoursAreNat DEF TypeOK, SweepSpawn
  <2>2. CASE \E h \in sweep.paths, j \in Jobs :
                /\ job[j].pc = "none"
                /\ job' = [job EXCEPT ![j] = [NoJob EXCEPT !.pc = "start", !.hour = h]]
                /\ sweep' = [sweep EXCEPT !.paths = @ \ {h}]
    <3>1. PICK h \in sweep.paths, j \in Jobs :
                /\ job' = [job EXCEPT ![j] = [NoJob EXCEPT !.pc = "start", !.hour = h]]
                /\ sweep' = [sweep EXCEPT !.paths = @ \ {h}]
      BY <2>2
    <3>2. h \in Hours
      BY <1>0 DEF TypeOK, SweepStates
    <3>3. [NoJob EXCEPT !.pc = "start", !.hour = h] \in JobStates
      BY <3>2, IdleTypes DEF JobStates
    <3>4. job' \in [Jobs -> JobStates] /\ sweep' \in SweepStates
      BY <1>0, <3>1, <3>3 DEF TypeOK, SweepStates
    <3> QED BY <1>0, <3>4 DEF TypeOK, SweepSpawn, reqVars, fsVars, history
  <2>3. CASE sweep' = NoSweep /\ UNCHANGED job
    BY <1>0, <2>3, IdleTypes DEF TypeOK, SweepSpawn, reqVars, fsVars, history
  <2> QED BY <2>2, <2>3 DEF SweepSpawn
<1>2. HandlesInv'
  <2>0. sweep.pc = "closing" /\ sweep.stale = {} /\ now' = now
    BY DEF SweepSpawn
  <2>1. \/ sweep' = NoSweep
        \/ \E h \in sweep.paths : sweep' = [sweep EXCEPT !.paths = @ \ {h}]
    BY DEF SweepSpawn
  <2>2. \/ sweep' = NoSweep
        \/ /\ sweep'.pc = sweep.pc /\ sweep'.hour = sweep.hour
           /\ sweep'.stale = {} /\ sweep'.paths \subseteq sweep.paths
    BY <1>0, <2>0, <2>1 DEF TypeOK, SweepStates
  <2>3. sweep'.stale = {}
    BY <2>2 DEF NoSweep
  <2>4. UNCHANGED <<early, handles, fh, path, archive>>
    BY DEF SweepSpawn, reqVars, history, fsVars
  <2>5. OpenHandlesTracked'
    BY <1>0, <2>0, <2>3, <2>4 DEF HandlesInv, OpenHandlesTracked, Mapped
  <2>6. ASSUME NEW x \in Handles PROVE Begun(x)'
    BY <1>0, <2>0, <2>4 DEF HandlesInv, Begun
  <2> QED BY <2>5, <2>6 DEF HandlesInv
<1>3. WritingInv'
  BY <1>0 DEF WritingInv, Writing, TypeOK, SweepSpawn, NoSweep, NoJob, reqVars,
     fsVars, history
<1>4. SweepInv'
  <2>0. sweep.pc = "closing" /\ sweep.stale = {} /\ now' = now
    BY DEF SweepSpawn
  <2>1. \/ sweep' = NoSweep
        \/ \E h \in sweep.paths : sweep' = [sweep EXCEPT !.paths = @ \ {h}]
    BY DEF SweepSpawn
  <2>2. \/ sweep' = NoSweep
        \/ /\ sweep'.pc = sweep.pc /\ sweep'.hour = sweep.hour
           /\ sweep'.stale = {} /\ sweep'.paths \subseteq sweep.paths
    BY <1>0, <2>0, <2>1 DEF TypeOK, SweepStates
  <2>3. sweep'.stale = {}
    BY <2>2 DEF NoSweep
  <2>4. HourOf(now) \in Nat /\ early' = early
    BY <1>0, HourOfType, HoursAreNat DEF TypeOK, SweepSpawn, reqVars, history
  <2> QED BY <1>0, <2>0, <2>2, <2>3, <2>4 DEF SweepInv, NoSweep
<1>5. JobsBegun'
  <2>1. /\ sweep.pc = "closing" /\ sweep.stale = {} /\ UNCHANGED <<now, early, archive>>
        /\ HourOf(now) \in Nat
    BY <1>0, HourOfType, HoursAreNat DEF TypeOK, SweepSpawn, reqVars, history, fsVars
  <2>2. CASE \E h \in sweep.paths, j \in Jobs :
                /\ job[j].pc = "none"
                /\ job' = [job EXCEPT ![j] = [NoJob EXCEPT !.pc = "start", !.hour = h]]
                /\ sweep' = [sweep EXCEPT !.paths = @ \ {h}]
    <3>1. PICK h \in sweep.paths, j \in Jobs :
                job' = [job EXCEPT ![j] = [NoJob EXCEPT !.pc = "start", !.hour = h]]
      BY <2>2
    <3>2. h < HourOf(now) \/ h \in early
      BY <1>0 DEF SweepInv
    <3> QED BY <1>0, <2>1, <3>1, <3>2 DEF TypeOK, JobsBegun, NoJob
  <2>3. CASE UNCHANGED job
    BY <1>0, <2>1, <2>3 DEF JobsBegun
  <2> QED BY <2>2, <2>3 DEF SweepSpawn
<1>6. TornInv'
  BY <1>0 DEF TornInv, SweepSpawn, NoSweep, NoJob, reqVars, fsVars, history
<1> QED BY <1>1, <1>2, <1>3, <1>4, <1>5, <1>6 DEF Inv

\* The cleanup goroutine returns.
LEMMA SweepStopsKeeps ==
    ASSUME Inv, SweepStops
    PROVE  Inv'
<1>0. TypeOK /\ HandlesInv /\ WritingInv /\ SweepInv /\ JobsBegun /\ TornInv
  BY DEF Inv
<1>1. TypeOK'
  <2>1. sweep' \in SweepStates
    BY <1>0 DEF TypeOK, SweepStates, SweepStops
  <2> QED BY <1>0, <2>1 DEF TypeOK, SweepStops, reqVars, fsVars, history
<1>2. HandlesInv'
  BY <1>0 DEF HandlesInv, Begun, OpenHandlesTracked, Mapped, TypeOK, SweepStops,
     reqVars, fsVars, history
<1>3. WritingInv'
  BY <1>0 DEF WritingInv, Writing, TypeOK, SweepStops, reqVars, fsVars, history
<1>4. SweepInv'
  BY <1>0 DEF SweepInv, TypeOK, SweepStops, reqVars, fsVars, history
<1>5. JobsBegun'
  BY <1>0 DEF JobsBegun, TypeOK, SweepStops, reqVars, fsVars, history
<1>6. TornInv'
  BY <1>0 DEF TornInv, SweepStops, reqVars, fsVars, history
<1> QED BY <1>1, <1>2, <1>3, <1>4, <1>5, <1>6 DEF Inv

\* A step that leaves the handles and the directory as they are, and no archive
\* gone, keeps what is said of handles.
LEMMA HandlesStay ==
    ASSUME TypeOK, HandlesInv, UNCHANGED <<now, early, handles, fh, path, sweep>>,
           \A h \in Hours : archive[h].state # "none" => archive'[h].state # "none"
    PROVE  HandlesInv'
<1>1. OpenHandlesTracked'
  BY DEF HandlesInv, OpenHandlesTracked, Mapped
<1>2. ASSUME NEW x \in Handles PROVE Begun(x)'
  BY DEF HandlesInv, Begun
<1> QED BY <1>1, <1>2 DEF HandlesInv

\* A job that ends, or goes on with its hour and an archive it has made, keeps
\* what is said of jobs.
LEMMA JobStays ==
    ASSUME TypeOK, JobsBegun, UNCHANGED <<now, early>>,
           \A h \in Hours : archive[h].state # "none" => archive'[h].state # "none",
           NEW j \in Jobs, job[j].pc # "none",
           \A k \in Jobs : k # j => job'[k] = job[k],
           job'[j].pc = "none" \/ job'[j].hour = job[j].hour,
           job'[j].pc \in {"copy", "flush", "remove"} =>
              job[j].pc \in {"copy", "flush"} \/ archive'[job[j].hour].state # "none"
    PROVE  JobsBegun'
<1>1. \A k \in Jobs : job[k].hour \in Hours
  BY DEF TypeOK, JobStates
<1>2. ASSUME NEW k \in Jobs
      PROVE  /\ job'[k].pc # "none" => job'[k].hour < HourOf(now) \/ job'[k].hour \in early
             /\ job'[k].pc \in {"copy", "flush", "remove"} =>
                   archive'[job'[k].hour].state # "none"
  <2>1. CASE k = j
    BY <1>1, <2>1 DEF JobsBegun
  <2>2. CASE k # j
    BY <1>1, <2>2 DEF JobsBegun
  <2> QED BY <2>1, <2>2
<1> QED BY <1>2 DEF JobsBegun

\* A job takes a slot or gives up.
LEMMA JobAcquireKeeps ==
    ASSUME Inv, NEW j \in Jobs, JobAcquire(j)
    PROVE  Inv'
<1>0. TypeOK /\ HandlesInv /\ WritingInv /\ SweepInv /\ JobsBegun /\ TornInv
  BY DEF Inv
<1>1. TypeOK'
  <2>1. job' \in [Jobs -> JobStates]
    BY <1>0, IdleTypes DEF TypeOK, JobStates, JobAcquire, JobEnds
  <2> QED BY <1>0, <2>1 DEF TypeOK, JobAcquire, reqVars, fsVars, history
<1>2. HandlesInv'
  BY <1>0, HandlesStay DEF JobAcquire, reqVars, fsVars, history
<1>3. WritingInv'
  BY <1>0 DEF WritingInv, Writing, TypeOK, JobAcquire, JobEnds, NoJob, reqVars,
     fsVars, history
<1>4. SweepInv'
  BY <1>0 DEF SweepInv, TypeOK, JobAcquire, JobEnds, NoJob, reqVars, fsVars, history
<1>5. JobsBegun'
  <2>1. /\ job[j].pc # "none"
        /\ \A k \in Jobs : k # j => job'[k] = job[k]
        /\ job'[j].pc = "none" \/ job'[j].hour = job[j].hour
        /\ job'[j].pc \in {"copy", "flush", "remove"} =>
              job[j].pc \in {"copy", "flush"} \/ archive'[job[j].hour].state # "none"
    BY <1>0 DEF TypeOK, JobStates, JobAcquire, JobEnds, NoJob
  <2> QED BY <1>0, <2>1, JobStays DEF JobAcquire, reqVars, fsVars, history
<1>6. TornInv'
  BY <1>0 DEF TornInv, JobAcquire, JobEnds, NoJob, reqVars, fsVars, history
<1> QED BY <1>1, <1>2, <1>3, <1>4, <1>5, <1>6 DEF Inv

\* A job looks at the file and the archive.
LEMMA JobCheckKeeps ==
    ASSUME Inv, NEW j \in Jobs, JobCheck(j)
    PROVE  Inv'
<1>0. TypeOK /\ HandlesInv /\ WritingInv /\ SweepInv /\ JobsBegun /\ TornInv
  BY DEF Inv
<1>1. TypeOK'
  <2>1. job' \in [Jobs -> JobStates]
    BY <1>0, IdleTypes DEF TypeOK, JobStates, JobCheck, JobEnds
  <2> QED BY <1>0, <2>1 DEF TypeOK, JobCheck, reqVars, fsVars, history
<1>2. HandlesInv'
  BY <1>0, HandlesStay DEF JobCheck, reqVars, fsVars, history
<1>3. WritingInv'
  BY <1>0 DEF WritingInv, Writing, TypeOK, JobCheck, JobEnds, NoJob, reqVars,
     fsVars, history
<1>4. SweepInv'
  BY <1>0 DEF SweepInv, TypeOK, JobCheck, JobEnds, NoJob, reqVars, fsVars, history
<1>5. JobsBegun'
  <2>1. /\ job[j].pc # "none"
        /\ \A k \in Jobs : k # j => job'[k] = job[k]
        /\ job'[j].pc = "none" \/ job'[j].hour = job[j].hour
        /\ job'[j].pc \in {"copy", "flush", "remove"} =>
              job[j].pc \in {"copy", "flush"} \/ archive'[job[j].hour].state # "none"
    BY <1>0 DEF TypeOK, JobStates, JobCheck, JobEnds, NoJob
  <2> QED BY <1>0, <2>1, JobStays DEF JobCheck, reqVars, fsVars, history
<1>6. TornInv'
  BY <1>0 DEF TornInv, JobCheck, JobEnds, NoJob, reqVars, fsVars, history
<1> QED BY <1>1, <1>2, <1>3, <1>4, <1>5, <1>6 DEF Inv

\* A job creates the archive.
LEMMA JobCreateKeeps ==
    ASSUME Inv, NEW j \in Jobs, JobCreate(j)
    PROVE  Inv'
<1>0. TypeOK /\ HandlesInv /\ WritingInv /\ SweepInv /\ JobsBegun /\ TornInv
  BY DEF Inv
<1>1. TypeOK'
  <2>0. path[job[j].hour] \in Inodes \cup {None} /\ job[j].hour \in Hours
    BY <1>0 DEF TypeOK, JobStates
  <2>1. [job[j] EXCEPT !.pc = "copy", !.src = path[job[j].hour]] \in JobStates
    BY <1>0, <2>0 DEF TypeOK, JobStates
  <2>2. job' \in [Jobs -> JobStates]
    BY <1>0, <2>1, IdleTypes DEF TypeOK, JobCreate, JobEnds
  <2>3. \A s \in {"torn", "partial"} : [state |-> s, lines |-> {}] \in ArchiveStates
    BY DEF ArchiveStates
  <2>4. archive' \in [Hours -> ArchiveStates]
    BY <1>0, <2>3 DEF TypeOK, JobCreate
  <2> QED BY <1>0, <2>2, <2>4 DEF TypeOK, JobCreate, reqVars, history
<1>a. /\ \A h \in Hours : archive[h].state # "none" => archive'[h].state # "none"
      /\ job'[j].pc = "none" \/ archive'[job[j].hour].state # "none"
  <2>1. job[j].hour \in Hours
    BY <1>0 DEF TypeOK, JobStates
  <2>2. CASE UNCHANGED archive /\ JobEnds(j)
    BY <1>0, <2>2 DEF TypeOK, JobEnds, NoJob
  <2>3. CASE \E s \in {"torn", "partial"} :
               archive' = [archive EXCEPT ![job[j].hour] = [state |-> s, lines |-> {}]]
    BY <1>0, <2>1, <2>3 DEF TypeOK
  <2> QED BY <2>2, <2>3 DEF JobCreate
<1>2. HandlesInv'
  BY <1>0, <1>a, HandlesStay DEF JobCreate, reqVars, history
<1>3. WritingInv'
  BY <1>0 DEF WritingInv, Writing, TypeOK, JobCreate, JobEnds, NoJob, reqVars,
     fsVars, history
<1>4. SweepInv'
  BY <1>0 DEF SweepInv, TypeOK, JobCreate, JobEnds, NoJob, reqVars, fsVars, history
<1>5. JobsBegun'
  <2>1. /\ job[j].pc # "none"
        /\ \A k \in Jobs : k # j => job'[k] = job[k]
        /\ job'[j].pc = "none" \/ job'[j].hour = job[j].hour
        /\ job'[j].pc \in {"copy", "flush", "remove"} =>
              job[j].pc \in {"copy", "flush"} \/ archive'[job[j].hour].state # "none"
    BY <1>0, <1>a DEF TypeOK, JobStates, JobCreate, JobEnds, NoJob
  <2> QED BY <1>0, <2>1, <1>a, JobStays DEF JobCreate, reqVars, history
<1>6. TornInv'
  BY <1>0 DEF TornInv, JobCreate, JobEnds, NoJob, reqVars, fsVars, history
<1> QED BY <1>1, <1>2, <1>3, <1>4, <1>5, <1>6 DEF Inv

\* A job copies the file.
LEMMA JobCopyKeeps ==
    ASSUME Inv, NEW j \in Jobs, JobCopy(j)
    PROVE  Inv'
<1>0. TypeOK /\ HandlesInv /\ WritingInv /\ SweepInv /\ JobsBegun /\ TornInv
  BY DEF Inv
<1>1. TypeOK'
  <2>1. job' \in [Jobs -> JobStates]
    BY <1>0, IdleTypes DEF TypeOK, JobStates, JobCopy, JobEnds
  <2> QED BY <1>0, <2>1 DEF TypeOK, JobCopy, reqVars, fsVars, history
<1>2. HandlesInv'
  BY <1>0, HandlesStay DEF JobCopy, reqVars, fsVars, history
<1>3. WritingInv'
  BY <1>0 DEF WritingInv, Writing, TypeOK, JobCopy, JobEnds, NoJob, reqVars,
     fsVars, history
<1>4. SweepInv'
  BY <1>0 DEF SweepInv, TypeOK, JobCopy, JobEnds, NoJob, reqVars, fsVars, history
<1>5. JobsBegun'
  <2>1. /\ job[j].pc # "none"
        /\ \A k \in Jobs : k # j => job'[k] = job[k]
        /\ job'[j].pc = "none" \/ job'[j].hour = job[j].hour
        /\ job'[j].pc \in {"copy", "flush", "remove"} =>
              job[j].pc \in {"copy", "flush"} \/ archive'[job[j].hour].state # "none"
    BY <1>0 DEF TypeOK, JobStates, JobCopy, JobEnds, NoJob
  <2> QED BY <1>0, <2>1, JobStays DEF JobCopy, reqVars, fsVars, history
<1>6. TornInv'
  BY <1>0 DEF TornInv, JobCopy, JobEnds, NoJob, reqVars, fsVars, history
<1> QED BY <1>1, <1>2, <1>3, <1>4, <1>5, <1>6 DEF Inv

\* A job finishes the archive.
LEMMA JobFlushKeeps ==
    ASSUME Inv, NEW j \in Jobs, JobFlush(j)
    PROVE  Inv'
<1>0. TypeOK /\ HandlesInv /\ WritingInv /\ SweepInv /\ JobsBegun /\ TornInv
  BY DEF Inv
<1>1. TypeOK'
  <2>1. [job[j] EXCEPT !.pc = "remove"] \in JobStates
    BY <1>0 DEF TypeOK, JobStates
  <2>2. job' \in [Jobs -> JobStates]
    BY <1>0, <2>1, IdleTypes DEF TypeOK, JobFlush, JobEnds
  <2>3. [state |-> "complete", lines |-> job[j].size] \in ArchiveStates
    BY <1>0 DEF TypeOK, JobStates, ArchiveStates
  <2>4. archive' \in [Hours -> ArchiveStates]
    BY <1>0, <2>3 DEF TypeOK, JobFlush
  <2> QED BY <1>0, <2>2, <2>4 DEF TypeOK, JobFlush, reqVars, history
<1>a. \A h \in Hours : archive[h].state # "none" => archive'[h].state # "none"
  BY <1>0 DEF TypeOK, JobFlush
<1>2. HandlesInv'
  BY <1>0, <1>a, HandlesStay DEF JobFlush, reqVars, history
<1>3. WritingInv'
  BY <1>0 DEF WritingInv, Writing, TypeOK, JobFlush, JobEnds, NoJob, reqVars,
     fsVars, history
<1>4. SweepInv'
  BY <1>0 DEF SweepInv, TypeOK, JobFlush, JobEnds, NoJob, reqVars, fsVars, history
<1>5. JobsBegun'
  <2>1. /\ job[j].pc # "none"
        /\ \A k \in Jobs : k # j => job'[k] = job[k]
        /\ job'[j].pc = "none" \/ job'[j].hour = job[j].hour
        /\ job'[j].pc \in {"copy", "flush", "remove"} =>
              job[j].pc \in {"copy", "flush"} \/ archive'[job[j].hour].state # "none"
    BY <1>0, <1>a DEF TypeOK, JobStates, JobFlush, JobEnds, NoJob
  <2> QED BY <1>0, <2>1, <1>a, JobStays DEF JobFlush, reqVars, history
<1>6. TornInv'
  BY <1>0 DEF TornInv, JobFlush, JobEnds, NoJob, reqVars, fsVars, history
<1> QED BY <1>1, <1>2, <1>3, <1>4, <1>5, <1>6 DEF Inv

\* A job removes the file.
LEMMA JobRemoveKeeps ==
    ASSUME Inv, NEW j \in Jobs, JobRemove(j)
    PROVE  Inv'
<1>0. TypeOK /\ HandlesInv /\ WritingInv /\ SweepInv /\ JobsBegun /\ TornInv
  BY DEF Inv
<1>1. TypeOK'
  <2>1. job' \in [Jobs -> JobStates]
    BY <1>0, IdleTypes DEF TypeOK, JobStates, JobRemove, JobEnds
  <2>2. path' \in [Hours -> Inodes \cup {None}]
    BY <1>0 DEF TypeOK, JobRemove
  <2> QED BY <1>0, <2>1, <2>2 DEF TypeOK, JobRemove, reqVars, fsVars, history
<1>2. HandlesInv'
  <2>1. UNCHANGED <<now, early, handles, fh, archive, sweep>> /\ Mapped' = Mapped
    BY DEF JobRemove, reqVars, history, Mapped
  <2>2. ASSUME NEW h \in Hours, path'[h] # path[h]
        PROVE  path'[h] = None /\ archive[h].state # "none"
    BY <1>0, <2>2 DEF TypeOK, JobsBegun, JobRemove
  <2>3. OpenHandlesTracked'
    BY <1>0, <2>1, <2>2 DEF HandlesInv, OpenHandlesTracked
  <2>4. ASSUME NEW x \in Handles PROVE Begun(x)'
    BY <1>0, <2>1 DEF HandlesInv, Begun
  <2> QED BY <2>3, <2>4 DEF HandlesInv
<1>3. WritingInv'
  BY <1>0 DEF WritingInv, Writing, TypeOK, JobRemove, JobEnds, NoJob, reqVars,
     fsVars, history
<1>4. SweepInv'
  BY <1>0 DEF SweepInv, TypeOK, JobRemove, JobEnds, NoJob, reqVars, fsVars, history
<1>5. JobsBegun'
  <2>1. /\ job[j].pc # "none"
        /\ \A k \in Jobs : k # j => job'[k] = job[k]
        /\ job'[j].pc = "none" \/ job'[j].hour = job[j].hour
        /\ job'[j].pc \in {"copy", "flush", "remove"} =>
              job[j].pc \in {"copy", "flush"} \/ archive'[job[j].hour].state # "none"
    BY <1>0 DEF TypeOK, JobStates, JobRemove, JobEnds, NoJob
  <2> QED BY <1>0, <2>1, JobStays DEF JobRemove, reqVars, history
<1>6. TornInv'
  BY <1>0 DEF TornInv, JobRemove, JobEnds, NoJob, reqVars, fsVars, history
<1> QED BY <1>1, <1>2, <1>3, <1>4, <1>5, <1>6 DEF Inv

\* Close begins.
LEMMA CloseBeginsKeeps ==
    ASSUME Inv, CloseBegins
    PROVE  Inv'
<1>0. TypeOK /\ HandlesInv /\ WritingInv /\ SweepInv /\ JobsBegun /\ TornInv
  BY DEF Inv
<1>1. TypeOK'
  BY <1>0 DEF TypeOK, CloseBegins, reqVars, fsVars, history
<1>2. HandlesInv'
  BY <1>0 DEF HandlesInv, Begun, OpenHandlesTracked, Mapped, TypeOK, CloseBegins,
     reqVars, fsVars, history
<1>3. WritingInv'
  BY <1>0 DEF WritingInv, Writing, TypeOK, CloseBegins, reqVars, fsVars, history
<1>4. SweepInv'
  BY <1>0 DEF SweepInv, TypeOK, CloseBegins, reqVars, fsVars, history
<1>5. JobsBegun'
  BY <1>0 DEF JobsBegun, TypeOK, CloseBegins, reqVars, fsVars, history
<1>6. TornInv'
  BY <1>0 DEF TornInv, CloseBegins, reqVars, fsVars, history
<1> QED BY <1>1, <1>2, <1>3, <1>4, <1>5, <1>6 DEF Inv

\* Close closes the handles in the map.
LEMMA CloseHandlesKeeps ==
    ASSUME Inv, CloseHandles
    PROVE  Inv'
<1>0. TypeOK /\ HandlesInv /\ WritingInv /\ SweepInv /\ JobsBegun /\ TornInv
  BY DEF Inv
<1>1. TypeOK'
  <2>1. fh' \in [Handles -> HandleStates]
    BY <1>0, IdleTypes DEF TypeOK, CloseHandles
  <2> QED BY <1>0, <2>1 DEF TypeOK, CloseHandles, reqVars, fsVars, history
<1>2. HandlesInv'
  BY <1>0 DEF HandlesInv, Begun, OpenHandlesTracked, Mapped, TypeOK, CloseHandles,
     ClosedHandle, reqVars, fsVars, history
<1>3. WritingInv'
  BY <1>0 DEF WritingInv, Writing, TypeOK, CloseHandles, ClosedHandle, Mapped,
     reqVars, fsVars, history
<1>4. SweepInv'
  BY <1>0 DEF SweepInv, TypeOK, CloseHandles, ClosedHandle, Mapped, reqVars,
     fsVars, history
<1>5. JobsBegun'
  BY <1>0 DEF JobsBegun, TypeOK, CloseHandles, ClosedHandle, Mapped,
     reqVars, fsVars, history
<1>6. TornInv'
  BY <1>0 DEF TornInv, CloseHandles, ClosedHandle, Mapped, reqVars, fsVars, history
<1> QED BY <1>1, <1>2, <1>3, <1>4, <1>5, <1>6 DEF Inv

\* The process ends, by Close or by a crash.
LEMMA ProcessEndsKeeps ==
    ASSUME Inv, ProcessEnds
    PROVE  Inv'
<1>0. TypeOK /\ HandlesInv /\ WritingInv /\ SweepInv /\ JobsBegun /\ TornInv
  BY DEF Inv
<1>1. TypeOK'
  <2>1. fh' \in [Handles -> HandleStates] /\ job' \in [Jobs -> JobStates]
    BY IdleTypes DEF ProcessEnds, NoFiles, NoJobs
  <2>2. sweep' \in SweepStates /\ handles' \in [Hours -> Handles \cup {None}]
    BY IdleTypes DEF ProcessEnds, NoHandles
  <2> QED BY <1>0, <2>1, <2>2 DEF TypeOK, ProcessEnds, reqVars, fsVars, history
<1>2. HandlesInv'
  BY <1>0 DEF HandlesInv, Begun, OpenHandlesTracked, Mapped, TypeOK, ProcessEnds,
     NoHandles, NoFiles, NoSweep, NoJobs, NoJob, ClosedHandle, reqVars, fsVars,
     history
<1>3. WritingInv'
  BY <1>0 DEF WritingInv, Writing, TypeOK, ProcessEnds, NoHandles, NoFiles,
     NoSweep, NoJobs, NoJob, ClosedHandle, reqVars, fsVars, history
<1>4. SweepInv'
  <2>1. sweep' = NoSweep /\ now' = now /\ HourOf(now) \in Nat
    BY <1>0, HourOfType, HoursAreNat DEF TypeOK, ProcessEnds
  <2> QED BY <2>1 DEF SweepInv, NoSweep
<1>5. JobsBegun'
  BY <1>0 DEF JobsBegun, TypeOK, ProcessEnds, NoHandles, NoFiles,
     NoSweep, NoJobs, NoJob, ClosedHandle, reqVars, fsVars, history
<1>6. TornInv'
  BY <1>0 DEF TornInv, ProcessEnds, NoHandles, NoFiles, NoSweep, NoJobs, NoJob,
     ClosedHandle, reqVars, fsVars, history
<1> QED BY <1>1, <1>2, <1>3, <1>4, <1>5, <1>6 DEF Inv

\* The process starts again.
LEMMA RestartKeeps ==
    ASSUME Inv, Restart
    PROVE  Inv'
<1>0. TypeOK /\ HandlesInv /\ WritingInv /\ SweepInv /\ JobsBegun /\ TornInv
  BY DEF Inv
<1>1. TypeOK'
  BY <1>0 DEF TypeOK, Restart, reqVars, fsVars, history
<1>2. HandlesInv'
  BY <1>0 DEF HandlesInv, Begun, OpenHandlesTracked, Mapped, TypeOK, Restart,
     reqVars, fsVars, history
<1>3. WritingInv'
  BY <1>0 DEF WritingInv, Writing, TypeOK, Restart, reqVars, fsVars, history
<1>4. SweepInv'
  BY <1>0 DEF SweepInv, TypeOK, Restart, reqVars, fsVars, history
<1>5. JobsBegun'
  BY <1>0 DEF JobsBegun, TypeOK, Restart, reqVars, fsVars, history
<1>6. TornInv'
  BY <1>0 DEF TornInv, Restart, reqVars, fsVars, history
<1> QED BY <1>1, <1>2, <1>3, <1>4, <1>5, <1>6 DEF Inv

\* Nothing happens.
LEMMA StutterKeeps ==
    ASSUME Inv, UNCHANGED vars
    PROVE  Inv'
<1>0. TypeOK /\ HandlesInv /\ WritingInv /\ SweepInv /\ JobsBegun /\ TornInv
  BY DEF Inv
<1>1. TypeOK'
  BY <1>0 DEF TypeOK, vars, reqVars, fsVars, history
<1>2. HandlesInv'
  BY <1>0 DEF HandlesInv, Begun, OpenHandlesTracked, Mapped, TypeOK, vars, reqVars,
     fsVars, history
<1>3. WritingInv'
  BY <1>0 DEF WritingInv, Writing, TypeOK, vars, reqVars, fsVars, history
<1>4. SweepInv'
  BY <1>0 DEF SweepInv, TypeOK, vars, reqVars, fsVars, history
<1>5. JobsBegun'
  BY <1>0 DEF JobsBegun, TypeOK, vars, reqVars, fsVars, history
<1>6. TornInv'
  BY <1>0 DEF TornInv, vars, reqVars, fsVars, history
<1> QED BY <1>1, <1>2, <1>3, <1>4, <1>5, <1>6 DEF Inv

-----------------------------------------------------------------------------
(* The invariant of the specification.                                     *)

LEMMA InitInv == Init => Inv
<1> SUFFICES ASSUME Init PROVE Inv
  OBVIOUS
<1>1. 0 \in 0..MaxTime /\ 0 \in 0..MaxShortWrites
  BY JsonlWriterAssumption DEF JsonlWriterAssumption
<1>2. HourOf(now) \in Nat
  BY <1>1, HourOfType, HoursAreNat DEF Init
<1>3. TypeOK
  BY <1>1, IdleTypes DEF Init, TypeOK, NoHandles, NoFiles, NoJobs, NoArchive, ArchiveStates
<1>4. HandlesInv /\ WritingInv
  BY DEF Init, HandlesInv, OpenHandlesTracked, Mapped, Begun, WritingInv, Writing,
     NoHandles, NoFiles, NoSweep, ClosedHandle
<1>5. SweepInv /\ JobsBegun
  BY <1>2 DEF Init, SweepInv, JobsBegun, NoSweep, NoJobs, NoJob
<1>6. TornInv
  BY FS_EmptySet DEF Init, TornInv
<1> QED BY <1>3, <1>4, <1>5, <1>6 DEF Inv

LEMMA NextInv == Inv /\ [Next]_vars => Inv'
<1> SUFFICES ASSUME Inv, [Next]_vars PROVE Inv'
  OBVIOUS
<1>1. CASE Tick
  BY <1>1, TickKeeps
<1>2. ASSUME NEW r \in Records, Post(r) \/ Handler(r) PROVE Inv'
  BY <1>2, PostKeeps, GetHandleFoundKeeps, GetHandleOpensKeeps, GetHandleFailsKeeps,
     WriteLineKeeps, WriteShortKeeps, WriteFailsKeeps DEF Handler
<1>3. CASE Cleaner
  BY <1>3, SweepScanKeeps, SweepCloseKeeps, SweepSpawnKeeps, SweepStopsKeeps DEF Cleaner
<1>4. ASSUME NEW j \in Jobs, Archiver(j) PROVE Inv'
  BY <1>4, JobAcquireKeeps, JobCheckKeeps, JobCreateKeeps, JobCopyKeeps, JobFlushKeeps,
     JobRemoveKeeps DEF Archiver
<1>5. CASE CloseBegins \/ CloseHandles \/ CloseReturns \/ Crash \/ Restart
  BY <1>5, CloseBeginsKeeps, CloseHandlesKeeps, ProcessEndsKeeps, RestartKeeps
     DEF CloseReturns, Crash
<1>6. CASE UNCHANGED vars
  BY <1>6, StutterKeeps
<1> QED BY <1>1, <1>2, <1>3, <1>4, <1>5, <1>6 DEF Next

LEMMA Invariant == Spec => []Inv
BY InitInv, NextInv, PTL DEF Spec

\* The variables keep their types.
THEOREM TypeCorrect == Spec => []TypeOK
<1>1. Inv => TypeOK
  BY DEF Inv
<1> QED BY <1>1, Invariant, PTL

\* getHandle, the sweep and Close agree on who closes which descriptor, and a
\* handle in the map writes to the file its path names or to one that an archive
\* job removed, whatever the archive limit and the clocks of the senders.
THEOREM HandlesTracked == Spec => []OpenHandlesTracked
<1>1. Inv => OpenHandlesTracked
  BY DEF Inv, HandlesInv
<1> QED BY <1>1, Invariant, PTL

\* Short writes spoil at most a line each.
THEOREM TornLinesBounded == Spec => []TornLineCostsOne
<1>1. Inv => TornLineCostsOne
  <2> SUFFICES ASSUME Inv PROVE Cardinality(spoiled \ kept) <= shortWrites
    BY DEF TornLineCostsOne
  <2>1. /\ IsFiniteSet(torn) /\ IsFiniteSet(spoiled) /\ shortWrites \in Nat
        /\ Cardinality(spoiled) + Cardinality(torn) <= shortWrites
    BY DEF Inv, TornInv, TypeOK
  <2>2. Cardinality(torn) \in Nat /\ Cardinality(spoiled) \in Nat
    BY <2>1, FS_CardinalityType
  <2>3. /\ Cardinality(spoiled \ kept) <= Cardinality(spoiled)
        /\ Cardinality(spoiled \ kept) \in Nat
    BY <2>1, FS_Subset, FS_CardinalityType
  <2> QED BY <2>1, <2>2, <2>3
<1> QED BY <1>1, Invariant, PTL
=============================================================================
