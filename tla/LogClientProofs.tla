-------------------------- MODULE LogClientProofs --------------------------
(***************************************************************************)
(* Proofs about LogClient, for any set of records and workers, any queue   *)
(* size and any configured number of retries: the inductive invariant, the *)
(* safety properties it implies, and the refinement of LogDelivery.        *)
(***************************************************************************)
EXTENDS LogClient, FiniteSetTheorems, TLAPS

-----------------------------------------------------------------------------
(* The inductive invariant.                                                *)

\* A worker holds a record exactly while it is in sendWithRetry, sleeps only
\* before an attempt it has left, and has returned only when ch is closed and
\* empty, which closed channels stay.
WorkerOK ==
    \A w \in Workers :
        /\ wpc[w] \in {"send", "backoff"} <=> wrec[w] # NoRecord
        /\ wpc[w] = "backoff" => attempt[w] < MaxRetries
        /\ wpc[w] = "done" => ch = <<>> /\ ChClosed

StopperOK == stopper = "stopped" => \A w \in Workers : wpc[w] = "done"

\* Copies of r the log server has or may still write.
Copies(r) == stored[r] + lingering[r]

\* The attempts of worker w's current call whose effect may be at the server.
AttemptsMade(w) == attempt[w] + IF wpc[w] = "backoff" THEN 1 ELSE 0

CopiesOK ==
    /\ \A r \in Records : fate[r] \in {"idle", "dropped"} => Copies(r) = 0
    /\ \A r \in Records : r \in Queued => Copies(r) = 0
    /\ \A w \in Workers, r \in Records : wrec[w] = r => Copies(r) <= AttemptsMade(w)
    /\ \A r \in Records : Copies(r) <= MaxRetries + 1

ControlInv == TypeOK /\ WorkerOK /\ StopperOK

IInv == ControlInv /\ AcceptedInOnePlace /\ CopiesOK /\ CountersTellTheTruth

-----------------------------------------------------------------------------
(* Facts about the constants and about sequences.                          *)

\* sendWithRetry always has at least one retry.
LEMMA MaxRetriesPositive == MaxRetries \in Nat /\ MaxRetries > 0
BY LogClientAssumption DEF LogClientAssumption, MaxRetries

\* A record appended to a sequence joins its elements, at the last index.
LEMMA AppendElements ==
    ASSUME NEW S, NEW s \in Seq(S), NEW e \in S
    PROVE  /\ Append(s, e) \in Seq(S)
           /\ Len(Append(s, e)) = Len(s) + 1
           /\ \A i \in 1..Len(s) : Append(s, e)[i] = s[i]
           /\ Append(s, e)[Len(s) + 1] = e
           /\ {Append(s, e)[i] : i \in 1..Len(Append(s, e))}
                = {s[i] : i \in 1..Len(s)} \cup {e}
OBVIOUS

\* Taking the head of a sequence without repetition takes it from the elements.
LEMMA TailElements ==
    ASSUME NEW S, NEW s \in Seq(S), s # <<>>,
           \A i, j \in 1..Len(s) : s[i] = s[j] => i = j
    PROVE  /\ Head(s) \in S /\ Tail(s) \in Seq(S)
           /\ Head(s) \in {s[i] : i \in 1..Len(s)}
           /\ {Tail(s)[i] : i \in 1..Len(Tail(s))}
                = {s[i] : i \in 1..Len(s)} \ {Head(s)}
           /\ \A i, j \in 1..Len(Tail(s)) : Tail(s)[i] = Tail(s)[j] => i = j
<1>1. /\ Len(Tail(s)) = Len(s) - 1 /\ Len(s) \in Nat /\ Len(s) > 0
      /\ \A i \in 1..Len(Tail(s)) : Tail(s)[i] = s[i + 1]
      /\ Head(s) = s[1]
  OBVIOUS
<1>2. /\ Head(s) \in S /\ Tail(s) \in Seq(S)
      /\ Head(s) \in {s[i] : i \in 1..Len(s)}
      /\ \A i, j \in 1..Len(Tail(s)) : Tail(s)[i] = Tail(s)[j] => i = j
  BY <1>1
<1>3. \A i \in 1..Len(Tail(s)) : Tail(s)[i] \in {s[k] : k \in 1..Len(s)} \ {Head(s)}
  <2> TAKE i \in 1..Len(Tail(s))
  <2>1. i + 1 \in 1..Len(s) /\ Tail(s)[i] = s[i + 1] /\ i + 1 # 1
    BY <1>1
  <2>2. s[i + 1] # s[1]
    BY <1>1, <2>1
  <2> QED BY <1>1, <2>1, <2>2
<1>4. \A k \in 1..Len(s) : s[k] # Head(s) =>
                             s[k] \in {Tail(s)[i] : i \in 1..Len(Tail(s))}
  <2> TAKE k \in 1..Len(s)
  <2> HAVE s[k] # Head(s)
  <2>1. k - 1 \in 1..Len(Tail(s)) /\ Tail(s)[k - 1] = s[k]
    BY <1>1
  <2> QED BY <2>1
<1> QED BY <1>2, <1>3, <1>4

-----------------------------------------------------------------------------
(* Control: types, workers, the two channels.                              *)

LEMMA ControlInit == Init => ControlInv
<1> SUFFICES ASSUME Init PROVE ControlInv
  OBVIOUS
<1>1. attempt \in [Workers -> 0..MaxRetries]
  BY MaxRetriesPositive DEF Init
<1>4. /\ fate \in [Records -> Fates]
      /\ stored \in [Records -> Nat]
      /\ lingering \in [Records -> Nat]
  BY DEF Init, Fates
<1>5. /\ wpc \in [Workers -> {"receive", "send", "backoff", "done"}]
      /\ wrec \in [Workers -> Records \cup {NoRecord}]
  BY DEF Init
<1>6. /\ ch \in Seq(Records)
      /\ dropped \in Nat /\ sent \in Nat /\ retries \in Nat
  BY DEF Init
<1>7. /\ stopper \in {"running", "stopping", "waiting", "stopped"}
      /\ panicked \in BOOLEAN
      /\ draining \in SUBSET Workers
  BY DEF Init
<1>2. TypeOK
  BY <1>1, <1>4, <1>5, <1>6, <1>7, Zenon DEF TypeOK
<1>3. WorkerOK /\ StopperOK
  BY DEF Init, WorkerOK, StopperOK
<1> QED BY <1>2, <1>3 DEF ControlInv

LEMMA ControlEnqueue ==
    ASSUME ControlInv, NEW r \in Records, Enqueue(r)
    PROVE  ControlInv'
<1> USE LogClientAssumption DEF LogClientAssumption, ControlInv, Fates
<1>1. CASE EnqueueBuffered(r)
  BY <1>1, AppendElements
     DEF EnqueueBuffered, TypeOK, WorkerOK, StopperOK, workerVars, serverVars, ChClosed
<1>2. CASE EnqueueHandoff(r)
  <2>1. PICK w \in Workers : /\ wpc[w] = "receive"
                            /\ wpc' = [wpc EXCEPT ![w] = "send"]
                            /\ wrec' = [wrec EXCEPT ![w] = r]
    BY <1>2 DEF EnqueueHandoff
  <2>2. TypeOK'
    BY <1>2, <2>1 DEF EnqueueHandoff, TypeOK, serverVars
  <2>3. WorkerOK'
    BY <1>2, <2>1 DEF EnqueueHandoff, TypeOK, WorkerOK, ChClosed
  <2>4. StopperOK'
    BY <1>2, <2>1 DEF EnqueueHandoff, StopperOK, ChClosed
  <2> QED BY <2>2, <2>3, <2>4
<1>3. CASE EnqueueDrop(r)
  BY <1>3 DEF EnqueueDrop, TypeOK, WorkerOK, StopperOK, workerVars, serverVars, ChClosed
<1>4. CASE EnqueuePanic(r)
  BY <1>4 DEF EnqueuePanic, TypeOK, WorkerOK, StopperOK, workerVars, serverVars, ChClosed
<1> QED BY <1>1, <1>2, <1>3, <1>4 DEF Enqueue

\* What sendWithRetry leaves behind when it returns.
LEMMA ControlFinish ==
    ASSUME ControlInv, NEW w \in Workers, NEW f \in Fates,
           wpc[w] \in {"send", "backoff"}, Finish(w, f),
           ch' = ch, stopper' = stopper
    PROVE  /\ wpc' \in [Workers -> {"receive", "send", "backoff", "done"}]
           /\ wrec' \in [Workers -> Records \cup {NoRecord}]
           /\ attempt' \in [Workers -> 0..MaxRetries]
           /\ fate' \in [Records -> Fates]
           /\ WorkerOK' /\ StopperOK'
<1>1. /\ wpc' \in [Workers -> {"receive", "send", "backoff", "done"}]
      /\ wrec' \in [Workers -> Records \cup {NoRecord}]
      /\ fate' \in [Records -> Fates]
  BY DEF ControlInv, TypeOK, Finish
<1>3. attempt' \in [Workers -> 0..MaxRetries]
  BY MaxRetriesPositive DEF ControlInv, TypeOK, Finish
<1>2. WorkerOK' /\ StopperOK'
  BY DEF ControlInv, TypeOK, WorkerOK, StopperOK, Finish, ChClosed
<1> QED BY <1>1, <1>2, <1>3

\* The log server's copies stay numbers whatever a failed attempt does.
LEMMA TransientTypes ==
    ASSUME TypeOK, NEW r \in Records, TransientEffect(r)
    PROVE  stored' \in [Records -> Nat] /\ lingering' \in [Records -> Nat]
<1>1. CASE UNCHANGED serverVars
  BY <1>1 DEF TypeOK, serverVars
<1>2. CASE stored' = [stored EXCEPT ![r] = @ + 1] /\ UNCHANGED lingering
  BY <1>2 DEF TypeOK
<1>3. CASE lingering' = [lingering EXCEPT ![r] = @ + 1] /\ UNCHANGED stored
  BY <1>3 DEF TypeOK
<1> QED BY <1>1, <1>2, <1>3 DEF TransientEffect

LEMMA ControlWorker ==
    ASSUME ControlInv, NEW w \in Workers, WorkerStep(w)
    PROVE  ControlInv'
<1> USE DEF ControlInv
<1>0. wpc[w] \in {"send", "backoff"} => wrec[w] \in Records
  BY DEF WorkerOK, TypeOK
<1>1. CASE ReceiveRecord(w)
  <2>1. Head(ch) \in Records /\ Tail(ch) \in Seq(Records)
    BY <1>1 DEF ReceiveRecord, TypeOK
  <2>2. TypeOK'
    BY <1>1, <2>1 DEF ReceiveRecord, TypeOK, serverVars
  <2>3. WorkerOK' /\ StopperOK'
    BY <1>1, <2>1, LogClientAssumption
       DEF ReceiveRecord, TypeOK, WorkerOK, StopperOK, ChClosed, LogClientAssumption
  <2> QED BY <2>2, <2>3
<1>2. CASE ObserveStop(w)
  BY <1>2 DEF ObserveStop, TypeOK, WorkerOK, StopperOK, ChClosed, clientVars, serverVars
<1>3. CASE ObserveClosed(w)
  BY <1>3 DEF ObserveClosed, TypeOK, WorkerOK, StopperOK, ChClosed, clientVars, serverVars
<1>4. CASE SendAccepted(w)
  <2>1. stored' \in [Records -> Nat] /\ sent' \in Nat
    BY <1>4, <1>0 DEF SendAccepted, TypeOK
  <2> QED BY <1>4, <2>1, ControlFinish DEF SendAccepted, TypeOK, Fates
<1>5. CASE SendRejected(w)
  BY <1>5, ControlFinish DEF SendRejected, TypeOK, Fates, serverVars
<1>6. CASE SendFailed(w)
  <2>1. stored' \in [Records -> Nat] /\ lingering' \in [Records -> Nat]
    BY <1>6, <1>0, TransientTypes DEF SendFailed
  <2>2. CASE Finish(w, "exhausted")
    BY <1>6, <2>1, <2>2, ControlFinish DEF SendFailed, TypeOK, Fates
  <2>3. CASE ~Finish(w, "exhausted")
    <3>1. /\ wpc[w] = "send" /\ attempt[w] < MaxRetries
          /\ wpc' = [wpc EXCEPT ![w] = "backoff"]
          /\ UNCHANGED <<wrec, attempt, fate, ch, stopper, panicked, dropped, sent,
                         retries, draining>>
      BY <1>6, <2>3 DEF SendFailed
    <3>2. TypeOK'
      BY <2>1, <3>1 DEF TypeOK
    <3>3. WorkerOK' /\ StopperOK'
      BY <3>1 DEF TypeOK, WorkerOK, StopperOK, ChClosed
    <3> QED BY <3>2, <3>3
  <2> QED BY <2>2, <2>3
<1>7. CASE Backoff(w)
  <2>1. attempt[w] + 1 \in 0..MaxRetries /\ retries + 1 \in Nat
    BY <1>7, MaxRetriesPositive DEF Backoff, WorkerOK, TypeOK
  <2>2. TypeOK'
    BY <1>7, <2>1 DEF Backoff, TypeOK, serverVars
  <2>3. WorkerOK' /\ StopperOK'
    BY <1>7 DEF Backoff, TypeOK, WorkerOK, StopperOK, ChClosed
  <2> QED BY <2>2, <2>3
<1> QED BY <1>1, <1>2, <1>3, <1>4, <1>5, <1>6, <1>7 DEF WorkerStep

LEMMA ControlRest ==
    ASSUME ControlInv,
           \/ CloseStopCh \/ StopStep
           \/ \E r \in Records : LateFinish(r)
           \/ UNCHANGED vars
    PROVE  ControlInv'
<1> USE DEF ControlInv
<1>1. CASE CloseStopCh
  BY <1>1 DEF CloseStopCh, TypeOK, WorkerOK, StopperOK, ChClosed, workerVars, serverVars
<1>2. CASE CloseCh
  BY <1>2 DEF CloseCh, TypeOK, WorkerOK, StopperOK, ChClosed, workerVars, serverVars
<1>3. CASE WaitReturns
  BY <1>3 DEF WaitReturns, TypeOK, WorkerOK, StopperOK, ChClosed, workerVars, serverVars
<1>4. ASSUME NEW r \in Records, LateFinish(r) PROVE ControlInv'
  <2>1. stored' \in [Records -> Nat] /\ lingering' \in [Records -> Nat]
    BY <1>4 DEF LateFinish, TypeOK
  <2> QED BY <1>4, <2>1
         DEF LateFinish, TypeOK, WorkerOK, StopperOK, ChClosed, clientVars, workerVars
<1>5. CASE UNCHANGED vars
  BY <1>5 DEF vars, TypeOK, WorkerOK, StopperOK, ChClosed
<1> QED BY <1>1, <1>2, <1>3, <1>4, <1>5 DEF StopStep

\* Every step preserves the control invariant, and Spec implies it.
LEMMA ControlStep == ControlInv /\ [Next]_vars => ControlInv'
BY ControlEnqueue, ControlWorker, ControlRest DEF Next, ProcessStep, Terminated

\* Whatever the log server does, the client's variables keep their types, and
\* no worker starts more than its bounded number of attempts.
THEOREM TypeCorrect == Spec => []TypeOK
<1>1. ControlInv => TypeOK
  BY DEF ControlInv
<1> QED BY ControlInit, ControlStep, <1>1, PTL DEF Spec

-----------------------------------------------------------------------------
(* An accepted record is in one place.                                     *)

LEMMA PlaceInit == Init => AcceptedInOnePlace
BY DEF Init, AcceptedInOnePlace, WithFate, Queued, Held

LEMMA PlaceUnchanged ==
    ASSUME AcceptedInOnePlace, UNCHANGED <<ch, wrec, fate>>
    PROVE  AcceptedInOnePlace'
BY DEF AcceptedInOnePlace, WithFate, Queued, Held

\* A record nobody has decided about is nowhere in the client.
LEMMA IdleIsNowhere ==
    ASSUME AcceptedInOnePlace, NEW r \in Records, fate[r] = "idle"
    PROVE  r \notin Queued /\ r \notin Held
BY DEF AcceptedInOnePlace, WithFate

LEMMA PlaceEnqueue ==
    ASSUME ControlInv, AcceptedInOnePlace, NEW r \in Records, Enqueue(r)
    PROVE  AcceptedInOnePlace'
<1>1. CASE EnqueueBuffered(r)
  <2>1. /\ Queued' = Queued \cup {r}
        /\ \A i, j \in 1..Len(ch') : ch'[i] = ch'[j] => i = j
    BY <1>1, AppendElements, IdleIsNowhere
       DEF EnqueueBuffered, Enqueue, Queued, ControlInv, TypeOK, AcceptedInOnePlace
  <2>2. WithFate("accepted")' = WithFate("accepted") \cup {r}
    BY <1>1 DEF EnqueueBuffered, WithFate, ControlInv, TypeOK
  <2>3. Held' = Held /\ wrec' = wrec
    BY <1>1 DEF EnqueueBuffered, Held, workerVars
  <2> QED BY <2>1, <2>2, <2>3, IdleIsNowhere DEF Enqueue, AcceptedInOnePlace
<1>2. CASE EnqueueHandoff(r)
  <2>1. PICK w \in Workers : /\ wpc[w] = "receive"
                            /\ wrec' = [wrec EXCEPT ![w] = r]
    BY <1>2 DEF EnqueueHandoff
  <2>2. wrec[w] = NoRecord /\ r # NoRecord
    BY <2>1, LogClientAssumption DEF ControlInv, WorkerOK, LogClientAssumption
  <2>3. Held' = Held \cup {r}
    BY <2>1, <2>2 DEF Held, ControlInv, TypeOK
  <2>4. WithFate("accepted")' = WithFate("accepted") \cup {r}
    BY <1>2 DEF EnqueueHandoff, WithFate, ControlInv, TypeOK
  <2>5. Queued' = Queued /\ ch' = ch
    BY <1>2 DEF EnqueueHandoff, Queued
  <2>6. \A u, v \in Workers : wrec'[u] = wrec'[v] /\ v # u => wrec'[u] = NoRecord
    BY <2>1, <2>2, IdleIsNowhere
       DEF Enqueue, AcceptedInOnePlace, Held, ControlInv, TypeOK
  <2> QED BY <2>3, <2>4, <2>5, <2>6, IdleIsNowhere DEF Enqueue, AcceptedInOnePlace
<1>3. CASE EnqueueDrop(r)
  <2>1. WithFate("accepted")' = WithFate("accepted")
    BY <1>3 DEF EnqueueDrop, Enqueue, WithFate, ControlInv, TypeOK
  <2> QED BY <1>3, <2>1
         DEF EnqueueDrop, AcceptedInOnePlace, Queued, Held, workerVars
<1>4. CASE EnqueuePanic(r)
  BY <1>4, PlaceUnchanged DEF EnqueuePanic, workerVars
<1> QED BY <1>1, <1>2, <1>3, <1>4 DEF Enqueue

LEMMA PlaceReceive ==
    ASSUME ControlInv, AcceptedInOnePlace, NEW w \in Workers, ReceiveRecord(w)
    PROVE  AcceptedInOnePlace'
<1>1. /\ Head(ch) \in Queued /\ Head(ch) \in Records
      /\ Queued' = Queued \ {Head(ch)}
      /\ \A i, j \in 1..Len(ch') : ch'[i] = ch'[j] => i = j
  <2>1. /\ ch \in Seq(Records) /\ ch # <<>> /\ ch' = Tail(ch)
        /\ \A i, j \in 1..Len(ch) : ch[i] = ch[j] => i = j
    BY DEF ReceiveRecord, ControlInv, TypeOK, AcceptedInOnePlace
  <2>2. /\ Head(ch) \in Records
        /\ Head(ch) \in {ch[i] : i \in 1..Len(ch)}
        /\ {Tail(ch)[i] : i \in 1..Len(Tail(ch))}
             = {ch[i] : i \in 1..Len(ch)} \ {Head(ch)}
        /\ \A i, j \in 1..Len(Tail(ch)) : Tail(ch)[i] = Tail(ch)[j] => i = j
    BY <2>1, TailElements
  <2>3. /\ Queued = {ch[i] : i \in 1..Len(ch)}
        /\ Queued' = {Tail(ch)[i] : i \in 1..Len(Tail(ch))}
    BY <2>1 DEF Queued
  <2>4. \A i, j \in 1..Len(ch') : ch'[i] = ch'[j] => i = j
    BY <2>1, <2>2
  <2> QED BY <2>2, <2>3, <2>4
<1>2. wrec[w] = NoRecord /\ wrec' = [wrec EXCEPT ![w] = Head(ch)]
  BY DEF ReceiveRecord, ControlInv, WorkerOK
<1>3. Head(ch) # NoRecord /\ Head(ch) \notin Held
  BY <1>1, LogClientAssumption DEF LogClientAssumption, AcceptedInOnePlace
<1>4. Held' = Held \cup {Head(ch)}
  BY <1>2, <1>3 DEF Held, ControlInv, TypeOK
<1>5. WithFate("accepted")' = WithFate("accepted")
  BY DEF ReceiveRecord, WithFate
<1>6. \A u, v \in Workers : wrec'[u] = wrec'[v] /\ v # u => wrec'[u] = NoRecord
  BY <1>2, <1>3 DEF AcceptedInOnePlace, Held, ControlInv, TypeOK
<1> QED BY <1>1, <1>3, <1>4, <1>5, <1>6 DEF AcceptedInOnePlace

LEMMA PlaceFinish ==
    ASSUME ControlInv, AcceptedInOnePlace, NEW w \in Workers,
           NEW f \in Fates \ {"accepted"}, wpc[w] = "send", Finish(w, f), ch' = ch
    PROVE  AcceptedInOnePlace'
<1>1. wrec[w] \in Records /\ wrec[w] # NoRecord /\ wrec[w] \in Held
  BY DEF ControlInv, WorkerOK, TypeOK, Held
<1>2. Held' = Held \ {wrec[w]}
  BY <1>1 DEF Finish, Held, ControlInv, TypeOK, AcceptedInOnePlace
<1>3. WithFate("accepted")' = WithFate("accepted") \ {wrec[w]}
  BY <1>1 DEF Finish, WithFate, ControlInv, TypeOK
<1>4. Queued' = Queued /\ ch' = ch
  BY DEF Queued
<1>5. \A u, v \in Workers : wrec'[u] = wrec'[v] /\ v # u => wrec'[u] = NoRecord
  BY <1>1 DEF Finish, AcceptedInOnePlace, ControlInv, TypeOK
<1> QED BY <1>1, <1>2, <1>3, <1>4, <1>5 DEF AcceptedInOnePlace

LEMMA PlaceStep ==
    ASSUME ControlInv, AcceptedInOnePlace, [Next]_vars
    PROVE  AcceptedInOnePlace'
<1>1. ASSUME NEW w \in Workers, WorkerStep(w) PROVE AcceptedInOnePlace'
  <2>1. CASE SendAccepted(w)
    BY <2>1, PlaceFinish DEF SendAccepted, Fates
  <2>2. CASE SendRejected(w)
    BY <2>2, PlaceFinish DEF SendRejected, Fates
  <2>3. CASE SendFailed(w)
    BY <2>3, PlaceFinish, PlaceUnchanged DEF SendFailed, Fates
  <2>4. CASE ObserveStop(w) \/ ObserveClosed(w) \/ Backoff(w)
    BY <2>4, PlaceUnchanged DEF ObserveStop, ObserveClosed, Backoff, clientVars
  <2> QED BY <1>1, <2>1, <2>2, <2>3, <2>4, PlaceReceive DEF WorkerStep
<1>2. ASSUME NEW r \in Records, LateFinish(r) PROVE AcceptedInOnePlace'
  BY <1>2, PlaceUnchanged DEF LateFinish, clientVars, workerVars
<1>3. CASE CloseStopCh \/ StopStep \/ UNCHANGED vars
  BY <1>3, PlaceUnchanged
     DEF CloseStopCh, StopStep, CloseCh, WaitReturns, workerVars, vars
<1> QED BY <1>1, <1>2, <1>3, PlaceEnqueue DEF Next, ProcessStep, Terminated

-----------------------------------------------------------------------------
(* One copy per attempt.                                                   *)

LEMMA CopiesInit == Init => CopiesOK
BY MaxRetriesPositive, LogClientAssumption
   DEF Init, CopiesOK, Copies, Queued, LogClientAssumption

\* What a transient failure leaves at the server: at most one copy more.
LEMMA TransientCopies ==
    ASSUME TypeOK, NEW r \in Records, TransientEffect(r)
    PROVE  /\ Copies(r)' \in {Copies(r), Copies(r) + 1}
           /\ \A q \in Records \ {r} : Copies(q)' = Copies(q)
<1>1. CASE UNCHANGED serverVars
  BY <1>1 DEF serverVars, Copies
<1>2. CASE stored' = [stored EXCEPT ![r] = @ + 1] /\ UNCHANGED lingering
  BY <1>2 DEF TypeOK, Copies
<1>3. CASE lingering' = [lingering EXCEPT ![r] = @ + 1] /\ UNCHANGED stored
  BY <1>3 DEF TypeOK, Copies
<1> QED BY <1>1, <1>2, <1>3 DEF TransientEffect

LEMMA CopiesType ==
    ASSUME TypeOK PROVE \A r \in Records : Copies(r) \in Nat
BY DEF TypeOK, Copies

\* A worker about to send has made no more than MaxRetries attempts.
LEMMA BeforeSend ==
    ASSUME ControlInv, CopiesOK, NEW w \in Workers, NEW r \in Records,
           wrec[w] = r, wpc[w] = "send"
    PROVE  Copies(r) <= attempt[w] /\ attempt[w] \in 0..MaxRetries
<1>1. attempt[w] \in 0..MaxRetries
  BY DEF ControlInv, TypeOK
<1>2. AttemptsMade(w) = attempt[w]
  BY <1>1, MaxRetriesPositive DEF AttemptsMade
<1>3. Copies(r) <= AttemptsMade(w)
  BY DEF CopiesOK
<1> QED BY <1>1, <1>2, <1>3

\* The end of a call: its record has at most one copy more, no other changes.
LEMMA CopiesFinish ==
    ASSUME ControlInv, AcceptedInOnePlace, CopiesOK, NEW w \in Workers,
           NEW f \in Fates \ {"idle", "dropped"}, wpc[w] = "send", Finish(w, f),
           NEW r \in Records, wrec[w] = r, ch' = ch,
           Copies(r)' \in {Copies(r), Copies(r) + 1},
           \A q \in Records \ {r} : Copies(q)' = Copies(q)
    PROVE  CopiesOK'
<1>1. r # NoRecord /\ r \notin Queued
  BY LogClientAssumption DEF AcceptedInOnePlace, Held, LogClientAssumption
<1>2. \A q \in Records : Copies(q) \in Nat
  BY CopiesType DEF ControlInv
<1>3. Copies(r) <= MaxRetries
  BY <1>2, BeforeSend, MaxRetriesPositive
<1>4. \A q \in Records : fate'[q] \in {"idle", "dropped"} => Copies(q)' = 0
  BY <1>1 DEF Finish, CopiesOK, ControlInv, TypeOK
<1>5. \A q \in Records : q \in Queued' => Copies(q)' = 0
  BY <1>1 DEF CopiesOK, Queued
<1>6. ASSUME NEW v \in Workers, NEW q \in Records, wrec'[v] = q
      PROVE  Copies(q)' <= AttemptsMade(v)'
  <2>1. v # w /\ wrec[v] = q /\ q # r
    BY <1>1, <1>6, LogClientAssumption
       DEF Finish, AcceptedInOnePlace, ControlInv, TypeOK, LogClientAssumption
  <2>2. AttemptsMade(v)' = AttemptsMade(v)
    BY <2>1 DEF Finish, AttemptsMade, ControlInv, TypeOK
  <2> QED BY <2>1, <2>2 DEF CopiesOK
<1>7. \A q \in Records : Copies(q)' <= MaxRetries + 1
  BY <1>2, <1>3, MaxRetriesPositive DEF CopiesOK
<1> QED BY <1>4, <1>5, <1>6, <1>7 DEF CopiesOK

LEMMA CopiesEnqueue ==
    ASSUME ControlInv, AcceptedInOnePlace, CopiesOK, NEW r \in Records, Enqueue(r)
    PROVE  CopiesOK'
<1>1. Copies(r) = 0 /\ \A q \in Records : Copies(q)' = Copies(q)
  BY DEF Enqueue, EnqueueBuffered, EnqueueHandoff, EnqueueDrop, EnqueuePanic,
         CopiesOK, Copies, serverVars
<1>2. \A q \in Records : Copies(q)' <= MaxRetries + 1
  BY <1>1 DEF CopiesOK
<1>3. \A q \in Records : fate'[q] \in {"idle", "dropped"} => Copies(q)' = 0
  BY <1>1 DEF Enqueue, EnqueueBuffered, EnqueueHandoff, EnqueueDrop, EnqueuePanic,
              CopiesOK, ControlInv, TypeOK
<1>4. Queued' \subseteq Queued \cup {r}
  <2>1. CASE EnqueueBuffered(r)
    BY <2>1, AppendElements DEF EnqueueBuffered, Queued, ControlInv, TypeOK
  <2>2. CASE ch' = ch
    BY <2>2 DEF Queued
  <2> QED BY <2>1, <2>2 DEF Enqueue, EnqueueHandoff, EnqueueDrop, EnqueuePanic
<1>5. \A v \in Workers, q \in Records : wrec'[v] = q => Copies(q)' <= AttemptsMade(v)'
  <2>1. CASE EnqueueHandoff(r)
    <3>1. PICK w \in Workers : /\ wpc[w] = "receive"
                              /\ wpc' = [wpc EXCEPT ![w] = "send"]
                              /\ wrec' = [wrec EXCEPT ![w] = r]
                              /\ attempt' = attempt
      BY <2>1 DEF EnqueueHandoff
    <3>2. AttemptsMade(w)' >= 0
      BY <3>1, MaxRetriesPositive DEF AttemptsMade, ControlInv, TypeOK
    <3>3. \A v \in Workers \ {w} : wrec'[v] = wrec[v] /\ AttemptsMade(v)' = AttemptsMade(v)
      BY <3>1 DEF AttemptsMade, ControlInv, TypeOK
    <3> QED BY <1>1, <3>1, <3>2, <3>3 DEF CopiesOK, ControlInv, TypeOK
  <2>2. CASE UNCHANGED workerVars
    BY <1>1, <2>2 DEF workerVars, AttemptsMade, CopiesOK
  <2> QED BY <2>1, <2>2 DEF Enqueue, EnqueueBuffered, EnqueueDrop, EnqueuePanic
<1> QED BY <1>1, <1>2, <1>3, <1>4, <1>5 DEF CopiesOK

LEMMA CopiesReceive ==
    ASSUME ControlInv, AcceptedInOnePlace, CopiesOK, NEW w \in Workers, ReceiveRecord(w)
    PROVE  CopiesOK'
<1>1. /\ Head(ch) \in Records /\ Head(ch) \in Queued
      /\ Queued' \subseteq Queued
  BY DEF ReceiveRecord, Queued, ControlInv, TypeOK
<1>2. \A q \in Records : Copies(q)' = Copies(q)
  BY DEF ReceiveRecord, serverVars, Copies
<1>3. AttemptsMade(w)' >= 0
  BY MaxRetriesPositive DEF ReceiveRecord, AttemptsMade, ControlInv, TypeOK
<1>4. \A v \in Workers \ {w} : wrec'[v] = wrec[v] /\ AttemptsMade(v)' = AttemptsMade(v)
  BY DEF ReceiveRecord, AttemptsMade, ControlInv, TypeOK
<1>5. wrec'[w] = Head(ch)
  BY DEF ReceiveRecord, ControlInv, TypeOK
<1>6. \A v \in Workers, q \in Records : wrec'[v] = q => Copies(q)' <= AttemptsMade(v)'
  BY <1>1, <1>2, <1>3, <1>4, <1>5 DEF CopiesOK
<1> QED BY <1>1, <1>2, <1>6 DEF CopiesOK, ReceiveRecord

LEMMA CopiesWorker ==
    ASSUME ControlInv, AcceptedInOnePlace, CopiesOK, NEW w \in Workers, WorkerStep(w)
    PROVE  CopiesOK'
<1>0. \A q \in Records : Copies(q) \in Nat
  BY CopiesType DEF ControlInv
<1>1. CASE ReceiveRecord(w)
  BY <1>1, CopiesReceive
<1>2. CASE ObserveStop(w)
  BY <1>2 DEF ObserveStop, clientVars, serverVars, CopiesOK, Copies, Queued, AttemptsMade
<1>3. CASE ObserveClosed(w)
  <2>1. wpc' = [wpc EXCEPT ![w] = "done"] /\ wpc[w] = "receive"
        /\ UNCHANGED <<ch, fate, wrec, attempt, stored, lingering>>
    BY <1>3 DEF ObserveClosed, clientVars, serverVars
  <2>2. \A v \in Workers : AttemptsMade(v)' = AttemptsMade(v)
    BY <2>1 DEF AttemptsMade, ControlInv, TypeOK
  <2> QED BY <2>1, <2>2 DEF CopiesOK, Copies, Queued
<1>4. CASE wpc[w] = "send" /\ SendAccepted(w)
  <2>1. PICK r \in Records : wrec[w] = r
    BY <1>4 DEF ControlInv, WorkerOK, TypeOK
  <2>2. /\ Copies(r)' = Copies(r) + 1
        /\ \A q \in Records \ {r} : Copies(q)' = Copies(q)
    BY <1>4, <2>1 DEF SendAccepted, Copies, ControlInv, TypeOK
  <2> QED BY <1>4, <2>1, <2>2, CopiesFinish DEF SendAccepted, Fates
<1>5. CASE wpc[w] = "send" /\ SendRejected(w)
  <2>1. PICK r \in Records : wrec[w] = r
    BY <1>5 DEF ControlInv, WorkerOK, TypeOK
  <2>2. \A q \in Records : Copies(q)' = Copies(q)
    BY <1>5 DEF SendRejected, serverVars, Copies
  <2> QED BY <1>5, <2>1, <2>2, CopiesFinish DEF SendRejected, Fates
<1>6. CASE wpc[w] = "send" /\ SendFailed(w)
  <2>1. PICK r \in Records : wrec[w] = r
    BY <1>6 DEF ControlInv, WorkerOK, TypeOK
  <2>2. /\ Copies(r)' \in {Copies(r), Copies(r) + 1}
        /\ \A q \in Records \ {r} : Copies(q)' = Copies(q)
    BY <1>6, <2>1, TransientCopies DEF SendFailed, ControlInv
  <2>3. CASE Finish(w, "exhausted")
    BY <1>6, <2>1, <2>2, <2>3, CopiesFinish DEF SendFailed, Fates
  <2>4. CASE ~Finish(w, "exhausted")
    <3>1. /\ attempt[w] < MaxRetries
          /\ wpc' = [wpc EXCEPT ![w] = "backoff"]
          /\ UNCHANGED <<wrec, attempt, fate, ch>>
      BY <1>6, <2>4 DEF SendFailed
    <3>2. r # NoRecord /\ r \notin Queued /\ fate[r] = "accepted"
      BY <2>1, LogClientAssumption
         DEF AcceptedInOnePlace, Held, WithFate, LogClientAssumption
    <3>3. AttemptsMade(w)' = attempt[w] + 1 /\ Copies(r)' <= attempt[w] + 1
      BY <1>0, <1>6, <2>1, <2>2, <3>1, BeforeSend, MaxRetriesPositive
         DEF AttemptsMade, ControlInv, TypeOK
    <3>4. \A v \in Workers \ {w} : AttemptsMade(v)' = AttemptsMade(v) /\ wrec[v] # r
      BY <2>1, <3>1, <3>2 DEF AttemptsMade, ControlInv, TypeOK, AcceptedInOnePlace
    <3>5. \A v \in Workers, q \in Records : wrec'[v] = q => Copies(q)' <= AttemptsMade(v)'
      BY <2>1, <2>2, <3>1, <3>3, <3>4 DEF CopiesOK
    <3>6. \A q \in Records : Copies(q)' <= MaxRetries + 1
      <4>1. attempt[w] + 1 <= MaxRetries
        BY <3>1, MaxRetriesPositive DEF ControlInv, TypeOK
      <4>2. Copies(r)' <= MaxRetries + 1
        BY <1>0, <2>2, <3>1, <3>3, <4>1, MaxRetriesPositive DEF ControlInv, TypeOK
      <4> QED BY <2>2, <4>2 DEF CopiesOK
    <3>7. \A q \in Records : /\ fate'[q] \in {"idle", "dropped"} => Copies(q)' = 0
                             /\ q \in Queued' => Copies(q)' = 0
      BY <2>2, <3>1, <3>2 DEF CopiesOK, Queued
    <3> QED BY <3>5, <3>6, <3>7 DEF CopiesOK
  <2> QED BY <2>3, <2>4
<1>7. CASE Backoff(w)
  <2>1. /\ attempt' = [attempt EXCEPT ![w] = @ + 1]
        /\ wpc[w] = "backoff" /\ wpc' = [wpc EXCEPT ![w] = "send"]
        /\ UNCHANGED <<ch, fate, wrec, stored, lingering>>
    BY <1>7 DEF Backoff, serverVars
  <2>2. \A v \in Workers : AttemptsMade(v)' = AttemptsMade(v)
    BY <2>1, MaxRetriesPositive DEF AttemptsMade, ControlInv, TypeOK
  <2> QED BY <2>1, <2>2 DEF CopiesOK, Copies, Queued
<1> QED BY <1>1, <1>2, <1>3, <1>4, <1>5, <1>6, <1>7
       DEF WorkerStep, SendAccepted, SendRejected, SendFailed

LEMMA CopiesStep ==
    ASSUME ControlInv, AcceptedInOnePlace, CopiesOK, [Next]_vars
    PROVE  CopiesOK'
<1>1. ASSUME NEW r \in Records, LateFinish(r) PROVE CopiesOK'
  <2>1. \A q \in Records : Copies(q)' \in Nat /\ Copies(q)' <= Copies(q)
    BY <1>1 DEF LateFinish, Copies, ControlInv, TypeOK
  <2>2. \A v \in Workers : AttemptsMade(v)' = AttemptsMade(v) /\ AttemptsMade(v) \in Int
    BY <1>1, MaxRetriesPositive
       DEF LateFinish, workerVars, AttemptsMade, ControlInv, TypeOK
  <2>3. Queued' = Queued /\ UNCHANGED <<fate, wrec>>
    BY <1>1 DEF LateFinish, clientVars, workerVars, Queued
  <2>4. \A q \in Records : Copies(q) \in Nat
    BY CopiesType DEF ControlInv
  <2> QED BY <2>1, <2>2, <2>3, <2>4, MaxRetriesPositive DEF CopiesOK
<1>2. CASE CloseStopCh \/ StopStep \/ UNCHANGED vars
  BY <1>2 DEF CloseStopCh, StopStep, CloseCh, WaitReturns, workerVars, serverVars, vars,
              CopiesOK, Copies, AttemptsMade, Queued
<1> QED BY <1>1, <1>2, CopiesEnqueue, CopiesWorker DEF Next, ProcessStep, Terminated

-----------------------------------------------------------------------------
(* The counters.                                                           *)

LEMMA FatesFinite == ASSUME NEW f PROVE IsFiniteSet(WithFate(f))
BY LogClientAssumption, FS_Subset DEF WithFate, LogClientAssumption

LEMMA CountersInit == Init => CountersTellTheTruth
<1> SUFFICES ASSUME Init PROVE CountersTellTheTruth
  OBVIOUS
<1>1. WithFate("sent") = {} /\ WithFate("dropped") = {}
  BY DEF Init, WithFate
<1> QED BY <1>1, FS_EmptySet DEF Init, CountersTellTheTruth, WithFate

\* One more record of fate f makes one more record counted under f.
LEMMA OneMore ==
    ASSUME ControlInv, NEW r \in Records, NEW f \in Fates, NEW g, fate[r] = g, g # f,
           fate' = [fate EXCEPT ![r] = f]
    PROVE  /\ Cardinality(WithFate(f))' = Cardinality(WithFate(f)) + 1
           /\ \A h \in Fates \ {f, g} : WithFate(h)' = WithFate(h)
<1>1. /\ WithFate(f)' = WithFate(f) \cup {r} /\ r \notin WithFate(f)
      /\ \A h \in Fates \ {f, g} : WithFate(h)' = WithFate(h)
  BY DEF WithFate, ControlInv, TypeOK
<1> QED BY <1>1, FatesFinite, FS_AddElement

\* What was not handed over, or was dropped, has no copy.
LEMMA NeverStored ==
    ASSUME ControlInv', CopiesOK'
    PROVE  \A r \in WithFate("dropped")' \cup WithFate("idle")' : stored'[r] = 0
<1> SUFFICES ASSUME NEW r \in Records, fate'[r] \in {"idle", "dropped"}
             PROVE  stored'[r] = 0
  BY DEF WithFate
<1>1. stored'[r] + lingering'[r] = 0
  BY DEF CopiesOK, Copies
<1>2. stored'[r] \in Nat /\ lingering'[r] \in Nat
  BY DEF ControlInv, TypeOK
<1> QED BY <1>1, <1>2

LEMMA TransientStored ==
    ASSUME TypeOK, NEW r \in Records, TransientEffect(r)
    PROVE  \A q \in Records : stored'[q] >= stored[q]
<1>1. CASE stored' = [stored EXCEPT ![r] = @ + 1]
  BY <1>1 DEF TypeOK
<1>2. CASE stored' = stored
  BY <1>2 DEF TypeOK
<1> QED BY <1>1, <1>2 DEF TransientEffect, serverVars

LEMMA CountersUnchanged ==
    ASSUME ControlInv, CountersTellTheTruth, CopiesOK', ControlInv',
           UNCHANGED <<sent, dropped>>,
           WithFate("sent")' = WithFate("sent"), WithFate("dropped")' = WithFate("dropped"),
           \A r \in Records : stored'[r] >= stored[r]
    PROVE  CountersTellTheTruth'
<1>1. \A r \in WithFate("dropped")' \cup WithFate("idle")' : stored'[r] = 0
  BY NeverStored
<1>2. \A r \in WithFate("sent")' : stored'[r] > 0
  BY DEF CountersTellTheTruth, WithFate, ControlInv, TypeOK
<1> QED BY <1>1, <1>2 DEF CountersTellTheTruth

LEMMA CountersEnqueue ==
    ASSUME ControlInv, ControlInv', CopiesOK', CountersTellTheTruth,
           NEW r \in Records, Enqueue(r)
    PROVE  CountersTellTheTruth'
<1>1. CASE EnqueueBuffered(r) \/ EnqueueHandoff(r)
  <2>1. fate' = [fate EXCEPT ![r] = "accepted"] /\ fate[r] = "idle"
    BY <1>1 DEF Enqueue, EnqueueBuffered, EnqueueHandoff
  <2>2. WithFate("sent")' = WithFate("sent") /\ WithFate("dropped")' = WithFate("dropped")
    BY <2>1 DEF WithFate, ControlInv, TypeOK
  <2> QED BY <1>1, <2>2, CountersUnchanged
         DEF EnqueueBuffered, EnqueueHandoff, serverVars, ControlInv, TypeOK
<1>2. CASE EnqueueDrop(r)
  <2>1. /\ Cardinality(WithFate("dropped"))' = Cardinality(WithFate("dropped")) + 1
        /\ WithFate("sent")' = WithFate("sent")
    BY <1>2, OneMore DEF Enqueue, EnqueueDrop, Fates
  <2>2. \A q \in WithFate("dropped")' \cup WithFate("idle")' : stored'[q] = 0
    BY NeverStored
  <2>3. dropped' = dropped + 1 /\ sent' = sent /\ stored' = stored
    BY <1>2 DEF EnqueueDrop, serverVars
  <2> QED BY <2>1, <2>2, <2>3 DEF CountersTellTheTruth
<1>3. CASE EnqueuePanic(r)
  BY <1>3, CountersUnchanged DEF EnqueuePanic, serverVars, WithFate, ControlInv, TypeOK
<1> QED BY <1>1, <1>2, <1>3 DEF Enqueue

\* A call that ends without an accepting answer leaves the counters alone.
LEMMA CountersFinish ==
    ASSUME ControlInv, ControlInv', CopiesOK', AcceptedInOnePlace, CountersTellTheTruth,
           NEW w \in Workers, NEW f \in {"rejected", "exhausted"},
           wpc[w] = "send", Finish(w, f), UNCHANGED <<sent, dropped>>,
           \A q \in Records : stored'[q] >= stored[q]
    PROVE  CountersTellTheTruth'
<1>1. PICK r \in Records : wrec[w] = r
  BY DEF ControlInv, WorkerOK, TypeOK
<1>2. fate[r] = "accepted"
  BY <1>1, LogClientAssumption
     DEF AcceptedInOnePlace, Held, WithFate, LogClientAssumption
<1>3. WithFate("sent")' = WithFate("sent") /\ WithFate("dropped")' = WithFate("dropped")
  BY <1>1, <1>2 DEF Finish, WithFate, ControlInv, TypeOK
<1> QED BY <1>3, CountersUnchanged

LEMMA CountersWorker ==
    ASSUME ControlInv, ControlInv', CopiesOK', AcceptedInOnePlace, CountersTellTheTruth,
           NEW w \in Workers, WorkerStep(w)
    PROVE  CountersTellTheTruth'
<1>1. CASE wpc[w] = "send" /\ SendAccepted(w)
  <2>1. PICK r \in Records : wrec[w] = r
    BY <1>1 DEF ControlInv, WorkerOK, TypeOK
  <2>2. fate[r] = "accepted" /\ fate' = [fate EXCEPT ![r] = "sent"]
    BY <1>1, <2>1, LogClientAssumption
       DEF SendAccepted, Finish, AcceptedInOnePlace, Held, WithFate, LogClientAssumption
  <2>3. /\ Cardinality(WithFate("sent"))' = Cardinality(WithFate("sent")) + 1
        /\ WithFate("dropped")' = WithFate("dropped")
    BY <2>2, OneMore DEF Fates
  <2>4. sent' = sent + 1 /\ dropped' = dropped /\ stored' = [stored EXCEPT ![r] = @ + 1]
    BY <1>1, <2>1 DEF SendAccepted
  <2>5. \A q \in WithFate("sent")' : stored'[q] > 0
    BY <2>2, <2>4 DEF CountersTellTheTruth, WithFate, ControlInv, TypeOK
  <2>6. \A q \in WithFate("dropped")' \cup WithFate("idle")' : stored'[q] = 0
    BY NeverStored
  <2> QED BY <2>3, <2>4, <2>5, <2>6 DEF CountersTellTheTruth
<1>2. CASE SendRejected(w)
  BY <1>2, CountersFinish DEF SendRejected, serverVars, ControlInv, TypeOK
<1>3. CASE SendFailed(w)
  <2>1. wrec[w] \in Records
    BY <1>3 DEF SendFailed, ControlInv, WorkerOK, TypeOK
  <2>2. \A q \in Records : stored'[q] >= stored[q]
    BY <1>3, <2>1, TransientStored DEF SendFailed, ControlInv
  <2>3. CASE Finish(w, "exhausted")
    BY <1>3, <2>2, <2>3, CountersFinish DEF SendFailed
  <2>4. CASE ~Finish(w, "exhausted")
    BY <1>3, <2>2, <2>4, CountersUnchanged DEF SendFailed, WithFate
  <2> QED BY <2>3, <2>4
<1>4. CASE ReceiveRecord(w) \/ ObserveStop(w) \/ ObserveClosed(w) \/ Backoff(w)
  BY <1>4, CountersUnchanged
     DEF ReceiveRecord, ObserveStop, ObserveClosed, Backoff, clientVars, serverVars,
         WithFate, ControlInv, TypeOK
<1> QED BY <1>1, <1>2, <1>3, <1>4 DEF WorkerStep, SendAccepted

LEMMA CountersStep ==
    ASSUME ControlInv, ControlInv', CopiesOK', AcceptedInOnePlace, CountersTellTheTruth,
           [Next]_vars
    PROVE  CountersTellTheTruth'
<1>1. ASSUME NEW r \in Records, LateFinish(r) PROVE CountersTellTheTruth'
  <2>1. \A q \in Records : stored'[q] >= stored[q]
    <3>1. CASE stored' = stored
      BY <3>1 DEF ControlInv, TypeOK
    <3>2. CASE stored' = [stored EXCEPT ![r] = @ + 1]
      BY <3>2 DEF ControlInv, TypeOK
    <3> QED BY <1>1, <3>1, <3>2 DEF LateFinish
  <2> QED BY <1>1, <2>1, CountersUnchanged
         DEF LateFinish, clientVars, workerVars, WithFate
<1>2. CASE CloseStopCh \/ StopStep \/ UNCHANGED vars
  BY <1>2, CountersUnchanged
     DEF CloseStopCh, StopStep, CloseCh, WaitReturns, workerVars, serverVars, vars,
         WithFate, ControlInv, TypeOK
<1> QED BY <1>1, <1>2, CountersEnqueue, CountersWorker DEF Next, ProcessStep, Terminated

-----------------------------------------------------------------------------
(* The invariant and what follows from it.                                 *)

LEMMA InitInvariant == Init => IInv
BY ControlInit, PlaceInit, CopiesInit, CountersInit DEF IInv

LEMMA NextInvariant == IInv /\ [Next]_vars => IInv'
BY ControlStep, PlaceStep, CopiesStep, CountersStep DEF IInv

LEMMA Invariance == Spec => []IInv
BY InitInvariant, NextInvariant, PTL DEF Spec

\* Neither the workers, nor the drain, nor a retry loses or duplicates a record
\* inside the client.
THEOREM NothingLostInside == Spec => []AcceptedInOnePlace
<1>1. IInv => AcceptedInOnePlace
  BY DEF IInv
<1> QED BY <1>1, Invariance, PTL

LEMMA AllDoneNothingAccepted ==
    ASSUME IInv, \A w \in Workers : wpc[w] = "done"
    PROVE  WithFate("accepted") = {}
<1>1. ch = <<>>
  BY LogClientAssumption DEF IInv, ControlInv, WorkerOK, LogClientAssumption
<1>2. Queued = {}
  BY <1>1 DEF Queued
<1>3. Held = {}
  BY DEF IInv, ControlInv, WorkerOK, Held
<1> QED BY <1>2, <1>3 DEF IInv, AcceptedInOnePlace

\* When Stop returns every record the client took on has been decided.
THEOREM StopDrainsEverything == Spec => []StopDrains
<1>1. IInv => StopDrains
  BY AllDoneNothingAccepted DEF IInv, ControlInv, StopperOK, StopDrains
<1> QED BY <1>1, Invariance, PTL

\* The log server never holds more copies of a record than the client made
\* attempts, whatever answers are lost or late.
THEOREM DuplicatesBounded == Spec => []CopiesBounded
<1>1. IInv => CopiesBounded
  BY DEF IInv, CopiesOK, CopiesBounded, Copies
<1> QED BY <1>1, Invariance, PTL

\* SentCount and DroppedCount agree with what happened to the records.
THEOREM CountersTruthful == Spec => []CountersTellTheTruth
<1>1. IInv => CountersTellTheTruth
  BY DEF IInv
<1> QED BY <1>1, Invariance, PTL

-----------------------------------------------------------------------------
(* The client implements LogDelivery.                                      *)

Status == [r \in Records |-> StatusOf(fate[r])]
Phase == IF panicked THEN "crashed" ELSE IF stopper = "stopped" THEN "stopped" ELSE "up"

LEMMA RefineInit == Init => Delivery!Init
BY DEF Init, Delivery!Init, StatusOf

\* A step that changes neither a fate, a copy nor the phase is a stutter.
LEMMA RefineStutter ==
    ASSUME UNCHANGED <<fate, stored, panicked>>, (stopper = "stopped") <=> (stopper' = "stopped")
    PROVE  UNCHANGED Delivery!vars
BY DEF Delivery!vars

\* A failed attempt or a late POST leaves a copy of a record that is not new.
LEMMA RefineCopy ==
    ASSUME IInv, IInv', NEW r \in Records, fate[r] \notin {"idle", "dropped"},
           stored' = [stored EXCEPT ![r] = @ + 1], UNCHANGED <<fate, panicked, stopper>>
    PROVE  Delivery!StoreCopy(r)
<1>1. StatusOf(fate[r]) \in {"pending", "delivered", "abandoned"}
  BY DEF StatusOf, IInv, ControlInv, TypeOK, Fates
<1>2. stored[r] < MaxRetries + 1
  BY MaxRetriesPositive DEF IInv, CopiesOK, Copies, ControlInv, TypeOK
<1> QED BY <1>1, <1>2 DEF Delivery!StoreCopy

\* The end of sendWithRetry decides a pending record, with or without a copy.
LEMMA RefineFinish ==
    ASSUME IInv, IInv', ~panicked, NEW w \in Workers, wpc[w] = "send",
           NEW f \in {"sent", "rejected", "exhausted"}, Finish(w, f),
           NEW r \in Records, wrec[w] = r, UNCHANGED <<panicked, stopper>>,
           stored' \in {stored, [stored EXCEPT ![r] = @ + 1]},
           f = "sent" => stored' = [stored EXCEPT ![r] = @ + 1]
    PROVE  Delivery!Resolve(r)
<1>1. fate[r] = "accepted" /\ fate' = [fate EXCEPT ![r] = f]
  BY LogClientAssumption
     DEF Finish, IInv, AcceptedInOnePlace, Held, WithFate, LogClientAssumption
<1>2. Phase = "up" /\ Phase' = "up"
  BY DEF Phase, IInv, ControlInv, StopperOK
<1>3. /\ Status[r] = "pending"
      /\ Status' = [Status EXCEPT ![r] = StatusOf(f)]
      /\ StatusOf(f) \in {"delivered", "abandoned"}
      /\ StatusOf(f) = "delivered" => f = "sent"
  BY <1>1 DEF Status, StatusOf, IInv, ControlInv, TypeOK
<1>4. stored[r] \in Nat /\ stored'[r] \in {stored[r], stored[r] + 1}
  BY DEF IInv, ControlInv, TypeOK
<1>5. stored'[r] <= MaxRetries + 1
  BY <1>4, MaxRetriesPositive DEF IInv, CopiesOK, Copies, ControlInv, TypeOK
<1>6. StatusOf(f) = "delivered" => stored'[r] > 0
  BY <1>3, <1>4 DEF IInv, ControlInv, TypeOK
<1>7. stored' = [stored EXCEPT ![r] = stored'[r]]
  BY DEF IInv, ControlInv, TypeOK
<1> QED BY <1>2, <1>3, <1>4, <1>5, <1>6, <1>7 DEF Delivery!Resolve, Status, Phase

LEMMA RefineEnqueue ==
    ASSUME IInv, ~panicked, NEW r \in Records, Enqueue(r)
    PROVE  Delivery!Next
<1>1. ASSUME NEW f \in {"accepted", "dropped"}, fate' = [fate EXCEPT ![r] = f],
             ~ChClosed, UNCHANGED <<stopper, panicked, stored>>
      PROVE  Delivery!Submit(r)
  <2>1. /\ Status[r] = "unseen"
        /\ Status' = [Status EXCEPT ![r] = StatusOf(f)]
        /\ StatusOf(f) \in {"pending", "refused"}
    BY <1>1 DEF Enqueue, Status, StatusOf, IInv, ControlInv, TypeOK
  <2>2. Phase = "up" /\ Phase' = Phase
    BY <1>1 DEF Phase, ChClosed
  <2> QED BY <1>1, <2>1, <2>2 DEF Delivery!Submit, Status, Phase
<1>2. CASE EnqueuePanic(r)
  BY <1>2 DEF EnqueuePanic, serverVars, Delivery!Crash, Delivery!Next
<1>3. CASE EnqueueBuffered(r) \/ EnqueueHandoff(r) \/ EnqueueDrop(r)
  <2>1. Delivery!Submit(r)
    BY <1>1, <1>3 DEF EnqueueBuffered, EnqueueHandoff, EnqueueDrop, serverVars
  <2> QED BY <2>1 DEF Delivery!Next
<1> QED BY <1>2, <1>3 DEF Enqueue

LEMMA RefineWorker ==
    ASSUME IInv, IInv', ~panicked, NEW w \in Workers, WorkerStep(w)
    PROVE  [Delivery!Next]_Delivery!vars
<1>1. CASE ReceiveRecord(w) \/ ObserveStop(w) \/ ObserveClosed(w) \/ Backoff(w)
  BY <1>1, RefineStutter
     DEF ReceiveRecord, ObserveStop, ObserveClosed, Backoff, clientVars, serverVars
<1>2. CASE wpc[w] = "send"
  <2>1. PICK r \in Records : wrec[w] = r
    BY <1>2 DEF IInv, ControlInv, WorkerOK, TypeOK
  <2>2. fate[r] = "accepted"
    BY <2>1, LogClientAssumption
       DEF IInv, AcceptedInOnePlace, Held, WithFate, LogClientAssumption
  <2>3. CASE SendAccepted(w)
    <3>1. Delivery!Resolve(r)
      BY <1>2, <2>1, <2>3, RefineFinish DEF SendAccepted
    <3> QED BY <3>1 DEF Delivery!Next
  <2>4. CASE SendRejected(w)
    <3>1. Delivery!Resolve(r)
      BY <1>2, <2>1, <2>4, RefineFinish DEF SendRejected, serverVars
    <3> QED BY <3>1 DEF Delivery!Next
  <2>5. CASE SendFailed(w)
    <3>1. stored' \in {stored, [stored EXCEPT ![r] = @ + 1]}
      BY <2>1, <2>5 DEF SendFailed, TransientEffect, serverVars
    <3>2. CASE Finish(w, "exhausted")
      <4>1. Delivery!Resolve(r)
        BY <1>2, <2>1, <2>5, <3>1, <3>2, RefineFinish DEF SendFailed
      <4> QED BY <4>1 DEF Delivery!Next
    <3>3. CASE ~Finish(w, "exhausted")
      <4>1. UNCHANGED <<fate, panicked, stopper>>
        BY <2>5, <3>3 DEF SendFailed
      <4>2. CASE stored' = stored
        BY <4>1, <4>2, RefineStutter
      <4>3. CASE stored' = [stored EXCEPT ![r] = @ + 1]
        BY <2>2, <4>1, <4>3, RefineCopy DEF Delivery!Next
      <4> QED BY <3>1, <4>2, <4>3
    <3> QED BY <3>2, <3>3
  <2> QED BY <1>2, <2>3, <2>4, <2>5 DEF WorkerStep, ReceiveRecord, ObserveStop, ObserveClosed, Backoff
<1> QED BY <1>1, <1>2 DEF WorkerStep, SendAccepted, SendRejected, SendFailed

LEMMA RefineRest ==
    ASSUME IInv, IInv', ~panicked, CloseStopCh \/ StopStep
    PROVE  [Delivery!Next]_Delivery!vars
<1>1. CASE CloseStopCh \/ CloseCh
  BY <1>1, RefineStutter DEF CloseStopCh, CloseCh, serverVars
<1>2. CASE WaitReturns
  <2>1. \A r \in Records : fate[r] # "accepted"
    BY <1>2, AllDoneNothingAccepted DEF WaitReturns, WithFate
  <2>2. \A r \in Records : Status[r] # "pending"
    BY <2>1 DEF Status, StatusOf, IInv, ControlInv, TypeOK, Fates
  <2>3. Phase = "up" /\ Phase' = "stopped"
    BY <1>2 DEF Phase, WaitReturns
  <2>4. Delivery!Stop
    BY <1>2, <2>2, <2>3 DEF WaitReturns, Delivery!Stop, Status, Phase, serverVars
  <2> QED BY <2>4 DEF Delivery!Next
<1> QED BY <1>1, <1>2 DEF StopStep

LEMMA RefineLate ==
    ASSUME IInv, IInv', NEW r \in Records, LateFinish(r)
    PROVE  [Delivery!Next]_Delivery!vars
<1>1. fate[r] \notin {"idle", "dropped"}
  BY DEF LateFinish, IInv, CopiesOK, Copies, ControlInv, TypeOK
<1>2. UNCHANGED <<fate, panicked, stopper>>
  BY DEF LateFinish, clientVars
<1>3. CASE stored' = stored
  BY <1>2, <1>3, RefineStutter
<1>4. CASE stored' = [stored EXCEPT ![r] = @ + 1]
  BY <1>1, <1>2, <1>4, RefineCopy DEF Delivery!Next
<1> QED BY <1>3, <1>4 DEF LateFinish

\* The queue, the workers and the two channels, for any of their sizes, do no
\* more than LogDelivery allows.
THEOREM ClientImplementsDelivery == Spec => ImplementsDelivery
<1>1. IInv /\ IInv' /\ [Next]_vars => [Delivery!Next]_Delivery!vars
  <2> SUFFICES ASSUME IInv, IInv', [Next]_vars
               PROVE  [Delivery!Next]_Delivery!vars
    OBVIOUS
  <2>1. CASE ProcessStep
    BY <2>1, RefineEnqueue, RefineWorker, RefineRest DEF ProcessStep
  <2>2. CASE \E r \in Records : LateFinish(r)
    BY <2>2, RefineLate
  <2>3. CASE UNCHANGED vars
    BY <2>3, RefineStutter DEF vars
  <2> QED BY <2>1, <2>2, <2>3 DEF Next, Terminated
<1> QED BY <1>1, RefineInit, Invariance, PTL DEF Spec, ImplementsDelivery, Delivery!Spec
=============================================================================
