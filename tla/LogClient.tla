----------------------------- MODULE LogClient -----------------------------
(***************************************************************************)
(* internal/logclient: the bounded queue between the proxy's handlers and  *)
(* the worker goroutines that POST records to the log server.              *)
(*                                                                         *)
(* One atomic step per channel operation or HTTP attempt.  Handlers call   *)
(* Enqueue, each worker runs worker()/sendWithRetry(), and main's deferred *)
(* Stop() closes stopCh, closes ch and waits for the workers.  The log     *)
(* server is the environment: it may write a record whose answer is lost,  *)
(* or write it after the client's timeout, while the client retries.       *)
(***************************************************************************)
EXTENDS Integers, Sequences, FiniteSets

CONSTANTS
    Records,                \* the records handlers will hand over, once each
    Workers,                \* the worker goroutines Start launches
    QueueSize,              \* LOG_QUEUE_SIZE, the capacity of ch
    LogClientMaxRetries,    \* LOG_CLIENT_MAX_RETRIES as configured
    NoRecord                \* what an idle worker holds

\* NewClient replaces a worker count <= 0 by 4, so there is a worker; make(chan)
\* would panic on a negative size; any integer is accepted for the retries.
ASSUME LogClientAssumption ==
    /\ IsFiniteSet(Records) /\ NoRecord \notin Records
    /\ Workers # {}
    /\ QueueSize \in Nat
    /\ LogClientMaxRetries \in Int

VARIABLES
    ch,         \* contents of the channel c.ch
    stopper,    \* how far Stop() has gone
    panicked,   \* a send on the closed ch killed the process
    wpc,        \* where each worker is
    wrec,       \* the record in the worker's sendWithRetry call
    attempt,    \* its loop variable
    draining,   \* workers that took the <-stopCh case
    dropped, sent, retries,   \* the atomic counters of Client
    fate,       \* what the code has decided about each record (history)
    stored,     \* copies the log server has written (environment)
    lingering   \* POSTs the client timed out on, still running at the server

clientVars == <<ch, stopper, panicked, dropped, sent, retries, fate>>
workerVars == <<wpc, wrec, attempt, draining>>
serverVars == <<stored, lingering>>
vars == <<ch, stopper, panicked, dropped, sent, retries, fate,
          wpc, wrec, attempt, draining, stored, lingering>>

Fates == {"idle", "accepted", "dropped", "sent", "rejected", "exhausted"}

\* sendWithRetry replaces a bound that is not positive by 2.
MaxRetries == IF LogClientMaxRetries <= 0 THEN 2 ELSE LogClientMaxRetries

StopChClosed == stopper # "running"
ChClosed == stopper \in {"waiting", "stopped"}

Held == {wrec[w] : w \in {v \in Workers : wrec[v] # NoRecord}}
Queued == {ch[i] : i \in 1..Len(ch)}
WithFate(f) == {r \in Records : fate[r] = f}

Init ==
    /\ ch = <<>>
    /\ stopper = "running"
    /\ panicked = FALSE
    /\ wpc = [w \in Workers |-> "receive"]
    /\ wrec = [w \in Workers |-> NoRecord]
    /\ attempt = [w \in Workers |-> 0]
    /\ draining = {}
    /\ dropped = 0 /\ sent = 0 /\ retries = 0
    /\ fate = [r \in Records |-> "idle"]
    /\ stored = [r \in Records |-> 0]
    /\ lingering = [r \in Records |-> 0]

-----------------------------------------------------------------------------
(* Enqueue: a select with a default, so it never waits.                    *)

EnqueueBuffered(r) ==
    /\ ~ChClosed
    /\ Len(ch) < QueueSize
    /\ ch' = Append(ch, r)
    /\ fate' = [fate EXCEPT ![r] = "accepted"]
    /\ UNCHANGED <<stopper, panicked, dropped, sent, retries,
                   workerVars, serverVars>>

\* Bug variant: the record goes to any worker that has not returned.
HandoffToBusyWorker(r) ==
    /\ ~ChClosed
    /\ QueueSize = 0
    /\ \E w \in Workers :
          /\ wpc[w] # "done"
          /\ wpc' = [wpc EXCEPT ![w] = "send"]
          /\ wrec' = [wrec EXCEPT ![w] = r]
          /\ attempt' = [attempt EXCEPT ![w] = 0]
    /\ fate' = [fate EXCEPT ![r] = "accepted"]
    /\ UNCHANGED <<ch, stopper, panicked, dropped, sent, retries,
                   draining, serverVars>>

\* With LOG_QUEUE_SIZE=0 a send succeeds only into a worker waiting to receive.
EnqueueHandoff(r) ==
    /\ ~ChClosed
    /\ QueueSize = 0
    /\ \E w \in Workers :
          /\ wpc[w] = "receive"
          /\ wpc' = [wpc EXCEPT ![w] = "send"]
          /\ wrec' = [wrec EXCEPT ![w] = r]
    /\ fate' = [fate EXCEPT ![r] = "accepted"]
    /\ UNCHANGED <<ch, stopper, panicked, dropped, sent, retries,
                   attempt, draining, serverVars>>

\* Bug variant: a full queue makes room by dropping its oldest record.
EnqueueDropOldest(r) ==
    /\ ~ChClosed
    /\ Len(ch) >= QueueSize
    /\ ch # <<>>
    /\ ch' = Append(Tail(ch), r)
    /\ dropped' = dropped + 1
    /\ fate' = [fate EXCEPT ![r] = "accepted"]
    /\ UNCHANGED <<stopper, panicked, sent, retries, workerVars, serverVars>>

\* Bug variant: a plain send, which waits while the queue is full.
EnqueueWaits(r) == FALSE

EnqueueDrop(r) ==
    /\ ~ChClosed
    /\ Len(ch) >= QueueSize
    /\ dropped' = dropped + 1
    /\ fate' = [fate EXCEPT ![r] = "dropped"]
    /\ UNCHANGED <<ch, stopper, panicked, sent, retries,
                   workerVars, serverVars>>

\* A send on a closed channel panics, with or without a default case.
EnqueuePanic(r) ==
    /\ ChClosed
    /\ panicked' = TRUE
    /\ UNCHANGED <<ch, stopper, dropped, sent, retries, fate,
                   workerVars, serverVars>>

Enqueue(r) ==
    /\ fate[r] = "idle"
    /\ \/ EnqueueBuffered(r)
       \/ EnqueueHandoff(r)
       \/ EnqueueDrop(r)
       \/ EnqueuePanic(r)

-----------------------------------------------------------------------------
(* worker: the select of the loop, and the range of the drain.             *)

\* The receive case of the select, or an iteration of the range.
ReceiveRecord(w) ==
    /\ wpc[w] = "receive"
    /\ ch # <<>>
    /\ ch' = Tail(ch)
    /\ wrec' = [wrec EXCEPT ![w] = Head(ch)]
    /\ wpc' = [wpc EXCEPT ![w] = "send"]
    /\ UNCHANGED <<stopper, panicked, dropped, sent, retries, fate,
                   attempt, draining, serverVars>>

\* The <-stopCh case; the select may also prefer a record that is ready.
ObserveStop(w) ==
    /\ wpc[w] = "receive"
    /\ w \notin draining
    /\ StopChClosed
    /\ draining' = draining \cup {w}
    /\ UNCHANGED <<clientVars, wpc, wrec, attempt, serverVars>>

\* Bug variant: the worker returns on <-stopCh without draining ch.
WorkerExitsOnStop(w) ==
    /\ wpc[w] = "receive"
    /\ StopChClosed
    /\ wpc' = [wpc EXCEPT ![w] = "done"]
    /\ UNCHANGED <<clientVars, wrec, attempt, draining, serverVars>>

\* The worker returns: !ok in the select, or the end of the range.
ObserveClosed(w) ==
    /\ wpc[w] = "receive"
    /\ ch = <<>>
    /\ ChClosed
    /\ wpc' = [wpc EXCEPT ![w] = "done"]
    /\ UNCHANGED <<clientVars, wrec, attempt, draining, serverVars>>

-----------------------------------------------------------------------------
(* sendWithRetry and send.                                                 *)

\* sendWithRetry returns to the loop it was called from.
Finish(w, f) ==
    /\ fate' = [fate EXCEPT ![wrec[w]] = f]
    /\ wpc' = [wpc EXCEPT ![w] = "receive"]
    /\ wrec' = [wrec EXCEPT ![w] = NoRecord]
    /\ attempt' = [attempt EXCEPT ![w] = 0]

SendAccepted(w) ==
    /\ wpc[w] = "send"
    /\ stored' = [stored EXCEPT ![wrec[w]] = @ + 1]
    /\ sent' = sent + 1
    /\ Finish(w, "sent")
    /\ UNCHANGED <<ch, stopper, panicked, dropped, retries, draining, lingering>>

\* Bug variant: send looks at 5xx answers only, so a 4xx counts as sent.
SendRejectedUnnoticed(w) ==
    /\ wpc[w] = "send"
    /\ sent' = sent + 1
    /\ Finish(w, "sent")
    /\ UNCHANGED <<ch, stopper, panicked, dropped, retries, draining,
                   serverVars>>

\* A 4xx answer: permanentError, no further attempt.
SendRejected(w) ==
    /\ wpc[w] = "send"
    /\ Finish(w, "rejected")
    /\ UNCHANGED <<ch, stopper, panicked, dropped, sent, retries, draining,
                   serverVars>>

\* A 5xx answer or a transport error.  The server wrote nothing, or it wrote
\* the record and the answer was lost, or its handler outlives the client's
\* 10s timeout.
TransientEffect(r) ==
    \/ UNCHANGED serverVars
    \/ /\ stored' = [stored EXCEPT ![r] = @ + 1]
       /\ UNCHANGED lingering
    \/ /\ lingering' = [lingering EXCEPT ![r] = @ + 1]
       /\ UNCHANGED stored

\* Bug variant: one attempt too many.
SendFailedOnceMore(w) ==
    /\ wpc[w] = "send"
    /\ TransientEffect(wrec[w])
    /\ \/ /\ attempt[w] <= MaxRetries
          /\ wpc' = [wpc EXCEPT ![w] = "backoff"]
          /\ UNCHANGED <<wrec, attempt, fate>>
       \/ /\ attempt[w] > MaxRetries
          /\ Finish(w, "exhausted")
    /\ UNCHANGED <<ch, stopper, panicked, dropped, sent, retries, draining>>

\* Bug variant: a transient error puts the record back into ch.
SendFailedRequeue(w) ==
    /\ wpc[w] = "send"
    /\ ch' = Append(ch, wrec[w])
    /\ Finish(w, "accepted")
    /\ UNCHANGED <<stopper, panicked, dropped, sent, retries, draining,
                   serverVars>>

SendFailed(w) ==
    /\ wpc[w] = "send"
    /\ TransientEffect(wrec[w])
    /\ \/ /\ attempt[w] < MaxRetries
          /\ wpc' = [wpc EXCEPT ![w] = "backoff"]
          /\ UNCHANGED <<wrec, attempt, fate>>
       \/ /\ attempt[w] >= MaxRetries
          /\ Finish(w, "exhausted")
    /\ UNCHANGED <<ch, stopper, panicked, dropped, sent, retries, draining>>

\* The jittered sleep at the head of the next iteration.
Backoff(w) ==
    /\ wpc[w] = "backoff"
    /\ attempt' = [attempt EXCEPT ![w] = @ + 1]
    /\ retries' = retries + 1
    /\ wpc' = [wpc EXCEPT ![w] = "send"]
    /\ UNCHANGED <<ch, stopper, panicked, dropped, sent, fate, wrec, draining,
                   serverVars>>

\* The log server ends a POST nobody waits for, with or without writing it.
LateFinish(r) ==
    /\ lingering[r] > 0
    /\ lingering' = [lingering EXCEPT ![r] = @ - 1]
    /\ stored' \in {stored, [stored EXCEPT ![r] = @ + 1]}
    /\ UNCHANGED <<clientVars, workerVars>>

-----------------------------------------------------------------------------
(* Stop.                                                                   *)

CloseStopCh ==
    /\ stopper = "running"
    /\ stopper' = "stopping"
    /\ UNCHANGED <<ch, panicked, dropped, sent, retries, fate,
                   workerVars, serverVars>>

CloseCh ==
    /\ stopper = "stopping"
    /\ stopper' = "waiting"
    /\ UNCHANGED <<ch, panicked, dropped, sent, retries, fate,
                   workerVars, serverVars>>

\* Bug variant: Stop does not wait for the workers.
StopWithoutWait ==
    /\ stopper = "waiting"
    /\ stopper' = "stopped"
    /\ UNCHANGED <<ch, panicked, dropped, sent, retries, fate,
                   workerVars, serverVars>>

\* wg.Wait returns once every worker has called Done.
WaitReturns ==
    /\ stopper = "waiting"
    /\ \A w \in Workers : wpc[w] = "done"
    /\ stopper' = "stopped"
    /\ UNCHANGED <<ch, panicked, dropped, sent, retries, fate,
                   workerVars, serverVars>>

-----------------------------------------------------------------------------
WorkerStep(w) ==
    \/ ReceiveRecord(w) \/ ObserveStop(w) \/ ObserveClosed(w)
    \/ SendAccepted(w) \/ SendRejected(w) \/ SendFailed(w) \/ Backoff(w)

StopStep == CloseCh \/ WaitReturns

\* One step of the proxy process, which a panic ends.
ProcessStep ==
    /\ ~panicked
    /\ \/ \E r \in Records : Enqueue(r)
       \/ \E w \in Workers : WorkerStep(w)
       \/ CloseStopCh
       \/ StopStep

\* Stop has returned, or the process is gone: nothing more need happen.
Terminated ==
    /\ panicked \/ stopper = "stopped"
    /\ UNCHANGED vars

Next ==
    \/ ProcessStep
    \/ \E r \in Records : LateFinish(r)
    \/ Terminated

Spec == Init /\ [][Next]_vars

\* Go runs every goroutine that can run, the HTTP client gives up after 10s and
\* a sleep ends, so each worker keeps going, and so does Stop once called.
\* Nothing is assumed of the handlers, of the server's late POSTs, or of when
\* Stop is called.
FairSpec ==
    /\ Spec
    /\ \A w \in Workers : WF_vars(~panicked /\ WorkerStep(w))
    /\ WF_vars(~panicked /\ StopStep)

-----------------------------------------------------------------------------
(* Properties.                                                             *)

TypeOK ==
    /\ ch \in Seq(Records)
    /\ stopper \in {"running", "stopping", "waiting", "stopped"}
    /\ panicked \in BOOLEAN
    /\ wpc \in [Workers -> {"receive", "send", "backoff", "done"}]
    /\ wrec \in [Workers -> Records \cup {NoRecord}]
    /\ attempt \in [Workers -> 0..MaxRetries]
    /\ draining \in SUBSET Workers
    /\ dropped \in Nat /\ sent \in Nat /\ retries \in Nat
    /\ fate \in [Records -> Fates]
    /\ stored \in [Records -> Nat]
    /\ lingering \in [Records -> Nat]

\* A record that Enqueue took on and that is not yet decided is in exactly one
\* place: one slot of ch or the hands of one worker.  Neither a second worker,
\* nor the drain, nor a retry loses or duplicates it inside the client.
AcceptedInOnePlace ==
    /\ WithFate("accepted") = Queued \cup Held
    /\ Queued \cap Held = {}
    /\ \A i, j \in 1..Len(ch) : ch[i] = ch[j] => i = j
    /\ \A v, w \in Workers : wrec[v] = wrec[w] /\ v # w => wrec[v] = NoRecord

\* TestStopDrainsRemainingRecords: when Stop returns, no accepted record is left
\* undecided, whichever of stopCh, ch and the records the workers saw first.
StopDrains == stopper = "stopped" => WithFate("accepted") = {}

\* What SentCount and DroppedCount report is what happened to the records:
\* sent records are at the server, dropped ones never got there, and every
\* record handed over is counted, pending, rejected or exhausted.
CountersTellTheTruth ==
    /\ sent = Cardinality(WithFate("sent"))
    /\ dropped = Cardinality(WithFate("dropped"))
    /\ \A r \in WithFate("sent") : stored[r] > 0
    /\ \A r \in WithFate("dropped") \cup WithFate("idle") : stored[r] = 0

\* Lost answers and timeouts make duplicates at the log server, but never more
\* than one copy per attempt, counting the POSTs still running there.
CopiesBounded ==
    \A r \in Records : stored[r] + lingering[r] <= MaxRetries + 1

\* Every record the client took on is sent, rejected or given up after its
\* retries, with the log server up or down, before and during Stop: records are
\* handed over once each, so in the end none is left undecided.
AcceptedIsDecided == <>[](WithFate("accepted") = {} \/ panicked)

\* Stop returns once called: no worker waits forever on ch or in its drain.
StopReturns == stopper # "running" ~> (stopper = "stopped" \/ panicked)

-----------------------------------------------------------------------------
(* The client keeps the promise of LogDelivery.                            *)

StatusOf(f) ==
    CASE f = "idle" -> "unseen"
      [] f = "accepted" -> "pending"
      [] f = "dropped" -> "refused"
      [] f = "sent" -> "delivered"
      [] OTHER -> "abandoned"

Delivery == INSTANCE LogDelivery WITH
    Attempts <- MaxRetries + 1,
    status <- [r \in Records |-> StatusOf(fate[r])],
    copies <- stored,
    phase <- IF panicked THEN "crashed"
             ELSE IF stopper = "stopped" THEN "stopped" ELSE "up"

\* The queue, the workers and the two channels together do no more than
\* LogDelivery allows.
ImplementsDelivery == Delivery!Spec
=============================================================================
