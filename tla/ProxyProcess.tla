---------------------------- MODULE ProxyProcess ----------------------------
(***************************************************************************)
(* cmd/proxy: the handlers, the log client and main in one process.        *)
(*                                                                         *)
(* A handler's step that calls Enqueue is one step with the client's       *)
(* Enqueue.  main waits for a signal, for server.Shutdown (the handlers)   *)
(* and, in its deferred call, for logClient.Stop (the workers).  Nothing   *)
(* waits for the goroutines of enqueueError.                               *)
(***************************************************************************)
EXTENDS Integers, Sequences, FiniteSets

CONSTANTS
    Requests, StreamRequests, LoggedRequests, MaxChunks,     \* ProxyHandler
    Workers, QueueSize, LogClientMaxRetries, NoRecord        \* LogClient

VARIABLES
    pc, client, status, readErr, captured, written, doneSeen, errlog, calls,
    ch, stopper, panicked, wpc, wrec, attempt, draining,
    dropped, sent, retries, fate, stored, lingering,
    main        \* how far cmd/proxy's main has gone

Handler == INSTANCE ProxyHandler

\* The record of a request goes by the request's name.
LogClient == INSTANCE LogClient WITH Records <- Requests

\* What the parts ask of their parameters.
ASSUME ProcessAssumption ==
    /\ Handler!HandlerAssumption
    /\ LogClient!LogClientAssumption

handlerVars == <<pc, client, status, readErr, captured, written, doneSeen,
                 errlog, calls>>
logVars == <<ch, stopper, panicked, wpc, wrec, attempt, draining,
             dropped, sent, retries, fate, stored, lingering>>
vars == <<handlerVars, logVars, main>>

\* os.Exit, the return of main and a panic outside a handler end the process.
Running == main \notin {"exited", "fatal"} /\ ~panicked

Init ==
    /\ Handler!Init
    /\ LogClient!Init
    /\ main = "serving"

-----------------------------------------------------------------------------
\* A connection accepted before Shutdown may still bring its request.
Arrive(r) ==
    /\ main \in {"serving", "shutdown"}
    /\ Handler!Arrive(r)
    /\ UNCHANGED <<logVars, main>>

\* Bug variant: a full queue is noticed before Enqueue, which would count the drop.
WithEnqueueIfRoom(r) ==
    /\ IF calls' = calls \/ Len(ch) = QueueSize THEN UNCHANGED logVars
       ELSE LogClient!Enqueue(r)
    /\ UNCHANGED main

\* A handler's step, together with Enqueue where the handler calls it.
WithEnqueue(r) ==
    /\ IF calls' = calls THEN UNCHANGED logVars ELSE LogClient!Enqueue(r)
    /\ UNCHANGED main

OwnStep(r) == Running /\ Handler!OwnStep(r) /\ WithEnqueue(r)
ClientStep(r) == Running /\ Handler!ClientStep(r) /\ WithEnqueue(r)
ErrorRecordStep(r) == Running /\ Handler!LogErrorRecord(r) /\ WithEnqueue(r)

ClientLeaves(r) ==
    /\ Handler!ClientLeaves(r)
    /\ UNCHANGED <<logVars, main>>

WorkerStep(w) ==
    /\ Running
    /\ LogClient!WorkerStep(w)
    /\ UNCHANGED <<handlerVars, main>>

-----------------------------------------------------------------------------
(* main.                                                                   *)

HandlersReturned == \A r \in Requests : pc[r] \in {"idle", "done"}

Signal ==
    /\ main = "serving"
    /\ main' = "shutdown"
    /\ UNCHANGED <<handlerVars, logVars>>

\* Bug variant: main goes on to Stop while Shutdown still waits for handlers.
ShutdownAbandoned ==
    /\ main = "shutdown"
    /\ main' = "stopping"
    /\ UNCHANGED <<handlerVars, logVars>>

\* Shutdown(context.Background()) waits for the handlers without a deadline.
ShutdownReturns ==
    /\ main = "shutdown"
    /\ HandlersReturned
    /\ main' = "stopping"
    /\ UNCHANGED <<handlerVars, logVars>>

\* log.Fatalf, when serving ends or Shutdown returns an error, skips the Stop.
Fatal ==
    /\ \/ main = "serving"
       \/ main = "shutdown" /\ HandlersReturned
    /\ main' = "fatal"
    /\ UNCHANGED <<handlerVars, logVars>>

\* The deferred logClient.Stop().
Stop ==
    /\ main = "stopping"
    /\ LogClient!CloseStopCh \/ LogClient!StopStep
    /\ UNCHANGED <<handlerVars, main>>

\* Bug variant: main returns without Stop.
ExitWithoutStop ==
    /\ main = "stopping"
    /\ main' = "exited"
    /\ UNCHANGED <<handlerVars, logVars>>

Exit ==
    /\ main = "stopping"
    /\ stopper = "stopped"
    /\ main' = "exited"
    /\ UNCHANGED <<handlerVars, logVars>>

MainStep == Running /\ (Signal \/ ShutdownReturns \/ Fatal \/ Stop \/ Exit)

-----------------------------------------------------------------------------
\* The log server goes on without the proxy.
LateFinish(r) ==
    /\ LogClient!LateFinish(r)
    /\ UNCHANGED <<handlerVars, main>>

Ended == ~Running /\ UNCHANGED vars

Next ==
    \/ \E r \in Requests :
          \/ Running /\ (Arrive(r) \/ ClientLeaves(r))
          \/ OwnStep(r) \/ ClientStep(r) \/ ErrorRecordStep(r)
          \/ LateFinish(r)
    \/ \E w \in Workers : WorkerStep(w)
    \/ MainStep
    \/ Ended

Spec == Init /\ [][Next]_vars

\* Go runs the handlers and UPSTREAM_TIMEOUT ends their waits for the upstream.
\* Nothing is assumed of the clients, which may stall, nor of the workers and
\* the log server: logging may be stuck for ever.
FairSpec == Spec /\ \A r \in Requests : WF_vars(OwnStep(r))

-----------------------------------------------------------------------------
(* Properties.                                                             *)

TypeOK ==
    /\ Handler!TypeOK
    /\ LogClient!TypeOK
    /\ main \in {"serving", "shutdown", "stopping", "exited", "fatal"}

Decided(r) == fate[r] \in {"dropped", "sent", "rejected", "exhausted"}

\* README "Graceful Shutdown": when main has returned, every record a handler
\* handed to the client itself is decided.  It takes Shutdown before Stop, and
\* Stop's wait for the drain; only goroutines of enqueueError may be left over.
ExitLosesNothing ==
    main = "exited" =>
        \A r \in LoggedRequests :
            pc[r] # "idle" /\ errlog[r] = "none" => Decided(r)

\* Only a goroutine of enqueueError can meet the closed channel: a handler
\* never calls Enqueue once Stop has begun.
HandlersDoneBeforeStop ==
    /\ stopper # "running" => HandlersReturned
    /\ panicked => \E r \in LoggedRequests :
                      errlog[r] = "called" /\ fate[r] = "idle"

\* From the request to the log server: a logged request whose handler has returned
\* is pending, decided, or in the hands of its enqueueError goroutine, and only a
\* panic loses track of it; nothing reaches the log server that no handler handed
\* over, not even long after the process is gone.
EveryRequestAccounted ==
    \A r \in Requests :
        /\ r \in LoggedRequests /\ pc[r] = "done" /\ errlog[r] # "ready" =>
              fate[r] # "idle" \/ panicked
        /\ calls[r] = 0 => stored[r] + lingering[r] = 0

\* README "The proxy never blocks OpenAI traffic, even if the log server is
\* unavailable": a handler that waits, waits for its own client; the queue, the
\* workers and the log server cannot hold it, even if they never move again.
NeverBlocksTraffic ==
    \A r \in Requests :
        []<>(\/ pc[r] \in {"idle", "body", "write", "answer", "done"}
             \/ ~Running)

\* A signal ends the process in the end: Shutdown waits for handlers and Stop for
\* workers, neither of which may wait for the other.  Shutdown has no deadline,
\* so it takes clients that do not stall; the log server may stay down.
ClientsRespond == \A r \in Requests : WF_vars(ClientStep(r))
WorkersRun == \A w \in Workers : WF_vars(WorkerStep(w))
MainGoesOn == WF_vars(Running /\ (ShutdownReturns \/ Stop \/ Exit))

ShutdownCompletes ==
    ClientsRespond /\ WorkersRun /\ MainGoesOn =>
        (main = "shutdown" ~> ~Running)

\* client.go "It never blocks and never fails", of Enqueue: no call of it ends
\* the process.
EnqueueNeverFails == ~panicked
=============================================================================
