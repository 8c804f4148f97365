------------------------- MODULE ProxyProcessProofs -------------------------
(***************************************************************************)
(* Proofs about ProxyProcess, for any requests, workers and queue: each    *)
(* part keeps its own invariant and its promise inside the process, the    *)
(* order of Shutdown and Stop keeps every handler off the closed channel,  *)
(* an orderly exit leaves no record undecided, and every logged request is *)
(* accounted for between the handlers, the client and the log server.      *)
(***************************************************************************)
EXTENDS ProxyProcess, TLAPS

HP == INSTANCE ProxyHandlerProofs
CP == INSTANCE LogClientProofs WITH Records <- Requests

-----------------------------------------------------------------------------
(* The parts inside the process.  A step of the process is a step of each  *)
(* part or leaves that part alone, so what is proved of a part by itself   *)
(* holds here.                                                             *)

LEMMA SameHandler ==
    /\ Handler!Init => HP!Init
    /\ [Handler!Next]_(Handler!vars) => [HP!Next]_(HP!vars)
    /\ HP!TypeOK => Handler!TypeOK
BY DEF Handler!Next, HP!Next, Handler!HandlerStep, HP!HandlerStep,
       Handler!OwnStep, HP!OwnStep, Handler!ClientStep, HP!ClientStep,
       Handler!ClientLeaves, HP!ClientLeaves, Handler!Settled, HP!Settled,
       Handler!EnqueueError, HP!EnqueueError, Handler!LogErrorRecord, HP!LogErrorRecord,
       Handler!Arrive, HP!Arrive, Handler!ReadBody, HP!ReadBody,
       Handler!ReadBodyFails, HP!ReadBodyFails,
       Handler!NewRequestFails, HP!NewRequestFails, Handler!DoFails, HP!DoFails,
       Handler!DoReturns, HP!DoReturns, Handler!ReadResponse, HP!ReadResponse,
       Handler!ReadResponseFails, HP!ReadResponseFails,
       Handler!EnqueueRecord, HP!EnqueueRecord, Handler!Answer, HP!Answer,
       Handler!StreamRead, HP!StreamRead, Handler!StreamWrite, HP!StreamWrite,
       Handler!StreamWriteFails, HP!StreamWriteFails,
       Handler!StatusAtReadError, HP!StatusAtReadError,
       Handler!StreamCheck, HP!StreamCheck, Handler!StreamFinish, HP!StreamFinish,
       Handler!ContextDone, HP!ContextDone, Handler!Log, HP!Log,
       Handler!streamVars, HP!streamVars, Handler!vars, HP!vars, Handler!Init, HP!Init,
       Handler!TypeOK, HP!TypeOK, Handler!Places, HP!Places,
       Handler!Statuses, HP!Statuses

LEMMA SameClient ==
    /\ LogClient!Init => CP!Init
    /\ [LogClient!Next]_(LogClient!vars) => [CP!Next]_(CP!vars)
    /\ CP!TypeOK => LogClient!TypeOK
BY DEF LogClient!Next, CP!Next, LogClient!ProcessStep, CP!ProcessStep,
       LogClient!Enqueue, CP!Enqueue, LogClient!EnqueueBuffered, CP!EnqueueBuffered,
       LogClient!EnqueueHandoff, CP!EnqueueHandoff,
       LogClient!EnqueueDrop, CP!EnqueueDrop, LogClient!EnqueuePanic, CP!EnqueuePanic,
       LogClient!ChClosed, CP!ChClosed, LogClient!StopChClosed, CP!StopChClosed,
       LogClient!WorkerStep, CP!WorkerStep, LogClient!ReceiveRecord, CP!ReceiveRecord,
       LogClient!ObserveStop, CP!ObserveStop, LogClient!ObserveClosed, CP!ObserveClosed,
       LogClient!SendAccepted, CP!SendAccepted, LogClient!SendRejected, CP!SendRejected,
       LogClient!SendFailed, CP!SendFailed, LogClient!Backoff, CP!Backoff,
       LogClient!Finish, CP!Finish, LogClient!TransientEffect, CP!TransientEffect,
       LogClient!LateFinish, CP!LateFinish, LogClient!CloseStopCh, CP!CloseStopCh,
       LogClient!StopStep, CP!StopStep, LogClient!CloseCh, CP!CloseCh,
       LogClient!WaitReturns, CP!WaitReturns, LogClient!Terminated, CP!Terminated,
       LogClient!MaxRetries, CP!MaxRetries, LogClient!clientVars, CP!clientVars,
       LogClient!workerVars, CP!workerVars, LogClient!serverVars, CP!serverVars,
       LogClient!vars, CP!vars, LogClient!Init, CP!Init, LogClient!TypeOK, CP!TypeOK,
       LogClient!Fates, CP!Fates

LEMMA HandlerPart == [Next]_vars => [Handler!Next]_(Handler!vars)
BY DEF Next, Arrive, ClientLeaves, OwnStep, ClientStep, ErrorRecordStep, LateFinish,
       WorkerStep, MainStep, Signal, ShutdownReturns, Fatal, Stop, Exit, Ended, vars,
       handlerVars, Handler!vars, Handler!streamVars, Handler!Next, Handler!HandlerStep

LEMMA ClientPart == [Next]_vars => [LogClient!Next]_(LogClient!vars)
BY DEF Next, Arrive, ClientLeaves, OwnStep, ClientStep, ErrorRecordStep, LateFinish,
       WithEnqueue, WorkerStep, MainStep, Running, Signal, ShutdownReturns, Fatal, Stop,
       Exit, Ended, vars, logVars, LogClient!vars, LogClient!Next, LogClient!ProcessStep

PartsInv == HP!IInv /\ CP!IInv

LEMMA PartsAssumptions == HP!HandlerAssumption /\ CP!LogClientAssumption
BY ProcessAssumption
   DEF Handler!HandlerAssumption, HP!HandlerAssumption, LogClient!LogClientAssumption,
       LogClient!IsFiniteSet, CP!LogClientAssumption, CP!IsFiniteSet

LEMMA InitParts == Init => PartsInv
BY SameHandler, SameClient, HP!InitInvariant, CP!InitInvariant, PartsAssumptions
   DEF Init, PartsInv

LEMMA NextParts == PartsInv /\ [Next]_vars => PartsInv'
BY HandlerPart, ClientPart, SameHandler, SameClient, HP!NextInvariant,
   CP!NextInvariant, PartsAssumptions DEF PartsInv

\* A behaviour of the process is one of the handlers and one of the client: what
\* is proved of ProxyHandler and of LogClient holds of cmd/proxy.
THEOREM ProcessComposed == Spec => Handler!Spec /\ LogClient!Spec
<1>1. Init => Handler!Init /\ LogClient!Init
  BY DEF Init
<1> QED BY <1>1, HandlerPart, ClientPart, PTL DEF Spec, Handler!Spec, LogClient!Spec

LEMMA PartsSpecs == Spec => HP!Spec /\ CP!Spec
<1>1. Init => HP!Init /\ CP!Init
  BY SameHandler, SameClient DEF Init
<1>2. [Next]_vars => [HP!Next]_(HP!vars) /\ [CP!Next]_(CP!vars)
  BY HandlerPart, ClientPart, SameHandler, SameClient
<1> QED BY <1>1, <1>2, PTL DEF Spec, HP!Spec, CP!Spec

\* Inside cmd/proxy, too, the client keeps the promise of LogDelivery.
THEOREM ProcessImplementsDelivery == Spec => LogClient!ImplementsDelivery
<1>1. CP!Delivery!Init => LogClient!Delivery!Init
  BY DEF CP!Delivery!Init, LogClient!Delivery!Init, CP!StatusOf, LogClient!StatusOf
<1>2. [CP!Delivery!Next]_(CP!Delivery!vars)
         => [LogClient!Delivery!Next]_(LogClient!Delivery!vars)
  BY DEF CP!Delivery!Next, LogClient!Delivery!Next, CP!StatusOf, LogClient!StatusOf,
         CP!Delivery!vars, LogClient!Delivery!vars, CP!MaxRetries, LogClient!MaxRetries,
         CP!Delivery!Submit, LogClient!Delivery!Submit, CP!Delivery!StoreCopy,
         LogClient!Delivery!StoreCopy, CP!Delivery!Resolve, LogClient!Delivery!Resolve,
         CP!Delivery!Stop, LogClient!Delivery!Stop, CP!Delivery!Crash,
         LogClient!Delivery!Crash
<1> QED BY <1>1, <1>2, PartsSpecs, CP!ClientImplementsDelivery, PartsAssumptions, PTL
        DEF CP!ImplementsDelivery, LogClient!ImplementsDelivery, CP!Delivery!Spec,
            LogClient!Delivery!Spec

\* What the proof needs to know of the shape of the state.
ShapeInv ==
    /\ pc \in [Requests -> Handler!Places]
    /\ errlog \in [Requests -> {"none", "ready", "called"}]
    /\ calls \in [Requests -> Nat]

\* main calls Stop once Shutdown has seen every handler return, and from then on
\* no request arrives.
PhaseInv ==
    /\ stopper # "running" => main \in {"stopping", "exited"}
    /\ main \in {"stopping", "exited"} => HandlersReturned

PanicInv ==
    panicked => \E r \in LoggedRequests : errlog[r] = "called" /\ fate[r] = "idle"

IInv == ShapeInv /\ PhaseInv /\ PanicInv

-----------------------------------------------------------------------------
(* What the parts leave alone.                                             *)

\* A call of Enqueue does not touch Stop's progress; it panics only on the closed
\* channel, and then decides nothing.
LEMMA EnqueueEffect ==
    ASSUME NEW r \in Requests, LogClient!Enqueue(r)
    PROVE  /\ stopper' = stopper
           /\ \/ panicked' = panicked
              \/ stopper # "running" /\ fate[r] = "idle" /\ fate' = fate
BY DEF LogClient!Enqueue, LogClient!EnqueueBuffered, LogClient!EnqueueHandoff,
       LogClient!EnqueueDrop, LogClient!EnqueuePanic, LogClient!ChClosed

\* A worker touches neither Stop's progress nor the life of the process.
LEMMA WorkerEffect ==
    ASSUME NEW w \in Workers, LogClient!WorkerStep(w)
    PROVE  stopper' = stopper /\ panicked' = panicked
BY DEF LogClient!WorkerStep, LogClient!ReceiveRecord, LogClient!ObserveStop,
       LogClient!ObserveClosed, LogClient!SendAccepted, LogClient!SendRejected,
       LogClient!SendFailed, LogClient!Backoff, LogClient!clientVars

\* A handler that takes a step of its own has not returned.
LEMMA HandlerBusy ==
    ASSUME ShapeInv, NEW r \in Requests, Handler!OwnStep(r) \/ Handler!ClientStep(r)
    PROVE  ~HandlersReturned /\ ShapeInv'
<1>1. pc[r] \notin {"idle", "done"}
  BY DEF Handler!OwnStep, Handler!ClientStep, Handler!NewRequestFails,
         Handler!DoFails, Handler!DoReturns, Handler!ReadResponse,
         Handler!ReadResponseFails, Handler!EnqueueRecord, Handler!StreamRead,
         Handler!StreamWriteFails, Handler!StreamCheck, Handler!StreamFinish,
         Handler!ReadBody, Handler!ReadBodyFails, Handler!StreamWrite,
         Handler!Answer
<1>2. ShapeInv'
  BY DEF ShapeInv, Handler!Places, Handler!Log, Handler!OwnStep, Handler!ClientStep,
         Handler!NewRequestFails, Handler!EnqueueError,
         Handler!DoFails, Handler!DoReturns, Handler!ReadResponse,
         Handler!ReadResponseFails, Handler!EnqueueRecord, Handler!StreamRead,
         Handler!StreamWriteFails, Handler!StreamCheck, Handler!StreamFinish,
         Handler!ReadBody, Handler!ReadBodyFails, Handler!StreamWrite,
         Handler!Answer
<1> QED BY <1>1, <1>2 DEF HandlersReturned

-----------------------------------------------------------------------------
(* The invariant.                                                          *)

LEMMA InitInvariant == Init => IInv
BY DEF Init, IInv, ShapeInv, PhaseInv, PanicInv, Handler!Init, Handler!Places,
       LogClient!Init

LEMMA ArriveKeeps ==
    ASSUME IInv, Running, NEW r \in Requests, Arrive(r)
    PROVE  IInv'
<1>1. ShapeInv'
  BY DEF IInv, ShapeInv, Arrive, Handler!Arrive, Handler!Places
<1>2. PhaseInv'
  BY DEF IInv, PhaseInv, Arrive, logVars
<1>3. PanicInv'
  BY DEF Running, Arrive, logVars, PanicInv
<1> QED BY <1>1, <1>2, <1>3 DEF IInv

LEMMA HandlerStepKeeps ==
    ASSUME IInv, NEW r \in Requests, OwnStep(r) \/ ClientStep(r)
    PROVE  IInv'
<1>1. Running /\ WithEnqueue(r) /\ (Handler!OwnStep(r) \/ Handler!ClientStep(r))
  BY DEF OwnStep, ClientStep
<1>2. ~HandlersReturned /\ ShapeInv'
  BY <1>1, HandlerBusy DEF IInv
<1>3. stopper = "running" /\ main \notin {"stopping", "exited"}
  BY <1>2 DEF IInv, PhaseInv
<1>4. stopper' = stopper /\ panicked' = panicked /\ main' = main
  BY <1>1, <1>3, EnqueueEffect DEF WithEnqueue, logVars
<1>5. PhaseInv'
  BY <1>3, <1>4 DEF PhaseInv
<1>6. PanicInv'
  BY <1>1, <1>4 DEF Running, PanicInv
<1> QED BY <1>2, <1>5, <1>6 DEF IInv

\* The one step that may panic.
LEMMA ErrorRecordStepKeeps ==
    ASSUME IInv, NEW r \in Requests, ErrorRecordStep(r)
    PROVE  IInv'
<1>1. Running /\ Handler!LogErrorRecord(r) /\ WithEnqueue(r)
  BY DEF ErrorRecordStep
<1>2. pc' = pc /\ errlog' = [errlog EXCEPT ![r] = "called"] /\ main' = main
  BY <1>1 DEF Handler!LogErrorRecord, WithEnqueue
<1>3. ShapeInv'
  BY <1>1, <1>2 DEF IInv, ShapeInv, Handler!LogErrorRecord, Handler!Log
<1>4. CASE calls' = calls
  <2>1. stopper' = stopper /\ panicked' = panicked
    BY <1>1, <1>4 DEF WithEnqueue, logVars
  <2> QED BY <1>1, <1>2, <1>3, <2>1
          DEF IInv, PhaseInv, PanicInv, HandlersReturned, Running
<1>5. CASE calls' # calls
  <2>1. LogClient!Enqueue(r)
    BY <1>1, <1>5 DEF WithEnqueue
  <2>2. PhaseInv'
    BY <1>2, <2>1, EnqueueEffect DEF IInv, PhaseInv, HandlersReturned
  <2>3. r \in LoggedRequests
    BY <1>1, <1>5 DEF IInv, ShapeInv, Handler!LogErrorRecord, Handler!Log
  <2>4. PanicInv'
    BY <1>1, <1>2, <2>1, <2>3, EnqueueEffect DEF IInv, ShapeInv, PanicInv, Running
  <2> QED BY <1>3, <2>2, <2>4 DEF IInv
<1> QED BY <1>4, <1>5

LEMMA MainStepKeeps ==
    ASSUME IInv, MainStep
    PROVE  IInv'
<1>1. /\ pc' = pc /\ errlog' = errlog /\ calls' = calls
      /\ ~panicked /\ panicked' = panicked
  BY DEF MainStep, Running, Signal, ShutdownReturns, Fatal, Stop, Exit,
         handlerVars, logVars, LogClient!CloseStopCh, LogClient!StopStep,
         LogClient!CloseCh, LogClient!WaitReturns
<1>2. PhaseInv'
  <2>1. CASE Signal \/ ShutdownReturns \/ Fatal \/ Exit
    BY <1>1, <2>1 DEF IInv, PhaseInv, HandlersReturned, Signal, ShutdownReturns,
                      Fatal, Exit, logVars
  <2>2. CASE Stop
    BY <1>1, <2>2 DEF IInv, PhaseInv, HandlersReturned, Stop
  <2> QED BY <2>1, <2>2 DEF MainStep
<1> QED BY <1>1, <1>2 DEF IInv, ShapeInv, PanicInv

\* Steps that touch neither main, nor Stop, nor the handlers' places.
LEMMA OtherStepsKeep ==
    ASSUME IInv, pc' = pc, errlog' = errlog, calls' = calls, stopper' = stopper,
           main' = main, panicked' = panicked, fate' = fate \/ ~panicked
    PROVE  IInv'
BY DEF IInv, ShapeInv, PhaseInv, PanicInv, HandlersReturned

LEMMA NextInvariant == IInv /\ [Next]_vars => IInv'
<1> SUFFICES ASSUME IInv, [Next]_vars PROVE IInv'
  OBVIOUS
<1>1. ASSUME NEW r \in Requests, Running, Arrive(r) PROVE IInv'
  BY <1>1, ArriveKeeps
<1>2. ASSUME NEW r \in Requests, ClientLeaves(r) PROVE IInv'
  BY <1>2, OtherStepsKeep DEF ClientLeaves, Handler!ClientLeaves, logVars
<1>3. ASSUME NEW r \in Requests, OwnStep(r) \/ ClientStep(r) PROVE IInv'
  BY <1>3, HandlerStepKeeps
<1>4. ASSUME NEW r \in Requests, ErrorRecordStep(r) PROVE IInv'
  BY <1>4, ErrorRecordStepKeeps
<1>5. ASSUME NEW r \in Requests, LateFinish(r) PROVE IInv'
  BY <1>5, OtherStepsKeep
     DEF LateFinish, LogClient!LateFinish, LogClient!clientVars, handlerVars
<1>6. ASSUME NEW w \in Workers, WorkerStep(w) PROVE IInv'
  BY <1>6, WorkerEffect, OtherStepsKeep DEF WorkerStep, Running, handlerVars
<1>7. CASE MainStep
  BY <1>7, MainStepKeeps
<1>8. CASE UNCHANGED vars
  BY <1>8, OtherStepsKeep DEF vars, handlerVars, logVars
<1> QED BY <1>1, <1>2, <1>3, <1>4, <1>5, <1>6, <1>7, <1>8 DEF Next, Ended

LEMMA Invariant == Spec => []IInv
BY InitInvariant, NextInvariant, PTL DEF Spec

-----------------------------------------------------------------------------
(* Types, and what an orderly exit leaves.                                 *)

LEMMA PartsInvariant == Spec => []PartsInv
BY InitParts, NextParts, PTL DEF Spec

\* A record that was handed over has a fate, unless a goroutine of enqueueError
\* met the closed channel; main's last step comes after Stop's.
HandedInv ==
    /\ \A r \in LoggedRequests :
          calls[r] = 1 /\ errlog[r] = "none" => fate[r] # "idle"
    /\ main = "exited" => stopper = "stopped"
    /\ main \in {"serving", "shutdown", "stopping", "exited", "fatal"}

\* The facts about the parts that the proof uses.
LEMMA PartsTypes ==
    ASSUME PartsInv
    PROVE  /\ Handler!TypeOK /\ LogClient!TypeOK
           /\ LoggedRequests \subseteq Requests
           /\ calls \in [Requests -> 0..1]
           /\ errlog \in [Requests -> {"none", "ready", "called"}]
           /\ fate \in [Requests -> LogClient!Fates]
<1>1. Handler!TypeOK /\ LogClient!TypeOK
  BY SameHandler, SameClient DEF PartsInv, HP!IInv, CP!IInv, CP!ControlInv
<1>2. LoggedRequests \subseteq Requests
  BY ProcessAssumption DEF Handler!HandlerAssumption
<1> QED BY <1>1, <1>2 DEF Handler!TypeOK, LogClient!TypeOK

\* Nothing becomes undecided again.
LEMMA FateStays ==
    ASSUME PartsInv, LogClient!Next \/ UNCHANGED fate, NEW r \in Requests,
           fate[r] # "idle"
    PROVE  fate'[r] # "idle"
<1>1. ASSUME NEW q \in Requests, NEW f \in LogClient!Fates \ {"idle"},
             fate' = [fate EXCEPT ![q] = f]
      PROVE  fate'[r] # "idle"
  BY <1>1, PartsTypes
<1>2. ASSUME NEW w \in Workers, NEW f \in LogClient!Fates \ {"idle"},
             fate' = [fate EXCEPT ![wrec[w]] = f]
      PROVE  fate'[r] # "idle"
  BY <1>2, PartsTypes
<1>3. ASSUME NEW q \in Requests, LogClient!Enqueue(q) PROVE fate'[r] # "idle"
  BY <1>1, <1>3
     DEF LogClient!Enqueue, LogClient!EnqueueBuffered, LogClient!EnqueueHandoff,
         LogClient!EnqueueDrop, LogClient!EnqueuePanic, LogClient!Fates
<1>4. ASSUME NEW w \in Workers, LogClient!WorkerStep(w) PROVE fate'[r] # "idle"
  BY <1>2, <1>4
     DEF LogClient!WorkerStep, LogClient!ReceiveRecord, LogClient!ObserveStop,
         LogClient!ObserveClosed, LogClient!SendAccepted, LogClient!SendRejected,
         LogClient!SendFailed, LogClient!Backoff, LogClient!Finish,
         LogClient!clientVars, LogClient!Fates
<1> QED BY <1>3, <1>4
        DEF LogClient!Next, LogClient!ProcessStep, LogClient!LateFinish,
            LogClient!CloseStopCh, LogClient!StopStep, LogClient!CloseCh,
            LogClient!WaitReturns, LogClient!Terminated, LogClient!clientVars,
            LogClient!vars

\* Before Stop a call of Enqueue decides about its record.
LEMMA EnqueueDecides ==
    ASSUME PartsInv, stopper = "running", NEW r \in Requests, LogClient!Enqueue(r)
    PROVE  fate'[r] # "idle"
BY PartsTypes
   DEF LogClient!Enqueue, LogClient!EnqueueBuffered, LogClient!EnqueueHandoff,
       LogClient!EnqueueDrop, LogClient!EnqueuePanic, LogClient!ChClosed

\* A handler's step is about its own request, and a record once left to a
\* goroutine of enqueueError remains so.
LEMMA HandlerHands ==
    ASSUME PartsInv, NEW r \in Requests,
           Handler!OwnStep(r) \/ Handler!ClientStep(r) \/ Handler!LogErrorRecord(r)
    PROVE  /\ \A q \in Requests \ {r} : calls'[q] = calls[q] /\ errlog'[q] = errlog[q]
           /\ errlog'[r] = "none" => errlog[r] = "none"
           /\ Handler!LogErrorRecord(r) => errlog'[r] = "called"
BY PartsTypes
   DEF Handler!OwnStep, Handler!ClientStep, Handler!NewRequestFails, Handler!DoFails,
       Handler!DoReturns, Handler!ReadResponse, Handler!ReadResponseFails,
       Handler!EnqueueRecord, Handler!StreamRead, Handler!StreamWriteFails,
       Handler!StreamCheck, Handler!StreamFinish, Handler!ReadBody,
       Handler!ReadBodyFails, Handler!StreamWrite, Handler!Answer,
       Handler!EnqueueError, Handler!LogErrorRecord, Handler!Log, Handler!streamVars

LEMMA NextHanded ==
    ASSUME IInv, PartsInv, HandedInv, [Next]_vars
    PROVE  HandedInv'
<1>1. ASSUME NEW q \in LoggedRequests, fate[q] # "idle" PROVE fate'[q] # "idle"
  BY <1>1, FateStays, ClientPart, PartsTypes DEF LogClient!vars
<1>2. ASSUME NEW r \in Requests, OwnStep(r) \/ ClientStep(r) PROVE HandedInv'
  <2>1. Running /\ WithEnqueue(r) /\ (Handler!OwnStep(r) \/ Handler!ClientStep(r))
    BY <1>2 DEF OwnStep, ClientStep
  <2>2. stopper = "running" /\ main \notin {"stopping", "exited"}
    BY <2>1, HandlerBusy DEF IInv, PhaseInv
  <2>3. calls' # calls => fate'[r] # "idle"
    BY <2>1, <2>2, EnqueueDecides DEF WithEnqueue
  <2>4. main' = main
    BY <2>1 DEF WithEnqueue
  <2>5. ASSUME NEW q \in LoggedRequests, calls'[q] = 1, errlog'[q] = "none"
        PROVE  fate'[q] # "idle"
    <3>1. errlog[q] = "none" /\ (q # r => calls[q] = 1)
      BY <2>1, <2>5, HandlerHands, PartsTypes
    <3> QED BY <1>1, <2>3, <2>5, <3>1 DEF HandedInv
  <2>6. main' # "exited" /\ main' \in {"serving", "shutdown", "fatal"}
    BY <2>2, <2>4 DEF HandedInv
  <2> QED BY <2>5, <2>6 DEF HandedInv
<1>3. ASSUME NEW r \in Requests, ErrorRecordStep(r) PROVE HandedInv'
  <2>1. Running /\ Handler!LogErrorRecord(r) /\ WithEnqueue(r)
    BY <1>3 DEF ErrorRecordStep
  <2>2. main' = main /\ main # "exited"
    BY <2>1 DEF WithEnqueue, Running
  <2>3. ASSUME NEW q \in LoggedRequests, calls'[q] = 1, errlog'[q] = "none"
        PROVE  fate'[q] # "idle"
    <3>1. q # r /\ errlog[q] = "none" /\ calls[q] = 1
      BY <2>1, <2>3, HandlerHands, PartsTypes
    <3> QED BY <1>1, <3>1 DEF HandedInv
  <2> QED BY <2>2, <2>3 DEF HandedInv
<1>4. CASE MainStep
  BY <1>1, <1>4
     DEF MainStep, Running, Signal, ShutdownReturns, Fatal, Stop, Exit, handlerVars,
         logVars, HandedInv
<1>5. ASSUME NEW w \in Workers, WorkerStep(w) PROVE HandedInv'
  BY <1>1, <1>5, WorkerEffect DEF WorkerStep, handlerVars, HandedInv
<1>6. ASSUME NEW r \in Requests, Running, Arrive(r) PROVE HandedInv'
  BY <1>1, <1>6 DEF Arrive, Handler!Arrive, logVars, HandedInv
<1>7. ASSUME NEW r \in Requests, ClientLeaves(r) \/ LateFinish(r) PROVE HandedInv'
  BY <1>1, <1>7
     DEF ClientLeaves, Handler!ClientLeaves, LateFinish, LogClient!LateFinish,
         LogClient!clientVars, handlerVars, logVars, HandedInv
<1>8. CASE UNCHANGED vars
  BY <1>8 DEF vars, handlerVars, logVars, HandedInv
<1> QED BY <1>2, <1>3, <1>4, <1>5, <1>6, <1>7, <1>8 DEF Next, Ended

LEMMA HandedInvariant == Spec => []HandedInv
<1>1. Init => HandedInv
  BY ProcessAssumption
     DEF Init, HandedInv, Handler!Init, Handler!HandlerAssumption, LogClient!Init
<1> QED BY <1>1, NextHanded, Invariant, PartsInvariant, PTL DEF Spec

\* The state of the whole process keeps its types.
THEOREM TypeCorrect == Spec => []TypeOK
<1>1. PartsInv /\ HandedInv => TypeOK
  BY PartsTypes DEF HandedInv, TypeOK
<1> QED BY <1>1, PartsInvariant, HandedInvariant, PTL

\* When main has returned, Shutdown and Stop have seen to it that every record a
\* handler handed over itself is decided, however many requests and workers.
THEOREM OrderlyExit == Spec => []ExitLosesNothing
<1>1. ASSUME IInv, PartsInv, HandedInv PROVE ExitLosesNothing
  <2> SUFFICES ASSUME main = "exited", NEW r \in LoggedRequests,
                      pc[r] # "idle", errlog[r] = "none"
               PROVE  Decided(r)
    BY DEF ExitLosesNothing
  <2>1. r \in Requests /\ pc[r] = "done"
    BY <1>1, PartsTypes DEF IInv, PhaseInv, HandlersReturned
  <2>2. calls[r] = 1
    BY <1>1, <2>1, PartsTypes
       DEF PartsInv, HP!IInv, HP!RecordInv, HP!Owed, HP!Due
  <2>3. fate[r] # "idle"
    BY <1>1, <2>2 DEF HandedInv
  <2>4. fate[r] # "accepted"
    <3>1. \A w \in Workers : wpc[w] = "done"
      BY <1>1 DEF HandedInv, PartsInv, CP!IInv, CP!ControlInv, CP!StopperOK
    <3>2. CP!WithFate("accepted") = {}
      BY <1>1, <3>1, CP!AllDoneNothingAccepted, PartsAssumptions DEF PartsInv
    <3> QED BY <2>1, <3>2 DEF CP!WithFate
  <2> QED BY <1>1, <2>1, <2>3, <2>4, PartsTypes DEF Decided, LogClient!Fates
<1> QED BY <1>1, Invariant, PartsInvariant, HandedInvariant, PTL

-----------------------------------------------------------------------------
(* Requests and records, from end to end.                                  *)

\* The handlers' history of calls and the client's history of decisions agree, but
\* for a call that ended the process.
LinkInv ==
    /\ \A r \in Requests : calls[r] = 0 => fate[r] = "idle"
    /\ ~panicked => \A r \in Requests : calls[r] = 1 => fate[r] # "idle"

\* A worker decides only about a record that was handed over.
LEMMA IdleStays ==
    ASSUME PartsInv, NEW w \in Workers, LogClient!WorkerStep(w),
           NEW r \in Requests, fate[r] = "idle"
    PROVE  fate'[r] = "idle"
<1>1. wrec[w] # r
  <2> SUFFICES ASSUME wrec[w] = r PROVE FALSE
    OBVIOUS
  <2>1. r \in CP!Held
    BY PartsAssumptions DEF CP!Held, CP!LogClientAssumption
  <2>2. r \in CP!WithFate("accepted")
    BY <2>1 DEF PartsInv, CP!IInv, CP!AcceptedInOnePlace
  <2> QED BY <2>2 DEF CP!WithFate
<1>2. \/ fate' = fate
      \/ \E f \in LogClient!Fates : fate' = [fate EXCEPT ![wrec[w]] = f]
  BY DEF LogClient!WorkerStep, LogClient!ReceiveRecord, LogClient!ObserveStop,
         LogClient!ObserveClosed, LogClient!SendAccepted, LogClient!SendRejected,
         LogClient!SendFailed, LogClient!Backoff, LogClient!Finish,
         LogClient!clientVars, LogClient!Fates
<1> QED BY <1>1, <1>2, PartsTypes

\* A call of Enqueue decides about its record alone, or panics.
LEMMA EnqueueDecidesOrPanics ==
    ASSUME PartsInv, NEW r \in Requests, LogClient!Enqueue(r)
    PROVE  /\ fate'[r] # "idle" \/ panicked'
           /\ \A q \in Requests \ {r} : fate'[q] = fate[q]
           /\ panicked => panicked'
BY PartsTypes
   DEF LogClient!Enqueue, LogClient!EnqueueBuffered, LogClient!EnqueueHandoff,
       LogClient!EnqueueDrop, LogClient!EnqueuePanic

LEMMA HandlerStepLinks ==
    ASSUME PartsInv, LinkInv, PartsInv', NEW r \in Requests, Running, WithEnqueue(r),
           Handler!OwnStep(r) \/ Handler!ClientStep(r) \/ Handler!LogErrorRecord(r)
    PROVE  LinkInv'
<1>1. CASE calls' = calls
  BY <1>1 DEF WithEnqueue, logVars, LinkInv
<1>2. CASE calls' # calls
  <2>1. LogClient!Enqueue(r)
    BY <1>2 DEF WithEnqueue
  <2>2. \A q \in Requests \ {r} : calls'[q] = calls[q]
    BY HandlerHands
  <2>3. calls \in [Requests -> 0..1] /\ calls' \in [Requests -> 0..1]
    BY DEF PartsInv, HP!IInv, HP!TypeOK
  <2>4. calls'[r] # 0
    <3> SUFFICES ASSUME calls'[r] = 0 PROVE FALSE
      OBVIOUS
    <3>1. calls[r] = 1
      BY <1>2, <2>2, <2>3
    <3>2. fate[r] # "idle"
      BY <3>1 DEF LinkInv, Running
    <3> QED BY <2>1, <3>2 DEF LogClient!Enqueue
  <2> QED BY <2>1, <2>2, <2>4, EnqueueDecidesOrPanics DEF LinkInv
<1> QED BY <1>1, <1>2

LEMMA NextLink ==
    ASSUME PartsInv, LinkInv, [Next]_vars
    PROVE  LinkInv'
<1>1. ASSUME NEW r \in Requests, OwnStep(r) \/ ClientStep(r) \/ ErrorRecordStep(r)
      PROVE  LinkInv'
  BY <1>1, NextParts, HandlerStepLinks DEF OwnStep, ClientStep, ErrorRecordStep
<1>2. ASSUME NEW w \in Workers, WorkerStep(w) PROVE LinkInv'
  <2>1. LogClient!WorkerStep(w) /\ calls' = calls /\ panicked' = panicked
    BY <1>2, WorkerEffect DEF WorkerStep, handlerVars
  <2>2. \A r \in Requests : fate[r] = "idle" => fate'[r] = "idle"
    BY <2>1, IdleStays
  <2>3. \A r \in Requests : fate[r] # "idle" => fate'[r] # "idle"
    BY <2>1, FateStays, ClientPart DEF LogClient!vars
  <2> QED BY <2>1, <2>2, <2>3 DEF LinkInv
<1>3. CASE MainStep
  BY <1>3 DEF MainStep, Signal, ShutdownReturns, Fatal, Stop, Exit, handlerVars,
              logVars, LogClient!CloseStopCh, LogClient!StopStep,
              LogClient!CloseCh, LogClient!WaitReturns, LinkInv
<1>4. ASSUME NEW r \in Requests, Running, Arrive(r) PROVE LinkInv'
  BY <1>4 DEF Arrive, Handler!Arrive, logVars, LinkInv
<1>5. ASSUME NEW r \in Requests, ClientLeaves(r) \/ LateFinish(r) PROVE LinkInv'
  BY <1>5 DEF ClientLeaves, Handler!ClientLeaves, LateFinish, LogClient!LateFinish,
              LogClient!clientVars, handlerVars, logVars, LinkInv
<1>6. CASE UNCHANGED vars
  BY <1>6 DEF vars, handlerVars, logVars, LinkInv
<1> QED BY <1>1, <1>2, <1>3, <1>4, <1>5, <1>6 DEF Next, Ended

\* However many requests, every logged one whose handler has returned is accounted
\* for by the client or by its goroutine, and the log server has nothing of a
\* request no handler handed over.
THEOREM AllAccounted == Spec => []EveryRequestAccounted
<1>1. Init => LinkInv
  BY DEF Init, LinkInv, Handler!Init, LogClient!Init
<1>2. ASSUME PartsInv, LinkInv PROVE EveryRequestAccounted
  <2>1. ASSUME NEW r \in Requests, r \in LoggedRequests, pc[r] = "done",
               errlog[r] # "ready", ~panicked
        PROVE  fate[r] # "idle"
    <3>1. calls[r] = 1
      BY <1>2, <2>1, PartsTypes DEF PartsInv, HP!IInv, HP!RecordInv, HP!Owed, HP!Due
    <3> QED BY <1>2, <2>1, <3>1 DEF LinkInv
  <2>2. ASSUME NEW r \in Requests, calls[r] = 0
        PROVE  stored[r] + lingering[r] = 0
    BY <1>2, <2>2 DEF LinkInv, PartsInv, CP!IInv, CP!CopiesOK, CP!Copies
  <2> QED BY <2>1, <2>2 DEF EveryRequestAccounted
<1> QED BY <1>1, <1>2, NextLink, PartsInvariant, PTL DEF Spec

-----------------------------------------------------------------------------
\* main's order, Shutdown before the deferred Stop, keeps every handler off the
\* closed channel: if Enqueue panics, an enqueueError goroutine called it.
THEOREM HandlersNeverPanic == Spec => []HandlersDoneBeforeStop
<1>1. IInv => HandlersDoneBeforeStop
  BY DEF IInv, PhaseInv, PanicInv, HandlersDoneBeforeStop
<1> QED BY <1>1, Invariant, PTL
=============================================================================
