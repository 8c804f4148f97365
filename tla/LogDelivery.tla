---------------------------- MODULE LogDelivery ----------------------------
(***************************************************************************)
(* What the asynchronous log client promises to the proxy, with no queue,  *)
(* no worker and no channel: a record handed to it is refused at once or   *)
(* becomes pending; a pending record is delivered or abandoned after a     *)
(* bounded number of attempts, each of which leaves at most one copy at    *)
(* the log server; and the client stops only when nothing is pending.      *)
(* A crash of the process is the one event that may strand pending records.*)
(***************************************************************************)
EXTENDS Naturals

CONSTANTS
    Records,        \* the log records the proxy may hand over
    Attempts        \* POST attempts made for one record

VARIABLES
    status,         \* what became of each record
    copies,         \* copies of each record the log server wrote
    phase           \* life cycle of the client

vars == <<status, copies, phase>>

Statuses == {"unseen", "pending", "refused", "delivered", "abandoned"}

\* Every record is in one of the five statuses, no record has more copies than
\* attempts: what logclient.Client may ever show to its caller.
TypeOK ==
    /\ status \in [Records -> Statuses]
    /\ copies \in [Records -> 0..Attempts]
    /\ phase \in {"up", "stopped", "crashed"}

Init ==
    /\ status = [r \in Records |-> "unseen"]
    /\ copies = [r \in Records |-> 0]
    /\ phase = "up"

\* The client takes the record on, or refuses it without waiting.
Submit(r) ==
    /\ phase = "up"
    /\ status[r] = "unseen"
    /\ \E s \in {"pending", "refused"} : status' = [status EXCEPT ![r] = s]
    /\ UNCHANGED <<copies, phase>>

\* An attempt whose outcome the client does not know, or learns too late,
\* leaves a copy.
StoreCopy(r) ==
    /\ status[r] \in {"pending", "delivered", "abandoned"}
    /\ copies[r] < Attempts
    /\ copies' = [copies EXCEPT ![r] = @ + 1]
    /\ UNCHANGED <<status, phase>>

\* The last attempt for the record: it may leave one more copy, and the
\* client never calls delivered what the log server has not written.
Resolve(r) ==
    /\ phase = "up"
    /\ status[r] = "pending"
    /\ \E c \in {copies[r], copies[r] + 1}, s \in {"delivered", "abandoned"} :
          /\ c <= Attempts
          /\ s = "delivered" => c > 0
          /\ copies' = [copies EXCEPT ![r] = c]
          /\ status' = [status EXCEPT ![r] = s]
    /\ UNCHANGED phase

Stop ==
    /\ phase = "up"
    /\ \A r \in Records : status[r] # "pending"
    /\ phase' = "stopped"
    /\ UNCHANGED <<status, copies>>

Crash ==
    /\ phase # "crashed"
    /\ phase' = "crashed"
    /\ UNCHANGED <<status, copies>>

Next ==
    \/ \E r \in Records : Submit(r) \/ StoreCopy(r) \/ Resolve(r)
    \/ Stop
    \/ Crash

Spec == Init /\ [][Next]_vars
=============================================================================
