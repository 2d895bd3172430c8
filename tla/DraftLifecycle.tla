--------------------------- MODULE DraftLifecycle ---------------------------
(***************************************************************************)
(* What the draft store promises, without queue, relay, retries or crashes: *)
(* an approval grants one dispatch; a dispatch puts one message on the wire *)
(* for every copy of its job; a row becomes sent only when the dispatch it  *)
(* stands for did.                                                          *)
(*                                                                          *)
(* Two oddities are deliberate.  A draft rejected after its approval may    *)
(* still be sent or fail, because the job already queued is not recalled.   *)
(* And a job may have been queued more than once, under one id; each copy   *)
(* is sent and reported, so that a settled row may be settled again.        *)
(***************************************************************************)
EXTENDS Naturals

CONSTANTS Drafts, Mids, None

VARIABLES
    status,    \* draft -> its status, None before it exists
    current,   \* draft -> the dispatch its latest approval granted
    grants,    \* dispatch id -> the draft it was granted for, or None
    copies,    \* dispatch id -> copies of its job
    sends      \* dispatch id -> messages put on the wire

vars == <<status, current, grants, copies, sends>>

Open == {"pending", "approved", "send_failed"}

Init ==
    /\ status = [d \in Drafts |-> None]
    /\ current = [d \in Drafts |-> None]
    /\ grants = [m \in Mids |-> None]
    /\ copies = [m \in Mids |-> 1]
    /\ sends = [m \in Mids |-> 0]

Create(d) ==
    /\ status[d] = None
    /\ status' = [status EXCEPT ![d] = "pending"]
    /\ UNCHANGED <<current, grants, copies, sends>>

Approve(d, m) ==
    /\ status[d] \in Open
    /\ grants[m] = None
    /\ status' = [status EXCEPT ![d] = "approved"]
    /\ current' = [current EXCEPT ![d] = m]
    /\ grants' = [grants EXCEPT ![m] = d]
    /\ UNCHANGED <<copies, sends>>

Reject(d) ==
    /\ status[d] \in Open
    /\ status' = [status EXCEPT ![d] = "rejected"]
    /\ UNCHANGED <<current, grants, copies, sends>>

(* The job is queued once more.                                             *)
Copy(m) ==
    /\ grants[m] # None
    /\ copies' = [copies EXCEPT ![m] = @ + 1]
    /\ UNCHANGED <<status, current, grants, sends>>

(* A granted message leaves; a superseded grant may still be used.          *)
Deliver(m) ==
    /\ grants[m] # None
    /\ sends[m] < copies[m]
    /\ sends' = [sends EXCEPT ![m] = @ + 1]
    /\ UNCHANGED <<status, current, grants, copies>>

Settled == {"sent", "send_failed"}

Settle(d, outcome) ==
    /\ current[d] # None
    /\ \/ status[d] \in {"approved", "rejected"}
       \/ status[d] \in Settled /\ copies[current[d]] > 1
    /\ outcome = "sent" => sends[current[d]] > 0
    /\ status' = [status EXCEPT ![d] = outcome]
    /\ UNCHANGED <<current, grants, copies, sends>>

Next ==
    \/ \E d \in Drafts :
          \/ Create(d) \/ Reject(d)
          \/ \E m \in Mids : Approve(d, m)
          \/ \E outcome \in Settled : Settle(d, outcome)
    \/ \E m \in Mids : Copy(m) \/ Deliver(m)

Spec == Init /\ [][Next]_vars
=============================================================================
