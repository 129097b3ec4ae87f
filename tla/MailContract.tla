---------------------------- MODULE MailContract ----------------------------
(***************************************************************************)
(* What the queue promises to those who hand it mail: an accepted message  *)
(* stays until each recipient has been delivered to or reported on, it is  *)
(* delivered only while it is there, and some day it is gone.  Deliveries  *)
(* may be repeated; that is not forbidden (INTERNALS section 6).           *)
(***************************************************************************)
CONSTANTS Msgs, Rcpts, To

VARIABLES
  queue,      \* accepted messages the system still works on
  gone,       \* messages it is done with
  delivered,  \* delivered[m]: recipients the message was delivered to
  reported    \* reported[m]: recipients whose failure was reported

cvars == <<queue, gone, delivered, reported>>

Init ==
  /\ queue = {} /\ gone = {}
  /\ delivered = [m \in Msgs |-> {}]
  /\ reported = [m \in Msgs |-> {}]

Accept(m) ==
  /\ m \notin queue \cup gone
  /\ queue' = queue \cup {m}
  /\ UNCHANGED <<gone, delivered, reported>>

Deliver(m, r) ==
  /\ m \in queue /\ r \in To[m]
  /\ delivered' = [delivered EXCEPT ![m] = @ \cup {r}]
  /\ UNCHANGED <<queue, gone, reported>>

(* Failures of several messages may be reported, or be lost in a crash,    *)
(* in one step.                                                            *)
ReportFailures ==
  /\ reported' \in [Msgs -> SUBSET Rcpts]
  /\ \A m \in Msgs :
       /\ reported[m] \subseteq reported'[m]
       /\ reported'[m] # reported[m] => m \in queue /\ reported'[m] \subseteq To[m]
  /\ UNCHANGED <<queue, gone, delivered>>

Eliminate(m) ==
  /\ m \in queue /\ To[m] \subseteq delivered[m] \cup reported[m]
  /\ queue' = queue \ {m} /\ gone' = gone \cup {m}
  /\ UNCHANGED <<delivered, reported>>

Next ==
  \/ \E m \in Msgs : Accept(m) \/ Eliminate(m)
  \/ \E m \in Msgs, r \in Rcpts : Deliver(m, r)
  \/ ReportFailures

Spec == Init /\ [][Next]_cvars

=============================================================================
