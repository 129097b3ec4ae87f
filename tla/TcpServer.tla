-------------------------------- MODULE TcpServer --------------------------------
(***************************************************************************)
(* tcpserver accepts connections and forks a child for each, no more than    *)
(* limit at a time.  SIGCHLD is blocked except around accept() and while it  *)
(* waits for a child; the handler counts the children down.  A child looks   *)
(* the client up in rules.cdb, which tcprules may replace meanwhile, and     *)
(* ends, denies, or runs the program.                                        *)
(***************************************************************************)
EXTENDS Naturals, FiniteSets, Sequences

CONSTANTS
  limit,
  Clients, None, \* connections that will be made
  Unreadable,    \* whether rules.cdb may be missing or broken
  Faults         \* bound on calls that fail

TcpServerAssumption ==
  limit \in Nat \ {0} /\ Faults \in Nat /\ Unreadable \in BOOLEAN /\ IsFiniteSet(Clients) /\ None \notin Clients

VARIABLES
  pc,            \* of the parent
  t,             \* the connection it has accepted
  numchildren,
  child,         \* [client |-> "none", "new" (forked), "run" (the program runs), "dead" (to be waited for), "gone"]
  pending,       \* SIGCHLD has come and waits
  waiting,       \* connections in the backlog, in order
  rules,         \* what rules.cdb says: "allow", "deny", or "bad"
  seen,          \* ghost: [client |-> what the rules have said since it was accepted]
  verdict,       \* what was done with it
  faults

vars == <<pc, t, numchildren, child, pending, waiting, rules, seen, verdict, faults>>

Init ==
  /\ pc = "top" /\ t = None /\ numchildren = 0 /\ child = [c \in Clients |-> "none"] /\ pending = FALSE
  /\ waiting = <<>> /\ rules \in {"allow", "deny"} /\ seen = [c \in Clients |-> {}]
  /\ verdict = [c \in Clients |-> "none"] /\ faults = 0

Dead == {c \in Clients : child[c] = "dead"}
Children == {c \in Clients : child[c] \in {"new", "run"}}

(* sigchld(): every child that has ended is waited for.                      *)
Handler ==
  /\ pending' = FALSE
  /\ numchildren' = IF numchildren > Cardinality(Dead) THEN numchildren - Cardinality(Dead) ELSE 0
  /\ child' = [c \in Clients |-> IF child[c] = "dead" THEN "gone" ELSE child[c]]

(* A wrong version: one too many. *)
TopOneMore ==
  /\ pc = "top" /\ numchildren <= limit /\ pc' = "accept"
  /\ UNCHANGED <<t, numchildren, child, pending, waiting, rules, seen, verdict, faults>>

(* while (numchildren >= limit) sig_pause();                                 *)
Top ==
  /\ pc = "top" /\ numchildren < limit /\ pc' = "accept"
  /\ UNCHANGED <<t, numchildren, child, pending, waiting, rules, seen, verdict, faults>>
(* A wrong version: a signal that came before does not end the pause. *)
PauseMissed ==
  /\ pc = "top" /\ numchildren >= limit /\ pending /\ Children # {} /\ Handler
  /\ UNCHANGED <<pc, t, waiting, rules, seen, verdict, faults>>

Pause ==
  /\ pc = "top" /\ numchildren >= limit /\ pending /\ Handler
  /\ UNCHANGED <<pc, t, waiting, rules, seen, verdict, faults>>

(* Unblocked: the handler runs before, in or after accept().                 *)
Signal ==
  /\ pc \in {"accept", "accepted"} /\ pending /\ Handler
  /\ UNCHANGED <<pc, t, waiting, rules, seen, verdict, faults>>

Accept ==
  /\ pc = "accept" /\ waiting # <<>>
  /\ t' = Head(waiting) /\ waiting' = Tail(waiting) /\ pc' = "accepted"
  /\ seen' = [seen EXCEPT ![Head(waiting)] = {rules}]
  /\ UNCHANGED <<numchildren, child, pending, rules, verdict, faults>>

(* accept() is interrupted, or fails.                                        *)
AcceptFails ==
  /\ pc = "accept" /\ pc' = "top"
  /\ \/ pending /\ Handler /\ UNCHANGED faults
     \/ faults < Faults /\ faults' = faults + 1 /\ UNCHANGED <<numchildren, child, pending>>
  /\ UNCHANGED <<t, waiting, rules, seen, verdict>>

(* A wrong version: a failed fork() is counted. *)
ForkCounted ==
  /\ numchildren' = numchildren + 1 /\ pc = "accepted" /\ pc' = "top" /\ t' = None
  /\ \/ /\ child' = [child EXCEPT ![t] = "new"]
        /\ UNCHANGED <<verdict, faults>>
     \/ /\ faults < Faults /\ faults' = faults + 1
        /\ verdict' = [verdict EXCEPT ![t] = "dropped"] /\ UNCHANGED child
  /\ UNCHANGED <<pending, waiting, rules, seen>>

(* sig_block(); ++numchildren; fork()                                        *)
Fork ==
  /\ pc = "accepted" /\ pc' = "top" /\ t' = None
  /\ \/ /\ numchildren' = numchildren + 1 /\ child' = [child EXCEPT ![t] = "new"]
        /\ UNCHANGED <<verdict, faults>>
     \/ /\ faults < Faults /\ faults' = faults + 1
        /\ verdict' = [verdict EXCEPT ![t] = "dropped"] /\ UNCHANGED <<numchildren, child>>
  /\ UNCHANGED <<pending, waiting, rules, seen>>

-----------------------------------------------------------------------------
(* doit() in the child; rules() maps the file it opened.                     *)

End(c) == child' = [child EXCEPT ![c] = "dead"] /\ pending' = TRUE

(* A wrong version: goes on without rules. *)
DoitOpen ==
  /\ \E c \in Clients :
       /\ child[c] = "new"
       /\ \/ /\ faults < Faults /\ faults' = faults + 1
             /\ End(c) /\ verdict' = [verdict EXCEPT ![c] = "dropped"]
          \/ /\ rules = "bad" /\ child' = [child EXCEPT ![c] = "run"] /\ UNCHANGED pending /\ verdict' = [verdict EXCEPT ![c] = "served"] /\ UNCHANGED faults
          \/ /\ rules = "deny" /\ End(c) /\ verdict' = [verdict EXCEPT ![c] = "denied"] /\ UNCHANGED faults
          \/ /\ rules = "allow" /\ child' = [child EXCEPT ![c] = "run"]
             /\ verdict' = [verdict EXCEPT ![c] = "served"] /\ UNCHANGED <<pending, faults>>
  /\ UNCHANGED <<pc, t, numchildren, waiting, rules, seen>>

Doit ==
  /\ \E c \in Clients :
       /\ child[c] = "new"
       /\ \/ /\ faults < Faults /\ faults' = faults + 1
             /\ End(c) /\ verdict' = [verdict EXCEPT ![c] = "dropped"]
          \/ /\ rules = "bad" /\ End(c) /\ verdict' = [verdict EXCEPT ![c] = "dropped"] /\ UNCHANGED faults
          \/ /\ rules = "deny" /\ End(c) /\ verdict' = [verdict EXCEPT ![c] = "denied"] /\ UNCHANGED faults
          \/ /\ rules = "allow" /\ child' = [child EXCEPT ![c] = "run"]
             /\ verdict' = [verdict EXCEPT ![c] = "served"] /\ UNCHANGED <<pending, faults>>
  /\ UNCHANGED <<pc, t, numchildren, waiting, rules, seen>>

Ends ==
  /\ \E c \in Clients : child[c] = "run" /\ End(c)
  /\ UNCHANGED <<pc, t, numchildren, waiting, rules, seen, verdict, faults>>

Connect ==
  /\ \E c \in Clients :
       /\ child[c] = "none" /\ verdict[c] = "none" /\ t # c /\ c \notin {waiting[i] : i \in DOMAIN waiting}
       /\ waiting' = Append(waiting, c)
  /\ UNCHANGED <<pc, t, numchildren, child, pending, rules, seen, verdict, faults>>

(* tcprules renames a complete file; "bad" is one that is not there.         *)
Tcprules ==
  /\ \E r \in {"allow", "deny"} \cup (IF Unreadable THEN {"bad"} ELSE {}) :
       /\ rules' = r
       /\ seen' = [c \in Clients |-> IF t = c \/ child[c] = "new" THEN seen[c] \cup {r} ELSE seen[c]]
  /\ UNCHANGED <<pc, t, numchildren, child, pending, waiting, verdict, faults>>

Parent == Top \/ Pause \/ Signal \/ Accept \/ AcceptFails \/ Fork
Next == Parent \/ Doit \/ Ends \/ Connect \/ Tcprules
Spec == Init /\ [][Next]_vars
Fairness == WF_vars(Top \/ Pause \/ Accept \/ Fork) /\ WF_vars(Doit) /\ WF_vars(Ends)
FairSpec == Spec /\ Fairness

-----------------------------------------------------------------------------
TypeOK ==
  /\ pc \in {"top", "accept", "accepted"} /\ t \in Clients \cup {None} /\ numchildren \in 0 .. limit
  /\ pending \in BOOLEAN /\ (Dead # {} => pending)

(* However signals and accept() interleave, the count is that of the         *)
(* children that were not waited for, so that it never drifts.               *)
CountExact == numchildren = Cardinality(Children \cup Dead)

(* No more than limit children run.                                          *)
LimitKept == Cardinality(Children \cup Dead) + (IF pc = "accepted" THEN 1 ELSE 0) <= limit

(* A client is served only if rules that were in force between its accept()  *)
(* and its verdict allow it; one that cannot be judged is not served.        *)
JudgedByTheRules ==
  \A c \in Clients :
    /\ verdict[c] = "served" => "allow" \in seen[c]
    /\ verdict[c] = "denied" => "deny" \in seen[c]

(* A connection in the backlog is taken in the end: the end of a child while *)
(* the count is full is never missed.                                        *)
Taken == \A c \in Clients : (c \in {waiting[i] : i \in DOMAIN waiting}) ~> (verdict[c] # "none")
=============================================================================
