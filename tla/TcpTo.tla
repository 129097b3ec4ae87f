--------------------------------- MODULE TcpTo ---------------------------------
(***************************************************************************)
(* The table of hosts that time out, queue/lock/tcpto, as the qmail-remotes  *)
(* that run at one time use it: tcpto() before a connection, tcpto_err()     *)
(* after it, each under the lock of the file.  A host rests after two        *)
(* timeouts.                                                                 *)
(***************************************************************************)
EXTENDS Naturals, FiniteSets

CONSTANTS
  Procs, Ips, NoIp,
  Slots,     \* records of the table; 64 in the source
  Damper,    \* two minutes
  Hour,
  Every,     \* the successes that count: every one, or those written down
  Horizon    \* bound on the time

TcpToAssumption ==
  /\ NoIp \notin Ips /\ IsFiniteSet(Ips) /\ IsFiniteSet(Slots) /\ Slots \subseteq Nat /\ Slots # {}
  /\ Damper \in Nat \ {0} /\ Hour \in Nat /\ Every \in BOOLEAN /\ Horizon \in Nat

(* (60 + pid % 32) << 6 seconds: an hour, four minutes and some more.        *)
Rest == {Hour + 2 * Damper, Hour + 3 * Damper}

(* record[4] << 10: a count weighs about seventeen minutes.                  *)
Weight == 8 * Damper

VARIABLES
  clock,
  table,            \* records [ip, n, when]; n is record[4]
  pc, ip,           \* of each qmail-remote; ip: the host it is at
  wasthere,         \* flagwasthere
  fails             \* ghost: when each host timed out since its last success

vars == <<clock, table, pc, ip, wasthere, fails>>

Init ==
  /\ clock = Damper   \* records that are empty are older than this
  /\ table = [s \in Slots |-> [ip |-> NoIp, n |-> 0, when |-> 0]]   \* tcpto_clean()
  /\ pc = [p \in Procs |-> "idle"] /\ ip = [p \in Procs |-> NoIp]
  /\ wasthere = [p \in Procs |-> FALSE]
  /\ fails = [i \in Ips |-> {}]

Tick == clock < Horizon /\ clock' = clock + 1 /\ UNCHANGED <<table, pc, ip, wasthere, fails>>

The(i) == {s \in Slots : table[s].ip = i}

(* A wrong version: three timeouts. *)
LookLate(p, i) ==
  /\ pc[p] = "idle"
  /\ ip' = [ip EXCEPT ![p] = i]
  /\ wasthere' = [wasthere EXCEPT ![p] = The(i) # {}]
  /\ \E rest \in Rest :
       pc' = [pc EXCEPT ![p] =
                IF \E s \in The(i) : table[s].n > 2 /\ clock - table[s].when < rest THEN "skipped" ELSE "connecting"]
  /\ UNCHANGED <<clock, table, fails>>

(* tcpto(): a host that rests is left out.                                   *)
Look(p, i) ==
  /\ pc[p] = "idle"
  /\ ip' = [ip EXCEPT ![p] = i]
  /\ wasthere' = [wasthere EXCEPT ![p] = The(i) # {}]
  /\ \E rest \in Rest :
       pc' = [pc EXCEPT ![p] =
                IF \E s \in The(i) : table[s].n >= 2 /\ clock - table[s].when < rest THEN "skipped" ELSE "connecting"]
  /\ UNCHANGED <<clock, table, fails>>

Idle(p) ==
  pc' = [pc EXCEPT ![p] = "idle"] /\ ip' = [ip EXCEPT ![p] = NoIp] /\ wasthere' = [wasthere EXCEPT ![p] = FALSE]

Write(s, rec) == table' = [table EXCEPT ![s] = rec]

(* timeoutconn() succeeds or is refused, and tcpto_err(ip,0): this is written *)
(* down only if the host was in the table when tcpto() looked.               *)
Answered(p) ==
  /\ pc[p] = "connecting"
  /\ fails' = [fails EXCEPT ![ip[p]] = IF wasthere[p] \/ Every THEN {} ELSE @]
  /\ IF wasthere[p] /\ The(ip[p]) # {}
     THEN \E s \in The(ip[p]) : Write(s, [table[s] EXCEPT !.n = 0])
     ELSE UNCHANGED table
  /\ Idle(p)
  /\ UNCHANGED clock

Age(s) == table[s].when + Weight * table[s].n

(* The first record that counts nothing, or else the first of the oldest.    *)
Victim(s) ==
  IF \E t \in Slots : table[t].n = 0
  THEN table[s].n = 0 /\ \A t \in Slots : table[t].n = 0 => s <= t
  ELSE \A t \in Slots : Age(s) < Age(t) \/ (Age(s) = Age(t) /\ s <= t)

CountUp(n) == IF n = 10 THEN 10 ELSE n + 1

(* A wrong version: every timeout counts. *)
TimedOutUndamped(p) ==
  /\ pc[p] = "connecting"
  /\ fails' = [fails EXCEPT ![ip[p]] = @ \cup {clock}]
  /\ IF The(ip[p]) # {}
     THEN \E s \in The(ip[p]) : Write(s, [ip |-> ip[p], n |-> CountUp(table[s].n), when |-> clock])
     ELSE \E s \in Slots : Victim(s) /\ Write(s, [ip |-> ip[p], n |-> 1, when |-> clock])
  /\ Idle(p)
  /\ UNCHANGED clock

(* A wrong version: trusts what it saw before the connection. *)
TimedOutStale(p) ==
  /\ pc[p] = "connecting"
  /\ fails' = [fails EXCEPT ![ip[p]] = @ \cup {clock}]
  /\ IF wasthere[p] /\ The(ip[p]) # {}
     THEN \E s \in The(ip[p]) :
            IF table[s].n > 0 /\ clock < Damper + table[s].when
            THEN UNCHANGED table
            ELSE Write(s, [ip |-> ip[p], n |-> CountUp(table[s].n), when |-> clock])
     ELSE \E s \in Slots : Victim(s) /\ Write(s, [ip |-> ip[p], n |-> 1, when |-> clock])
  /\ Idle(p)
  /\ UNCHANGED clock

(* The connection times out: tcpto_err(ip,1).                                *)
TimedOut(p) ==
  /\ pc[p] = "connecting"
  /\ fails' = [fails EXCEPT ![ip[p]] = @ \cup {clock}]
  /\ IF The(ip[p]) # {}
     THEN \E s \in The(ip[p]) :
            IF table[s].n > 0 /\ clock < Damper + table[s].when
            THEN UNCHANGED table
            ELSE Write(s, [ip |-> ip[p], n |-> CountUp(table[s].n), when |-> clock])
     ELSE \E s \in Slots : Victim(s) /\ Write(s, [ip |-> ip[p], n |-> 1, when |-> clock])
  /\ Idle(p)
  /\ UNCHANGED clock

(* The next host, or a process is killed while it connects.                  *)
Leave(p) ==
  /\ pc[p] \in {"skipped", "connecting"}
  /\ Idle(p)
  /\ UNCHANGED <<clock, table, fails>>

Proc(p) == (\E i \in Ips : Look(p, i)) \/ Answered(p) \/ TimedOut(p) \/ Leave(p)

Next == Tick \/ \E p \in Procs : Proc(p)
Spec == Init /\ [][Next]_vars

-----------------------------------------------------------------------------
TypeOK ==
  /\ clock \in Nat
  /\ table \in [Slots -> [ip : Ips \cup {NoIp}, n : 0 .. 10, when : 0 .. clock]]
  /\ pc \in [Procs -> {"idle", "connecting", "skipped"}]
  /\ ip \in [Procs -> Ips \cup {NoIp}] /\ wasthere \in [Procs -> BOOLEAN]

(* Processes that meet a host at the same time write one record of it.       *)
OneRecordEach == \A i \in Ips : Cardinality(The(i)) <= 1

(* Two timeouts, two minutes apart, the second at most within the rest.      *)
Silent(F, rest) == \E t1, t2 \in F : t1 + Damper <= t2 /\ clock - t2 < rest

(* Who is left out is silent.                                                *)
SkipsTheSilent ==
  \A p \in Procs : pc[p] # "skipped" /\ pc'[p] = "skipped" => Silent(fails[ip'[p]], Hour + 3 * Damper)

(* "no intervening successful connections" (qmail-tcpto.8:11): a host is left *)
(* out only after two timeouts two minutes apart with no success between.    *)
SkippedForSilence == [][SkipsTheSilent]_vars

(* Nobody connects to a host that is silent.                                 *)
ConnectInPeace ==
  \A p \in Procs : pc[p] # "connecting" /\ pc'[p] = "connecting" => ~Silent(fails[ip'[p]], Hour)

(* "further attempts will fail for at least another hour": a host that timed *)
(* out twice in that way is left in peace, if the table holds every host.    *)
LeftInPeace == [][ConnectInPeace]_vars
=============================================================================
