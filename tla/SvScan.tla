--------------------------------- MODULE SvScan ---------------------------------
(***************************************************************************)
(* svscan starts a supervise for every directory it finds, and one for its   *)
(* log, joined by a pipe that svscan keeps open so that either can be        *)
(* started again without losing what is in it.  Directories are linked,      *)
(* renamed and removed while svscan reads, a supervise can end at any time,  *)
(* and every call can fail.  One of a pair of processes that svscan never    *)
(* sees again would run beside the next one.                                 *)
(***************************************************************************)
EXTENDS Naturals, SequencesExt

CONSTANTS
  Names, Inodes, None,
  Logged,        \* the directories with a log
  SERVICES,      \* entries of the table: 1000 in the source
  Changes,       \* bound on changes of the directory
  Deaths,        \* bound on supervise processes that end
  Fails          \* bound on calls that fail

SvScanAssumption ==
  /\ None \notin Inodes /\ None \notin [ino : Inodes, role : {"service", "log"}, pipe : Nat]
  /\ Logged \subseteq Inodes /\ {SERVICES, Changes, Deaths, Fails} \subseteq Nat

VARIABLES
  pc,            \* "reap", "read", "sweep", "sleep"
  unread,        \* names readdir() has yet to return
  names,         \* the directory of every name
  x,             \* the table
  procs,         \* [pid |-> [ino, role, pipe]], the processes that run
  dead,          \* pids that wait_nohang() has yet to return
  changes, deaths, fails

Roles == {"service", "log"}
vars == <<pc, unread, names, x, procs, dead, changes, deaths, fails>>

Pids == 1 .. 2 * SERVICES + Deaths
Free == {p \in Pids : p \notin dead /\ procs[p] = None}
NewPid(free) == CHOOSE p \in free : \A q \in free : p <= q
Pipes == {x[i].pipe : i \in DOMAIN x} \cup {procs[p].pipe : p \in {q \in Pids : procs[q] # None}}
NewPipe == CHOOSE n \in 1 .. Cardinality(Pipes) + 1 : n \notin Pipes

Init ==
  /\ pc = "reap" /\ unread = {} /\ names \in [Names -> Inodes \cup {None}] /\ x = <<>>
  /\ procs = [p \in Pids |-> None] /\ dead = {}
  /\ changes = 0 /\ deaths = 0 /\ fails = 0

Fail == fails < Fails /\ fails' = fails + 1

-----------------------------------------------------------------------------
(* doit(): wait_nohang() until there is no more *)

(* A wrong version: forgets to note that a log ended. *)
ClearService(p) ==
  LET hit == {i \in DOMAIN x : p \in {x[i].pid, x[i].pidlog}}
  IN [i \in DOMAIN x |-> IF i \notin hit THEN x[i]
                         ELSE IF x[i].pid = p THEN [x[i] EXCEPT !.pid = 0] ELSE x[i]]

Clear(p) ==
  LET hit == {i \in DOMAIN x : p \in {x[i].pid, x[i].pidlog}}
  IN [i \in DOMAIN x |-> IF i \notin hit THEN x[i]
                         ELSE IF x[i].pid = p THEN [x[i] EXCEPT !.pid = 0] ELSE [x[i] EXCEPT !.pidlog = 0]]

Reap ==
  /\ pc = "reap"
  /\ \E p \in dead : dead' = dead \ {p} /\ x' = Clear(p)
  /\ UNCHANGED <<pc, unread, names, procs, changes, deaths, fails>>

OpenDir ==
  /\ pc = "reap" /\ dead = {}
  /\ x' = [i \in DOMAIN x |-> [x[i] EXCEPT !.active = FALSE]]
  /\ \/ pc' = "read" /\ unread' = Names /\ UNCHANGED fails
     \/ Fail /\ pc' = "sleep" /\ UNCHANGED unread
  /\ UNCHANGED <<names, procs, dead, changes, deaths>>

-----------------------------------------------------------------------------
(* start() of a name *)

Entry(d) == {i \in DOMAIN x : x[i].ino = d}
NewEntry(d) == [ino |-> d, active |-> TRUE, log |-> d \in Logged, pid |-> 0, pidlog |-> 0,
                pipe |-> IF d \in Logged THEN NewPipe ELSE 0]

(* fork() for what does not run, the service first; a failure leaves the     *)
(* rest for next time.                                                       *)
Needs(e) == {r \in Roles : IF r = "service" THEN e.pid = 0 ELSE e.log /\ e.pidlog = 0}

Forks(i, e, started) ==
  LET service == IF "service" \in started THEN NewPid(Free) ELSE e.pid
      log == IF "log" \in started THEN NewPid(Free \ {service}) ELSE e.pidlog
      program(role) == [ino |-> e.ino, role |-> role, pipe |-> e.pipe]
  IN /\ started \subseteq Needs(e) /\ ("log" \in started => "service" \notin Needs(e) \ started)
     /\ IF started # Needs(e) THEN Fail ELSE UNCHANGED fails
     /\ procs' = [p \in Pids |-> IF "service" \in started /\ p = service THEN program("service")
                                 ELSE IF "log" \in started /\ p = log THEN program("log") ELSE procs[p]]
     /\ x' = [j \in 1 .. (IF i > Len(x) THEN i ELSE Len(x)) |->
                IF j = i THEN [e EXCEPT !.active = TRUE, !.pid = service, !.pidlog = log] ELSE x[j]]

Start(d) ==
  IF Entry(d) # {}
  THEN \E i \in Entry(d), started \in SUBSET Roles : Forks(i, x[i], started)
  ELSE \/ Len(x) >= SERVICES /\ UNCHANGED <<x, procs, fails>>
       \/ Len(x) < SERVICES /\ Fail /\ UNCHANGED <<x, procs>>      \* stat() or pipe() fails
       \/ Len(x) < SERVICES /\ \E started \in SUBSET Roles : Forks(Len(x) + 1, NewEntry(d), started)

Read ==
  /\ pc = "read"
  /\ \E n \in unread :
       /\ unread' = unread \ {n}
       /\ IF names[n] = None THEN UNCHANGED <<x, procs, fails>> ELSE Start(names[n])
  /\ UNCHANGED <<pc, names, dead, changes, deaths>>

(* readdir() fails, or is through.                                           *)
EndRead ==
  /\ pc = "read" /\ unread' = {}
  /\ \/ unread = {} /\ pc' = "sweep" /\ UNCHANGED fails
     \/ Fail /\ pc' = "sleep"
  /\ UNCHANGED <<names, x, procs, dead, changes, deaths>>

-----------------------------------------------------------------------------
(* What is neither listed nor running is removed; the last takes its place.  *)

(* A wrong version: does not look at the log's process. *)
IdleLog(e) == ~e.active /\ e.pid = 0

Idle(e) == ~e.active /\ e.pid = 0 /\ e.pidlog = 0

(* A wrong version: drops the last instead of moving it. *)
SweepTail ==
  /\ pc = "sweep"
  /\ LET idle == {i \in DOMAIN x : Idle(x[i])}
         i == CHOOSE k \in idle : \A j \in idle : k <= j
     IN IF idle = {} THEN pc' = "sleep" /\ UNCHANGED x
        ELSE x' = Front(x) /\ UNCHANGED pc
  /\ UNCHANGED <<unread, names, procs, dead, changes, deaths, fails>>

Sweep ==
  /\ pc = "sweep"
  /\ LET idle == {i \in DOMAIN x : Idle(x[i])}
         i == CHOOSE k \in idle : \A j \in idle : k <= j
     IN IF idle = {} THEN pc' = "sleep" /\ UNCHANGED x
        ELSE x' = Front([x EXCEPT ![i] = x[Len(x)]]) /\ UNCHANGED pc
  /\ UNCHANGED <<unread, names, procs, dead, changes, deaths, fails>>

Sleep == pc = "sleep" /\ pc' = "reap" /\ UNCHANGED <<unread, names, x, procs, dead, changes, deaths, fails>>

-----------------------------------------------------------------------------
(* What happens outside *)

Die ==
  /\ deaths < Deaths /\ deaths' = deaths + 1
  /\ \E p \in {q \in Pids : procs[q] # None} :
       procs' = [procs EXCEPT ![p] = None] /\ dead' = dead \cup {p}
  /\ UNCHANGED <<pc, unread, names, x, changes, fails>>

Change ==
  /\ changes < Changes /\ changes' = changes + 1
  /\ \/ \E n \in Names, d \in Inodes \cup {None} : names' = [names EXCEPT ![n] = d]
     \/ \E n, m \in Names : names' = [names EXCEPT ![m] = names[n], ![n] = None]      \* rename()
  /\ UNCHANGED <<pc, unread, x, procs, dead, deaths, fails>>

Svscan == Reap \/ OpenDir \/ Read \/ EndRead \/ Sweep \/ Sleep
Next == Svscan \/ Die \/ Change
Spec == Init /\ [][Next]_vars
Fairness == WF_vars(Svscan)
FairSpec == Spec /\ Fairness

-----------------------------------------------------------------------------
Running(d, role) == {p \in Pids : procs[p] # None /\ procs[p].ino = d /\ procs[p].role = role}

TypeOK ==
  /\ pc \in {"reap", "read", "sweep", "sleep"} /\ unread \subseteq Names
  /\ Len(x) <= SERVICES
  /\ \A i \in DOMAIN x : x[i].ino \in Inodes /\ {x[i].pid, x[i].pidlog} \subseteq Pids \cup {0}
  /\ \A p \in dead : procs[p] = None

(* However names and processes come and go, a service and its log never have *)
(* two supervise processes.                                                  *)
OneSupervise ==
  \A d \in Inodes : \A role \in Roles : Cardinality(Running(d, role)) <= 1

(* Every process that runs is in the table: none is lost sight of when an    *)
(* entry moves or goes.                                                      *)
NoneForgotten ==
  \A p \in Pids : procs[p] # None =>
    \E i \in DOMAIN x : /\ x[i].ino = procs[p].ino
                        /\ p = IF procs[p].role = "service" THEN x[i].pid ELSE x[i].pidlog

(* A service and its log are at the two ends of one pipe, whichever of them  *)
(* was started again; two services do not share a pipe.                      *)
SamePipe ==
  \A p, q \in Pids :
    procs[p] # None /\ procs[q] # None /\ procs[p].pipe # 0 =>
      (procs[p].pipe = procs[q].pipe <=> procs[p].ino = procs[q].ino)

(* As long as the table has room, what is listed in the end runs, and its    *)
(* log: whatever failed is tried again.                                      *)
Wanted(d) == \E n \in Names : names[n] = d
ListedRuns ==
  \A d \in Inodes :
    []<>(Wanted(d) => /\ Running(d, "service") # {}
                      /\ d \in Logged => Running(d, "log") # {})
=============================================================================
