---------------------------- MODULE RetrySchedule ----------------------------
(***************************************************************************)
(* When qmail-send tries a message again: the retry times of one channel     *)
(* (nextretry, squareroot), the heap that orders them, and the file times    *)
(* that keep them over a restart.  A try that opens after the lifetime of a  *)
(* message is its last: then every deferral counts as a failure.             *)
(***************************************************************************)
EXTENDS Integers, FiniteSets

CONSTANTS
  Msgs, NoTime,
  Births,      \* possible birth times
  Lifetime,    \* control/queuelifetime
  Skip,        \* chanskip[c]
  SysFail,     \* SLEEP_SYSFAIL
  NJobs,       \* numjobs
  Horizon,     \* bound on the clock
  Troubles     \* SIGALRM, failing calls and restarts happen

ScheduleAssumption ==
  /\ Msgs \subseteq Nat /\ Births \subseteq 0 .. Horizon
  /\ Lifetime \in Nat /\ Skip \in Nat \ {0} /\ SysFail \in Nat \ {0}
  /\ NJobs \in Nat \ {0} /\ Horizon \in Nat /\ Troubles \in BOOLEAN
  /\ NoTime \notin Int

VARIABLES
  birth,     \* mtime of info/id; NoTime before todo_del()
  mtime,     \* of the channel file
  pqchan,    \* the heap
  jobs,      \* set of [id, retry, dying]
  recent,
  done,      \* the channel file is gone
  last,      \* when the last try of a message began
  tries,     \* how many tries began undisturbed
  troubled   \* messages whose schedule something disturbed

vars == <<birth, mtime, pqchan, jobs, recent, done, last, tries, troubled>>

PQ == INSTANCE Prioq WITH pq <- pqchan, Cap <- 2 * Cardinality(Msgs),
                          Elements <- [dt : Int, id : Msgs]

Init ==
  /\ birth = [m \in Msgs |-> NoTime] /\ mtime = [m \in Msgs |-> 0]
  /\ pqchan = PQ!Empty /\ jobs = {} /\ recent = 0 /\ done = {}
  /\ last = [m \in Msgs |-> NoTime] /\ tries = [m \in Msgs |-> 0]
  /\ troubled = {}

-----------------------------------------------------------------------------
(* A wrong version: one bit too few. *)
squareroot15(x) ==
  LET step[p \in Nat \X Nat, j \in 0 .. 15] ==
        LET y21 == p[1] * 2 ^ (j + 1) + 2 ^ (j + j)
        IN  IF y21 <= x - p[2] THEN <<p[1] + 2 ^ j, p[2] + y21>> ELSE p
      s[j \in 0 .. 15] == IF j = 15 THEN <<0, 0>> ELSE step[s[j + 1], j]
  IN  s[0][1]

(* squareroot(), bit after bit: s[j] is <<y, yy>> when the bits from j on   *)
(* are found.                                                               *)
squareroot(x) ==
  LET step[p \in Nat \X Nat, j \in 0 .. 15] ==
        LET y21 == p[1] * 2 ^ (j + 1) + 2 ^ (j + j)
        IN  IF y21 <= x - p[2] THEN <<p[1] + 2 ^ j, p[2] + y21>> ELSE p
      s[j \in 0 .. 16] == IF j = 16 THEN <<0, 0>> ELSE step[s[j + 1], j]
  IN  s[0][1]

(* A wrong version: the root of the age is not moved on. *)
nextretrySame(b) ==
  LET n == (IF b > recent THEN 0 ELSE squareroot(recent - b))
  IN  b + n * n

nextretry(b) ==
  LET n == (IF b > recent THEN 0 ELSE squareroot(recent - b)) + Skip
  IN  b + n * n

-----------------------------------------------------------------------------
Tick ==
  /\ recent < Horizon /\ recent' = recent + 1
  /\ UNCHANGED <<birth, mtime, pqchan, jobs, done, last, tries, troubled>>

Known(m) == birth[m] # NoTime

(* todo_del(): the birth was set by qmail-todo, whose clock may be ahead.   *)
Arrives(m) ==
  /\ ~Known(m)
  /\ \E b \in Births : birth' = [birth EXCEPT ![m] = b]
  /\ mtime' = [mtime EXCEPT ![m] = recent]
  /\ pqchan' = PQ!Inserted(pqchan, [dt |-> recent, id |-> m])
  /\ UNCHANGED <<jobs, recent, done, last, tries, troubled>>

Head == pqchan[0]
Due == PQ!Length(pqchan) > 0 /\ Head.dt <= recent /\ Cardinality(jobs) < NJobs

(* A wrong version: no try is the last. *)
OpenForever ==
  /\ Due
  /\ LET m == Head.id IN
     /\ jobs' = jobs \cup {[id |-> m, retry |-> nextretry(birth[m]), dying |-> FALSE]}
     /\ IF m \in troubled THEN UNCHANGED <<last, tries>>
        ELSE last' = [last EXCEPT ![m] = recent] /\ tries' = [tries EXCEPT ![m] = @ + 1]
  /\ pqchan' = PQ!WithoutMin(pqchan)
  /\ UNCHANGED <<birth, mtime, recent, done, troubled>>

(* pass_dochan() opens the message on top.                                  *)
Open ==
  /\ Due
  /\ LET m == Head.id IN
     /\ jobs' = jobs \cup {[id |-> m, retry |-> nextretry(birth[m]),
                            dying |-> recent > birth[m] + Lifetime]}
     /\ IF m \in troubled THEN UNCHANGED <<last, tries>>
        ELSE last' = [last EXCEPT ![m] = recent] /\ tries' = [tries EXCEPT ![m] = @ + 1]
  /\ pqchan' = PQ!WithoutMin(pqchan)
  /\ UNCHANGED <<birth, mtime, recent, done, troubled>>

Disturb(S) ==
  /\ troubled' = troubled \cup S
  /\ last' = [m \in Msgs |-> IF m \in S THEN NoTime ELSE last[m]]
  /\ tries' = [m \in Msgs |-> IF m \in S THEN 0 ELSE tries[m]]

OpenFails ==
  /\ Troubles /\ Due
  /\ pqchan' = PQ!Inserted(PQ!WithoutMin(pqchan), [dt |-> recent + SysFail, id |-> Head.id])
  /\ Disturb({Head.id})
  /\ UNCHANGED <<birth, mtime, jobs, recent, done>>

(* job_close() with recipients left, which no dying job has; markdone() may *)
(* have written to the file.                                                *)
Deferred(job) ==
  /\ job \in jobs /\ ~job.dying
  /\ jobs' = jobs \ {job}
  /\ pqchan' = PQ!Inserted(pqchan, [dt |-> job.retry, id |-> job.id])
  /\ \E t \in {mtime[job.id], recent} : mtime' = [mtime EXCEPT ![job.id] = t]
  /\ UNCHANGED <<birth, recent, done, last, tries, troubled>>

(* job_close() of a settled job.                                            *)
Settles(job) ==
  /\ job \in jobs
  /\ jobs' = jobs \ {job} /\ done' = done \cup {job.id}
  /\ UNCHANGED <<birth, mtime, pqchan, recent, last, tries, troubled>>

UnlinkFails(job) ==
  /\ Troubles /\ job \in jobs
  /\ jobs' = jobs \ {job}
  /\ pqchan' = PQ!Inserted(pqchan, [dt |-> recent + SysFail, id |-> job.id])
  /\ Disturb({job.id})
  /\ UNCHANGED <<birth, mtime, recent, done>>

(* SIGALRM *)
Alarm ==
  /\ Troubles /\ PQ!RunAll(recent)
  /\ Disturb({pqchan[k].id : k \in DOMAIN pqchan})
  /\ UNCHANGED <<birth, mtime, jobs, recent, done>>

Rebuilt(times) ==
  LET left == {m \in Msgs : Known(m) /\ m \notin done}
      add[S \in SUBSET left] ==
        IF S = {} THEN PQ!Empty
        ELSE LET m == CHOOSE k \in S : TRUE
             IN  PQ!Inserted(add[S \ {m}], [dt |-> times[m], id |-> m])
  IN  add[left]

(* A wrong version: pqfinish() is left out. *)
RestartForgets ==
  /\ Troubles /\ jobs = {}
  /\ mtime' = mtime /\ pqchan' = Rebuilt(mtime')
  /\ UNCHANGED <<birth, jobs, recent, done, last, tries, troubled>>

(* SIGTERM: no pass goes on and every job ends, pqfinish() writes the times *)
(* into the files; the next qmail-send reads them in pqadd().               *)
Restart ==
  /\ Troubles /\ jobs = {}
  /\ mtime' = [m \in Msgs |->
       IF \E k \in DOMAIN pqchan : pqchan[k].id = m
       THEN pqchan[CHOOSE k \in DOMAIN pqchan : pqchan[k].id = m].dt ELSE mtime[m]]
  /\ pqchan' = Rebuilt(mtime')
  /\ UNCHANGED <<birth, jobs, recent, done, last, tries, troubled>>

(* A crash: jobs and the times in memory are lost.                          *)
Crash ==
  /\ Troubles /\ jobs' = {}
  /\ pqchan' = Rebuilt(mtime)
  /\ Disturb({m \in Msgs : Known(m)})
  /\ UNCHANGED <<birth, mtime, recent, done>>

-----------------------------------------------------------------------------
Next ==
  \/ Tick \/ Open \/ OpenFails \/ Alarm \/ Restart \/ Crash
  \/ \E m \in Msgs : Arrives(m)
  \/ \E job \in jobs : Deferred(job) \/ Settles(job) \/ UnlinkFails(job)

Spec == Init /\ [][Next]_vars

(* The loop of qmail-send and the clock go on, and every job is closed.     *)
Fairness ==
  /\ WF_vars(Tick) /\ WF_vars(Open)
  /\ WF_vars(\E job \in jobs : Deferred(job) \/ Settles(job))
FairSpec == Spec /\ Fairness

-----------------------------------------------------------------------------
Age(m) == recent - birth[m]
Entries(m) == {pqchan[k].dt : k \in {i \in DOMAIN pqchan : pqchan[i].id = m}}
              \cup {job.retry : job \in {i \in jobs : i.id = m}}

TypeOK ==
  /\ birth \in [Msgs -> Births \cup {NoTime}]
  /\ mtime \in [Msgs -> Nat] /\ recent \in 0 .. Horizon
  /\ DOMAIN pqchan = 0 .. PQ!Length(pqchan) - 1
  /\ \A k \in DOMAIN pqchan : pqchan[k] \in [dt : Nat, id : Msgs]
  /\ \A job \in jobs : job \in [id : Msgs, retry : Nat, dying : BOOLEAN]
  /\ PQ!Length(pqchan) + Cardinality(jobs) + Cardinality(done) <= Cardinality({m \in Msgs : Known(m)})
  /\ done \subseteq Msgs /\ troubled \subseteq Msgs
  /\ last \in [Msgs -> Nat \cup {NoTime}] /\ tries \in [Msgs -> Nat]

(* qmail-send.c:1049: "result^2 <= x < (result + 1)^2", at the age of every  *)
(* message and at the ages around it that are squares of large numbers.      *)
RootExact ==
  \A m \in {k \in Msgs : Known(k) /\ Age(k) >= 0} :
    \A x \in {Age(m), (46339 - Age(m)) * (46339 - Age(m)) - 1} :
      LET y == squareroot(x) IN y * y <= x /\ x < (y + 1) * (y + 1)

(* A message whose try is over is never due again at the time of that try:  *)
(* the loop does not spin on a message that is deferred at once.             *)
NoBusyLoop ==
  \A m \in Msgs \ troubled : last[m] # NoTime => \A t \in Entries(m) : t > last[m]

(* The tries of a message that nothing disturbs grow with the square root   *)
(* of its age only, over any number of planned restarts.                    *)
SparseTries ==
  \A m \in Msgs \ troubled :
    last[m] # NoTime /\ birth[m] <= last[m] =>
      (tries[m] - 1) * Skip <= squareroot(last[m] - birth[m]) + Skip

(* pass_selprep() sleeps until the time of the top: no entry is due earlier. *)
TopIsEarliest == \A k \in DOMAIN pqchan : Head.dt <= pqchan[k].dt

(* Every message comes to an end, although every try is answered with a     *)
(* deferral: the schedule reaches a time after the lifetime.                 *)
EveryoneEnds == \A m \in Msgs : [](Known(m) => <>(m \in done))
=============================================================================
