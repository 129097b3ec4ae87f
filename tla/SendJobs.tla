------------------------------ MODULE SendJobs ------------------------------
(***************************************************************************)
(* The tables of qmail-send for one channel: the priority queues (bags of   *)
(* message ids), the jobs with their references, the pass, the numbered     *)
(* delivery slots, and the file local/id or remote/id they all work on.     *)
(* Module QmailSend treats these as sets; here they are what the code has.  *)
(*                                                                         *)
(* The spawner answers the command of each slot once, in any order, and may *)
(* die.  Preprocessing of the messages in todo ends at any moment with a    *)
(* D report.  Time is left out: an entry of a queue may be due.             *)
(***************************************************************************)
EXTENDS Integers, FiniteSets, Bags

CONSTANTS
  Msgs,
  NRecords,    \* records in the channel file of each message
  NSlots,      \* concurrency[c]
  NJobs,       \* numjobs
  StatFails,   \* stat() in pqadd() may fail with more than ENOENT
  IoErrors     \* open, read, write and unlink of the channel file may fail

JobsAssumption ==
  /\ NRecords \in Nat \ {0} /\ NSlots \in Nat \ {0} /\ NJobs \in Nat \ {0}
  /\ StatFails \in BOOLEAN /\ IoErrors \in BOOLEAN

Slots == 0 .. NSlots - 1
Jobs == 0 .. NJobs - 1
Records == 1 .. NRecords

CONSTANT NoMsg
NoMsgAssumption == NoMsg \notin Msgs

VARIABLES
  todo,      \* messages whose preprocessing is not finished
  file,      \* file[m]: "T" and "D" of each record, <<>> when there is none
  pqchan, pqfail, pqdone,
  pass,      \* [id, j, pos]: id = NoMsg if a new pass is needed
  jo,        \* jo[j]: [refs, id, numtodo, hiteof]
  d,         \* d[i]: [used, j, pos]
  alive,     \* flagspawnalive[c]
  unseen,    \* what pqstart() has not read yet
  reported,  \* records with a K or D report since their file was made
  running    \* running[i]: <<message, record>> the spawner works on in slot i

vars == <<todo, file, pqchan, pqfail, pqdone, pass, jo, d, alive,
          unseen, reported, running>>

NoPass == [id |-> NoMsg, j |-> 0, pos |-> 0]
NoJob == [refs |-> 0, id |-> NoMsg, numtodo |-> 0, hiteof |-> FALSE]
NoDel == [used |-> FALSE, j |-> 0, pos |-> 0]
Fresh == [r \in Records |-> "T"]

Init ==
  /\ todo \in SUBSET Msgs
  /\ file = [m \in Msgs |-> Fresh]
  /\ pqchan = EmptyBag /\ pqfail = EmptyBag /\ pqdone = EmptyBag
  /\ pass = NoPass
  /\ jo = [j \in Jobs |-> NoJob] /\ d = [i \in Slots |-> NoDel]
  /\ alive = TRUE /\ unseen = Msgs
  /\ reported = [m \in Msgs |-> {}]
  /\ running = [i \in Slots |-> <<NoMsg, 0>>]

Insert(pq, m) == pq (+) SetToBag({m})
Delete(pq, m) == pq (-) SetToBag({m})

HasFile(m) == file[m] # <<>>

-----------------------------------------------------------------------------
(* Priority queues *)

(* A wrong version: todo/ is not looked at. *)
PqAddTodo(m, chan, done, fail) ==
  \/ /\ HasFile(m)
     /\ pqchan' = Insert(chan, m) /\ pqdone' = done /\ pqfail' = fail
  \/ /\ ~HasFile(m)
     /\ pqdone' = Insert(done, m) /\ pqchan' = chan /\ pqfail' = fail
  \/ /\ StatFails
     /\ pqfail' = Insert(fail, m) /\ pqchan' = chan /\ pqdone' = done

(* pqadd(): a message that is still in todo/ is left to its D report.       *)
PqAdd(m, chan, done, fail) ==
  \/ /\ m \in todo
     /\ pqchan' = chan /\ pqdone' = done /\ pqfail' = fail
  \/ /\ m \notin todo /\ HasFile(m)
     /\ pqchan' = Insert(chan, m) /\ pqdone' = done /\ pqfail' = fail
  \/ /\ m \notin todo /\ ~HasFile(m)
     /\ pqdone' = Insert(done, m) /\ pqchan' = chan /\ pqfail' = fail
  \/ /\ StatFails
     /\ pqfail' = Insert(fail, m) /\ pqchan' = chan /\ pqdone' = done

(* pqstart(), before qmail-todo gets its S: all of info/, which may include *)
(* messages that an earlier qmail-todo did not finish.                       *)
PqStart(m) ==
  /\ m \in unseen /\ unseen' = unseen \ {m}
  /\ PqAdd(m, pqchan, pqdone, pqfail)
  /\ UNCHANGED <<todo, file, pass, jo, d, alive, reported, running>>

(* pass_do(): an entry of pqfail is due. *)
PqRetry(m) ==
  /\ unseen = {} /\ BagIn(m, pqfail)
  /\ PqAdd(m, pqchan, pqdone, Delete(pqfail, m))
  /\ UNCHANGED <<todo, file, pass, jo, d, alive, unseen, reported, running>>

(* todo_del(): qmail-todo has made the file anew and reports it.            *)
TodoDel(m) ==
  /\ unseen = {} /\ m \in todo
  /\ todo' = todo \ {m}
  /\ file' = [file EXCEPT ![m] = Fresh]
  /\ reported' = [reported EXCEPT ![m] = {}]
  /\ pqchan' = Insert(pqchan, m)
  /\ UNCHANGED <<pqfail, pqdone, pass, jo, d, alive, unseen, running>>

(* messdone(): false alarm if the file is there, else the end of m.         *)
MessDone(m) ==
  /\ unseen = {} /\ BagIn(m, pqdone)
  /\ pqdone' = Delete(pqdone, m)
  /\ UNCHANGED <<todo, file, pqchan, pqfail, pass, jo, d, alive, unseen,
                 reported, running>>

-----------------------------------------------------------------------------
(* Jobs *)

FreeJobs == {j \in Jobs : jo[j].refs = 0}
FreeSlots == {i \in Slots : ~d[i].used}
First(S) == CHOOSE i \in S : \A k \in S : i <= k

(* A wrong version: deferred recipients are not counted. *)
SettledWhenRead(job) == job.hiteof

Settled(job) == job.hiteof /\ job.numtodo = 0

(* A wrong version: the last reference is not waited for. *)
JobCloseEarly(j, jobs, f) ==
  LET m == jobs[j].id IN
  /\ jo' = [jobs EXCEPT ![j].refs = @ - 1]
  /\ IF jobs[j].refs > 2
     THEN file' = f /\ UNCHANGED <<pqchan, pqdone>>
     ELSE \/ /\ Settled(jobs[j])
             /\ file' = [f EXCEPT ![m] = <<>>]
             /\ pqdone' = Insert(pqdone, m) /\ UNCHANGED pqchan
          \/ /\ ~Settled(jobs[j]) \/ IoErrors
             /\ file' = f
             /\ pqchan' = Insert(pqchan, m) /\ UNCHANGED pqdone

(* A wrong version: an unfinished job is not put back into pqchan. *)
JobCloseForgets(j, jobs, f) ==
  LET m == jobs[j].id IN
  /\ jo' = [jobs EXCEPT ![j].refs = @ - 1]
  /\ IF jobs[j].refs > 1
     THEN file' = f /\ UNCHANGED <<pqchan, pqdone>>
     ELSE \/ /\ Settled(jobs[j])
             /\ file' = [f EXCEPT ![m] = <<>>]
             /\ pqdone' = Insert(pqdone, m) /\ UNCHANGED pqchan
          \/ /\ ~Settled(jobs[j]) \/ IoErrors
             /\ file' = f
             /\ UNCHANGED <<pqchan, pqdone>>

(* job_close(j), given the jobs and the files at its call.                  *)
JobClose(j, jobs, f) ==
  LET m == jobs[j].id IN
  /\ jo' = [jobs EXCEPT ![j].refs = @ - 1]
  /\ IF jobs[j].refs > 1
     THEN file' = f /\ UNCHANGED <<pqchan, pqdone>>
     ELSE \/ /\ Settled(jobs[j])
             /\ file' = [f EXCEPT ![m] = <<>>]
             /\ pqdone' = Insert(pqdone, m) /\ UNCHANGED pqchan
          \/ /\ ~Settled(jobs[j]) \/ IoErrors
             /\ file' = f
             /\ pqchan' = Insert(pqchan, m) /\ UNCHANGED pqdone

-----------------------------------------------------------------------------
(* pass_dochan() *)

OpenPass(m) ==
  /\ unseen = {} /\ alive /\ pass.id = NoMsg
  /\ FreeJobs # {} /\ BagIn(m, pqchan) /\ HasFile(m)
  /\ pqchan' = Delete(pqchan, m)
  /\ LET j == First(FreeJobs) IN
     /\ jo' = [jo EXCEPT ![j] = [refs |-> 1, id |-> m, numtodo |-> 0, hiteof |-> FALSE]]
     /\ pass' = [id |-> m, j |-> j, pos |-> 1]
  /\ UNCHANGED <<todo, file, pqfail, pqdone, d, alive, unseen, reported, running>>

Reading == alive /\ pass.id # NoMsg /\ FreeSlots # {}
AtEnd == pass.pos > NRecords \/ ~HasFile(pass.id)
Letter == file[pass.id][pass.pos]

ReadDone ==
  /\ Reading /\ ~AtEnd /\ Letter = "D"
  /\ pass' = [pass EXCEPT !.pos = @ + 1]
  /\ UNCHANGED <<todo, file, pqchan, pqfail, pqdone, jo, d, alive, unseen,
                 reported, running>>

(* A wrong version: the mark position is that of the next record. *)
ReadTodoUnread ==
  /\ Reading /\ ~AtEnd /\ Letter = "T"
  /\ pass' = [pass EXCEPT !.pos = @ + 1]
  /\ LET i == First(FreeSlots)
         counted == [jo EXCEPT ![pass.j].numtodo = @ + 1] IN
     \/ /\ jo' = [counted EXCEPT ![pass.j].refs = @ + 1]
        /\ d' = [d EXCEPT ![i] = [used |-> TRUE, j |-> pass.j, pos |-> pass.pos + 1]]
        /\ running' = [running EXCEPT ![i] = <<pass.id, pass.pos>>]
     \/ IoErrors /\ jo' = counted /\ UNCHANGED <<d, running>>
  /\ UNCHANGED <<todo, file, pqchan, pqfail, pqdone, alive, unseen, reported>>

(* A T record: counted, and started unless memory is short.                 *)
ReadTodo ==
  /\ Reading /\ ~AtEnd /\ Letter = "T"
  /\ pass' = [pass EXCEPT !.pos = @ + 1]
  /\ LET i == First(FreeSlots)
         counted == [jo EXCEPT ![pass.j].numtodo = @ + 1] IN
     \/ /\ jo' = [counted EXCEPT ![pass.j].refs = @ + 1]
        /\ d' = [d EXCEPT ![i] = [used |-> TRUE, j |-> pass.j, pos |-> pass.pos]]
        /\ running' = [running EXCEPT ![i] = <<pass.id, pass.pos>>]
     \/ IoErrors /\ jo' = counted /\ UNCHANGED <<d, running>>
  /\ UNCHANGED <<todo, file, pqchan, pqfail, pqdone, alive, unseen, reported>>

(* A wrong version: the pass keeps its id after the end of file. *)
EndPassKeeps ==
  /\ Reading /\ pass' = [pass EXCEPT !.pos = 1]
  /\ \/ AtEnd /\ JobClose(pass.j, [jo EXCEPT ![pass.j].hiteof = TRUE], file)
     \/ IoErrors /\ JobClose(pass.j, jo, file)
  /\ UNCHANGED <<todo, pqfail, d, alive, unseen, reported, running>>

(* End of file, or a read error. *)
EndPass ==
  /\ Reading /\ pass' = NoPass
  /\ \/ AtEnd /\ JobClose(pass.j, [jo EXCEPT ![pass.j].hiteof = TRUE], file)
     \/ IoErrors /\ JobClose(pass.j, jo, file)
  /\ UNCHANGED <<todo, pqfail, d, alive, unseen, reported, running>>

-----------------------------------------------------------------------------
(* del_dochan() *)

(* markdone(): the record becomes D, unless a call fails.                   *)
Marked(m, r) ==
  {[file EXCEPT ![m] = IF HasFile(m) THEN [@ EXCEPT ![r] = "D"] ELSE @]}
    \cup (IF IoErrors THEN {file} ELSE {})

Success(i) ==
  /\ alive /\ d[i].used
  /\ LET j == d[i].j  m == jo[j].id IN
     /\ \E f \in Marked(m, d[i].pos) :
          JobClose(j, [jo EXCEPT ![j].numtodo = @ - 1], f)
     /\ reported' = [reported EXCEPT ![running[i][1]] = @ \cup {running[i][2]}]
  /\ d' = [d EXCEPT ![i] = NoDel]
  /\ running' = [running EXCEPT ![i] = <<NoMsg, 0>>]
  /\ UNCHANGED <<todo, pqfail, pass, alive, unseen>>

(* Z, or a mangled report. *)
Deferral(i) ==
  /\ alive /\ d[i].used
  /\ JobClose(d[i].j, jo, file)
  /\ d' = [d EXCEPT ![i] = NoDel]
  /\ running' = [running EXCEPT ![i] = <<NoMsg, 0>>]
  /\ UNCHANGED <<todo, pqfail, pass, alive, unseen, reported>>

(* spawndied(): flagexitasap as well, so that no pass goes on.              *)
SpawnDied ==
  /\ unseen = {} /\ alive /\ alive' = FALSE
  /\ UNCHANGED <<todo, file, pqchan, pqfail, pqdone, pass, jo, d, unseen,
                 reported, running>>

-----------------------------------------------------------------------------
Next ==
  \/ \E m \in Msgs : PqStart(m) \/ PqRetry(m) \/ TodoDel(m) \/ MessDone(m) \/ OpenPass(m)
  \/ ReadDone \/ ReadTodo \/ EndPass
  \/ \E i \in Slots : Success(i) \/ Deferral(i)
  \/ SpawnDied

Spec == Init /\ [][Next]_vars

(* The loop of qmail-send; a spawner that is asked often enough succeeds.   *)
Fairness ==
  /\ \A m \in Msgs : /\ WF_vars(PqStart(m)) /\ WF_vars(PqRetry(m)) /\ WF_vars(TodoDel(m))
                     /\ WF_vars(MessDone(m)) /\ SF_vars(OpenPass(m))
  /\ SF_vars(ReadDone) /\ SF_vars(ReadTodo) /\ SF_vars(EndPass)
  /\ \A i \in Slots : WF_vars(Success(i) \/ Deferral(i))
  /\ \A m \in Msgs, r \in Records :
       SF_vars(\E i \in Slots : running[i] = <<m, r>> /\ Success(i))

FairSpec == Spec /\ Fairness

-----------------------------------------------------------------------------
TypeOK ==
  /\ todo \subseteq Msgs /\ unseen \subseteq Msgs
  /\ file \in [Msgs -> [Records -> {"T", "D"}] \cup {<<>>}]
  /\ \A pq \in {pqchan, pqfail, pqdone} : BagToSet(pq) \subseteq Msgs
  /\ pass \in [id : Msgs \cup {NoMsg}, j : Jobs, pos : 0 .. NRecords + 1]
  /\ jo \in [Jobs -> [refs : Nat, id : Msgs \cup {NoMsg}, numtodo : Nat, hiteof : BOOLEAN]]
  /\ d \in [Slots -> [used : BOOLEAN, j : Jobs, pos : 0 .. NRecords]]
  /\ alive \in BOOLEAN
  /\ reported \in [Msgs -> SUBSET Records]
  /\ running \in [Slots -> (Msgs \cup {NoMsg}) \X (0 .. NRecords)]

Users(j) == {i \in Slots : d[i].used /\ d[i].j = j}
PassUses(j) == pass.id # NoMsg /\ pass.j = j

(* refs counts the pass and the deliveries of a job, so that its entry is   *)
(* not used again while one of them is left.                                *)
RefsExact ==
  \A j \in Jobs : jo[j].refs = Cardinality(Users(j)) + (IF PassUses(j) THEN 1 ELSE 0)

(* A report is about the message and the record that its slot was started   *)
(* for: nothing is marked done for somebody else's success.                 *)
RightRecord ==
  /\ \A i \in Slots : d[i].used => running[i] = <<jo[d[i].j].id, d[i].pos>>
  /\ pass.id # NoMsg => jo[pass.j].id = pass.id

(* A channel file is removed only when each of its records was reported on, *)
(* whatever calls failed and in whatever order the reports came.            *)
RemovedWhenSettled == \A m \in Msgs : ~HasFile(m) => reported[m] = Records

Copies(m, pq) == IF BagIn(m, pq) THEN pq[m] ELSE 0

Owners(m) ==
  Copies(m, pqchan) + Copies(m, pqfail) + Copies(m, pqdone)
  + Cardinality({j \in Jobs : jo[j].refs > 0 /\ jo[j].id = m})
  + (IF m \in todo THEN 1 ELSE 0) + (IF m \in unseen \ todo THEN 1 ELSE 0)

(* A message that is not finished has exactly one place in the tables: one  *)
(* entry of one queue, or one job, or a report to come.                     *)
OnePlace ==
  \A m \in Msgs : Owners(m) = 1 \/ (~HasFile(m) /\ Owners(m) = 0)

(* qmail-send.c:390: "pqchan 0: -todo +info +local ?remote".                *)
QueueLegend == \A m \in BagToSet(pqchan) : m \notin todo /\ HasFile(m)

(* As long as the spawner lives every message comes to its end.             *)
AllEnd == \A m \in Msgs : <>(~alive \/ (~HasFile(m) /\ Owners(m) = 0))

=============================================================================
