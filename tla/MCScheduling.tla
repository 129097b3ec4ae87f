------------------------------ MODULE MCScheduling ------------------------------
(* Instances of what happens around the queue between qmail-send, qmail-todo  *)
(* and the spawners. They share no state: a behaviour is one of the part that *)
(* runs. A component with proofs is taken with them.                          *)
EXTENDS Integers, FiniteSets

CONSTANTS
  Parts,       \* those that a run is about
  NoTime,
  Generations, Letters, NoLetter, Deaths,   \* of the daemons
  SpawnSlots, Deliveries,                   \* of a spawner
  Mails, NoMail, RecordsOfMail, SendSlots, SendJobsMax,   \* of the jobs of qmail-send
  Injectors, TriggerKills                   \* of the trigger

VARIABLES
  part,        \* the part that runs
  queued, info, mutex, send, seen, known, flight, exitasap, todoalive, spawnalive, life_todo,
  handling, stopasap, cbuf, down, up, spawn, crashes,
  want, delid, client, cmds, reports, used, del, child, wstat, truth, holdsown, inherited,
  lingers, answers, reading,
  job_todo, file, job_pqchan, pqfail, pqdone, pass, jo, d, alive, unseen, reported, running,
  pq,
  birth, mtime, retry_pqchan, jobs, recent, done, last, tries, troubled,
  trigger_todo, writer, reader, holders, byte, hangup, phase, left, due, kills

lifeVars == <<queued, info, mutex, send, seen, known, flight, exitasap, todoalive, spawnalive,
    life_todo, handling, stopasap, cbuf, down, up, spawn, crashes>>
spawnVars == <<want, delid, client, cmds, reports, used, del, child, wstat, truth, holdsown,
    inherited, lingers, answers, reading>>
jobVars == <<job_todo, file, job_pqchan, pqfail, pqdone, pass, jo, d, alive, unseen, reported,
    running>>
pqVars == <<pq>>
retryVars == <<birth, mtime, retry_pqchan, jobs, recent, done, last, tries, troubled>>
triggerVars == <<trigger_todo, writer, reader, holders, byte, hangup, phase, left, due, kills>>
vars == <<part, lifeVars, spawnVars, jobVars, pqVars, retryVars, triggerVars>>

(* One ending for each kind of report. *)
End(crashed, code, out) == [crashed |-> crashed, code |-> code, out |-> out]
LocalEndings == {End(FALSE, 0, ""), End(FALSE, 100, ""), End(FALSE, 111, ""), End(TRUE, 0, "")}
RemoteEndings == {End(FALSE, 0, "rK"), End(FALSE, 0, "sK"), End(FALSE, 0, "hD"),
                  End(FALSE, 0, "r"), End(TRUE, 0, "rK"), End(FALSE, 111, "")}

Lifecycle == INSTANCE LifecycleSafety WITH Gens <- Generations, Msgs <- Letters,
    NoMsg <- NoLetter, Restart <- "clean", MaxCrashes <- Deaths, todo <- life_todo
Double == INSTANCE LifecycleSafety WITH Gens <- Generations, Msgs <- Letters,
    NoMsg <- NoLetter, Restart <- "double", MaxCrashes <- 0, todo <- life_todo

LocalSpawner == [part |-> "lspawn", endings |-> LocalEndings, service |-> "local"]
RemoteSpawner == [part |-> "rspawn", endings |-> RemoteEndings, service |-> "remote"]
Spawners == {LocalSpawner, RemoteSpawner}
Spawner(w) == INSTANCE Spawn WITH Slots <- SpawnSlots, MaxDel <- Deliveries,
    Endings <- w.endings, Service <- w.service

Jobs == INSTANCE SendJobsSafety WITH Msgs <- Mails, NRecords <- RecordsOfMail,
    NSlots <- SendSlots, NJobs <- SendJobsMax, StatFails <- FALSE, IoErrors <- TRUE,
    NoMsg <- NoMail, todo <- job_todo, pqchan <- job_pqchan
WorkingJobs == INSTANCE SendJobsSafety WITH Msgs <- Mails, NRecords <- RecordsOfMail,
    NSlots <- SendSlots, NJobs <- SendJobsMax, StatFails <- FALSE, IoErrors <- FALSE,
    NoMsg <- NoMail, todo <- job_todo, pqchan <- job_pqchan

Heap == INSTANCE Prioq WITH Elements <- [dt : 1 .. 3, id : 1 .. 2], Cap <- 5

Retry == INSTANCE RetrySchedule WITH Msgs <- {1, 2}, Births <- {0, 1}, Lifetime <- 4, Skip <- 1,
    SysFail <- 2, NJobs <- 1, Horizon <- 5, Troubles <- TRUE, pqchan <- retry_pqchan
Undisturbed == INSTANCE RetrySchedule WITH Msgs <- {1, 2}, Births <- {1}, Lifetime <- 2,
    Skip <- 1, SysFail <- 2, NJobs <- 1, Horizon <- 7, Troubles <- FALSE, pqchan <- retry_pqchan

Timed == INSTANCE Trigger WITH Writers <- Injectors, DirFails <- FALSE, Timer <- TRUE,
    Kills <- TriggerKills, todo <- trigger_todo
Untimed == INSTANCE Trigger WITH Writers <- Injectors, DirFails <- FALSE, Timer <- FALSE,
    Kills <- TriggerKills, todo <- trigger_todo
Failing == INSTANCE Trigger WITH Writers <- Injectors, DirFails <- TRUE, Timer <- TRUE,
    Kills <- TriggerKills, todo <- trigger_todo

ASSUME InstancesAssumption ==
  /\ Lifecycle!LifecycleAssumption /\ Double!LifecycleAssumption
  /\ (\A w \in Spawners : Spawner(w)!SpawnAssumption)
  /\ Jobs!JobsAssumption /\ WorkingJobs!JobsAssumption
  /\ Jobs!NoMsgAssumption /\ WorkingJobs!NoMsgAssumption /\ Heap!PrioqAssumption
  /\ Retry!ScheduleAssumption /\ Undisturbed!ScheduleAssumption /\ Timed!TriggerAssumption
  /\ Untimed!TriggerAssumption /\ Failing!TriggerAssumption

Init ==
  /\ part \in Parts
  /\ Lifecycle!Init
  /\ \E w \in Spawners : (w.part = part \/ (part # "rspawn" /\ w = LocalSpawner)) /\ Spawner(w)!Init
  /\ Jobs!Init /\ (part \in {"jobs", "working jobs"} \/ job_todo = {})
  /\ Heap!Init
  /\ Retry!Init
  /\ Timed!Init

Lives ==
  /\ \/ part = "lifecycle" /\ Lifecycle!Next
     \/ part = "double" /\ Double!Next
  /\ UNCHANGED <<part, spawnVars, jobVars, pqVars, retryVars, triggerVars>>

Spawns ==
  /\ \E w \in Spawners : part = w.part /\ Spawner(w)!Next
  /\ UNCHANGED <<part, lifeVars, jobVars, pqVars, retryVars, triggerVars>>

SendsJobs ==
  /\ \/ part = "jobs" /\ Jobs!Next
     \/ part = "working jobs" /\ WorkingJobs!Next
  /\ UNCHANGED <<part, lifeVars, spawnVars, pqVars, retryVars, triggerVars>>

Queues ==
  /\ part = "prioq" /\ Heap!Next
  /\ UNCHANGED <<part, lifeVars, spawnVars, jobVars, retryVars, triggerVars>>

Retries ==
  /\ \/ part = "retry" /\ Retry!Next
     \/ part = "undisturbed retry" /\ Undisturbed!Next
  /\ UNCHANGED <<part, lifeVars, spawnVars, jobVars, pqVars, triggerVars>>

Pulls ==
  /\ \/ part = "trigger" /\ Timed!Next
     \/ part = "untimed trigger" /\ Untimed!Next
     \/ part = "failing opendir" /\ Failing!Next
  /\ UNCHANGED <<part, lifeVars, spawnVars, jobVars, pqVars, retryVars>>

Next == Lives \/ Spawns \/ SendsJobs \/ Queues \/ Retries \/ Pulls

Spec == Init /\ [][Next]_vars

-----------------------------------------------------------------------------
(* Through kills and restarts, qmail-send that is up knows every message that *)
(* was preprocessed, or will read the report of it, and is told of none       *)
(* twice; two qmail-sends never deliver at one time. With the parts           *)
(* NobodyForgotten, ToldOnce and OneDeliverer.                                *)
Handover ==
  /\ part = "lifecycle" => Lifecycle!TypeOK /\ Lifecycle!NobodyForgotten /\ Lifecycle!ToldOnce
  /\ part = "double" => Double!TypeOK /\ Double!OneDeliverer

(* What a spawner reports of a slot is what its own child did, whatever the   *)
(* children of other slots and earlier ones of this slot do, and a delivery   *)
(* number is in one place of the loop from qmail-send to the spawner and      *)
(* back.                                                                      *)
ReportsTrue ==
  \A w \in Spawners : part = w.part =>
    Spawner(w)!TypeOK /\ Spawner(w)!TrueReports /\ Spawner(w)!InOnePlace

(* However calls on the channel file fail and spawners die, the references    *)
(* of a job are its pass and its deliveries, a report marks the record it is  *)
(* about, a channel file goes only when all of it is settled, and a message   *)
(* is in the queues that the legend at qmail-send.c:387 allows, once.         *)
JobsExact ==
  part = "jobs" =>
    Jobs!TypeOK /\ Jobs!RefsExact /\ Jobs!RightRecord /\ Jobs!RemovedWhenSettled /\
    Jobs!OnePlace /\ Jobs!QueueLegend

(* The heap of qmail-send has its least element on top, and an insertion or a *)
(* deletion changes its bag of elements by that element only; squareroot() is *)
(* the root for every age; a message is never due again at the time of its    *)
(* try, is not tried more often than the root of its age allows over any      *)
(* number of planned restarts, and none is due before the top of the heap.    *)
DueInOrder ==
  /\ [](part = "prioq" => Heap!MinOnTop)
  /\ [](part = "retry" =>
       Retry!TypeOK /\ Retry!RootExact /\ Retry!NoBusyLoop /\ Retry!SparseTries /\
       Retry!TopIsEarliest)
  /\ Heap!BagOfElements

(* "when triggered, respond instantly" (qmail-todo.c:28): while qmail-todo    *)
(* sleeps, an entry of todo/ whose writer has pulled the trigger is not       *)
(* waiting for the timer.                                                     *)
RespondInstantly == part = "trigger" => Timed!TypeOK /\ Timed!RespondInstantly

(* qmail-send that was told to end does, with qmail-todo stopped or dead;     *)
(* what qmail-todo reports is read; every command to a spawner is answered,   *)
(* and the spawner ends after its client; every job ends; every message is    *)
(* given up although every try is deferred; qmail-todo comes to rest when     *)
(* nobody pulls the trigger; and an entry that nobody announced is found by   *)
(* the timer.                                                                 *)
WorkEnds ==
  /\ (part = "lifecycle" /\ Lifecycle!Fairness => Lifecycle!ShutdownEnds /\ Lifecycle!TodoFollows)
  /\ (part = "lspawn" /\ Spawner(LocalSpawner)!Fairness =>
        Spawner(LocalSpawner)!AllAnswered /\ Spawner(LocalSpawner)!ExitsAfterClient)
  /\ (part = "working jobs" /\ WorkingJobs!Fairness => WorkingJobs!AllEnd)
  /\ (part = "undisturbed retry" /\ Undisturbed!Fairness => Undisturbed!EveryoneEnds)
  /\ (part = "untimed trigger" /\ Untimed!Fairness => Untimed!ComesToRest)
  /\ (part = "failing opendir" /\ Failing!Fairness => Failing!EveryEntryTaken)

=============================================================================
