----------------------------- MODULE MailSystem -----------------------------
(***************************************************************************)
(* The queue with everybody who works on it: any number of qmail-queue     *)
(* processes, qmail-send with its qmail-clean, qmail-todo with its own,    *)
(* the spawners' reports, the passing of time, the death of each process   *)
(* and of the machine.  qmail-start ties the daemons together with pipes,  *)
(* so one that dies takes the others with it, each in its own time.        *)
(***************************************************************************)
EXTENDS QmailQueue, QmailTodo, QmailSend

CONSTANTS
  MaxCrashes,   \* bound on deaths of daemons, terminations and reboots
  StaleBacklog  \* may a message stay in todo/ until it is OSSIFIED?

ASSUME SystemAssumption == MaxCrashes \in Nat /\ StaleBacklog \in BOOLEAN

VARIABLES
  late,      \* <<d, id>>: unlinks an orphaned qmail-clean still has to do
  crashes,   \* number of deaths so far
  forgotten  \* forgotten[m]: failures lost with an unsynced bounce/ file

sendVars == <<spc, sid, memVars, fateVars>>
envVars  == <<late, crashes, forgotten>>
vars     == <<dirVars, queueVars, todoVars, sendVars, envVars>>

TypeOK ==
  /\ QueueTypeOK /\ WriterTypeOK /\ TodoTypeOK /\ SendTypeOK
  /\ late \subseteq Directories \X Ids
  /\ crashes \in 0..MaxCrashes
  /\ forgotten \in [Msgs -> SUBSET Rcpts]

Init ==
  /\ QueueInit /\ WriterInit /\ TodoInit /\ SendInit
  /\ late = {} /\ crashes = 0
  /\ forgotten = [m \in Msgs |-> {}]

-----------------------------------------------------------------------------
(* The components.                                                         *)

Queue(m) == QmailQueueStep(m) /\ UNCHANGED <<todoVars, sendVars, envVars>>

(* A report can be written only while qmail-send holds the pipe. *)
Todo ==
  /\ QmailTodoStep
  /\ tpc = "report" => spc # "down"
  /\ UNCHANGED <<queueVars, sendVars, envVars>>

Send == SendStep /\ UNCHANGED <<queueVars, todoVars, envVars>>

Spawner(id, r, report) ==
  SpawnerReports(id, r, report) /\ UNCHANGED <<queueVars, todoVars, envVars>>

ReapPid(id) ==
  /\ spc # "down" \/ tpc # "dead"
  /\ CleanupPid(id)
  /\ UNCHANGED <<queueVars, todoVars, envVars>>

(* qmail-start runs the daemons.  It is started again by its supervisor;   *)
(* what the previous daemons left running is taken to be gone by then.     *)
Start ==
  /\ SendStart /\ tpc = "dead" /\ late = {}
  /\ tpc' = "idle" /\ tstop' = FALSE /\ treports' = {}
  /\ UNCHANGED <<tid, tleft, tchan, queueVars, envVars>>

ReadReport ==
  \E report \in treports :
    /\ TodoDel(report[1], report[2])
    /\ treports' = treports \ {report}
    /\ UNCHANGED <<tpc, tid, tleft, tchan, tstop, queueVars, envVars>>

(* qmail-send writes X on every turn of its loop once it is exiting. *)
ReadStop ==
  /\ exitasap /\ tpc = "idle" /\ ~tstop
  /\ tstop' = TRUE
  /\ UNCHANGED <<tpc, tid, tleft, tchan, treports,
                 dirVars, queueVars, sendVars, envVars>>

NoticeTodoGone ==
  /\ tpc = "dead" /\ treports = {}
  /\ TodoGone
  /\ UNCHANGED <<todoVars, queueVars, envVars>>

-----------------------------------------------------------------------------
(* Deaths.                                                                 *)

Crash == crashes < MaxCrashes /\ crashes' = crashes + 1

(* What qmail-clean still unlinks when its client dies at pc.              *)
Requested(pc, id, last) ==
  CASE pc = "clean_intd" -> {<<"intd", id>>, <<last, id>>}
    [] pc \in {"clean_mess", "clean_todo"} -> {<<last, id>>}
    [] OTHER -> {}

(* qmail-send is killed; a request it has written is still carried out.    *)
SendDies ==
  /\ spc # "down" /\ Crash
  /\ GoDown
  /\ late' \in {late, late \cup Requested(spc, sid, "mess")}
  /\ treports' = {}
  /\ UNCHANGED <<tpc, tid, tleft, tchan, tstop,
                 dirVars, queueVars, fateVars, forgotten>>

TodoDies ==
  /\ tpc # "dead" /\ Crash
  /\ tpc' = "dead"
  /\ treports' \in SUBSET treports
  /\ late' \in {late, late \cup Requested(tpc, tid, "todo")}
  /\ UNCHANGED <<tid, tleft, tchan, tstop,
                 dirVars, queueVars, sendVars, forgotten>>

(* A qmail-todo that has lost qmail-send exits between two messages.       *)
OrphanTodoExits ==
  /\ spc = "down" /\ tpc \in {"idle", "report"}
  /\ tpc' = "dead"
  /\ UNCHANGED <<tid, tleft, tchan, treports, tstop,
                 dirVars, queueVars, sendVars, envVars>>

(* A qmail-clean dies in the middle of a request: cleandied().             *)
SendCleanDies ==
  /\ spc \in {"clean_intd", "clean_mess"} /\ Crash
  /\ SendGoto("idle") /\ exitasap' = TRUE
  /\ UNCHANGED <<pqchan, pqdone, passid, unread, hiteof, dying, undone, del,
                 todoalive, fateVars, late, forgotten,
                 dirVars, queueVars, todoVars>>

TodoCleanDies ==
  /\ tpc \in {"clean_intd", "clean_todo", "report"} /\ Crash
  /\ tpc' = "idle" /\ tstop' = TRUE
  /\ UNCHANGED <<tid, tleft, tchan, treports, late, forgotten,
                 dirVars, queueVars, sendVars>>

LateUnlink ==
  \E f \in late :
    /\ <<"intd", f[2]>> \in late => f[1] = "intd"
    /\ late' = late \ {f}
    /\ files' = files \ {f}
    /\ UNCHANGED <<dirty, held, pending, noted, age, expired, crashes,
                   forgotten, queueVars, todoVars, sendVars>>

Terminate ==
  SigTerm /\ Crash /\ UNCHANGED <<queueVars, todoVars, late, forgotten>>

(* After a reboot of the machine every process is gone, and of what was    *)
(* written without an fsync any part may be gone: new contents of a file,  *)
(* the D marks (fs) and the notes in bounce/.  Links are made and removed  *)
(* synchronously, as INTERNALS section 1 asks of the file system.          *)
Reboot ==
  LET lost(id) == UNION {OfChannel(c) : c \in {d \in Channels : <<d, id>> \in dirty}}
      kept(id) == Envelope(id) \cap
                    UNION {OfChannel(c) : c \in {d \in Channels : Has(d, id)}}
      torn == {id \in Ids : <<"mess", id>> \in dirty \/ <<"intd", id>> \in dirty}
  IN
  /\ Crash
  /\ wpc' = [m \in Msgs |-> IF Live(m) THEN "dead" ELSE wpc[m]]
  /\ GoDown /\ tpc' = "dead" /\ treports' = {} /\ late' = {}
  /\ dirty' = {}
  /\ \E revert \in [Ids -> SUBSET Rcpts] :
       /\ \A id \in Ids : revert[id] \subseteq kept(id)
       /\ pending' = [id \in Ids |-> (pending[id] \cup revert[id]) \ lost(id)]
  /\ noted' \in [Ids -> SUBSET Rcpts]
  /\ \A id \in Ids : noted'[id] \subseteq noted[id]
  /\ held' = [id \in Ids |-> IF id \in torn THEN NoMsg ELSE held[id]]
  /\ forgotten' =
       [m \in Msgs |->
          forgotten[m] \cup UNION {(noted[id] \ noted'[id]) \ pending'[id] :
                                   id \in {i \in Ids : held[i] = m}}]
  /\ UNCHANGED <<files, age, expired, wid, accepted, tid, tleft, tchan, tstop,
                 fateVars>>

-----------------------------------------------------------------------------
(* Time.                                                                   *)

(* A qmail-queue is killed by its alarm at DEATH, and an orphaned          *)
(* qmail-clean finishes its two unlinks within a tick.  No message waits   *)
(* in todo/ for OSSIFIED unless StaleBacklog, and then it waits while no   *)
(* qmail-todo runs, not in the middle of todo_do().                        *)
MayTick ==
  /\ \A m \in Msgs : Live(m) => age[wid[m]] < DEATH
  /\ late = {}
  /\ \/ \A id \in Ids : Has("todo", id) => age[id] < OSSIFIED
     \/ StaleBacklog /\ tpc = "dead"

Tick ==
  /\ MayTick
  /\ \E id \in Ids : age[id] < MaxAge
  /\ age' = [id \in Ids |-> IF age[id] < MaxAge THEN age[id] + 1 ELSE MaxAge]
  /\ UNCHANGED <<files, dirty, held, pending, noted, expired,
                 queueVars, todoVars, sendVars, envVars>>

(* queuelifetime passes (control/queuelifetime may be any number).         *)
Expire(id) ==
  /\ Has("info", id) /\ id \notin expired
  /\ expired' = expired \cup {id}
  /\ UNCHANGED <<files, dirty, held, pending, noted, age,
                 queueVars, todoVars, sendVars, envVars>>

-----------------------------------------------------------------------------

Next ==
  \/ \E m \in Msgs : Queue(m)
  \/ Todo \/ Send
  \/ \E id \in Ids, r \in Rcpts, report \in Report : Spawner(id, r, report)
  \/ \E id \in Ids : ReapPid(id)
  \/ Start \/ ReadReport \/ ReadStop \/ NoticeTodoGone
  \/ SendDies \/ TodoDies \/ OrphanTodoExits
  \/ SendCleanDies \/ TodoCleanDies \/ LateUnlink \/ Terminate \/ Reboot
  \/ Tick \/ \E id \in Ids : Expire(id)

Spec == Init /\ [][Next]_vars

-----------------------------------------------------------------------------
(* Properties.                                                             *)

(* A message is in one of the five states of INTERNALS section 2 at every  *)
(* moment, whoever is in the middle of a handler (qmail-queue.c main,      *)
(* qmail-todo.c todo_do, qmail-send.c messdone and cleanup_do).            *)
AllStates == \A id \in Ids : S1(id) \/ S2(id) \/ S3(id) \/ S4(id) \/ S5(id)

(* Is the inode of m (still) its own? *)
Holds(m) == wid[m] # NoId /\ held[wid[m]] = m

(* Does the queue still owe m to r?  Its file must lead qmail-send there:  *)
(* an envelope in todo/, a T record, or a note for the bounce message.     *)
Carried(m, r) ==
  LET id == wid[m] IN
  /\ Holds(m) /\ Has("mess", id)
  /\ \/ Has("todo", id)
     \/ /\ Has("info", id)
        /\ \/ Has(ChannelOf[r], id) /\ r \in pending[id]
           \/ Has("bounce", id) /\ r \in noted[id]

Settled(m, r) ==
  \/ r \in delivered[m] \/ r \in bounced[m]
  \/ r \in discarded[m] \/ r \in forgotten[m]

(* Once qmail-queue has said that a message is queued (exit status 0), it  *)
(* is not lost: each recipient has been delivered to or reported in a      *)
(* bounce message, or the queue directory still carries the recipient.     *)
NoLoss ==
  \A m \in accepted : \A r \in To[m] : Settled(m, r) \/ Carried(m, r)

(* What a crash may tear is never what the queue depends on: the message   *)
(* and envelope are synced before todo/id exists (qmail-queue.c:216, 290)  *)
(* and info/, local/, remote/ before todo/id goes (qmail-todo.c:518-531).  *)
QueuedIsDurable ==
  \A id \in Ids :
    /\ Has("todo", id) => <<"mess", id>> \notin dirty /\ <<"intd", id>> \notin dirty
    /\ Has("info", id) /\ ~Has("todo", id) =>
         \A d \in {"mess", "info"} \cup Channels : <<d, id>> \notin dirty

(* qmail-send knows of every preprocessed message: it is in a priority     *)
(* queue, has a job, is being eliminated, or its report is on the way.     *)
(* (The comments beside pqdone and pqchan, qmail-send.c:388-392.)          *)
Known(id) ==
  \/ id \in pqdone \/ \E c \in Channels : <<c, id>> \in pqchan
  \/ \E c \in Channels : passid[c] = id
  \/ \E r \in Rcpts : del[id][r] # "none"
  \/ sid = id /\ spc # "idle"
  \/ \E chans \in SUBSET Channels : <<id, chans>> \in treports
  \/ tpc = "report" /\ tid = id

Scheduling ==
  spc # "down" /\ ~exitasap /\ tpc # "dead" /\ ~tstop =>
    \A id \in Ids : Has("info", id) /\ ~Has("todo", id) => Known(id)

(* One job at most works on a channel file: job_close() and todo_del() put *)
(* it into pqchan only when no pass reads it and no delivery of it is out. *)
OneJob ==
  \A c \in Channels, id \in Ids :
    <<c, id>> \in pqchan =>
      passid[c] # id /\ \A r \in OfChannel(c) : del[id][r] = "none"

(* While a qmail-queue lives, nobody but itself unlinks what it linked     *)
(* (INTERNALS section 6: "any qmail-queue handling the message must be     *)
(* dead"), until the todo/ link makes it qmail-send's.                     *)
LiveFiles(m) ==
  CASE wpc[m] \in {"link"} -> {"pid"}
    [] wpc[m] = "unpid" -> {"pid", "mess"}
    [] wpc[m] \in {"mess", "intd", "clean_mess"} -> {"mess"}
    [] wpc[m] \in {"env", "todo", "clean_intd"} -> {"mess", "intd"}
    [] OTHER -> {}

NeverReaped ==
  \A m \in Msgs : \A d \in LiveFiles(m) : Has(d, wid[m])

-----------------------------------------------------------------------------
(* Liveness.                                                               *)

(* A started qmail-queue goes on (at the latest its alarm ends it).        *)
QueueFairness == \A m \in Msgs : WF_vars(Live(m) /\ Queue(m))

(* qmail-todo goes on; its select() loop reads the pipe between messages,  *)
(* and writing to a dead qmail-send ends it.                               *)
TodoFairness == WF_vars(Todo) /\ WF_vars(ReadStop) /\ WF_vars(OrphanTodoExits)

SendAct(A) == A /\ UNCHANGED <<queueVars, todoVars, envVars>>

(* What del_do, todo_do and pass_do begin, and the end of the loop. *)
Work ==
  \/ \E c \in Channels, id \in Ids : SendAct(OpenPass(c, id))
  \/ \E c \in Channels, r \in Rcpts : SendAct(ReadRecipient(c, r))
  \/ \E c \in Channels : SendAct(EndPass(c, TRUE))
  \/ \E id \in Ids, r \in Rcpts :
       SendAct(ReportK(id, r) \/ ReportZ(id, r) \/ ReportD(id, r))
  \/ \E id \in Ids : SendAct(MessDone(id))
  \/ SendAct(SendExit) \/ ReadReport \/ NoticeTodoGone

(* A handler that has begun goes on.  Every turn of the select() loop of   *)
(* qmail-send calls del_do, todo_do, pass_do and cleanup_do, so neither    *)
(* the first three nor the last waits for ever while it has work.          *)
(* qmail-queue sometimes accepts a bounce message.                         *)
SendFairness ==
  /\ WF_vars(spc # "idle" /\ Send)
  /\ SF_vars(Work)
  /\ SF_vars(SendAct(\E id \in Ids : CleanupOld(id)))
  /\ SF_vars(SendAct(InjectBounce /\ spc' # "idle"))

(* Spawners report on what they are given, the supervisor starts           *)
(* qmail-start again, qmail-clean answers, and time passes.                *)
EnvFairness ==
  /\ \A id \in Ids, r \in Rcpts :
       WF_vars(\E report \in Report : Spawner(id, r, report))
  /\ WF_vars(Start) /\ WF_vars(LateUnlink) /\ WF_vars(Tick)
  /\ \A id \in Ids : WF_vars(Expire(id)) /\ WF_vars(ReapPid(id))

FairSpec ==
  Spec /\ QueueFairness /\ TodoFairness /\ SendFairness /\ EnvFairness

(* Every accepted message is settled for each recipient, and its files are *)
(* removed (INTERNALS sections 4 and 5).                                   *)
EventuallySettled ==
  \A m \in Msgs :
    m \in accepted ~> /\ \A r \in To[m] : Settled(m, r)
                      /\ Holds(m) => S1(wid[m])

(* What a qmail-queue that failed leaves behind is removed some day        *)
(* (INTERNALS section 6).                                                  *)
LeftoversReaped ==
  \A m \in Msgs :
    wpc[m] = "dead" /\ m \notin accepted
      ~> (Holds(m) => S1(wid[m]) /\ ~Has("pid", wid[m]))

-----------------------------------------------------------------------------
(* The queue directory keeps the contract.                                 *)

(* m has been accepted and is not eliminated: UnlinkInfo ends it. *)
InQueue(m) ==
  /\ m \in accepted /\ Holds(m)
  /\ Has("todo", wid[m]) \/ Has("info", wid[m])

Contract == INSTANCE MailContract WITH
  queue    <- {m \in Msgs : InQueue(m)},
  gone     <- {m \in accepted : ~InQueue(m)},
  delivered <- delivered,
  reported <- [m \in Msgs |-> bounced[m] \cup discarded[m] \cup forgotten[m]]

(* Every behaviour of the system is one that MailContract allows. *)
KeepsContract == Contract!Spec

=============================================================================
