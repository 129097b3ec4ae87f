----------------------------- MODULE QmailQueue -----------------------------
(***************************************************************************)
(* qmail-queue: one process per message.  It takes a fresh inode through   *)
(* pid/, moves it to mess/, writes and fsyncs the message, writes and      *)
(* fsyncs the envelope in intd/, and accepts the message by linking        *)
(* todo/.  It may die between any two system calls: the alarm after DEATH, *)
(* a signal, a failed call; some deaths clean up first, most do not.       *)
(***************************************************************************)
EXTENDS QueueDir

VARIABLES
  wpc,      \* wpc[m]: what the qmail-queue of m does next
  wid,      \* wid[m]: its messnum
  accepted  \* messages whose todo/ link was made (exit status 0 follows)

queueVars == <<wpc, wid, accepted>>

WriterPcs == {"start", "link", "unpid", "mess", "intd", "env", "todo",
              "trigger", "clean_intd", "clean_mess", "dead"}

WriterTypeOK ==
  /\ wpc \in [Msgs -> WriterPcs]
  /\ wid \in [Msgs -> Ids \cup {NoId}]
  /\ accepted \subseteq Msgs

WriterInit ==
  /\ wpc = [m \in Msgs |-> "start"]
  /\ wid = [m \in Msgs |-> NoId]
  /\ accepted = {}

Live(m) == wpc[m] \notin {"start", "dead"}

(* The file system reuses an inode number once nobody links or opens it. *)
Fresh(id) ==
  /\ ~Has("pid", id) /\ ~Has("mess", id)
  /\ \A m \in Msgs : Live(m) => wid[m] # id

Goto(m, pc) == wpc' = [wpc EXCEPT ![m] = pc] /\ UNCHANGED wid

-----------------------------------------------------------------------------

(* A wrong version: the inode number is not taken as the name. *)
PidOpenUnnamed(m) ==
  \E id \in Ids :
    /\ wpc[m] = "start" /\ Fresh(id)
    /\ Goto(m, "link") /\ Link("pid", id)
    /\ dirty' = (dirty \ (Directories \X {id})) \cup {<<"mess", id>>}
    /\ held' = [held EXCEPT ![id] = m]
    /\ age' = [age EXCEPT ![id] = 0]
    /\ UNCHANGED <<pending, noted, expired, accepted>>

(* pidopen() and the fstat that makes the inode number the name. *)
PidOpen(m) ==
  \E id \in Ids :
    /\ wpc[m] = "start" /\ Fresh(id)
    /\ wpc' = [wpc EXCEPT ![m] = "link"]
    /\ wid' = [wid EXCEPT ![m] = id]
    /\ Link("pid", id)
    /\ dirty' = (dirty \ (Directories \X {id})) \cup {<<"mess", id>>}
    /\ held' = [held EXCEPT ![id] = m]
    /\ age' = [age EXCEPT ![id] = 0]
    /\ UNCHANGED <<pending, noted, expired, accepted>>

(* link(pidfn,messfn).  This and the later calls that create a file fail   *)
(* when it is there already, and then qmail-queue dies: see WriterDies.    *)
LinkMess(m) ==
  /\ wpc[m] = "link" /\ ~Has("mess", wid[m])
  /\ Goto(m, "unpid") /\ Link("mess", wid[m])
  /\ UNCHANGED <<dirty, held, pending, noted, age, expired, accepted>>

UnlinkPid(m) ==
  /\ wpc[m] = "unpid"
  /\ Goto(m, "mess") /\ Unlink("pid", wid[m])
  /\ UNCHANGED <<dirty, held, pending, noted, age, expired, accepted>>

(* Copy the message from fd 0 and fsync it.  *)
WriteMess(m) ==
  /\ wpc[m] = "mess"
  /\ Goto(m, "intd")
  /\ dirty' = dirty \ {<<"mess", wid[m]>>}
  /\ UNCHANGED <<files, held, pending, noted, age, expired, accepted>>

(* open_excl(intdfn) *)
OpenIntd(m) ==
  /\ wpc[m] = "intd" /\ ~Has("intd", wid[m])
  /\ Goto(m, "env") /\ Link("intd", wid[m])
  /\ dirty' = dirty \cup {<<"intd", wid[m]>>}
  /\ UNCHANGED <<held, pending, noted, age, expired, accepted>>

(* Copy the envelope from fd 1 and fsync it. *)
WriteEnvelope(m) ==
  /\ wpc[m] = "env"
  /\ Goto(m, "todo")
  /\ dirty' = dirty \ {<<"intd", wid[m]>>}
  /\ UNCHANGED <<files, held, pending, noted, age, expired, accepted>>

(* link(intdfn,todofn): the instant at which the message is queued. *)
LinkTodo(m) ==
  /\ wpc[m] = "todo" /\ ~Has("todo", wid[m])
  /\ Goto(m, "trigger") /\ Link("todo", wid[m])
  /\ accepted' = accepted \cup {m}
  /\ UNCHANGED <<dirty, held, pending, noted, age, expired>>

(* triggerpull() and die(0).  Which scan of todo/ finds the message is     *)
(* left open: qmail-todo also scans without being triggered.               *)
PullTrigger(m) ==
  /\ wpc[m] = "trigger" /\ Goto(m, "dead")
  /\ UNCHANGED <<dirVars, accepted>>

-----------------------------------------------------------------------------

(* die_read() and die_write(): the sender went away, or a call failed,     *)
(* while the message or the envelope was copied.                           *)
Abandon(m) ==
  /\ \/ wpc[m] = "mess" /\ Goto(m, "clean_mess")
     \/ wpc[m] = "env" /\ Goto(m, "clean_intd")
  /\ UNCHANGED <<dirVars, accepted>>

(* cleanup() *)
CleanupIntd(m) ==
  /\ wpc[m] = "clean_intd"
  /\ Goto(m, "clean_mess") /\ Unlink("intd", wid[m])
  /\ UNCHANGED <<dirty, held, pending, noted, age, expired, accepted>>

CleanupMess(m) ==
  /\ wpc[m] = "clean_mess"
  /\ Goto(m, "dead") /\ Unlink("mess", wid[m])
  /\ UNCHANGED <<dirty, held, pending, noted, age, expired, accepted>>

(* sigalrm(), sigbug(), a kill, and the exits that do not clean up: 11 and *)
(* 91 for the envelope, 63 to 66 when a file cannot be made or linked.     *)
WriterDies(m) ==
  /\ Live(m) /\ Goto(m, "dead")
  /\ UNCHANGED <<dirVars, accepted>>

QmailQueueStep(m) ==
  \/ PidOpen(m) \/ LinkMess(m) \/ UnlinkPid(m) \/ WriteMess(m)
  \/ OpenIntd(m) \/ WriteEnvelope(m) \/ LinkTodo(m) \/ PullTrigger(m)
  \/ Abandon(m) \/ CleanupIntd(m) \/ CleanupMess(m) \/ WriterDies(m)

=============================================================================
