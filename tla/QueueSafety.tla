----------------------------- MODULE QueueSafety ------------------------------
(***************************************************************************)
(* The proofs about MailSystem, for every number of inodes, messages,      *)
(* recipients and deaths: first that its variables keep their types, then  *)
(* that AllStates, NeverReaped and OneJob hold in every behaviour in which *)
(* no message waits in todo/ until it is OSSIFIED (QueueInv is inductive,   *)
(* and implies them), then Scheduling, and what the queue promises: that no   *)
(* crash of the machine tears what it depends on, that no accepted message is *)
(* lost, and that MailSystem implements MailContract.                         *)
(***************************************************************************)
EXTENDS MailSystem, TLAPS

-----------------------------------------------------------------------------
(***************************************************************************)
(* Type correctness of MailSystem, for every number of inodes, messages,   *)
(* recipients and deaths.  A process that works on a message has to know   *)
(* an inode, or the names it links would be outside the queue directory;   *)
(* that is what Working adds to TypeOK to make it inductive.               *)
(***************************************************************************)

(* messnum, id and the argument of messdone() or cleanup_do() are set. *)
Working ==
  /\ \A m \in Msgs : Live(m) => wid[m] \in Ids
  /\ tpc \notin {"dead", "idle"} => tid \in Ids
  /\ spc \notin {"down", "idle"} => sid \in Ids

EnvTypeOK ==
  /\ late \subseteq Directories \X Ids
  /\ crashes \in 0..MaxCrashes
  /\ forgotten \in [Msgs -> SUBSET Rcpts]

Typed == TypeOK /\ Working

WriterTyped == WriterTypeOK /\ \A m \in Msgs : Live(m) => wid[m] \in Ids
TodoTyped   == TodoTypeOK /\ (tpc \notin {"dead", "idle"} => tid \in Ids)
SendTyped   == SendTypeOK /\ (spc \notin {"down", "idle"} => sid \in Ids)

(* Typed, component by component. *)
LEMMA TypedParts ==
  Typed <=> QueueTypeOK /\ WriterTyped /\ TodoTyped /\ SendTyped /\ EnvTypeOK
BY DEF Typed, TypeOK, Working, WriterTyped, TodoTyped, SendTyped, EnvTypeOK

(* The same, after a step. *)
LEMMA TypedPartsPrime ==
  ASSUME QueueTypeOK', WriterTyped', TodoTyped', SendTyped', EnvTypeOK'
  PROVE  Typed'
BY DEF Typed, TypeOK, Working, WriterTyped, TodoTyped, SendTyped, EnvTypeOK

(* The names the programs use are names of the queue's directories. *)
LEMMA DirectoryNames ==
  /\ "pid" \in Directories /\ "mess" \in Directories /\ "intd" \in Directories
  /\ "todo" \in Directories /\ "info" \in Directories
  /\ "bounce" \in Directories
  /\ \A c \in Channels : c \in Directories
BY DEF Directories

-----------------------------------------------------------------------------

(* Before anything is started all variables have their types. *)
LEMMA InitTyped == Init => Typed
<1> SUFFICES ASSUME Init PROVE Typed
  OBVIOUS
<1> USE TimeAssumption, EnvelopeAssumption, SystemAssumption DEF Init
<1>1. QueueTypeOK
  BY DEF QueueInit, QueueTypeOK, MaxAge
<1>2. WriterTyped
  BY DEF WriterInit, WriterTyped, WriterTypeOK, WriterPcs, Live
<1>3. TodoTyped
  BY DEF TodoInit, TodoTyped, TodoTypeOK, TodoPcs
<1>4. SendTyped
  BY DEF SendInit, SendTyped, SendTypeOK, SendPcs, NoDelivery
<1>5. EnvTypeOK
  BY DEF EnvTypeOK
<1> QED
  BY <1>1, <1>2, <1>3, <1>4, <1>5, TypedParts

(* A step of a qmail-queue. *)
LEMMA QueueStepTyped ==
  ASSUME QueueTypeOK, WriterTyped, NEW m \in Msgs, QmailQueueStep(m)
  PROVE  QueueTypeOK' /\ WriterTyped'
<1> USE TimeAssumption, EnvelopeAssumption, DirectoryNames
    DEF QueueTypeOK, WriterTyped, WriterTypeOK, WriterPcs, Live, Goto, Link,
        Unlink, MaxAge
<1>1. CASE PidOpen(m)
  BY <1>1 DEF PidOpen
<1>2. CASE LinkMess(m)
  BY <1>2 DEF LinkMess
<1>3. CASE UnlinkPid(m)
  BY <1>3 DEF UnlinkPid
<1>4. CASE WriteMess(m)
  BY <1>4 DEF WriteMess
<1>5. CASE OpenIntd(m)
  BY <1>5 DEF OpenIntd
<1>6. CASE WriteEnvelope(m)
  BY <1>6 DEF WriteEnvelope
<1>7. CASE LinkTodo(m)
  BY <1>7 DEF LinkTodo
<1>8. CASE PullTrigger(m)
  BY <1>8 DEF PullTrigger, dirVars
<1>9. CASE Abandon(m)
  BY <1>9 DEF Abandon, dirVars
<1>10. CASE CleanupIntd(m)
  BY <1>10 DEF CleanupIntd
<1>11. CASE CleanupMess(m)
  BY <1>11 DEF CleanupMess
<1>12. CASE WriterDies(m)
  BY <1>12 DEF WriterDies, dirVars
<1> QED
  BY <1>1, <1>2, <1>3, <1>4, <1>5, <1>6, <1>7, <1>8, <1>9, <1>10, <1>11,
     <1>12 DEF QmailQueueStep

(* The calls of todo_do() that fail leave the queue as it is. *)
LEMMA FailsTyped ==
  ASSUME QueueTypeOK, TodoTyped, Fails
  PROVE  QueueTypeOK' /\ TodoTyped'
BY DEF QueueTypeOK, TodoTyped, TodoTypeOK, TodoPcs, Fails, GiveUp, TodoGoto,
       dirVars, MaxAge

(* qmail-todo removing the channel file of an earlier attempt. *)
LEMMA TodoUnlinkChanTyped ==
  ASSUME QueueTypeOK, TodoTyped, NEW c \in Channels, NEW pc, NEW next \in TodoPcs,
         pc \notin {"dead", "idle"}, TodoUnlinkChan(c, pc, next), ~Fails
  PROVE  QueueTypeOK' /\ TodoTyped'
<1>1. tid \in Ids
  BY DEF TodoTyped, TodoUnlinkChan
<1>2. pending' \in [Ids -> SUBSET Rcpts]
  BY <1>1 DEF TodoUnlinkChan, QueueTypeOK
<1>3. QueueTypeOK'
  BY <1>2 DEF TodoUnlinkChan, QueueTypeOK, Unlink, MaxAge
<1>4. TodoTyped'
  BY <1>1 DEF TodoUnlinkChan, TodoGoto, TodoTyped, TodoTypeOK
<1> QED
  BY <1>3, <1>4

(* A step of qmail-todo. *)
LEMMA TodoStepTyped ==
  ASSUME QueueTypeOK, TodoTyped, QmailTodoStep
  PROVE  QueueTypeOK' /\ TodoTyped'
<1> USE EnvelopeAssumption, DirectoryNames
    DEF QueueTypeOK, TodoTyped, TodoTypeOK, TodoPcs, TodoGoto, GiveUp, Fails,
        Link, Unlink, dirVars, Channels
<1>1. ASSUME NEW id \in Ids, OpenTodo(id)
      PROVE  QueueTypeOK' /\ TodoTyped'
  <2>1. Envelope(id) \subseteq Rcpts
    BY DEF Envelope
  <2> QED
    BY <1>1, <2>1 DEF OpenTodo
<1>2. CASE TodoStatMess
  BY <1>2 DEF TodoStatMess
<1>3a. CASE TodoUnlinkChan("local", "unlocal", "unremote")
  BY <1>3a, FailsTyped, TodoUnlinkChanTyped
<1>3b. CASE TodoUnlinkChan("remote", "unremote", "uninfo")
  BY <1>3b, FailsTyped, TodoUnlinkChanTyped
<1>4. CASE TodoUnlinkInfo
  BY <1>4, FailsTyped DEF TodoUnlinkInfo
<1>5. CASE TodoCreateInfo
  <2>1. CASE Fails
    BY <2>1, FailsTyped
  <2>2. ASSUME ~Fails PROVE TodoTyped'
    BY <2>2, <1>5 DEF TodoCreateInfo
  <2>3. ASSUME ~Fails PROVE QueueTypeOK'
    BY <2>3, <1>5 DEF TodoCreateInfo
  <2> QED
    BY <2>1, <2>2, <2>3
<1>6. ASSUME NEW r \in Rcpts, CopyRecipient(r)
      PROVE  QueueTypeOK' /\ TodoTyped'
  <2>1. ChannelOf[r] \in Channels
    OBVIOUS
  <2>2. CASE Fails
    BY <2>2, FailsTyped
  <2>3. ASSUME ~Fails PROVE TodoTyped'
    BY <2>1, <2>3, <1>6 DEF CopyRecipient
  <2>4. ASSUME ~Fails PROVE QueueTypeOK'
    BY <2>1, <2>4, <1>6 DEF CopyRecipient
  <2> QED
    BY <2>2, <2>3, <2>4
<1>7. CASE EndOfEnvelope
  BY <1>7 DEF EndOfEnvelope
<1>8. CASE TodoSyncInfo
  BY <1>8, FailsTyped DEF TodoSyncInfo
<1>9. CASE TodoSyncChans
  BY <1>9, FailsTyped DEF TodoSyncChans
<1>10. CASE TodoCleanIntd
  BY <1>10, FailsTyped DEF TodoCleanIntd
<1>11. CASE TodoCleanTodo
  BY <1>11, FailsTyped DEF TodoCleanTodo
<1>12. CASE TodoReport
  <2>1. tid \in Ids /\ <<tid, tchan>> \in Ids \X SUBSET Channels
    BY <1>12 DEF TodoReport
  <2>2. TodoTyped'
    BY <2>1, <1>12 DEF TodoReport
  <2>3. QueueTypeOK'
    BY <1>12 DEF TodoReport
  <2> QED
    BY <2>2, <2>3
<1>13. CASE TodoLeaves
  BY <1>13 DEF TodoLeaves
<1> HIDE DEF QueueTypeOK, TodoTyped
<1> QED
  BY <1>1, <1>2, <1>3a, <1>3b, <1>4, <1>5, <1>6, <1>7, <1>8, <1>9, <1>10,
     <1>11, <1>12, <1>13 DEF QmailTodoStep

-----------------------------------------------------------------------------
(* qmail-send, and what else changes its variables.                        *)

(* job_close() changes these types of file, queue and job table only. *)
JobTypeOK ==
  /\ files \subseteq Directories \X Ids
  /\ pending \in [Ids -> SUBSET Rcpts]
  /\ pqchan \subseteq Channels \X Ids
  /\ pqdone \subseteq Ids
  /\ hiteof \subseteq Channels \X Ids
  /\ dying \subseteq Channels \X Ids
  /\ undone \in [Ids -> SUBSET Rcpts]

(* job_close() leaves its variables typed. *)
LEMMA JobCloseTyped ==
  ASSUME JobTypeOK, NEW c \in Channels, NEW id \in Ids, NEW busy, NEW hit,
         NEW left \in SUBSET Rcpts, NEW recs \in SUBSET Rcpts,
         JobClose(c, id, busy, hit, left, recs)
  PROVE  JobTypeOK'
<1>1. files' \subseteq Directories \X Ids
  BY DEF JobTypeOK, JobClose, Unlink
<1>2. pending' \in [Ids -> SUBSET Rcpts]
  BY DEF JobTypeOK, JobClose
<1>3. pqchan' \subseteq Channels \X Ids
  BY DEF JobTypeOK, JobClose
<1>4. pqdone' \subseteq Ids
  BY DEF JobTypeOK, JobClose
<1>5. hiteof' \subseteq Channels \X Ids /\ dying' \subseteq Channels \X Ids
  BY DEF JobTypeOK, JobClose
<1>6. undone' \in [Ids -> SUBSET Rcpts]
  BY DEF JobTypeOK, JobClose
<1> QED
  BY <1>1, <1>2, <1>3, <1>4, <1>5, <1>6 DEF JobTypeOK

(* So does the end of a delivery report, whatever was marked. *)
LEMMA EndDeliveryTyped ==
  ASSUME QueueTypeOK, SendTyped, NEW id \in Ids, NEW r \in Rcpts,
         NEW mark \in BOOLEAN, EndDelivery(id, r, mark)
  PROVE  QueueTypeOK' /\ SendTyped'
<1> DEFINE c == ChannelOf[r]
           busy == Busy(c, id, {r})
           hit == <<c, id>> \in hiteof
<1>1. c \in Channels
  BY EnvelopeAssumption
<1>2. JobTypeOK
  BY DEF JobTypeOK, QueueTypeOK, SendTyped, SendTypeOK
<1>3. JobTypeOK'
  <2>1. undone[id] \in SUBSET Rcpts /\ undone[id] \ {r} \in SUBSET Rcpts
        /\ pending[id] \in SUBSET Rcpts /\ MarkDone(id, r) \subseteq SUBSET Rcpts
    BY DEF QueueTypeOK, SendTyped, SendTypeOK, MarkDone
  <2>2. CASE mark
    <3>1. PICK recs \in MarkDone(id, r) :
            JobClose(c, id, busy, hit, undone[id] \ {r}, recs)
      BY <2>2 DEF EndDelivery
    <3> HIDE DEF c, busy, hit
    <3> QED
      BY <3>1, <2>1, <1>1, <1>2, JobCloseTyped
  <2>3. CASE ~mark
    <3>1. JobClose(c, id, busy, hit, undone[id], pending[id])
      BY <2>3 DEF EndDelivery
    <3> HIDE DEF c, busy, hit
    <3> QED
      BY <3>1, <2>1, <1>1, <1>2, JobCloseTyped
  <2> QED
    BY <2>2, <2>3
<1>4. /\ spc' = "idle" /\ sid' = sid
      /\ del' = [del EXCEPT ![id][r] = "none"]
      /\ UNCHANGED <<passid, unread, exitasap, todoalive,
                     dirty, held, noted, age, expired, fateVars>>
  BY DEF EndDelivery
<1>5. del' \in [Ids -> [Rcpts -> {"none", "sent", "noted"} \cup Report]]
  BY <1>4 DEF SendTyped, SendTypeOK
<1>6. QueueTypeOK'
  BY <1>3, <1>4 DEF QueueTypeOK, JobTypeOK, MaxAge
<1>7. SendTyped'
  BY <1>3, <1>4, <1>5 DEF SendTyped, SendTypeOK, SendPcs, JobTypeOK, fateVars
<1> QED
  BY <1>6, <1>7

(* The steps that only move spc and sid, or only pqdone beside them. *)
LEMMA TryAgainTyped ==
  ASSUME SendTyped, spc \notin {"down", "idle"}, TryAgain,
         UNCHANGED <<restVars, fateVars>>
  PROVE  SendTyped'
BY DEF SendTyped, SendTypeOK, SendPcs, TryAgain, SendGoto, restVars, fateVars

(* A step that only moves qmail-send to the next system call. *)
LEMMA SendGotoTyped ==
  ASSUME SendTyped, NEW pc \in SendPcs, spc \notin {"down", "idle"},
         SendGoto(pc), UNCHANGED <<pqdone, restVars, fateVars>>
  PROVE  SendTyped'
BY DEF SendTyped, SendTypeOK, SendPcs, SendGoto, restVars, fateVars

(* Steps that leave the queue directory alone. *)
LEMMA QueueUnchangedTyped ==
  ASSUME QueueTypeOK, UNCHANGED dirVars
  PROVE  QueueTypeOK'
BY DEF QueueTypeOK, dirVars, MaxAge

(* The handlers that deliver. *)
LEMMA DeliveringTyped ==
  ASSUME QueueTypeOK, SendTyped,
         \/ \E c \in Channels, id \in Ids : OpenPass(c, id)
         \/ \E c \in Channels, r \in Rcpts : ReadRecipient(c, r)
         \/ \E c \in Channels, hit \in BOOLEAN : EndPass(c, hit)
         \/ \E id \in Ids, r \in Rcpts :
              \/ ReportK(id, r) \/ ReportZ(id, r)
              \/ ReportD(id, r) \/ MarkFailed(id, r)
  PROVE  QueueTypeOK' /\ SendTyped'
<1>1. ASSUME NEW c \in Channels, NEW id \in Ids, OpenPass(c, id)
      PROVE  QueueTypeOK' /\ SendTyped'
  <2>1. QueueTypeOK'
    BY <1>1, QueueUnchangedTyped DEF OpenPass
  <2>2. pending[id] \cap OfChannel(c) \in SUBSET Rcpts
    BY DEF QueueTypeOK
  <2>3. SendTyped'
    BY <1>1, <2>2 DEF OpenPass, Idle, SendTyped, SendTypeOK, SendPcs, fateVars
  <2> QED
    BY <2>1, <2>3
<1>2. ASSUME NEW c \in Channels, NEW r \in Rcpts, ReadRecipient(c, r)
      PROVE  QueueTypeOK' /\ SendTyped'
  <2>1. QueueTypeOK'
    BY <1>2, QueueUnchangedTyped DEF ReadRecipient
  <2>2. passid[c] \in Ids
    BY <1>2 DEF ReadRecipient, SendTyped, SendTypeOK
  <2>3. del' \in [Ids -> [Rcpts -> {"none", "sent", "noted"} \cup Report]]
    BY <1>2, <2>2 DEF ReadRecipient, SendTyped, SendTypeOK
  <2>4. unread' \in [Channels -> SUBSET Rcpts] /\ undone' \in [Ids -> SUBSET Rcpts]
    BY <1>2, <2>2 DEF ReadRecipient, SendTyped, SendTypeOK
  <2>5. SendTyped'
    BY <1>2, <2>3, <2>4
       DEF ReadRecipient, Idle, SendTyped, SendTypeOK, SendPcs, fateVars
  <2> QED
    BY <2>1, <2>5
<1>3. ASSUME NEW c \in Channels, NEW hit \in BOOLEAN, EndPass(c, hit)
      PROVE  QueueTypeOK' /\ SendTyped'
  <2> DEFINE id == passid[c]
             busy == \E r \in OfChannel(c) : del[id][r] # "none"
  <2>1. id \in Ids
    BY <1>3 DEF EndPass, SendTyped, SendTypeOK
  <2>2. undone[id] \in SUBSET Rcpts /\ pending[id] \in SUBSET Rcpts
    BY <2>1 DEF QueueTypeOK, SendTyped, SendTypeOK
  <2>3. JobTypeOK
    BY DEF JobTypeOK, QueueTypeOK, SendTyped, SendTypeOK
  <2>4. JobClose(c, id, busy, hit, undone[id], pending[id])
    BY <1>3 DEF EndPass
  <2>5. JobTypeOK'
    <3> HIDE DEF id, busy
    <3> QED
      BY <2>1, <2>2, <2>3, <2>4, JobCloseTyped
  <2>6. QueueTypeOK'
    BY <1>3, <2>5 DEF EndPass, QueueTypeOK, JobTypeOK, MaxAge
  <2>7. SendTyped'
    BY <1>3, <2>5
       DEF EndPass, Idle, SendTyped, SendTypeOK, SendPcs, JobTypeOK, fateVars
  <2> QED
    BY <2>6, <2>7
<1>4. ASSUME NEW id \in Ids, NEW r \in Rcpts,
             ReportK(id, r) \/ ReportZ(id, r) \/ MarkFailed(id, r)
      PROVE  QueueTypeOK' /\ SendTyped'
  <2>1. EndDelivery(id, r, TRUE) \/ EndDelivery(id, r, FALSE)
    BY <1>4 DEF ReportK, ReportZ, MarkFailed
  <2> QED
    BY <2>1, EndDeliveryTyped
<1>5. ASSUME NEW id \in Ids, NEW r \in Rcpts, ReportD(id, r)
      PROVE  QueueTypeOK' /\ SendTyped'
  <2>1. del' \in [Ids -> [Rcpts -> {"none", "sent", "noted"} \cup Report]]
    BY <1>5 DEF ReportD, SendTyped, SendTypeOK
  <2>2. QueueTypeOK'
    BY <1>5, DirectoryNames DEF ReportD, QueueTypeOK, Link, MaxAge
  <2>3. SendTyped'
    BY <1>5, <2>1 DEF ReportD, SendTyped, SendTypeOK, SendPcs, fateVars
  <2> QED
    BY <2>2, <2>3
<1> QED
  BY <1>1, <1>2, <1>3, <1>4, <1>5

(* Where messdone(), injectbounce() and cleanup_do() go next. *)
LEMMA MessDoneStatTyped ==
  ASSUME QueueTypeOK, SendTyped, NEW pc, NEW d, NEW present \in BOOLEAN,
         NEW next \in SendPcs, pc \notin {"down", "idle"},
         MessDoneStat(pc, d, present, next)
  PROVE  QueueTypeOK' /\ SendTyped'
<1>1. QueueTypeOK'
  BY QueueUnchangedTyped DEF MessDoneStat
<1>2. "idle" \in SendPcs /\ spc \notin {"down", "idle"}
  BY DEF SendPcs, MessDoneStat
<1>3. SendTyped'
  BY <1>2, SendGotoTyped, TryAgainTyped DEF MessDoneStat
<1> QED
  BY <1>1, <1>3

(* The stats of cleanup_do(). *)
LEMMA CleanupStatTyped ==
  ASSUME QueueTypeOK, SendTyped, NEW pc, NEW d, NEW next \in SendPcs,
         pc \notin {"down", "idle"}, CleanupStat(pc, d, next)
  PROVE  QueueTypeOK' /\ SendTyped'
<1>1. QueueTypeOK'
  BY QueueUnchangedTyped DEF CleanupStat
<1>2. "idle" \in SendPcs /\ spc \notin {"down", "idle"}
  BY DEF SendPcs, CleanupStat
<1>3. SendTyped'
  BY <1>2, SendGotoTyped DEF CleanupStat
<1> QED
  BY <1>1, <1>3

(* An unlink by the qmail-clean of qmail-send. *)
LEMMA CleanFileTyped ==
  ASSUME QueueTypeOK, SendTyped, NEW pc, NEW d, NEW next \in SendPcs,
         pc \notin {"down", "idle"}, CleanFile(pc, d, next)
  PROVE  QueueTypeOK' /\ SendTyped'
<1>1. QueueTypeOK'
  BY DEF CleanFile, QueueTypeOK, Unlink, dirVars, MaxAge
<1>2. "idle" \in SendPcs /\ spc \notin {"down", "idle"}
  BY DEF SendPcs, CleanFile
<1>3. SendTyped'
  BY <1>2, SendGotoTyped DEF CleanFile
<1> QED
  BY <1>1, <1>3

(* The handlers that eliminate and clean up. *)
LEMMA EliminatingTyped ==
  ASSUME QueueTypeOK, SendTyped,
         \/ \E id \in Ids : MessDone(id) \/ CleanupOld(id)
         \/ InjectBounce \/ UnlinkBounce \/ UnlinkInfo \/ SendExit
  PROVE  QueueTypeOK' /\ SendTyped'
<1>1. ASSUME NEW id \in Ids, MessDone(id) \/ CleanupOld(id)
      PROVE  QueueTypeOK' /\ SendTyped'
  <2>1. QueueTypeOK'
    BY <1>1, QueueUnchangedTyped DEF MessDone, CleanupOld
  <2>2. SendTyped'
    BY <1>1 DEF MessDone, CleanupOld, SendTyped, SendTypeOK, SendPcs, restVars,
                fateVars
  <2> QED
    BY <2>1, <2>2
<1>2. CASE InjectBounce
  <2>1. QueueTypeOK'
    BY <1>2, QueueUnchangedTyped DEF InjectBounce
  <2>2. \A id \in Ids : noted[id] \subseteq Rcpts
    BY DEF QueueTypeOK
  <2>3. sid \in Ids
    BY <1>2 DEF InjectBounce, SendTyped
  <2>4. /\ bounced' \in [Msgs -> SUBSET Rcpts]
        /\ discarded' \in [Msgs -> SUBSET Rcpts]
    <3> DEFINE m == held[sid]
    <3>1. /\ bounced' \in {bounced, [bounced EXCEPT ![m] = @ \cup noted[sid]]}
          /\ discarded' \in {discarded, [discarded EXCEPT ![m] = @ \cup noted[sid]]}
      BY <1>2 DEF InjectBounce
    <3>2. noted[sid] \in SUBSET Rcpts
      BY <2>2, <2>3
    <3> HIDE DEF m
    <3> QED
      BY <3>1, <3>2 DEF SendTyped, SendTypeOK
  <2>5. spc' \in SendPcs /\ sid' = sid /\ pqdone' \subseteq Ids
    BY <1>2, <2>3
       DEF InjectBounce, SendGoto, TryAgain, SendTyped, SendTypeOK, SendPcs
  <2>6. UNCHANGED <<restVars, delivered>>
    BY <1>2 DEF InjectBounce
  <2>7. SendTyped'
    BY <2>3, <2>4, <2>5, <2>6 DEF SendTyped, SendTypeOK, restVars
  <2> QED
    BY <2>1, <2>7
<1>3. CASE UnlinkBounce
  <2>1. "uninfo" \in SendPcs /\ spc \notin {"down", "idle"}
    BY <1>3 DEF SendPcs, UnlinkBounce
  <2>2. SendTyped'
    BY <1>3, <2>1, SendGotoTyped, TryAgainTyped DEF UnlinkBounce
  <2>3. QueueTypeOK'
    BY <1>3 DEF UnlinkBounce, QueueTypeOK, Unlink, dirVars, MaxAge
  <2> QED
    BY <2>2, <2>3
<1>4. CASE UnlinkInfo
  <2>1. "clean_intd" \in SendPcs /\ spc \notin {"down", "idle"}
    BY <1>4 DEF SendPcs, UnlinkInfo
  <2>2. SendTyped'
    BY <1>4, <2>1, SendGotoTyped, TryAgainTyped DEF UnlinkInfo
  <2>3. QueueTypeOK'
    BY <1>4 DEF UnlinkInfo, QueueTypeOK, Unlink, dirVars, MaxAge
  <2> QED
    BY <2>2, <2>3
<1>5. CASE SendExit
  <2>1. QueueTypeOK'
    BY <1>5, QueueUnchangedTyped DEF SendExit
  <2>2. SendTyped'
    BY <1>5 DEF SendExit, GoDown, FreshMemory, NoDelivery, SendTyped,
                SendTypeOK, SendPcs, fateVars
  <2> QED
    BY <2>1, <2>2
<1> QED
  BY <1>1, <1>2, <1>3, <1>4, <1>5

(* A step of qmail-send. *)
LEMMA SendStepTyped ==
  ASSUME QueueTypeOK, SendTyped, SendStep
  PROVE  QueueTypeOK' /\ SendTyped'
<1>1. {"stat_remote", "stat_todo", "stat_info", "bounce", "clean_mess", "idle",
       "old_todo", "clean_intd"} \subseteq SendPcs
  BY DEF SendPcs
<1>2. CASE MessDoneStat("stat_local", "local", FALSE, "stat_remote")
  BY <1>1, <1>2, MessDoneStatTyped
<1>3. CASE MessDoneStat("stat_remote", "remote", FALSE, "stat_todo")
  BY <1>1, <1>3, MessDoneStatTyped
<1>4. CASE MessDoneStat("stat_todo", "todo", FALSE, "stat_info")
  BY <1>1, <1>4, MessDoneStatTyped
<1>5. CASE MessDoneStat("stat_info", "info", TRUE, "bounce")
  BY <1>1, <1>5, MessDoneStatTyped
<1>6. CASE CleanupStat("old_info", "info", "old_todo")
  BY <1>1, <1>6, CleanupStatTyped
<1>7. CASE CleanupStat("old_todo", "todo", "clean_intd")
  BY <1>1, <1>7, CleanupStatTyped
<1>8. CASE CleanFile("clean_intd", "intd", "clean_mess")
  BY <1>1, <1>8, CleanFileTyped
<1>9. CASE CleanFile("clean_mess", "mess", "idle")
  BY <1>1, <1>9, CleanFileTyped
<1> QED
  BY <1>2, <1>3, <1>4, <1>5, <1>6, <1>7, <1>8, <1>9, DeliveringTyped,
     EliminatingTyped DEF SendStep

-----------------------------------------------------------------------------
(* The steps of MailSystem, of which most combine two components. *)

(* The parts of the state a step leaves alone. *)
LEMMA WriterUnchangedTyped ==
  ASSUME WriterTyped, UNCHANGED queueVars PROVE WriterTyped'
BY DEF WriterTyped, WriterTypeOK, queueVars, Live

(* Steps that leave qmail-todo alone. *)
LEMMA TodoUnchangedTyped ==
  ASSUME TodoTyped, UNCHANGED todoVars PROVE TodoTyped'
BY DEF TodoTyped, TodoTypeOK, todoVars

(* Steps that leave qmail-send alone. *)
LEMMA SendUnchangedTyped ==
  ASSUME SendTyped, UNCHANGED sendVars PROVE SendTyped'
BY DEF SendTyped, SendTypeOK, sendVars, memVars, fateVars

(* Steps that are no deaths. *)
LEMMA EnvUnchangedTyped ==
  ASSUME EnvTypeOK, UNCHANGED envVars PROVE EnvTypeOK'
BY DEF EnvTypeOK, envVars

(* A death counts, up to the bound. *)
LEMMA CrashTyped ==
  ASSUME EnvTypeOK, Crash PROVE crashes' \in 0..MaxCrashes
BY SystemAssumption DEF EnvTypeOK, Crash

(* The memory of a qmail-send that is gone. *)
LEMMA GoDownTyped ==
  ASSUME SendTyped, GoDown, UNCHANGED fateVars PROVE SendTyped'
BY DEF SendTyped, SendTypeOK, SendPcs, GoDown, FreshMemory, NoDelivery, fateVars

(* Requests to a qmail-clean are unlinks of files of the message. *)
LEMMA RequestedTyped ==
  ASSUME NEW pc, NEW id, pc \notin {"dead", "down", "idle"} => id \in Ids,
         NEW last \in Directories
  PROVE  Requested(pc, id, last) \subseteq Directories \X Ids
BY DirectoryNames DEF Requested

(* Steps of the programs and of the spawners. *)
LEMMA ComponentStepTyped ==
  ASSUME Typed,
         \/ \E m \in Msgs : Queue(m)
         \/ Todo \/ Send
         \/ \E id \in Ids, r \in Rcpts, report \in Report : Spawner(id, r, report)
         \/ \E id \in Ids : ReapPid(id)
  PROVE  Typed'
<1> USE TypedParts, TypedPartsPrime
<1>1. ASSUME NEW m \in Msgs, Queue(m) PROVE Typed'
  <2>1. QueueTypeOK' /\ WriterTyped'
    BY <1>1, QueueStepTyped DEF Queue
  <2>2. TodoTyped' /\ SendTyped' /\ EnvTypeOK'
    BY <1>1, TodoUnchangedTyped, SendUnchangedTyped, EnvUnchangedTyped DEF Queue
  <2> QED
    BY <2>1, <2>2
<1>2. CASE Todo
  <2>1. QueueTypeOK' /\ TodoTyped'
    BY <1>2, TodoStepTyped DEF Todo
  <2>2. WriterTyped' /\ SendTyped' /\ EnvTypeOK'
    BY <1>2, WriterUnchangedTyped, SendUnchangedTyped, EnvUnchangedTyped DEF Todo
  <2> QED
    BY <2>1, <2>2
<1>3. CASE Send
  <2>1. QueueTypeOK' /\ SendTyped'
    BY <1>3, SendStepTyped DEF Send
  <2>2. WriterTyped' /\ TodoTyped' /\ EnvTypeOK'
    BY <1>3, WriterUnchangedTyped, TodoUnchangedTyped, EnvUnchangedTyped DEF Send
  <2> QED
    BY <2>1, <2>2
<1>4. ASSUME NEW id \in Ids, NEW r \in Rcpts, NEW report \in Report,
             Spawner(id, r, report)
      PROVE  Typed'
  <2>1. WriterTyped' /\ TodoTyped' /\ EnvTypeOK'
    BY <1>4, WriterUnchangedTyped, TodoUnchangedTyped, EnvUnchangedTyped
       DEF Spawner
  <2>2. QueueTypeOK'
    BY <1>4, QueueUnchangedTyped DEF Spawner, SpawnerReports
  <2>3. del' \in [Ids -> [Rcpts -> {"none", "sent", "noted"} \cup Report]]
    BY <1>4 DEF Spawner, SpawnerReports, SendTyped, SendTypeOK
  <2>4. delivered' \in [Msgs -> SUBSET Rcpts]
    <3> DEFINE m == held[id]
    <3>1. delivered' \in {delivered, [delivered EXCEPT ![m] = @ \cup {r}]}
      BY <1>4 DEF Spawner, SpawnerReports
    <3> HIDE DEF m
    <3> QED
      BY <3>1 DEF SendTyped, SendTypeOK
  <2>5. SendTyped'
    BY <1>4, <2>3, <2>4 DEF Spawner, SpawnerReports, SendTyped, SendTypeOK
  <2> QED
    BY <2>1, <2>2, <2>5
<1>5. ASSUME NEW id \in Ids, ReapPid(id) PROVE Typed'
  <2>1. WriterTyped' /\ TodoTyped' /\ EnvTypeOK'
    BY <1>5, WriterUnchangedTyped, TodoUnchangedTyped, EnvUnchangedTyped
       DEF ReapPid
  <2>2. QueueTypeOK'
    BY <1>5 DEF ReapPid, CleanupPid, QueueTypeOK, Unlink, MaxAge
  <2>3. SendTyped'
    BY <1>5, SendUnchangedTyped
       DEF ReapPid, CleanupPid, sendVars, memVars, restVars
  <2> QED
    BY <2>1, <2>2, <2>3
<1> QED
  BY <1>1, <1>2, <1>3, <1>4, <1>5

(* Start, and what goes through the pipe of qmail-todo. *)
LEMMA StartStepTyped ==
  ASSUME Typed, Start \/ ReadReport \/ ReadStop \/ NoticeTodoGone
  PROVE  Typed'
<1> USE TypedParts, TypedPartsPrime
<1>1. QueueTypeOK'
  BY QueueUnchangedTyped
     DEF Start, SendStart, ReadReport, TodoDel, ReadStop, NoticeTodoGone, TodoGone
<1>2. WriterTyped' /\ EnvTypeOK'
  BY WriterUnchangedTyped, EnvUnchangedTyped
     DEF Start, ReadReport, ReadStop, NoticeTodoGone
<1>3. CASE Start
  <2>1. TodoTyped'
    BY <1>3 DEF Start, TodoTyped, TodoTypeOK, TodoPcs
  <2>2. SendTyped'
    BY <1>3 DEF Start, SendStart, FreshMemory, NoDelivery, SendTyped,
                SendTypeOK, SendPcs, fateVars
  <2> QED
    BY <1>1, <1>2, <2>1, <2>2
<1>4. CASE ReadReport
  <2>1. TodoTyped'
    BY <1>4 DEF ReadReport, TodoTyped, TodoTypeOK
  <2>2. PICK report \in treports : TodoDel(report[1], report[2])
    BY <1>4 DEF ReadReport
  <2>3. report[1] \in Ids /\ report[2] \subseteq Channels
    BY DEF TodoTyped, TodoTypeOK
  <2>4. pqchan' \subseteq Channels \X Ids /\ pqdone' \subseteq Ids
    BY <2>2, <2>3 DEF TodoDel, SendTyped, SendTypeOK
  <2>5. UNCHANGED <<spc, sid, passid, unread, hiteof, dying, undone, del,
                    exitasap, todoalive, fateVars>>
    BY <2>2 DEF TodoDel
  <2>6. SendTyped'
    BY <2>4, <2>5 DEF SendTyped, SendTypeOK, fateVars
  <2> QED
    BY <1>1, <1>2, <2>1, <2>6
<1>5. CASE ReadStop
  <2>1. TodoTyped'
    BY <1>5 DEF ReadStop, TodoTyped, TodoTypeOK
  <2> QED
    BY <1>1, <1>2, <1>5, <2>1, SendUnchangedTyped DEF ReadStop
<1>6. CASE NoticeTodoGone
  <2>1. SendTyped'
    BY <1>6 DEF NoticeTodoGone, TodoGone, Idle, SendTyped, SendTypeOK, fateVars
  <2>2. TodoTyped'
    BY <1>6, TodoUnchangedTyped DEF NoticeTodoGone
  <2> QED
    BY <1>1, <1>2, <2>1, <2>2
<1> QED
  BY <1>3, <1>4, <1>5, <1>6

(* Deaths of daemons and what orphans still do. *)
LEMMA DeathStepTyped ==
  ASSUME Typed,
         \/ SendDies \/ TodoDies \/ OrphanTodoExits \/ SendCleanDies
         \/ TodoCleanDies \/ LateUnlink \/ Terminate
  PROVE  Typed'
<1> USE TypedParts, TypedPartsPrime
<1>1. WriterTyped'
  BY WriterUnchangedTyped
     DEF SendDies, TodoDies, OrphanTodoExits, SendCleanDies, TodoCleanDies,
         LateUnlink, Terminate
<1>2. CASE SendDies
  <2>1. Requested(spc, sid, "mess") \subseteq Directories \X Ids
    BY RequestedTyped, DirectoryNames DEF SendTyped
  <2>2. EnvTypeOK'
    BY <1>2, <2>1, CrashTyped DEF SendDies, EnvTypeOK
  <2>3. QueueTypeOK' /\ SendTyped'
    BY <1>2, QueueUnchangedTyped, GoDownTyped DEF SendDies
  <2>4. TodoTyped'
    BY <1>2 DEF SendDies, TodoTyped, TodoTypeOK
  <2> QED
    BY <1>1, <2>2, <2>3, <2>4
<1>3. CASE TodoDies
  <2>1. Requested(tpc, tid, "todo") \subseteq Directories \X Ids
    BY RequestedTyped, DirectoryNames DEF TodoTyped
  <2>2. EnvTypeOK'
    BY <1>3, <2>1, CrashTyped DEF TodoDies, EnvTypeOK
  <2>3. QueueTypeOK' /\ SendTyped'
    BY <1>3, QueueUnchangedTyped, SendUnchangedTyped DEF TodoDies
  <2>4. TodoTyped'
    BY <1>3 DEF TodoDies, TodoTyped, TodoTypeOK, TodoPcs
  <2> QED
    BY <1>1, <2>2, <2>3, <2>4
<1>4. CASE OrphanTodoExits
  <2>1. TodoTyped'
    BY <1>4 DEF OrphanTodoExits, TodoTyped, TodoTypeOK, TodoPcs
  <2> QED
    BY <1>1, <1>4, <2>1, QueueUnchangedTyped, SendUnchangedTyped,
       EnvUnchangedTyped DEF OrphanTodoExits
<1>5. CASE SendCleanDies
  <2>1. SendTyped'
    BY <1>5 DEF SendCleanDies, SendGoto, SendTyped, SendTypeOK, SendPcs, fateVars
  <2>2. EnvTypeOK'
    BY <1>5, CrashTyped DEF SendCleanDies, EnvTypeOK
  <2> QED
    BY <1>1, <1>5, <2>1, <2>2, QueueUnchangedTyped, TodoUnchangedTyped
       DEF SendCleanDies
<1>6. CASE TodoCleanDies
  <2>1. TodoTyped'
    BY <1>6 DEF TodoCleanDies, TodoTyped, TodoTypeOK, TodoPcs
  <2>2. EnvTypeOK'
    BY <1>6, CrashTyped DEF TodoCleanDies, EnvTypeOK
  <2> QED
    BY <1>1, <1>6, <2>1, <2>2, QueueUnchangedTyped, SendUnchangedTyped
       DEF TodoCleanDies
<1>7. CASE LateUnlink
  <2>1. QueueTypeOK'
    BY <1>7 DEF LateUnlink, QueueTypeOK, MaxAge
  <2>2. EnvTypeOK'
    BY <1>7 DEF LateUnlink, EnvTypeOK
  <2> QED
    BY <1>1, <1>7, <2>1, <2>2, TodoUnchangedTyped, SendUnchangedTyped
       DEF LateUnlink
<1>8. CASE Terminate
  <2>1. SendTyped'
    BY <1>8 DEF Terminate, SigTerm, SendTyped, SendTypeOK, fateVars
  <2>2. EnvTypeOK'
    BY <1>8, CrashTyped DEF Terminate, EnvTypeOK
  <2> QED
    BY <1>1, <1>8, <2>1, <2>2, QueueUnchangedTyped, TodoUnchangedTyped
       DEF Terminate, SigTerm
<1> QED
  BY <1>2, <1>3, <1>4, <1>5, <1>6, <1>7, <1>8

(* Death of the machine. *)
LEMMA RebootTyped ==
  ASSUME Typed, Reboot PROVE Typed'
<1> USE TypedParts, TypedPartsPrime
<1>1. WriterTyped'
  BY DEF Reboot, WriterTyped, WriterTypeOK, WriterPcs, Live
<1>2. TodoTyped'
  BY DEF Reboot, TodoTyped, TodoTypeOK, TodoPcs
<1>3. SendTyped'
  BY GoDownTyped DEF Reboot
<1>4. pending' \in [Ids -> SUBSET Rcpts]
  <2>1. \A id \in Ids : Envelope(id) \subseteq Rcpts
    BY EnvelopeAssumption DEF Envelope, QueueTypeOK
  <2>2. PICK revert \in [Ids -> SUBSET Rcpts], lost \in [Ids -> SUBSET Rcpts] :
          pending' = [id \in Ids |-> (pending[id] \cup revert[id]) \ lost[id]]
    <3> DEFINE Lost(id) == UNION {OfChannel(c) : c \in {d \in Channels : <<d, id>> \in dirty}}
               lost == [id \in Ids |-> Lost(id)]
    <3>1. \A id \in Ids : Lost(id) \subseteq Rcpts
      BY DEF OfChannel
    <3>2. PICK revert \in [Ids -> SUBSET Rcpts] :
            pending' = [id \in Ids |-> (pending[id] \cup revert[id]) \ Lost(id)]
      BY DEF Reboot
    <3> HIDE DEF Lost
    <3>3. lost \in [Ids -> SUBSET Rcpts]
      BY <3>1
    <3>4. pending' = [id \in Ids |-> (pending[id] \cup revert[id]) \ lost[id]]
      BY <3>2
    <3> QED
      BY <3>3, <3>4
  <2> QED
    BY <2>2 DEF QueueTypeOK
<1>5. held' \in [Ids -> Msgs \cup {NoMsg}]
  BY DEF Reboot, QueueTypeOK
<1>6. QueueTypeOK'
  BY <1>4, <1>5 DEF Reboot, QueueTypeOK, MaxAge
<1>7. forgotten' \in [Msgs -> SUBSET Rcpts]
  <2>1. \A id \in Ids : (noted[id] \ noted'[id]) \ pending'[id] \subseteq Rcpts
    BY DEF QueueTypeOK
  <2>2. \A m \in Msgs :
          UNION {(noted[id] \ noted'[id]) \ pending'[id] :
                 id \in {i \in Ids : held[i] = m}} \subseteq Rcpts
    BY <2>1
  <2> DEFINE New(m) == UNION {(noted[id] \ noted'[id]) \ pending'[id] :
                              id \in {i \in Ids : held[i] = m}}
  <2>3. forgotten' = [m \in Msgs |-> forgotten[m] \cup New(m)]
    BY DEF Reboot
  <2>4. \A m \in Msgs : New(m) \subseteq Rcpts
    BY <2>2
  <2> HIDE DEF New
  <2> QED
    BY <2>3, <2>4 DEF EnvTypeOK
<1>8. EnvTypeOK'
  BY <1>7, CrashTyped DEF Reboot, EnvTypeOK
<1> QED
  BY <1>1, <1>2, <1>3, <1>6, <1>8

(* The passing of time. *)
LEMMA TimeTyped ==
  ASSUME Typed, Tick \/ \E id \in Ids : Expire(id) PROVE Typed'
<1> USE TypedParts, TypedPartsPrime
<1>1. WriterTyped' /\ TodoTyped' /\ SendTyped' /\ EnvTypeOK'
  BY WriterUnchangedTyped, TodoUnchangedTyped, SendUnchangedTyped,
     EnvUnchangedTyped DEF Tick, Expire
<1>2. CASE Tick
  <2>1. MaxAge \in Nat
    BY TimeAssumption DEF MaxAge
  <2>2. MaxAge' = MaxAge
    BY DEF MaxAge
  <2>3. age' \in [Ids -> 0..MaxAge]
    BY <1>2, <2>1 DEF Tick, QueueTypeOK
  <2> QED
    BY <1>1, <1>2, <2>2, <2>3 DEF Tick, QueueTypeOK
<1>3. ASSUME NEW id \in Ids, Expire(id) PROVE Typed'
  BY <1>1, <1>3 DEF Expire, QueueTypeOK, MaxAge
<1> QED
  BY <1>2, <1>3

(* Nothing happens. *)
LEMMA StutterTyped ==
  ASSUME Typed, UNCHANGED vars PROVE Typed'
BY TypedParts, TypedPartsPrime, QueueUnchangedTyped, WriterUnchangedTyped,
   TodoUnchangedTyped, SendUnchangedTyped, EnvUnchangedTyped DEF vars

(* Every step of the system keeps the types. *)
LEMMA NextTyped == Typed /\ [Next]_vars => Typed'
BY ComponentStepTyped, StartStepTyped, DeathStepTyped, RebootTyped, TimeTyped,
   StutterTyped DEF Next

(* Every process works on names of the queue directory, every memory of    *)
(* qmail-send, qmail-todo and qmail-queue holds what its code expects, and *)
(* the counters stay within their bounds.                                  *)
THEOREM TypeCorrect == Spec => []TypeOK
<1>1. Init => Typed
  BY InitTyped
<1>2. Typed /\ [Next]_vars => Typed'
  BY NextTyped
<1>3. Typed => TypeOK
  BY DEF Typed
<1> QED
  BY <1>1, <1>2, <1>3, PTL DEF Spec

(* The same for the strengthened invariant, on which later proofs build.   *)
THEOREM AlwaysTyped == Spec => []Typed
BY InitTyped, NextTyped, PTL DEF Spec

-----------------------------------------------------------------------------
(***************************************************************************)
(* The inductive invariant of MailSystem: what each process may rely on    *)
(* about the files of the message it works on, at every step of its        *)
(* handler, and who may know of a message in which state.                  *)
(***************************************************************************)

(* Not yet queued, or eliminated but for mess/ and intd/. *)
Bare(id) ==
  /\ ~Has("todo", id) /\ ~Has("info", id) /\ ~Has("bounce", id)
  /\ ~Has("local", id) /\ ~Has("remote", id)

(* The states of INTERNALS section 2 as rules about the files of id: what  *)
(* exists has a mess/ file, bounce/ begins when todo/ is gone, info/       *)
(* without todo/ means that intd/ is gone, and one of the two has to be    *)
(* there before there is a channel file or a bounce/ file.                 *)
Lawful(id) ==
  /\ ~Has("mess", id) => Bare(id) /\ ~Has("intd", id)
  /\ Has("todo", id) => ~Has("bounce", id)
  /\ Has("info", id) /\ ~Has("todo", id) => ~Has("intd", id)
  /\ Has("todo", id) \/ Has("info", id) \/ Bare(id)

LawfulInv == \A id \in Ids : Lawful(id)

(* qmail-queue owns what it has linked until the todo/ link. *)
WriterState(m) ==
  wpc[m] # "trigger" =>
    /\ Bare(wid[m])
    /\ wpc[m] \in {"link", "unpid"} => Has("pid", wid[m])
    /\ Has("mess", wid[m]) <=> wpc[m] # "link"
    /\ Has("intd", wid[m]) <=> wpc[m] \in {"env", "todo", "clean_intd"}

WriterInv ==
  \A m \in Msgs : Live(m) =>
    /\ WriterState(m)
    /\ age[wid[m]] <= DEATH
    /\ \A n \in Msgs : Live(n) /\ wid[n] = wid[m] => n = m

(* No qmail-queue that is still filling id is alive. *)
Left(id) == \A m \in Msgs : Live(m) /\ wid[m] = id => wpc[m] = "trigger"

(* qmail-todo keeps todo/ until info/ is complete and intd/ is gone. *)
TodoInv ==
  /\ tpc \notin {"dead", "idle", "report"} => Has("todo", tid)
  /\ tpc \in {"copy", "sync_info", "sync_chan", "clean_intd", "clean_todo"} =>
       Has("info", tid)
  /\ tpc = "clean_todo" => ~Has("intd", tid)
  /\ tpc \in {"stat", "unlocal", "unremote", "uninfo", "info"} => tchan = {}
  /\ tpc \notin {"dead", "idle", "report"} => \A c \in tchan : Has(c, tid)

(* The steps of messdone() while the message still has its info/ file. *)
Eliminating == {"stat_local", "stat_remote", "stat_todo", "stat_info", "bounce",
                "unbounce", "uninfo"}

(* Only preprocessed messages are known to qmail-send or on their way to   *)
(* it, and of a channel file it knows only while the file is there.        *)
KnownInv ==
  /\ \A id \in pqdone : S5(id)
  /\ \A c \in Channels, id \in Ids :
       <<c, id>> \in pqchan \/ passid[c] = id => S5(id) /\ Has(c, id)
  /\ \A id \in Ids, r \in Rcpts :
       del[id][r] # "none" => S5(id) /\ Has(ChannelOf[r], id)
  /\ OneJob
  /\ \A c \in Channels : unread[c] \subseteq OfChannel(c)

(* qmail-send has not heard of id since it was started, or is done with it. *)
Unheard(id) ==
  /\ id \notin pqdone
  /\ \A c \in Channels : <<c, id>> \notin pqchan /\ passid[c] # id
  /\ \A r \in Rcpts : del[id][r] = "none"
  /\ spc \in Eliminating => sid # id

ReportInv ==
  /\ \A report \in treports :
       /\ S5(report[1]) /\ Unheard(report[1])
       /\ \A c \in report[2] : Has(c, report[1])
       /\ \A other \in treports : other[1] = report[1] => other = report
       /\ tpc = "report" => tid # report[1]
  /\ tpc = "report" =>
       S5(tid) /\ Unheard(tid) /\ \A c \in tchan : Has(c, tid)
  /\ spc # "down" /\ ~todoalive => tpc = "dead" /\ treports = {}

(* messdone() goes on only with what it has seen; cleanup_do() only with   *)
(* what is too old to belong to anybody.                                   *)
SendInv ==
  /\ spc \in Eliminating => S5(sid) /\ sid \notin pqdone
  /\ spc \in {"stat_remote", "stat_todo", "stat_info", "bounce", "unbounce",
              "uninfo"} => ~Has("local", sid)
  /\ spc \in {"stat_todo", "stat_info", "bounce", "unbounce", "uninfo"} =>
       ~Has("remote", sid)
  /\ spc = "uninfo" => ~Has("bounce", sid)
  /\ spc = "old_info" => Has("mess", sid) /\ age[sid] > OSSIFIED
  /\ spc = "old_todo" => age[sid] > OSSIFIED
  /\ spc \in {"old_todo", "clean_intd", "clean_mess"} =>
       Has("mess", sid) /\ Bare(sid)
  /\ spc = "clean_mess" => ~Has("intd", sid)
  /\ spc \in {"clean_intd", "clean_mess"} => Left(sid)

(* What orphaned qmail-cleans still unlink is what their clients would     *)
(* have been right to ask for.                                             *)
LateInv ==
  \A id \in Ids :
    /\ <<"mess", id>> \in late =>
         /\ spc = "down" /\ Left(id)
         /\ Has("mess", id) /\ Bare(id)
         /\ Has("intd", id) => <<"intd", id>> \in late
    /\ <<"todo", id>> \in late =>
         /\ tpc = "dead" /\ Has("todo", id) /\ Has("info", id)
         /\ Has("intd", id) => <<"intd", id>> \in late
    /\ <<"intd", id>> \in late =>
         <<"mess", id>> \in late \/ <<"todo", id>> \in late
    /\ \A d \in Directories \ {"mess", "todo", "intd"} : <<d, id>> \notin late

(* A qmail-send that is down knows nothing. *)
DownInv ==
  spc = "down" =>
    /\ pqchan = {} /\ pqdone = {} /\ treports = {}
    /\ \A c \in Channels : passid[c] = NoId
    /\ NoneInFlight

(* What was assumed: no message waits in todo/ until it is OSSIFIED. *)
BacklogInv == \A id \in Ids : Has("todo", id) => age[id] <= OSSIFIED

QueueInv ==
  /\ LawfulInv /\ WriterInv /\ TodoInv /\ KnownInv /\ ReportInv /\ SendInv
  /\ LateInv /\ DownInv /\ BacklogInv

-----------------------------------------------------------------------------
(***************************************************************************)
(* AllStates, NeverReaped and OneJob hold in every behaviour of            *)
(* MailSystem, for all constants, as long as no message waits in todo/     *)
(* until it is OSSIFIED: QueueInv is inductive and implies them.           *)
(***************************************************************************)

(* The step changes no file of a message other than x. *)
OnlyFilesOf(x) ==
  \A d, id : id # x => (<<d, id>> \in files' <=> <<d, id>> \in files)

(* What INTERNALS calls the five states is what Lawful says. *)
LEMMA LawfulStates == LawfulInv <=> AllStates
<1>1. ASSUME NEW id \in Ids
      PROVE  Lawful(id) <=> S1(id) \/ S2(id) \/ S3(id) \/ S4(id) \/ S5(id)
  <2>1. /\ S1(id) <=> ~Has("mess", id) /\ ~Has("intd", id) /\ Bare(id)
        /\ S2(id) <=> Has("mess", id) /\ ~Has("intd", id) /\ Bare(id)
        /\ S3(id) <=> Has("mess", id) /\ Has("intd", id) /\ Bare(id)
    <3>1. Directories \ {"pid"} =
            {"mess", "intd", "todo", "info", "bounce", "local", "remote"}
      BY DEF Directories, Channels
    <3>2. Directories \ {"pid", "mess"} =
            {"intd", "todo", "info", "bounce", "local", "remote"}
      BY DEF Directories, Channels
    <3>3. Directories \ {"pid", "mess", "intd"} =
            {"todo", "info", "bounce", "local", "remote"}
      BY DEF Directories, Channels
    <3>4. S1(id) <=> ~Has("mess", id) /\ ~Has("intd", id) /\ Bare(id)
      BY <3>1 DEF S1, Bare
    <3>5. S2(id) <=> Has("mess", id) /\ ~Has("intd", id) /\ Bare(id)
      BY <3>2 DEF S2, Bare
    <3>6. S3(id) <=> Has("mess", id) /\ Has("intd", id) /\ Bare(id)
      BY <3>3 DEF S3, Bare
    <3> QED
      BY <3>4, <3>5, <3>6
  <2>2. Lawful(id) => S1(id) \/ S2(id) \/ S3(id) \/ S4(id) \/ S5(id)
    BY <2>1 DEF Lawful, Bare, S4, S5
  <2>3. S1(id) \/ S2(id) \/ S3(id) => Lawful(id)
    BY <2>1 DEF Lawful, Bare
  <2>4. S4(id) \/ S5(id) => Lawful(id)
    BY DEF Lawful, Bare, S4, S5
  <2> QED
    BY <2>2, <2>3, <2>4
<1> QED
  BY <1>1 DEF LawfulInv, AllStates

-----------------------------------------------------------------------------
(* Frames: what a step on the files of one message leaves true.            *)

(* Only the message whose files change can become unlawful. *)
LEMMA LawfulFrame ==
  ASSUME LawfulInv, NEW x \in Ids, OnlyFilesOf(x), Lawful(x)'
  PROVE  LawfulInv'
BY DEF LawfulInv, Lawful, Bare, OnlyFilesOf, Has

(* A writer notices only changes of what it has linked. *)
LEMMA WriterFrame ==
  ASSUME WriterInv, NEW x \in Ids, OnlyFilesOf(x), Left(x),
         UNCHANGED <<wpc, wid, age>>
  PROVE  WriterInv'
BY DEF WriterInv, WriterState, Live, Left, OnlyFilesOf, Bare, Has

(* qmail-todo does not notice changes of a message not in todo/. *)
LEMMA TodoFrame ==
  ASSUME TodoInv, NEW x \in Ids, OnlyFilesOf(x), ~Has("todo", x),
         UNCHANGED todoVars
  PROVE  TodoInv'
BY DEF TodoInv, OnlyFilesOf, Has, todoVars

(* What qmail-send knows of, and the reports, are about preprocessed       *)
(* messages: changes of others do not matter.                              *)
LEMMA KnownFrame ==
  ASSUME KnownInv, NEW x \in Ids, OnlyFilesOf(x), ~S5(x),
         UNCHANGED <<pqdone, pqchan, passid, del, unread>>
  PROVE  KnownInv'
<1>1. \A id \in Ids : \A d : S5(id) => S5(id)' /\ (Has(d, id) => <<d, id>> \in files')
  BY DEF OnlyFilesOf, S5, Has
<1>2. OneJob' /\ \A c \in Channels : (unread[c] \subseteq OfChannel(c))'
  BY DEF KnownInv, OneJob
<1>3. \A id \in pqdone' : S5(id)'
  BY DEF KnownInv, OnlyFilesOf, S5, Has
<1>4. \A c \in Channels, id \in Ids :
        <<c, id>> \in pqchan' \/ passid'[c] = id => S5(id)' /\ Has(c, id)'
  BY <1>1 DEF KnownInv, Has
<1>5. \A id \in Ids, r \in Rcpts :
        del'[id][r] # "none" => S5(id)' /\ Has(ChannelOf[r], id)'
  BY <1>1 DEF KnownInv, Has
<1> QED
  BY <1>2, <1>3, <1>4, <1>5 DEF KnownInv

(* The reports under way do not notice changes of messages that are not
   preprocessed. *)
LEMMA ReportFrame ==
  ASSUME ReportInv, NEW x \in Ids, OnlyFilesOf(x), ~S5(x),
         UNCHANGED <<treports, tpc, tid, tchan, spc, sid, pqdone, pqchan,
                     passid, del, todoalive>>
  PROVE  ReportInv'
BY DEF ReportInv, Unheard, OnlyFilesOf, S5, Has

(* qmail-send in a handler notices only changes of its own message. *)
LEMMA SendFrame ==
  ASSUME SendInv, NEW x \in Ids, OnlyFilesOf(x),
         spc \in {"down", "idle", "mark"} \/ sid # x,
         \A id \in Ids : id # x => age'[id] = age[id] /\ (Left(id) => Left(id)'),
         sid \in Ids \/ spc \in {"down", "idle"}, UNCHANGED <<spc, sid, pqdone>>
  PROVE  SendInv'
<1>1. CASE spc \in {"down", "idle", "mark"}
  BY <1>1 DEF SendInv, Eliminating
<1>2. CASE sid \in Ids /\ sid # x
  <2>1. \A d : Has(d, sid)' <=> Has(d, sid)
    BY <1>2 DEF OnlyFilesOf, Has
  <2>2. Left(sid) => Left(sid)'
    BY <1>2 DEF Left, Live
  <2> QED
    BY <1>2, <2>1, <2>2 DEF SendInv, S5, Bare, Has
<1> QED
  BY <1>1, <1>2

(* Orphaned qmail-cleans notice only changes of what they still unlink. *)
LEMMA LateFrame ==
  ASSUME LateInv, NEW x \in Ids, OnlyFilesOf(x),
         <<"mess", x>> \notin late, <<"todo", x>> \notin late,
         \A id \in Ids : id # x => (Left(id) => Left(id)'),
         UNCHANGED <<late, spc, tpc>>
  PROVE  LateInv'
BY DEF LateInv, Bare, OnlyFilesOf, Has

(* A link in todo/ to a young message does not make a backlog. *)
LEMMA BacklogFrame ==
  ASSUME BacklogInv, NEW x \in Ids, OnlyFilesOf(x), UNCHANGED age,
         Has("todo", x)' => Has("todo", x) \/ age[x] <= OSSIFIED
  PROVE  BacklogInv'
BY DEF BacklogInv, OnlyFilesOf, Has

(* A qmail-send that is down stays ignorant. *)
LEMMA DownFrame ==
  ASSUME DownInv, UNCHANGED <<spc, pqchan, pqdone, treports, passid, del>>
  PROVE  DownInv'
BY DEF DownInv, NoneInFlight

(* A step that leaves files, qmail-todo and qmail-send alone. *)
LEMMA QuietStep ==
  ASSUME QueueInv, WriterInv', \A id : Left(id) => Left(id)',
         UNCHANGED <<files, age, todoVars, sendVars, envVars>>
  PROVE  QueueInv'
<1> USE DEF QueueInv, sendVars, memVars, todoVars, envVars, Has
<1>1. LawfulInv' /\ BacklogInv'
  BY DEF LawfulInv, Lawful, Bare, BacklogInv
<1>2. TodoInv'
  BY DEF TodoInv
<1>3. KnownInv'
  BY DEF KnownInv, S5, OneJob
<1>4. ReportInv'
  BY DEF ReportInv, S5, Unheard
<1>5. SendInv'
  BY DEF SendInv, S5, Bare, Left, Live
<1>6. LateInv'
  BY DEF LateInv, Bare
<1>7. DownInv'
  BY DownFrame
<1> QED
  BY <1>1, <1>2, <1>3, <1>4, <1>5, <1>6, <1>7

(* A step on a message that is not queued yet, or any more, disturbs       *)
(* nobody who works on queued messages.                                    *)
LEMMA BareStep ==
  ASSUME Typed, QueueInv, NEW x \in Ids, OnlyFilesOf(x), Bare(x),
         spc \in {"down", "idle", "mark"} \/ sid # x, <<"mess", x>> \notin late,
         \A id \in Ids : id # x => age'[id] = age[id] /\ (Left(id) => Left(id)'),
         UNCHANGED <<todoVars, sendVars, envVars>>
  PROVE  /\ TodoInv' /\ KnownInv' /\ ReportInv' /\ SendInv' /\ LateInv'
         /\ DownInv'
<1>1. ~Has("todo", x) /\ ~S5(x) /\ <<"todo", x>> \notin late
  BY DEF Bare, S5, QueueInv, LateInv
<1>2. TodoInv'
  BY <1>1, TodoFrame DEF QueueInv
<1>3. KnownInv'
  BY <1>1, KnownFrame DEF QueueInv, sendVars, memVars
<1>4. ReportInv'
  BY <1>1, ReportFrame DEF QueueInv, sendVars, memVars, todoVars
<1>5. SendInv'
  BY SendFrame DEF QueueInv, sendVars, memVars, Typed, Working
<1>6. LateInv'
  BY <1>1, LateFrame DEF QueueInv, sendVars, envVars, todoVars
<1>7. DownInv'
  BY DownFrame DEF QueueInv, sendVars, memVars, todoVars
<1> QED
  BY <1>2, <1>3, <1>4, <1>5, <1>6, <1>7

-----------------------------------------------------------------------------
(* qmail-queue.                                                            *)

(* Nobody else has anything to do with the message it is filling. *)
LEMMA FillingAlone ==
  ASSUME Typed, QueueInv, NEW m \in Msgs, Live(m), wpc[m] # "trigger"
  PROVE  /\ wid[m] \in Ids /\ Bare(wid[m]) /\ <<"mess", wid[m]>> \notin late
         /\ spc \in {"down", "idle", "mark"} \/ sid # wid[m]
<1>1. wid[m] \in Ids /\ ~Left(wid[m])
  BY DEF Typed, Working, Left
<1>2. Bare(wid[m]) /\ age[wid[m]] <= DEATH
  BY DEF QueueInv, WriterInv, WriterState
<1>3. <<"mess", wid[m]>> \notin late
  BY <1>1 DEF QueueInv, LateInv
<1>4. ASSUME sid = wid[m] PROVE spc \in {"down", "idle", "mark"}
  <2>1. ~S5(sid) /\ ~Left(sid)
    BY <1>1, <1>2, <1>4 DEF S5, Bare
  <2>2. ~(age[sid] > OSSIFIED)
    BY <1>1, <1>2, <1>4, TimeAssumption
       DEF Typed, TypeOK, QueueTypeOK, MaxAge
  <2> QED
    BY <2>1, <2>2 DEF QueueInv, SendInv, Eliminating, Typed, TypeOK, SendTypeOK, SendPcs
<1> QED
  BY <1>1, <1>2, <1>3, <1>4

(* What the steps of a qmail-queue before the todo/ link have in common. *)
LEMMA WriterStepInv ==
  ASSUME Typed, QueueInv, NEW m \in Msgs, Live(m), wpc[m] # "trigger",
         NEW pc \in WriterPcs \ {"start"}, Goto(m, pc),
         NEW x, x = wid[m], OnlyFilesOf(x), Lawful(x)',
         Live(m)' => WriterState(m)',
         UNCHANGED <<age, todoVars, sendVars, envVars>>
  PROVE  QueueInv'
<1>1. /\ x \in Ids /\ Bare(x) /\ <<"mess", x>> \notin late
      /\ spc \in {"down", "idle", "mark"} \/ sid # x
  BY FillingAlone
<1>2. \A n \in Msgs : n # m => wpc'[n] = wpc[n] /\ (Live(n)' <=> Live(n))
  BY DEF Goto, Live, Typed, TypeOK, WriterTypeOK
<1>3. \A id \in Ids : id # x => age'[id] = age[id] /\ (Left(id) => Left(id)')
  BY <1>2 DEF Left, Live, Goto
<1>4. TodoInv' /\ KnownInv' /\ ReportInv' /\ SendInv' /\ LateInv' /\ DownInv'
  BY <1>1, <1>3, BareStep
<1>5. LawfulInv'
  BY <1>1, LawfulFrame DEF QueueInv
<1>6. ASSUME NEW n \in Msgs, Live(n)'
      PROVE  /\ WriterState(n)' /\ (age[wid[n]] <= DEATH)'
             /\ \A k \in Msgs : Live(k)' /\ wid'[k] = wid'[n] => k = n
  <2>1. \A k \in Msgs : Live(k)' => Live(k) /\ wid'[k] = wid[k]
    BY <1>2 DEF Goto
  <2>2. n # m => wid[n] # x
    BY <1>6, <2>1 DEF QueueInv, WriterInv
  <2>3. n # m => WriterState(n)'
    <3> SUFFICES ASSUME n # m PROVE WriterState(n)'
      OBVIOUS
    <3>1. WriterState(n) /\ wpc'[n] = wpc[n] /\ wid'[n] = wid[n]
      BY <1>6, <2>1, <1>2 DEF QueueInv, WriterInv
    <3>2. \A d : <<d, wid[n]>> \in files' <=> <<d, wid[n]>> \in files
      BY <2>2 DEF OnlyFilesOf
    <3> QED
      BY <3>1, <3>2 DEF WriterState, Bare, Has
  <2> QED
    BY <1>6, <2>1, <2>3 DEF QueueInv, WriterInv
<1>7. WriterInv'
  BY <1>6 DEF WriterInv
<1>8. BacklogInv'
  <2>1. age[x] <= OSSIFIED
    BY <1>1, TimeAssumption
       DEF QueueInv, WriterInv, Typed, TypeOK, QueueTypeOK, MaxAge
  <2> QED
    BY <1>1, <2>1, BacklogFrame DEF QueueInv
<1> QED
  BY <1>4, <1>5, <1>7, <1>8 DEF QueueInv

(* A fresh inode: nothing of the queue has its number. *)
LEMMA PidOpenInv ==
  ASSUME Typed, QueueInv, NEW m \in Msgs, PidOpen(m),
         UNCHANGED <<todoVars, sendVars, envVars>>
  PROVE  QueueInv'
<1>1. PICK x \in Ids :
        /\ wpc[m] = "start" /\ Fresh(x)
        /\ wpc' = [wpc EXCEPT ![m] = "link"] /\ wid' = [wid EXCEPT ![m] = x]
        /\ Link("pid", x) /\ age' = [age EXCEPT ![x] = 0]
  BY DEF PidOpen
<1>2. OnlyFilesOf(x) /\ \A d : d # "pid" => (Has(d, x)' <=> Has(d, x))
  BY <1>1 DEF OnlyFilesOf, Link, Has
<1>3. ~Has("mess", x) /\ Bare(x) /\ ~Has("intd", x)
  BY <1>1 DEF Fresh, QueueInv, LawfulInv, Lawful
<1>4. <<"mess", x>> \notin late
  BY <1>3 DEF QueueInv, LateInv
<1>5. spc \in {"down", "idle", "mark"} \/ sid # x
  BY <1>3 DEF QueueInv, SendInv, Eliminating, S5, Typed, TypeOK, SendTypeOK,
              SendPcs
<1>6. /\ wpc'[m] = "link" /\ wid'[m] = x /\ age'[x] = 0
      /\ \A n \in Msgs : n # m =>
           wpc'[n] = wpc[n] /\ wid'[n] = wid[n] /\ (Live(n)' <=> Live(n))
      /\ \A id \in Ids : id # x => age'[id] = age[id]
  BY <1>1 DEF Typed, TypeOK, WriterTypeOK, QueueTypeOK, Live
<1>7. \A id \in Ids : id # x => (Left(id) => Left(id)')
  BY <1>6 DEF Left
<1>8. TodoInv' /\ KnownInv' /\ ReportInv' /\ SendInv' /\ LateInv' /\ DownInv'
  BY <1>2, <1>3, <1>4, <1>5, <1>6, <1>7, BareStep
<1>9. LawfulInv'
  <2>1. Lawful(x)'
    BY <1>2, <1>3 DEF Lawful, Bare
  <2> QED
    BY <1>2, <2>1, LawfulFrame DEF QueueInv
<1>10. WriterInv'
  <2>1. WriterState(m)'
    BY <1>1, <1>2, <1>3, <1>6 DEF WriterState, Bare, Link, Has
  <2>2. ASSUME NEW n \in Msgs, n # m, Live(n)' PROVE WriterState(n)'
    <3>1. wid[n] # x /\ WriterState(n) /\ wpc'[n] = wpc[n] /\ wid'[n] = wid[n]
      BY <1>1, <1>6, <2>2 DEF Fresh, QueueInv, WriterInv
    <3> QED
      BY <3>1, <1>2 DEF WriterState, Bare, OnlyFilesOf, Has
  <2>3. ASSUME NEW n \in Msgs, Live(n)' PROVE age'[wid'[n]] <= DEATH
    BY <1>1, <1>6, <2>3, TimeAssumption
       DEF Fresh, QueueInv, WriterInv, Typed, Working
  <2>4. ASSUME NEW n \in Msgs, NEW k \in Msgs, Live(n)', Live(k)',
               wid'[k] = wid'[n]
        PROVE  k = n
    BY <1>1, <1>6, <2>4 DEF Fresh, QueueInv, WriterInv
  <2> QED
    BY <2>1, <2>2, <2>3, <2>4 DEF WriterInv
<1>11. BacklogInv'
  BY <1>2, <1>3, <1>6 DEF QueueInv, BacklogInv, OnlyFilesOf, Has, Bare
<1> QED
  BY <1>8, <1>9, <1>10, <1>11 DEF QueueInv

(* Every step of a qmail-queue keeps the invariant. *)
LEMMA QueueStepInv ==
  ASSUME Typed, QueueInv, NEW m \in Msgs, Queue(m)
  PROVE  QueueInv'
<1> UNCHANGED <<todoVars, sendVars, envVars>>
  BY DEF Queue
<1>1. CASE PidOpen(m)
  BY <1>1, PidOpenInv
<1>2. CASE \/ LinkMess(m) \/ UnlinkPid(m) \/ WriteMess(m) \/ OpenIntd(m)
           \/ WriteEnvelope(m) \/ LinkTodo(m) \/ Abandon(m)
           \/ CleanupIntd(m) \/ CleanupMess(m)
  <2>1. Live(m) /\ wpc[m] # "trigger" /\ wid[m] \in Ids
    BY <1>2 DEF Live, LinkMess, UnlinkPid, WriteMess, OpenIntd, WriteEnvelope,
                LinkTodo, Abandon, CleanupIntd, CleanupMess, Typed, Working
  <2> PICK x \in Ids : x = wid[m]
    BY <2>1
  <2>2. /\ Bare(x) /\ (wpc[m] \in {"link", "unpid"} => Has("pid", x))
        /\ Has("mess", x) <=> wpc[m] # "link"
        /\ Has("intd", x) <=> wpc[m] \in {"env", "todo", "clean_intd"}
    BY <2>1 DEF QueueInv, WriterInv, WriterState
  <2>3. UNCHANGED age
    BY <1>2 DEF LinkMess, UnlinkPid, WriteMess, OpenIntd, WriteEnvelope,
                LinkTodo, Abandon, CleanupIntd, CleanupMess, dirVars
  <2>4. PICK pc \in WriterPcs \ {"start"} : Goto(m, pc)
    BY <1>2 DEF LinkMess, UnlinkPid, WriteMess, OpenIntd, WriteEnvelope,
                LinkTodo, Abandon, CleanupIntd, CleanupMess, WriterPcs
  <2>5. OnlyFilesOf(x)
    BY <1>2 DEF LinkMess, UnlinkPid, WriteMess, OpenIntd, WriteEnvelope,
                LinkTodo, Abandon, CleanupIntd, CleanupMess, dirVars,
                OnlyFilesOf, Link, Unlink
  <2>6. wpc'[m] = pc /\ wid' = wid /\ wid'[m] = x
        /\ wpc \in [Msgs -> WriterPcs]
    BY <2>4 DEF Goto, Typed, TypeOK, WriterTypeOK
  <2>7. Lawful(x)' /\ (Live(m)' => WriterState(m)')
    <3> USE <2>2, <2>4, <2>6
        DEF Lawful, WriterState, Bare, Goto, Link, Unlink, Has, dirVars
    <3>1. CASE LinkMess(m)
      BY <3>1 DEF LinkMess
    <3>2. CASE UnlinkPid(m)
      BY <3>2 DEF UnlinkPid
    <3>3. CASE WriteMess(m)
      BY <3>3 DEF WriteMess
    <3>4. CASE OpenIntd(m)
      BY <3>4 DEF OpenIntd
    <3>5. CASE WriteEnvelope(m)
      BY <3>5 DEF WriteEnvelope
    <3>6. CASE LinkTodo(m)
      BY <3>6 DEF LinkTodo
    <3>7. CASE Abandon(m)
      BY <3>7 DEF Abandon
    <3>8. CASE CleanupIntd(m)
      BY <3>8 DEF CleanupIntd
    <3>9. CASE CleanupMess(m)
      BY <3>9 DEF CleanupMess, Live
    <3> QED
      BY <1>2, <3>1, <3>2, <3>3, <3>4, <3>5, <3>6, <3>7, <3>8, <3>9
  <2> QED
    BY <2>1, <2>3, <2>4, <2>5, <2>7, WriterStepInv
<1>3. CASE PullTrigger(m) \/ WriterDies(m)
  <2>1. /\ UNCHANGED dirVars /\ wid' = wid
        /\ \A n \in Msgs : Live(n)' => Live(n) /\ wpc'[n] = wpc[n]
    BY <1>3 DEF PullTrigger, WriterDies, Goto, Live, Typed, TypeOK, WriterTypeOK
  <2>2. WriterInv'
    BY <2>1 DEF QueueInv, WriterInv, WriterState, Bare, Has, dirVars
  <2>3. \A id : Left(id) => Left(id)'
    BY <2>1 DEF Left
  <2> QED
    BY <2>1, <2>2, <2>3, QuietStep DEF dirVars
<1> QED
  BY <1>1, <1>2, <1>3 DEF Queue, QmailQueueStep

-----------------------------------------------------------------------------
(* qmail-todo.                                                             *)

(* A qmail-todo that runs has no predecessor whose request to qmail-clean  *)
(* is still being carried out.                                             *)
LEMMA NoLateTodo ==
  ASSUME LateInv, tpc # "dead"
  PROVE  \A id \in Ids :
           /\ <<"todo", id>> \notin late
           /\ <<"intd", id>> \in late => <<"mess", id>> \in late
BY DEF LateInv

(* Its reports stay true while it does not send one. *)
LEMMA TodoReportFrame ==
  ASSUME ReportInv, NEW x \in Ids, OnlyFilesOf(x), ~S5(x), tpc # "dead",
         tpc' # "report", UNCHANGED <<treports, sendVars>>
  PROVE  ReportInv'
BY DEF ReportInv, Unheard, OnlyFilesOf, S5, Has, sendVars, memVars

(* Steps of qmail-todo on the files of a message in todo/. *)
LEMMA TodoWorkInv ==
  ASSUME Typed, QueueInv, tpc # "dead", NEW x \in Ids, Has("todo", x),
         OnlyFilesOf(x), Lawful(x)', Has("mess", x)', TodoInv', ReportInv',
         UNCHANGED <<age, treports, queueVars, sendVars, envVars>>
  PROVE  QueueInv'
<1>1. ~Bare(x) /\ ~S5(x)
  BY DEF Bare, S5
<1>2. LawfulInv' /\ BacklogInv'
  BY LawfulFrame, BacklogFrame DEF QueueInv
<1>3. WriterInv'
  <2>1. Left(x)
    BY <1>1 DEF QueueInv, WriterInv, WriterState, Left
  <2> QED
    BY <2>1, WriterFrame DEF QueueInv, queueVars
<1>4. KnownInv'
  BY <1>1, KnownFrame DEF QueueInv, sendVars, memVars
<1>5. SendInv'
  <2>1. \A id \in Ids : Left(id) => Left(id)'
    BY DEF Left, Live, queueVars
  <2>2. CASE sid # x \/ spc \in {"down", "idle", "mark"}
    BY <2>1, <2>2, SendFrame
       DEF QueueInv, sendVars, memVars, Typed, Working
  <2>3. CASE sid = x /\ spc \notin {"down", "idle", "mark"}
    <3>1. spc = "old_info" \/ spc = "old_todo"
      BY <1>1, <2>3 DEF QueueInv, SendInv, Eliminating, Typed, TypeOK, SendTypeOK, SendPcs
    <3> QED
      BY <3>1, <2>3, <1>1
         DEF QueueInv, SendInv, Eliminating, Has, sendVars, memVars
  <2> QED
    BY <2>2, <2>3
<1>6. LateInv'
  BY <1>1, NoLateTodo
     DEF QueueInv, LateInv, Bare, Left, Live, OnlyFilesOf, Has, queueVars,
         sendVars, envVars
<1>7. DownInv'
  BY DownFrame DEF QueueInv, sendVars, memVars
<1> QED
  BY <1>2, <1>3, <1>4, <1>5, <1>6, <1>7 DEF QueueInv

(* Steps of qmail-todo that change no file. *)
LEMMA TodoQuietInv ==
  ASSUME Typed, QueueInv, tpc # "dead", TodoInv', ReportInv', DownInv',
         UNCHANGED <<files, age, queueVars, sendVars, late>>
  PROVE  QueueInv'
<1> USE DEF QueueInv, sendVars, memVars, queueVars, Has
<1>1. LawfulInv' /\ BacklogInv'
  BY DEF LawfulInv, Lawful, Bare, BacklogInv
<1>2. WriterInv'
  BY DEF WriterInv, WriterState, Live, Bare
<1>3. KnownInv'
  BY DEF KnownInv, S5, OneJob
<1>4. SendInv'
  BY DEF SendInv, S5, Bare, Left, Live
<1>5. LateInv'
  BY NoLateTodo DEF LateInv, Bare, Left, Live
<1> QED
  BY <1>1, <1>2, <1>3, <1>4, <1>5

(* Every step of qmail-todo keeps the invariant. *)
LEMMA TodoStepInv ==
  ASSUME Typed, QueueInv, Todo
  PROVE  QueueInv'
<1> UNCHANGED <<queueVars, sendVars, envVars>>
  BY DEF Todo
<1>1. tpc # "dead"
  BY DEF Todo, QmailTodoStep, OpenTodo, TodoStatMess, TodoUnlinkChan,
         TodoUnlinkInfo, TodoCreateInfo, CopyRecipient, EndOfEnvelope,
         TodoSyncInfo, TodoSyncChans, TodoCleanIntd, TodoCleanTodo, TodoReport,
         TodoLeaves
<1>2. ASSUME tpc' # "report", UNCHANGED <<files, treports>> PROVE ReportInv'
  BY <1>1, <1>2
     DEF QueueInv, ReportInv, Unheard, S5, Has, sendVars, memVars
<1>3. ASSUME UNCHANGED treports PROVE DownInv'
  BY <1>3, DownFrame DEF QueueInv, sendVars, memVars
<1>4. CASE Fails \/ TodoLeaves
  <2>1. UNCHANGED <<files, age, treports>> /\ tpc' \in {"idle", "dead"}
    BY <1>4 DEF Fails, GiveUp, TodoGoto, TodoLeaves, dirVars
  <2>2. TodoInv'
    BY <2>1 DEF TodoInv
  <2> QED
    BY <1>1, <1>2, <1>3, <2>1, <2>2, TodoQuietInv DEF envVars
<1>5. CASE TodoStatMess \/ EndOfEnvelope \/ TodoSyncInfo \/ TodoSyncChans
  <2>1. UNCHANGED <<files, age, treports, tid, tchan>> /\ tpc' # "report"
    BY <1>5 DEF TodoStatMess, EndOfEnvelope, TodoSyncInfo, TodoSyncChans,
                Fails, GiveUp, TodoGoto, dirVars
  <2>2. \/ tpc' = "idle"
        \/ tpc = "stat" /\ tpc' = "unlocal"
        \/ tpc = "copy" /\ tpc' = "sync_info"
        \/ tpc = "sync_info" /\ tpc' = "sync_chan"
        \/ tpc = "sync_chan" /\ tpc' = "clean_intd"
    BY <1>5 DEF TodoStatMess, EndOfEnvelope, TodoSyncInfo, TodoSyncChans,
                Fails, GiveUp, TodoGoto
  <2>3. TodoInv'
    BY <2>1, <2>2 DEF QueueInv, TodoInv, Has
  <2> QED
    BY <1>1, <1>2, <1>3, <2>1, <2>3, TodoQuietInv DEF envVars
<1>6. ASSUME NEW id \in Ids, OpenTodo(id) PROVE QueueInv'
  <2>1. UNCHANGED <<files, age, treports>> /\ tpc' = "stat" /\ tid' = id
        /\ tchan' = {} /\ Has("todo", id)
    BY <1>6 DEF OpenTodo, dirVars
  <2>2. TodoInv'
    BY <2>1 DEF TodoInv, Has
  <2> QED
    BY <1>1, <1>2, <1>3, <2>1, <2>2, TodoQuietInv DEF envVars
<1>7. CASE TodoReport
  <2>1. UNCHANGED <<files, age, tid, tchan>> /\ tpc = "report" /\ tpc' = "idle"
        /\ treports' = treports \cup {<<tid, tchan>>} /\ spc # "down"
    BY <1>7 DEF TodoReport, Todo, dirVars
  <2>2. TodoInv' /\ DownInv'
    BY <2>1 DEF TodoInv, DownInv, sendVars, memVars
  <2>3. ASSUME NEW report \in treports'
        PROVE  /\ S5(report[1]) /\ Unheard(report[1])
               /\ \A c \in report[2] : Has(c, report[1])
               /\ \A other \in treports' : other[1] = report[1] => other = report
    BY <2>1, <2>3 DEF QueueInv, ReportInv
  <2>4. ReportInv'
    BY <1>1, <2>1, <2>3
       DEF QueueInv, ReportInv, S5, Unheard, Has, sendVars, memVars
  <2> QED
    BY <1>1, <2>1, <2>2, <2>4, TodoQuietInv DEF envVars
<1>8. CASE /\ ~Fails
           /\ \/ TodoUnlinkChan("local", "unlocal", "unremote")
              \/ TodoUnlinkChan("remote", "unremote", "uninfo")
              \/ TodoUnlinkInfo \/ TodoCreateInfo
              \/ \E r \in Rcpts : CopyRecipient(r)
              \/ TodoCleanIntd \/ TodoCleanTodo
  <2>1. PICK x \in Ids : x = tid /\ Has("todo", x)
    BY <1>8 DEF QueueInv, TodoInv, Typed, Working, TodoUnlinkChan,
                TodoUnlinkInfo, TodoCreateInfo, CopyRecipient, TodoCleanIntd,
                TodoCleanTodo
  <2>2. OnlyFilesOf(x) /\ UNCHANGED <<age, treports, tid>>
    BY <1>8, <2>1
       DEF TodoUnlinkChan, TodoUnlinkInfo, TodoCreateInfo, CopyRecipient,
           TodoCleanIntd, TodoCleanTodo, TodoGoto, Link, Unlink, OnlyFilesOf
  <2>3. Lawful(x) /\ ~S5(x) /\ Has("mess", x) /\ ~Has("bounce", x)
    BY <2>1 DEF QueueInv, LawfulInv, Lawful, S5, Bare
  <2>4. TodoInv /\ ReportInv /\ tchan \subseteq Channels
    BY DEF QueueInv, Typed, TypeOK, TodoTypeOK
  <2> DEFINE Good == Lawful(x)' /\ Has("mess", x)' /\ TodoInv' /\ ReportInv'
  <2>5. ASSUME tpc' # "report" PROVE ReportInv'
    BY <1>1, <2>2, <2>3, <2>4, <2>5, TodoReportFrame
  <2>6. ASSUME NEW c \in Channels, NEW pc, NEW next, TodoUnlinkChan(c, pc, next),
               <<pc, next>> \in {<<"unlocal", "unremote">>, <<"unremote", "uninfo">>}
        PROVE  Good
    <3>1. /\ Unlink(c, x) /\ tpc \in {"unlocal", "unremote"}
          /\ tpc' \in {"unremote", "uninfo"} /\ UNCHANGED <<tid, tchan>>
      BY <1>8, <2>1, <2>6 DEF TodoUnlinkChan, TodoGoto
    <3>2. Lawful(x)' /\ Has("mess", x)'
      BY <3>1, <2>1, <2>3 DEF Lawful, Bare, Unlink, Has, Channels
    <3>3. TodoInv'
      BY <3>1, <2>1, <2>4 DEF TodoInv, Unlink, Has, Channels
    <3> QED
      BY <3>1, <3>2, <3>3, <2>5
  <2>7. ASSUME TodoUnlinkInfo PROVE Good
    <3>1. /\ Unlink("info", x) /\ tpc = "uninfo" /\ tpc' = "info"
          /\ UNCHANGED <<tid, tchan>>
      BY <1>8, <2>1, <2>7 DEF TodoUnlinkInfo, TodoGoto
    <3>2. Lawful(x)' /\ Has("mess", x)'
      BY <3>1, <2>1, <2>3 DEF Lawful, Bare, Unlink, Has
    <3>3. TodoInv'
      BY <3>1, <2>1, <2>4 DEF TodoInv, Unlink, Has
    <3> QED
      BY <3>1, <3>2, <3>3, <2>5
  <2>8. ASSUME TodoCreateInfo PROVE Good
    <3>1. /\ Link("info", x) /\ tpc = "info" /\ tpc' = "copy"
          /\ UNCHANGED <<tid, tchan>>
      BY <1>8, <2>1, <2>8 DEF TodoCreateInfo, TodoGoto
    <3>2. Lawful(x)' /\ Has("mess", x)'
      BY <3>1, <2>1, <2>3 DEF Lawful, Bare, Link, Has
    <3>3. TodoInv'
      BY <3>1, <2>1, <2>4 DEF TodoInv, Link, Has
    <3> QED
      BY <3>1, <3>2, <3>3, <2>5
  <2>9. ASSUME NEW r \in Rcpts, CopyRecipient(r) PROVE Good
    <3> DEFINE c == ChannelOf[r]
    <3>1. c \in Channels
      BY EnvelopeAssumption
    <3>2. /\ Link(c, x) /\ tpc = "copy" /\ tpc' = "copy"
          /\ tchan' = tchan \cup {c} /\ UNCHANGED tid
      BY <1>8, <2>1, <2>9 DEF CopyRecipient, TodoGoto
    <3> HIDE DEF c
    <3>3. Lawful(x)' /\ Has("mess", x)'
      BY <3>1, <3>2, <2>1, <2>3 DEF Lawful, Bare, Link, Has, Channels
    <3>4. TodoInv'
      BY <3>1, <3>2, <2>1, <2>4 DEF TodoInv, Link, Has
    <3> QED
      BY <3>2, <3>3, <3>4, <2>5
  <2>10. ASSUME TodoCleanIntd PROVE Good
    <3>1. /\ Unlink("intd", x) /\ tpc = "clean_intd" /\ tpc' = "clean_todo"
          /\ UNCHANGED <<tid, tchan>>
      BY <1>8, <2>1, <2>10 DEF TodoCleanIntd, TodoGoto
    <3>2. Lawful(x)' /\ Has("mess", x)'
      BY <3>1, <2>1, <2>3 DEF Lawful, Bare, Unlink, Has
    <3>3. TodoInv'
      BY <3>1, <2>1, <2>4 DEF TodoInv, Unlink, Has, Channels
    <3> QED
      BY <3>1, <3>2, <3>3, <2>5
  <2>11. ASSUME TodoCleanTodo PROVE Good
    <3>1. /\ Unlink("todo", x) /\ tpc = "clean_todo" /\ tpc' = "report"
          /\ UNCHANGED <<tid, tchan>>
      BY <1>8, <2>1, <2>11 DEF TodoCleanTodo, TodoGoto
    <3>2. /\ Has("info", x) /\ ~Has("intd", x) /\ \A c \in tchan : Has(c, x)
      BY <3>1, <2>1, <2>4 DEF TodoInv
    <3>3. S5(x)' /\ Lawful(x)' /\ Has("mess", x)'
      BY <3>1, <3>2, <2>3 DEF Lawful, S5, Bare, Unlink, Has
    <3>4. TodoInv'
      BY <3>1 DEF TodoInv
    <3>5. Unheard(x)
      BY <2>1, <2>3, <1>1 DEF Unheard, QueueInv, KnownInv, SendInv
    <3>6. Unheard(x)' /\ x \notin {report[1] : report \in treports}
      BY <3>5, <2>3, <2>4 DEF Unheard, sendVars, memVars, ReportInv
    <3>7. \A c \in tchan : Has(c, x)'
      BY <3>1, <3>2, <2>4 DEF Unlink, Has, Channels
    <3>8. ReportInv'
      <4>1. ASSUME NEW report \in treports
            PROVE  /\ S5(report[1])' /\ Unheard(report[1])'
                   /\ \A c \in report[2] : Has(c, report[1])'
        BY <2>2, <2>3, <2>4, <3>6
           DEF ReportInv, OnlyFilesOf, S5, Unheard, Has, sendVars, memVars
      <4> QED
        BY <4>1, <1>1, <2>1, <2>2, <2>4, <3>1, <3>3, <3>6, <3>7
           DEF ReportInv, sendVars, memVars
    <3> QED
      BY <3>3, <3>4, <3>8
  <2>12. Good
    BY <1>8, <2>6, <2>7, <2>8, <2>9, <2>10, <2>11 DEF Channels
  <2> HIDE DEF Good
  <2> QED
    BY <1>1, <2>1, <2>2, <2>12, TodoWorkInv DEF Good
<1> QED
  BY <1>4, <1>5, <1>6, <1>7, <1>8 DEF Todo, QmailTodoStep, TodoUnlinkChan,
     TodoUnlinkInfo, TodoCreateInfo, CopyRecipient, TodoCleanIntd, TodoCleanTodo

-----------------------------------------------------------------------------
(* qmail-send.                                                             *)

(* Nobody else depends on a message that is preprocessed, or that is old   *)
(* or eliminated and has no qmail-queue any more.                          *)
LEMMA SendOthersInv ==
  ASSUME QueueInv, spc # "down", NEW x \in Ids, OnlyFilesOf(x), Lawful(x)',
         ~Has("todo", x), ~Has("todo", x)', Left(x),
         UNCHANGED <<age, late, queueVars, todoVars>>
  PROVE  LawfulInv' /\ WriterInv' /\ TodoInv' /\ BacklogInv' /\ LateInv'
<1>1. LawfulInv' /\ BacklogInv'
  BY LawfulFrame, BacklogFrame DEF QueueInv
<1>2. WriterInv'
  BY WriterFrame DEF QueueInv, queueVars
<1>3. TodoInv'
  BY TodoFrame DEF QueueInv
<1>4. LateInv'
  BY DEF QueueInv, LateInv, OnlyFilesOf, Has, todoVars
<1> QED
  BY <1>1, <1>2, <1>3, <1>4

(* Steps that change no file concern qmail-send's own memory only. *)
LEMMA SendQuietInv ==
  ASSUME QueueInv, spc # "down" \/ late = {}, KnownInv', ReportInv', SendInv',
         DownInv', UNCHANGED <<files, age, late, queueVars, tpc, tid, tchan>>
  PROVE  QueueInv'
<1>1. LawfulInv' /\ BacklogInv'
  BY DEF QueueInv, LawfulInv, Lawful, Bare, BacklogInv, Has
<1>2. WriterInv'
  BY DEF QueueInv, WriterInv, WriterState, Live, Bare, Has, queueVars
<1>3. TodoInv'
  BY DEF QueueInv, TodoInv, Has
<1>4. LateInv'
  BY DEF QueueInv, LateInv, Has
<1> QED
  BY <1>1, <1>2, <1>3, <1>4 DEF QueueInv

(* A preprocessed message has no qmail-queue that fills it. *)
LEMMA PreprocessedLeft ==
  ASSUME QueueInv, NEW x \in Ids, S5(x) PROVE Left(x)
BY DEF QueueInv, WriterInv, WriterState, Left, Bare, S5

(* The reports under way stay true when qmail-send hears of nothing new.   *)
LEMMA ReportKept ==
  ASSUME Typed, ReportInv,
         \A id \in Ids : Unheard(id) /\ S5(id) =>
           Unheard(id)' /\ S5(id)' /\ \A d : Has(d, id) => Has(d, id)',
         spc' # "down" => spc # "down" /\ (todoalive => todoalive'),
         UNCHANGED todoVars
  PROVE  ReportInv'
<1>1. \A report \in treports : report[1] \in Ids
  BY DEF Typed, TypeOK, TodoTypeOK
<1>2. tpc = "report" => tid \in Ids
  BY DEF Typed, Working
<1>3. \A report \in treports' :
        /\ S5(report[1])' /\ Unheard(report[1])'
        /\ \A o \in report[2] : Has(o, report[1])'
        /\ \A other \in treports' : other[1] = report[1] => other = report
        /\ tpc' = "report" => tid' # report[1]
  BY <1>1 DEF ReportInv, todoVars
<1>4. tpc' = "report" =>
        S5(tid)' /\ Unheard(tid)' /\ \A o \in tchan' : Has(o, tid)'
  BY <1>2 DEF ReportInv, todoVars, S5, Unheard, Has
<1> QED
  BY <1>3, <1>4 DEF ReportInv, todoVars

(* What job_close() does to the files and the queues. *)
LEMMA JobCloseEffect ==
  ASSUME NEW c, NEW x, NEW busy, NEW hit, NEW left, NEW recs,
         JobClose(c, x, busy, hit, left, recs)
  PROVE  \/ busy /\ UNCHANGED <<files, pqchan, pqdone>>
         \/ ~busy /\ pqchan' = pqchan \cup {<<c, x>>} /\ UNCHANGED <<files, pqdone>>
         \/ /\ ~busy /\ Unlink(c, x) /\ UNCHANGED pqchan
            /\ pqdone' \in {pqdone, pqdone \cup {x}}
BY DEF JobClose

(* The end of a pass or of a delivery: the job of c/x loses one reference, *)
(* and if it was the last, the file goes back to pqchan or is removed.     *)
LEMMA JobStepInv ==
  ASSUME Typed, QueueInv, spc \in {"idle", "mark"}, spc' = "idle",
         NEW c \in Channels, NEW x \in Ids, NEW busy, NEW hit, NEW left, NEW recs,
         passid[c] = x \/ \E r \in OfChannel(c) : del[x][r] # "none",
         JobClose(c, x, busy, hit, left, recs),
         ~busy => /\ passid'[c] # x
                  /\ \A r \in OfChannel(c) : del'[x][r] = "none",
         \A o \in Channels : passid'[o] \in {passid[o], NoId}
                              /\ unread'[o] \subseteq unread[o],
         \A id \in Ids, r \in Rcpts : del'[id][r] # "none" => del[id][r] # "none",
         UNCHANGED <<age, todoalive, queueVars, todoVars, envVars>>
  PROVE  QueueInv'
<1>1. S5(x) /\ Has(c, x) /\ <<c, x>> \notin pqchan
  BY DEF QueueInv, KnownInv, OneJob, OfChannel
<1>2. \A id \in Ids : Unheard(id) => id # x
  BY <1>1 DEF Unheard, OfChannel
<1>3. /\ \A id \in pqdone' : id \in pqdone \/ id = x
      /\ pqchan' \subseteq pqchan \cup {<<c, x>>}
      /\ busy => UNCHANGED <<files, pqchan, pqdone>>
      /\ UNCHANGED files \/ (Unlink(c, x) /\ ~busy /\ UNCHANGED pqchan)
  BY JobCloseEffect
<1>4. OnlyFilesOf(x) /\ \A d : d # c => (Has(d, x)' <=> Has(d, x))
  BY <1>3 DEF OnlyFilesOf, Unlink, Has
<1>5. S5(x)' /\ Lawful(x)' /\ ~Has("todo", x) /\ ~Has("todo", x)'
  BY <1>1, <1>4 DEF S5, Lawful, Channels
<1>6. LawfulInv' /\ WriterInv' /\ TodoInv' /\ BacklogInv' /\ LateInv'
  BY <1>1, <1>4, <1>5, PreprocessedLeft, SendOthersInv DEF envVars
<1>7. \A id \in Ids : S5(id) => S5(id)'
  BY <1>4, <1>5 DEF OnlyFilesOf, S5, Has
<1>8. \A o, id : Has(o, id) /\ <<o, id>> # <<c, x>> => Has(o, id)'
  BY <1>3 DEF Unlink, Has
<1>9. KnownInv'
  <2>1. \A id \in pqdone' : S5(id)'
    BY <1>3, <1>5, <1>7 DEF QueueInv, KnownInv, Typed, TypeOK, SendTypeOK
  <2>2. ASSUME NEW o \in Channels, NEW id \in Ids,
               <<o, id>> \in pqchan' \/ passid'[o] = id
        PROVE  S5(id)' /\ Has(o, id)'
    <3>1. CASE <<o, id>> = <<c, x>>
      <4>1. UNCHANGED files
        BY <1>1, <1>3, <2>2, <3>1
      <4> QED
        BY <1>1, <1>5, <3>1, <4>1 DEF Has
    <3>2. CASE <<o, id>> # <<c, x>>
      <4>1. <<o, id>> \in pqchan \/ passid[o] = id
        BY <1>3, <2>2, <3>2, EnvelopeAssumption
      <4> QED
        BY <1>7, <1>8, <3>2, <4>1 DEF QueueInv, KnownInv
    <3> QED
      BY <3>1, <3>2
  <2>3. ASSUME NEW id \in Ids, NEW r \in Rcpts, del'[id][r] # "none"
        PROVE  S5(id)' /\ Has(ChannelOf[r], id)'
    <3>1. S5(id) /\ Has(ChannelOf[r], id)
      BY <2>3 DEF QueueInv, KnownInv
    <3>2. CASE id = x /\ ChannelOf[r] = c
      <4>1. UNCHANGED files
        BY <1>3, <2>3, <3>2 DEF OfChannel
      <4> QED
        BY <1>7, <3>1, <4>1 DEF Has
    <3>3. CASE ~(id = x /\ ChannelOf[r] = c)
      BY <1>7, <1>8, <3>1, <3>3
    <3> QED
      BY <3>2, <3>3
  <2>4. OneJob'
    <3> SUFFICES ASSUME NEW o \in Channels, NEW id \in Ids, <<o, id>> \in pqchan'
                 PROVE  passid'[o] # id /\ \A r \in OfChannel(o) : del'[id][r] = "none"
      BY DEF OneJob, OfChannel
    <3>1. CASE <<o, id>> = <<c, x>>
      <4>1. ~busy
        BY <1>1, <1>3, <3>1
      <4> QED
        BY <3>1, <4>1
    <3>2. CASE <<o, id>> # <<c, x>>
      <4>1. <<o, id>> \in pqchan
        BY <1>3, <3>2
      <4> QED
        BY <4>1, EnvelopeAssumption DEF QueueInv, KnownInv, OneJob, OfChannel
    <3> QED
      BY <3>1, <3>2
  <2>5. \A o \in Channels : unread'[o] \subseteq OfChannel(o)
    BY DEF QueueInv, KnownInv
  <2> QED
    BY <2>1, <2>2, <2>3, <2>4, <2>5 DEF KnownInv, OfChannel
<1>10. ReportInv'
  <2>1. ASSUME NEW id \in Ids, Unheard(id), S5(id)
        PROVE  Unheard(id)' /\ S5(id)' /\ \A d : Has(d, id) => Has(d, id)'
    <3>1. id # x
      BY <1>2, <2>1
    <3>2. Unheard(id)'
      BY <1>3, <2>1, <3>1, EnvelopeAssumption DEF Unheard, Eliminating
    <3> QED
      BY <1>7, <1>8, <2>1, <3>1, <3>2
  <2> QED
    BY <2>1, ReportKept DEF QueueInv
<1>11. SendInv' /\ DownInv'
  BY DEF SendInv, Eliminating, DownInv
<1> QED
  BY <1>6, <1>9, <1>10, <1>11 DEF QueueInv

(* A pass that reaches the end of the file, or gives up. *)
LEMMA EndPassInv ==
  ASSUME Typed, QueueInv, NEW c \in Channels, NEW hit \in BOOLEAN, EndPass(c, hit),
         UNCHANGED <<queueVars, todoVars, envVars>>
  PROVE  QueueInv'
<1> DEFINE busy == \E r \in OfChannel(c) : del[passid[c]][r] # "none"
<1>1. passid \in [Channels -> Ids \cup {NoId}] /\ unread \in [Channels -> SUBSET Rcpts]
  BY DEF Typed, TypeOK, SendTypeOK
<1>2. PICK x \in Ids : x = passid[c]
  BY <1>1 DEF EndPass
<1>3. JobClose(c, x, busy, hit, undone[x], pending[x])
  BY <1>2 DEF EndPass
<1>4. /\ spc = "idle" /\ spc' = "idle" /\ del' = del
      /\ passid' = [passid EXCEPT ![c] = NoId]
      /\ unread' = [unread EXCEPT ![c] = {}]
      /\ UNCHANGED <<age, todoalive>>
  BY DEF EndPass, Idle
<1>5. ~busy => /\ passid'[c] # x
               /\ \A r \in OfChannel(c) : del'[x][r] = "none"
  BY <1>1, <1>2, <1>4, EnvelopeAssumption
<1>6. \A o \in Channels : passid'[o] \in {passid[o], NoId}
                          /\ unread'[o] \subseteq unread[o]
  BY <1>1, <1>4
<1>7. \A id \in Ids, r \in Rcpts : del'[id][r] # "none" => del[id][r] # "none"
  BY <1>4
<1> HIDE DEF busy
<1> QED
  BY <1>2, <1>3, <1>4, <1>5, <1>6, <1>7, JobStepInv

(* A recipient is done with, or deferred. *)
LEMMA EndDeliveryInv ==
  ASSUME Typed, QueueInv, NEW x \in Ids, NEW r \in Rcpts, NEW mark \in BOOLEAN,
         spc \in {"idle", "mark"}, del[x][r] # "none", EndDelivery(x, r, mark),
         UNCHANGED <<queueVars, todoVars, envVars>>
  PROVE  QueueInv'
<1> DEFINE c == ChannelOf[r]
           busy == Busy(c, x, {r})
           hit == <<c, x>> \in hiteof
<1>1. c \in Channels /\ r \in OfChannel(c)
  BY EnvelopeAssumption DEF OfChannel
<1>2. PICK left, recs : JobClose(c, x, busy, hit, left, recs)
  BY DEF EndDelivery
<1>3. /\ spc' = "idle" /\ del' = [del EXCEPT ![x][r] = "none"]
      /\ UNCHANGED <<passid, unread, age, todoalive>>
  BY DEF EndDelivery
<1>4. del \in [Ids -> [Rcpts -> {"none", "sent", "noted"} \cup Report]]
  BY DEF Typed, TypeOK, SendTypeOK
<1>5. \A id \in Ids, q \in Rcpts :
        del'[id][q] = IF id = x /\ q = r THEN "none" ELSE del[id][q]
  BY <1>3, <1>4
<1>6. ~busy => /\ passid'[c] # x
               /\ \A q \in OfChannel(c) : del'[x][q] = "none"
  BY <1>3, <1>5 DEF Busy, OfChannel
<1>7. \A id \in Ids, q \in Rcpts : del'[id][q] # "none" => del[id][q] # "none"
  BY <1>5
<1>8. \E q \in OfChannel(c) : del[x][q] # "none"
  BY <1>1
<1> HIDE DEF c, busy, hit
<1> QED
  BY <1>1, <1>2, <1>3, <1>6, <1>7, <1>8, JobStepInv

(* Steps of qmail-send's own that change no file. *)
LEMMA OpenPassInv ==
  ASSUME Typed, QueueInv, NEW c \in Channels, NEW x \in Ids, OpenPass(c, x),
         UNCHANGED <<queueVars, todoVars, envVars>>
  PROVE  QueueInv'
<1>1. /\ spc = "idle" /\ passid[c] = NoId /\ <<c, x>> \in pqchan
      /\ pqchan' = pqchan \ {<<c, x>>} /\ passid' = [passid EXCEPT ![c] = x]
      /\ unread' = [unread EXCEPT ![c] = pending[x] \cap OfChannel(c)]
      /\ UNCHANGED <<spc, sid, pqdone, del, todoalive, files, age>>
  BY DEF OpenPass, Idle, dirVars
<1>2. \A o \in Channels : /\ passid'[o] = IF o = c THEN x ELSE passid[o]
                          /\ unread'[o] \subseteq unread[o] \cup OfChannel(o)
  BY <1>1 DEF Typed, TypeOK, SendTypeOK
<1>3. KnownInv'
  BY <1>1, <1>2 DEF QueueInv, KnownInv, OneJob, OfChannel, S5, Has
<1>4. \A id \in Ids : Unheard(id) => Unheard(id)'
  BY <1>1, <1>2 DEF Unheard
<1>5. ReportInv'
  BY <1>1, <1>4, ReportKept DEF QueueInv, S5, Has
<1>6. SendInv' /\ DownInv'
  BY <1>1 DEF SendInv, Eliminating, DownInv
<1> QED
  BY <1>1, <1>3, <1>5, <1>6, SendQuietInv DEF envVars, todoVars

(* A recipient goes to the spawner while the pass holds the job. *)
LEMMA ReadRecipientInv ==
  ASSUME Typed, QueueInv, NEW c \in Channels, NEW r \in Rcpts, ReadRecipient(c, r),
         UNCHANGED <<queueVars, todoVars, envVars>>
  PROVE  QueueInv'
<1>1. PICK x \in Ids : x = passid[c]
  BY DEF ReadRecipient, Typed, TypeOK, SendTypeOK
<1>2. /\ spc = "idle" /\ r \in unread[c]
      /\ UNCHANGED <<spc, sid, pqchan, pqdone, passid, todoalive, files, age>>
  BY DEF ReadRecipient, Idle, dirVars
<1>3. /\ \A o \in Channels : unread'[o] \subseteq unread[o]
      /\ \A id \in Ids, q \in Rcpts :
           ~(id = x /\ q = r) => del'[id][q] = del[id][q]
  BY <1>1 DEF ReadRecipient, Typed, TypeOK, SendTypeOK
<1>4. ChannelOf[r] = c /\ S5(x) /\ Has(c, x) /\ <<c, x>> \notin pqchan
  BY <1>1, <1>2 DEF QueueInv, KnownInv, OneJob, OfChannel
<1>5. KnownInv'
  <2>1. \A id \in Ids : S5(id) => S5(id)' /\ \A d : Has(d, id) => Has(d, id)'
    BY <1>2 DEF S5, Has
  <2>2. \A id \in Ids, q \in Rcpts :
          del'[id][q] # "none" => S5(id)' /\ Has(ChannelOf[q], id)'
    BY <1>3, <1>4, <2>1 DEF QueueInv, KnownInv
  <2>3. OneJob'
    BY <1>2, <1>3, <1>4, EnvelopeAssumption
       DEF QueueInv, KnownInv, OneJob, OfChannel
  <2>4. \A o \in Channels : unread'[o] \subseteq OfChannel(o)
    BY <1>3 DEF QueueInv, KnownInv
  <2>5. /\ \A id \in pqdone' : S5(id)'
        /\ \A o \in Channels, id \in Ids :
             <<o, id>> \in pqchan' \/ passid'[o] = id => S5(id)' /\ Has(o, id)'
    BY <1>2 DEF QueueInv, KnownInv, S5, Has
  <2> QED
    BY <2>2, <2>3, <2>4, <2>5 DEF KnownInv, OfChannel
<1>6. \A id \in Ids : Unheard(id) => Unheard(id)'
  BY <1>1, <1>2, <1>3 DEF Unheard
<1>7. ReportInv'
  BY <1>2, <1>6, ReportKept DEF QueueInv, S5, Has
<1>8. SendInv' /\ DownInv'
  BY <1>2 DEF SendInv, Eliminating, DownInv
<1> QED
  BY <1>2, <1>5, <1>7, <1>8, SendQuietInv DEF envVars, todoVars

(* Steps of messdone() that only look. *)
LEMMA MessDoneQuietInv ==
  ASSUME Typed, QueueInv, spc \in Eliminating, SendInv',
         \/ spc' \in Eliminating /\ UNCHANGED pqdone
         \/ spc' = "idle" /\ pqdone' \in {pqdone, pqdone \cup {sid}},
         UNCHANGED <<sid, pqchan, passid, unread, del, todoalive, files, age,
                     queueVars, todoVars, envVars>>
  PROVE  QueueInv'
<1>1. S5(sid) /\ spc # "down" /\ spc' # "down"
  BY DEF QueueInv, SendInv, Eliminating
<1>2. \A id : S5(id)' <=> S5(id)
  BY DEF S5, Has
<1>3. KnownInv'
  BY <1>1, <1>2 DEF QueueInv, KnownInv, OneJob, Has
<1>4. \A id \in Ids : Unheard(id) => Unheard(id)'
  BY DEF Unheard
<1>5. ReportInv'
  BY <1>1, <1>2, <1>4, ReportKept DEF QueueInv, Has
<1>6. DownInv'
  BY <1>1 DEF DownInv
<1> QED
  BY <1>1, <1>3, <1>5, <1>6, SendQuietInv DEF envVars, todoVars

(* messdone() up to the bounce message. *)
LEMMA MessDoneStepInv ==
  ASSUME Typed, QueueInv,
         \/ \E id \in Ids : MessDone(id)
         \/ MessDoneStat("stat_local", "local", FALSE, "stat_remote")
         \/ MessDoneStat("stat_remote", "remote", FALSE, "stat_todo")
         \/ MessDoneStat("stat_todo", "todo", FALSE, "stat_info")
         \/ MessDoneStat("stat_info", "info", TRUE, "bounce")
         \/ InjectBounce,
         UNCHANGED <<queueVars, todoVars, envVars>>
  PROVE  QueueInv'
<1>1. ASSUME NEW id \in Ids, MessDone(id) PROVE QueueInv'
  <2>1. /\ spc = "idle" /\ id \in pqdone /\ spc' = "stat_local" /\ sid' = id
        /\ pqdone' = pqdone \ {id}
        /\ UNCHANGED <<files, age, pqchan, passid, unread, del, todoalive>>
    BY <1>1 DEF MessDone, Idle, dirVars
  <2>2. \A i : S5(i)' <=> S5(i)
    BY <2>1 DEF S5, Has
  <2>3. KnownInv'
    BY <2>1, <2>2 DEF QueueInv, KnownInv, OneJob, Has
  <2>4. \A i \in Ids : Unheard(i) => Unheard(i)'
    BY <2>1 DEF Unheard
  <2>5. ReportInv'
    BY <2>1, <2>2, <2>4, ReportKept DEF QueueInv, Has
  <2>6. SendInv' /\ DownInv'
    BY <2>1, <2>2 DEF QueueInv, KnownInv, SendInv, DownInv
  <2> QED
    BY <2>1, <2>3, <2>5, <2>6, SendQuietInv DEF envVars, todoVars
<1>2. ASSUME NEW pc, NEW d, NEW present \in BOOLEAN, NEW next,
             MessDoneStat(pc, d, present, next),
             <<pc, d, present, next>> \in
               {<<"stat_local", "local", FALSE, "stat_remote">>,
                <<"stat_remote", "remote", FALSE, "stat_todo">>,
                <<"stat_todo", "todo", FALSE, "stat_info">>,
                <<"stat_info", "info", TRUE, "bounce">>}
      PROVE  QueueInv'
  <2>1. /\ UNCHANGED <<sid, pqchan, passid, unread, del, todoalive, files, age>>
        /\ spc = pc /\ spc \in Eliminating
        /\ \/ Has(d, sid) = present /\ spc' = next /\ UNCHANGED pqdone
           \/ spc' = "idle" /\ pqdone' \in {pqdone, pqdone \cup {sid}}
    BY <1>2 DEF MessDoneStat, SendGoto, TryAgain, restVars, dirVars, Eliminating
  <2>2. spc' = next => next \in Eliminating
    BY <1>2 DEF Eliminating
  <2>3. SendInv'
    BY <1>2, <2>1 DEF QueueInv, SendInv, S5, Eliminating, Has
  <2> QED
    BY <2>1, <2>2, <2>3, MessDoneQuietInv
<1>3. CASE InjectBounce
  <2>1. /\ UNCHANGED <<sid, pqchan, passid, unread, del, todoalive, files, age>>
        /\ spc = "bounce"
        /\ \/ ~Has("bounce", sid) /\ spc' = "uninfo" /\ UNCHANGED pqdone
           \/ spc' = "unbounce" /\ UNCHANGED pqdone
           \/ spc' = "idle" /\ pqdone' \in {pqdone, pqdone \cup {sid}}
    BY <1>3 DEF InjectBounce, SendGoto, TryAgain, restVars, dirVars
  <2>2. SendInv'
    BY <2>1 DEF QueueInv, SendInv, S5, Eliminating, Has
  <2>3. /\ spc \in Eliminating
        /\ \/ spc' \in Eliminating /\ UNCHANGED pqdone
           \/ spc' = "idle" /\ pqdone' \in {pqdone, pqdone \cup {sid}}
    BY <2>1 DEF Eliminating
  <2> QED
    BY <2>1, <2>2, <2>3, MessDoneQuietInv
<1> QED
  BY <1>1, <1>2, <1>3

(* Steps of messdone() that remove a file.                                 *)
LEMMA UnlinkBounceInv ==
  ASSUME Typed, QueueInv, UnlinkBounce, UNCHANGED <<queueVars, todoVars, envVars>>
  PROVE  QueueInv'
<1> DEFINE rest == <<sid, pqchan, passid, unread, del, todoalive, age, queueVars,
                     todoVars, envVars>>
<1>1. PICK x \in Ids : x = sid
  BY DEF UnlinkBounce, Typed, Working
<1>2. /\ spc = "unbounce" /\ spc \in Eliminating /\ S5(x) /\ ~Has("local", x)
      /\ ~Has("remote", x) /\ x \notin pqdone /\ UNCHANGED rest
  <2>1. spc = "unbounce" /\ spc \in Eliminating
    BY DEF UnlinkBounce, Eliminating
  <2>2. UNCHANGED rest
    BY DEF UnlinkBounce, dirVars, restVars, SendGoto, TryAgain
  <2> QED
    BY <1>1, <2>1, <2>2 DEF QueueInv, SendInv, S5, Has
<1>3. CASE spc' = "idle" /\ UNCHANGED files /\ pqdone' = pqdone \cup {sid}
  <2>1. SendInv'
    BY <1>3 DEF SendInv, Eliminating
  <2> QED
    BY <1>2, <1>3, <2>1, MessDoneQuietInv
<1>4. CASE spc' = "uninfo" /\ Unlink("bounce", x) /\ UNCHANGED pqdone
  <2>1. OnlyFilesOf(x) /\ \A d, id : d # "bounce" => (Has(d, id)' <=> Has(d, id))
    BY <1>4 DEF OnlyFilesOf, Unlink, Has
  <2>2. \A id : S5(id)' <=> S5(id)
    BY <2>1 DEF S5
  <2>3. ~Has("bounce", x)'
    BY <1>4 DEF Unlink, Has
  <2>4. Lawful(x)' /\ ~Has("todo", x) /\ ~Has("todo", x)' /\ spc # "down"
    BY <1>2, <2>1 DEF S5, Lawful
  <2>5. LawfulInv' /\ WriterInv' /\ TodoInv' /\ BacklogInv' /\ LateInv'
    BY <1>2, <2>1, <2>4, PreprocessedLeft, SendOthersInv DEF envVars
  <2>6. KnownInv'
    BY <1>2, <1>4, <2>1, <2>2, EnvelopeAssumption
       DEF QueueInv, KnownInv, OneJob, Channels, OfChannel
  <2>7. ReportInv'
    <3>1. \A id \in Ids : Unheard(id) => Unheard(id)'
      BY <1>2, <1>4 DEF Unheard
    <3>2. \A c \in Channels, id \in Ids : Has(c, id)' <=> Has(c, id)
      BY <2>1 DEF Channels
    <3> QED
      BY <1>2, <1>4, <2>1, <2>2, <2>4, <3>1, <3>2
         DEF QueueInv, ReportInv, todoVars, Typed, TypeOK, TodoTypeOK, Working, S5, Unheard, Has
  <2>8. SendInv' /\ DownInv'
    BY <1>1, <1>2, <1>4, <2>1, <2>2, <2>3 DEF SendInv, DownInv, S5, Has, Eliminating
  <2> QED
    BY <2>5, <2>6, <2>7, <2>8 DEF QueueInv
<1>5. \/ spc' = "idle" /\ UNCHANGED files /\ pqdone' = pqdone \cup {sid}
      \/ spc' = "uninfo" /\ Unlink("bounce", x) /\ UNCHANGED pqdone
  BY <1>1 DEF UnlinkBounce, SendGoto, TryAgain, Unlink, dirVars
<1> QED
  BY <1>3, <1>4, <1>5

(* Without info/ the message is bare, and nobody knows of it any more. *)
LEMMA UnlinkInfoInv ==
  ASSUME Typed, QueueInv, UnlinkInfo, UNCHANGED <<queueVars, todoVars, envVars>>
  PROVE  QueueInv'
<1>1. PICK x \in Ids : x = sid
  BY DEF UnlinkInfo, Typed, Working
<1>2. /\ spc = "uninfo" /\ spc \in Eliminating /\ S5(x) /\ ~Has("local", x)
      /\ ~Has("remote", x) /\ ~Has("bounce", x) /\ x \notin pqdone
      /\ UNCHANGED <<sid, pqchan, passid, unread, del, todoalive, age>>
  <2>1. spc = "uninfo" /\ spc \in Eliminating
    BY DEF UnlinkInfo, Eliminating
  <2>2. UNCHANGED <<sid, pqchan, passid, unread, del, todoalive, age>>
    BY DEF UnlinkInfo, dirVars, restVars, SendGoto, TryAgain
  <2> QED
    BY <1>1, <2>1, <2>2 DEF QueueInv, SendInv, S5, Has
<1>3. CASE spc' = "idle" /\ UNCHANGED files /\ pqdone' = pqdone \cup {sid}
  <2>1. SendInv'
    BY <1>3 DEF SendInv, Eliminating
  <2> QED
    BY <1>2, <1>3, <2>1, MessDoneQuietInv
<1>4. CASE spc' = "clean_intd" /\ Unlink("info", x) /\ UNCHANGED pqdone
  <2>1. /\ OnlyFilesOf(x) /\ ~Has("info", x)'
        /\ \A d : d # "info" => (Has(d, x)' <=> Has(d, x))
    BY <1>4 DEF OnlyFilesOf, Unlink, Has
  <2>2. /\ Lawful(x)' /\ ~Has("todo", x) /\ ~Has("todo", x)' /\ spc # "down"
        /\ Bare(x)' /\ Has("mess", x)'
    BY <1>2, <2>1 DEF S5, Lawful, Bare
  <2>3. LawfulInv' /\ WriterInv' /\ TodoInv' /\ BacklogInv' /\ LateInv'
    BY <1>2, <2>1, <2>2, PreprocessedLeft, SendOthersInv DEF envVars
  <2>4. \A id \in Ids : id # x => (S5(id) <=> S5(id)') /\ \A d : Has(d, id) <=> Has(d, id)'
    BY <2>1 DEF OnlyFilesOf, S5, Has
  <2>5. \A c \in Channels : <<c, x>> \notin pqchan /\ passid[c] # x
    BY <1>2 DEF QueueInv, KnownInv, Channels
  <2>6. \A r \in Rcpts : del[x][r] = "none"
    BY <1>2, EnvelopeAssumption DEF QueueInv, KnownInv, Channels
  <2>7. KnownInv'
    <3>1. \A id \in pqdone' : S5(id)'
      BY <1>2, <1>4, <2>4 DEF QueueInv, KnownInv, Typed, TypeOK, SendTypeOK
    <3>2. \A c \in Channels, id \in Ids :
            <<c, id>> \in pqchan' \/ passid'[c] = id => S5(id)' /\ Has(c, id)'
      BY <1>2, <2>4, <2>5 DEF QueueInv, KnownInv
    <3>3. \A id \in Ids, r \in Rcpts :
            del'[id][r] # "none" => S5(id)' /\ Has(ChannelOf[r], id)'
      BY <1>2, <2>4, <2>6 DEF QueueInv, KnownInv
    <3> QED
      BY <1>2, <3>1, <3>2, <3>3 DEF QueueInv, KnownInv, OneJob
  <2>8. ReportInv'
    <3>1. \A id \in Ids : Unheard(id) => id # x /\ Unheard(id)'
      BY <1>1, <1>2, <1>4 DEF Unheard, Eliminating
    <3> QED
      BY <1>2, <1>4, <2>2, <2>4, <3>1, ReportKept DEF QueueInv
  <2>9. Left(sid)'
    BY <1>1, <1>2, PreprocessedLeft DEF Left, Live, queueVars
  <2>10. SendInv' /\ DownInv'
    BY <1>1, <1>2, <1>4, <2>2, <2>9 DEF SendInv, DownInv, Bare, Has, Eliminating
  <2> QED
    BY <2>3, <2>7, <2>8, <2>10 DEF QueueInv
<1>5. \/ spc' = "idle" /\ UNCHANGED files /\ pqdone' = pqdone \cup {sid}
      \/ spc' = "clean_intd" /\ Unlink("info", x) /\ UNCHANGED pqdone
  BY <1>1 DEF UnlinkInfo, SendGoto, TryAgain, Unlink, dirVars
<1> QED
  BY <1>3, <1>4, <1>5

-----------------------------------------------------------------------------
(* qmail-send: cleanup_do(), reports of failures, and the end.             *)

(* Steps of qmail-send outside messdone() that change no file and nothing  *)
(* it knows of.                                                            *)
LEMMA CleanupQuietInv ==
  ASSUME Typed, QueueInv, spc \notin Eliminating, spc # "down",
         spc' \notin Eliminating, spc' # "down", SendInv',
         UNCHANGED <<pqchan, pqdone, passid, unread, del, todoalive, files, age,
                     late, queueVars, todoVars>>
  PROVE  QueueInv'
<1>1. KnownInv' /\ DownInv'
  BY DEF QueueInv, KnownInv, OneJob, S5, Has, DownInv
<1>2. \A id \in Ids : Unheard(id) => Unheard(id)'
  BY DEF Unheard
<1>3. ReportInv'
  BY <1>2, ReportKept DEF QueueInv, S5, Has
<1> QED
  BY <1>1, <1>3, SendQuietInv DEF todoVars

(* cleanup_do() goes on only with a message that is bare and left: one in  *)
(* todo/ would not be that old, and no qmail-queue that old is alive.      *)
LEMMA CleanupStepInv ==
  ASSUME Typed, QueueInv,
         \/ \E id \in Ids : CleanupOld(id)
         \/ CleanupStat("old_info", "info", "old_todo")
         \/ CleanupStat("old_todo", "todo", "clean_intd"),
         UNCHANGED <<queueVars, todoVars, envVars>>
  PROVE  QueueInv'
<1>1. ASSUME NEW id \in Ids, CleanupOld(id) PROVE QueueInv'
  <2>1. /\ spc = "idle" /\ spc' = "old_info" /\ sid' = id /\ Has("mess", id)
        /\ age[id] > OSSIFIED
        /\ UNCHANGED <<pqchan, pqdone, passid, unread, del, todoalive, files, age>>
    BY <1>1 DEF CleanupOld, Idle, Ossified, restVars, dirVars
  <2>2. SendInv'
    BY <2>1 DEF SendInv, Eliminating, Has
  <2> QED
    BY <2>1, <2>2, CleanupQuietInv DEF Eliminating, envVars
<1>2. ASSUME NEW pc \in {"old_info", "old_todo"}, NEW d, NEW next,
             CleanupStat(pc, d, next), spc' # "idle" => SendInv', next \in SendPcs,
             next \notin Eliminating, next # "down"
      PROVE  QueueInv'
  <2>1. /\ spc = pc /\ spc' \in {"idle", next} /\ UNCHANGED sid
        /\ UNCHANGED <<pqchan, pqdone, passid, unread, del, todoalive, files, age>>
    BY <1>2 DEF CleanupStat, SendGoto, restVars, dirVars
  <2>2. SendInv'
    BY <1>2, <2>1 DEF SendInv, Eliminating
  <2> QED
    BY <1>2, <2>1, <2>2, CleanupQuietInv DEF Eliminating, envVars
<1>3. CASE CleanupStat("old_info", "info", "old_todo")
  <2>1. ASSUME spc' # "idle" PROVE SendInv'
    <3>1. /\ spc = "old_info" /\ ~Has("info", sid) /\ spc' = "old_todo"
          /\ UNCHANGED <<sid, files, age, pqdone>>
      BY <1>3, <2>1 DEF CleanupStat, SendGoto, dirVars
    <3>2. sid \in Ids /\ age[sid] \in Nat /\ Has("mess", sid) /\ age[sid] > OSSIFIED
      BY <3>1, TimeAssumption
         DEF QueueInv, SendInv, Typed, TypeOK, QueueTypeOK, Working, MaxAge
    <3>3. Bare(sid)
      BY <3>1, <3>2, TimeAssumption DEF QueueInv, LawfulInv, Lawful, BacklogInv
    <3> QED
      BY <3>1, <3>2, <3>3 DEF SendInv, Eliminating, Bare, Has
  <2> QED
    BY <1>2, <1>3, <2>1 DEF SendPcs, Eliminating
<1>4. CASE CleanupStat("old_todo", "todo", "clean_intd")
  <2>1. ASSUME spc' # "idle" PROVE SendInv'
    <3>1. /\ spc = "old_todo" /\ spc' = "clean_intd"
          /\ UNCHANGED <<sid, files, age, pqdone, wpc, wid>>
      BY <1>4, <2>1 DEF CleanupStat, SendGoto, dirVars, queueVars
    <3>2. /\ sid \in Ids /\ age[sid] \in Nat /\ Has("mess", sid) /\ Bare(sid)
          /\ age[sid] > OSSIFIED
      BY <3>1, TimeAssumption
         DEF QueueInv, SendInv, Typed, TypeOK, QueueTypeOK, Working, MaxAge
    <3>3. Left(sid)
      BY <3>2, TimeAssumption DEF QueueInv, WriterInv, Left
    <3>4. Left(sid)'
      BY <3>1, <3>3 DEF Left, Live
    <3> QED
      BY <3>1, <3>2, <3>4 DEF SendInv, Eliminating, Bare, Has
  <2> QED
    BY <1>2, <1>4, <2>1 DEF SendPcs, Eliminating
<1> QED
  BY <1>1, <1>3, <1>4

(* The qmail-clean of qmail-send removes intd/ and mess/ of a message that *)
(* has nothing else.                                                       *)
LEMMA CleanFileInv ==
  ASSUME Typed, QueueInv, NEW pc, NEW d, NEW next, CleanFile(pc, d, next),
         <<pc, d, next>> \in {<<"clean_intd", "intd", "clean_mess">>,
                              <<"clean_mess", "mess", "idle">>},
         UNCHANGED <<queueVars, todoVars, envVars>>
  PROVE  QueueInv'
<1>1. PICK x \in Ids : x = sid
  BY DEF CleanFile, Typed, Working
<1>2. /\ spc = pc /\ spc \in {"clean_intd", "clean_mess"}
      /\ UNCHANGED <<sid, pqchan, pqdone, passid, unread, del, todoalive, age>>
      /\ \/ spc' = "idle" /\ UNCHANGED files
         \/ spc' = next /\ Unlink(d, x)
  BY <1>1 DEF CleanFile, SendGoto, restVars, dirVars, Unlink
<1>3. CASE spc' = "idle" /\ UNCHANGED files
  <2>1. SendInv'
    BY <1>3 DEF SendInv, Eliminating
  <2> QED
    BY <1>2, <1>3, <2>1, CleanupQuietInv DEF Eliminating, envVars
<1>4. CASE spc' = next /\ Unlink(d, x)
  <2>1. /\ Has("mess", x) /\ Bare(x) /\ Left(x)
        /\ spc = "clean_mess" => ~Has("intd", x)
    BY <1>1, <1>2 DEF QueueInv, SendInv
  <2>2. /\ OnlyFilesOf(x) /\ ~Has(d, x)'
        /\ \A e : e # d => (Has(e, x)' <=> Has(e, x))
    BY <1>4 DEF OnlyFilesOf, Unlink, Has
  <2>3. /\ Lawful(x)' /\ ~Has("todo", x) /\ ~Has("todo", x)' /\ spc # "down"
        /\ ~S5(x) /\ Bare(x)'
    BY <1>2, <2>1, <2>2 DEF S5, Lawful, Bare
  <2>4. LawfulInv' /\ WriterInv' /\ TodoInv' /\ BacklogInv' /\ LateInv'
    BY <1>2, <2>1, <2>2, <2>3, SendOthersInv DEF envVars
  <2>5. KnownInv'
    BY <1>2, <2>2, <2>3, KnownFrame DEF QueueInv
  <2>6. ReportInv'
    <3>1. \A id \in Ids : Unheard(id) => Unheard(id)'
      BY <1>2, <1>4 DEF Unheard, Eliminating
    <3>2. \A id \in Ids : id # x /\ S5(id) =>
            S5(id)' /\ \A e : Has(e, id) => Has(e, id)'
      BY <2>2 DEF OnlyFilesOf, S5, Has
    <3> QED
      BY <1>2, <1>4, <2>3, <3>1, <3>2, ReportKept DEF QueueInv
  <2>7. Left(sid)'
    BY <1>1, <1>2, <2>1 DEF Left, Live, queueVars
  <2>8. SendInv' /\ DownInv'
    BY <1>1, <1>2, <1>4, <2>1, <2>2, <2>3, <2>7
       DEF SendInv, DownInv, Bare, Has, Eliminating
  <2> QED
    BY <2>4, <2>5, <2>6, <2>8 DEF QueueInv
<1> QED
  BY <1>2, <1>3, <1>4

(* A report of a failure creates bounce/ of a preprocessed message. *)
LEMMA ReportDInv ==
  ASSUME Typed, QueueInv, NEW x \in Ids, NEW r \in Rcpts, ReportD(x, r),
         UNCHANGED <<queueVars, todoVars, envVars>>
  PROVE  QueueInv'
<1>1. /\ spc = "idle" /\ spc' = "mark" /\ sid' = x /\ del[x][r] # "none"
      /\ del' = [del EXCEPT ![x][r] = "noted"] /\ Link("bounce", x)
      /\ UNCHANGED <<pqchan, pqdone, passid, unread, todoalive, age>>
  BY DEF ReportD, Idle
<1>2. \A id \in Ids, q \in Rcpts : del'[id][q] = "none" <=> del[id][q] = "none"
  BY <1>1 DEF Typed, TypeOK, SendTypeOK
<1>3. S5(x)
  BY <1>1 DEF QueueInv, KnownInv
<1>4. /\ OnlyFilesOf(x) /\ \A d, id : d # "bounce" => (Has(d, id)' <=> Has(d, id))
      /\ \A d, id : Has(d, id) => Has(d, id)'
  BY <1>1 DEF OnlyFilesOf, Link, Has
<1>5. \A id : S5(id)' <=> S5(id)
  BY <1>4 DEF S5
<1>6. Lawful(x)' /\ ~Has("todo", x) /\ ~Has("todo", x)'
  BY <1>3, <1>4, <1>5 DEF S5, Lawful
<1>7. LawfulInv' /\ WriterInv' /\ TodoInv' /\ BacklogInv' /\ LateInv'
  BY <1>1, <1>3, <1>4, <1>6, PreprocessedLeft, SendOthersInv DEF envVars
<1>8. KnownInv'
  <2>1. OneJob'
    BY <1>1, <1>2 DEF QueueInv, KnownInv, OneJob, OfChannel
  <2>2. \A id \in Ids, q \in Rcpts :
          del'[id][q] # "none" => S5(id)' /\ Has(ChannelOf[q], id)'
    BY <1>2, <1>4, <1>5 DEF QueueInv, KnownInv
  <2>3. /\ \A id \in pqdone' : S5(id)'
        /\ \A c \in Channels, id \in Ids :
             <<c, id>> \in pqchan' \/ passid'[c] = id => S5(id)' /\ Has(c, id)'
        /\ \A c \in Channels : unread'[c] \subseteq OfChannel(c)
    BY <1>1, <1>4, <1>5 DEF QueueInv, KnownInv
  <2> QED
    BY <2>1, <2>2, <2>3 DEF KnownInv, OfChannel
<1>9. \A id \in Ids : Unheard(id) => Unheard(id)'
  BY <1>1, <1>2 DEF Unheard, Eliminating
<1>10. ReportInv'
  BY <1>1, <1>4, <1>5, <1>9, ReportKept DEF QueueInv
<1>11. SendInv' /\ DownInv'
  BY <1>1 DEF SendInv, DownInv, Eliminating
<1> QED
  BY <1>7, <1>8, <1>10, <1>11 DEF QueueInv

(* A qmail-send that is down has heard of nothing. *)
LEMMA GoDownInv ==
  ASSUME GoDown
  PROVE  /\ KnownInv' /\ SendInv' /\ \A id \in Ids : Unheard(id)'
         /\ treports' = {} => DownInv'
<1>1. /\ spc' = "down" /\ pqchan' = {} /\ pqdone' = {}
      /\ \A c \in Channels : passid'[c] = NoId /\ unread'[c] = {}
      /\ \A id \in Ids, r \in Rcpts : del'[id][r] = "none"
  BY DEF GoDown, FreshMemory, NoDelivery
<1>2. \A c \in Channels, id \in Ids : passid'[c] # id
  BY <1>1, EnvelopeAssumption
<1>3. KnownInv'
  BY <1>1, <1>2 DEF KnownInv, OneJob, OfChannel
<1>4. SendInv'
  BY <1>1 DEF SendInv, Eliminating
<1>5. \A id \in Ids : Unheard(id)'
  BY <1>1, <1>2 DEF Unheard, Eliminating
<1>6. treports' = {} => DownInv'
  BY <1>1 DEF DownInv, NoneInFlight
<1> QED
  BY <1>3, <1>4, <1>5, <1>6

(* qmail-send leaves its loop only when qmail-todo is gone. *)
LEMMA SendExitInv ==
  ASSUME Typed, QueueInv, SendExit, UNCHANGED <<queueVars, todoVars, envVars>>
  PROVE  QueueInv'
<1>1. /\ spc = "idle" /\ ~todoalive /\ GoDown /\ spc' = "down"
      /\ UNCHANGED <<files, age, late, wpc, wid, tpc, tid, tchan, treports>>
  BY DEF SendExit, Idle, GoDown, dirVars, queueVars, todoVars, envVars
<1>2. treports = {} /\ tpc = "dead"
  BY <1>1 DEF QueueInv, ReportInv
<1>3. KnownInv' /\ SendInv' /\ DownInv'
  BY <1>1, <1>2, GoDownInv
<1>4. ReportInv'
  BY <1>1, <1>2 DEF ReportInv
<1>5. LawfulInv' /\ WriterInv' /\ TodoInv' /\ BacklogInv'
  BY <1>1 DEF QueueInv, LawfulInv, Lawful, WriterInv, WriterState, Live, TodoInv,
              BacklogInv, Bare, Has
<1>6. LateInv'
  BY <1>1 DEF QueueInv, LateInv, Bare, Has
<1> QED
  BY <1>3, <1>4, <1>5, <1>6 DEF QueueInv

(* Every step of qmail-send keeps the invariant. *)
LEMMA SendStepInv ==
  ASSUME Typed, QueueInv, Send
  PROVE  QueueInv'
<1> UNCHANGED <<queueVars, todoVars, envVars>>
  BY DEF Send
<1>1. ASSUME NEW id \in Ids, NEW r \in Rcpts,
             \/ ReportK(id, r) \/ ReportZ(id, r) \/ MarkFailed(id, r)
      PROVE  QueueInv'
  <2>1. spc \in {"idle", "mark"} /\ del[id][r] # "none"
    BY <1>1 DEF ReportK, ReportZ, MarkFailed, Idle
  <2>2. PICK mark \in BOOLEAN : EndDelivery(id, r, mark)
    BY <1>1 DEF ReportK, ReportZ, MarkFailed
  <2> QED
    BY <2>1, <2>2, EndDeliveryInv
<1>2. CASE \E c \in Channels, id \in Ids : OpenPass(c, id)
  BY <1>2, OpenPassInv
<1>3. CASE \E c \in Channels, r \in Rcpts : ReadRecipient(c, r)
  BY <1>3, ReadRecipientInv
<1>4. CASE \E c \in Channels, hit \in BOOLEAN : EndPass(c, hit)
  BY <1>4, EndPassInv
<1>5. CASE \E id \in Ids, r \in Rcpts : ReportD(id, r)
  BY <1>5, ReportDInv
<1>6. CASE \/ \E id \in Ids : MessDone(id)
           \/ MessDoneStat("stat_local", "local", FALSE, "stat_remote")
           \/ MessDoneStat("stat_remote", "remote", FALSE, "stat_todo")
           \/ MessDoneStat("stat_todo", "todo", FALSE, "stat_info")
           \/ MessDoneStat("stat_info", "info", TRUE, "bounce")
           \/ InjectBounce
  BY <1>6, MessDoneStepInv
<1>7. CASE UnlinkBounce
  BY <1>7, UnlinkBounceInv
<1>8. CASE UnlinkInfo
  BY <1>8, UnlinkInfoInv
<1>9. CASE CleanFile("clean_intd", "intd", "clean_mess")
  BY <1>9, CleanFileInv
<1>10. CASE CleanFile("clean_mess", "mess", "idle")
  BY <1>10, CleanFileInv
<1>11. CASE \/ \E id \in Ids : CleanupOld(id)
            \/ CleanupStat("old_info", "info", "old_todo")
            \/ CleanupStat("old_todo", "todo", "clean_intd")
  BY <1>11, CleanupStepInv
<1>12. CASE SendExit
  BY <1>12, SendExitInv
<1> QED
  BY <1>1, <1>2, <1>3, <1>4, <1>5, <1>6, <1>7, <1>8, <1>9, <1>10, <1>11, <1>12
     DEF Send, SendStep

-----------------------------------------------------------------------------
(* What happens to the daemons, and around them.                           *)

(* Nothing that QueueInv speaks of changes. *)
LEMMA UnseenInv ==
  ASSUME QueueInv,
         UNCHANGED <<files, age, wpc, wid, tpc, tid, tchan, treports, spc, sid,
                     pqchan, pqdone, passid, unread, del, todoalive, late>>
  PROVE  QueueInv'
<1>1. LawfulInv' /\ BacklogInv'
  BY DEF QueueInv, LawfulInv, Lawful, Bare, BacklogInv, Has
<1>2. WriterInv'
  BY DEF QueueInv, WriterInv, WriterState, Live, Bare, Has
<1>3. TodoInv'
  BY DEF QueueInv, TodoInv, Has
<1>4. KnownInv'
  BY DEF QueueInv, KnownInv, S5, OneJob, Has
<1>5. ReportInv'
  BY DEF QueueInv, ReportInv, S5, Unheard, Has
<1>6. SendInv'
  BY DEF QueueInv, SendInv, S5, Bare, Left, Live, Has
<1>7. LateInv'
  BY DEF QueueInv, LateInv, Bare, Left, Live, Has
<1>8. DownInv'
  BY DEF QueueInv, DownInv, NoneInFlight
<1> QED
  BY <1>1, <1>2, <1>3, <1>4, <1>5, <1>6, <1>7, <1>8 DEF QueueInv

(* A report of a spawner changes nothing but the slot it is about. *)
LEMMA SpawnerInv ==
  ASSUME Typed, QueueInv, NEW x \in Ids, NEW r \in Rcpts, NEW report \in Report,
         Spawner(x, r, report)
  PROVE  QueueInv'
<1>1. /\ spc # "down" /\ del[x][r] = "sent"
      /\ del' = [del EXCEPT ![x][r] = report]
      /\ UNCHANGED <<spc, sid, pqchan, pqdone, passid, unread, todoalive, files,
                     age, late, queueVars, todoVars>>
  BY DEF Spawner, SpawnerReports, dirVars, envVars
<1>2. \A id \in Ids, q \in Rcpts : del'[id][q] = "none" <=> del[id][q] = "none"
  BY <1>1 DEF Typed, TypeOK, SendTypeOK, Report
<1>3. KnownInv'
  <2>1. OneJob'
    BY <1>1, <1>2 DEF QueueInv, KnownInv, OneJob, OfChannel
  <2> QED
    BY <1>1, <1>2, <2>1 DEF QueueInv, KnownInv, S5, Has, OfChannel
<1>4. \A id \in Ids : Unheard(id) => Unheard(id)'
  BY <1>1, <1>2 DEF Unheard
<1>5. ReportInv'
  BY <1>1, <1>4, ReportKept DEF QueueInv, S5, Has
<1>6. SendInv' /\ DownInv'
  BY <1>1 DEF QueueInv, SendInv, S5, Bare, Left, Live, Has, DownInv, queueVars
<1> QED
  BY <1>1, <1>3, <1>5, <1>6, SendQuietInv DEF todoVars

(* A pid/ file that old belongs to no qmail-queue, and nobody else looks   *)
(* at pid/.                                                                *)
LEMMA ReapPidInv ==
  ASSUME Typed, QueueInv, NEW x \in Ids, ReapPid(x)
  PROVE  QueueInv'
<1>1. /\ age[x] >= OSSIFIED /\ Unlink("pid", x)
      /\ UNCHANGED <<age, queueVars, todoVars, sendVars, envVars>>
  BY DEF ReapPid, CleanupPid, sendVars, memVars, restVars
<1>2. /\ OnlyFilesOf(x) /\ \A d, id : d # "pid" => (Has(d, id)' <=> Has(d, id))
  BY <1>1 DEF OnlyFilesOf, Unlink, Has
<1>3. Left(x)
  BY <1>1, TimeAssumption
     DEF QueueInv, WriterInv, Left, Typed, TypeOK, QueueTypeOK, MaxAge
<1>4. WriterInv'
  BY <1>1, <1>2, <1>3, WriterFrame DEF QueueInv, queueVars
<1>5. \A id : /\ S5(id)' <=> S5(id)
              /\ Bare(id)' <=> Bare(id)
              /\ Lawful(id)' <=> Lawful(id)
              /\ Left(id)' <=> Left(id)
  BY <1>1, <1>2 DEF S5, Bare, Lawful, Left, Live, queueVars
<1>6. LawfulInv' /\ BacklogInv'
  BY <1>1, <1>2, <1>5 DEF QueueInv, LawfulInv, BacklogInv
<1>7. tchan \subseteq Channels /\ \A report \in treports : report[2] \subseteq Channels
  BY DEF Typed, TypeOK, TodoTypeOK
<1>8. TodoInv'
  BY <1>1, <1>2, <1>7 DEF QueueInv, TodoInv, todoVars, Channels
<1>9. KnownInv'
  BY <1>1, <1>2, <1>5, EnvelopeAssumption
     DEF QueueInv, KnownInv, OneJob, sendVars, memVars, Channels, OfChannel
<1>10. ReportInv'
  BY <1>1, <1>2, <1>5, <1>7
     DEF QueueInv, ReportInv, Unheard, sendVars, memVars, todoVars, Channels
<1>11. SendInv'
  BY <1>1, <1>2, <1>5 DEF QueueInv, SendInv, sendVars, memVars
<1>12. LateInv'
  BY <1>1, <1>2, <1>5 DEF QueueInv, LateInv, sendVars, todoVars, envVars
<1>13. DownInv'
  BY <1>1, DownFrame DEF QueueInv, sendVars, memVars, todoVars
<1> QED
  BY <1>4, <1>6, <1>8, <1>9, <1>10, <1>11, <1>12, <1>13 DEF QueueInv

(* pqstart() finds only preprocessed messages. *)
LEMMA StartInv ==
  ASSUME Typed, QueueInv, Start
  PROVE  QueueInv'
<1>1. /\ spc' = "idle" /\ tpc' = "idle" /\ treports' = {} /\ late = {}
      /\ pqchan' = {x \in Channels \X Ids : Scheduled(x[1], x[2])}
      /\ pqdone' = {id \in Ids : Finished(id)}
      /\ passid' = [c \in Channels |-> NoId]
      /\ unread' = [c \in Channels |-> {}]
      /\ del' = NoDelivery /\ todoalive' = TRUE
      /\ UNCHANGED <<files, age, late, queueVars>>
  BY DEF Start, SendStart, FreshMemory, dirVars, envVars
<1>2. \A id \in Ids : Has("info", id) /\ ~Has("todo", id) => S5(id)
  BY DEF QueueInv, LawfulInv, Lawful, Bare, S5
<1>3. \A id : S5(id)' <=> S5(id)
  BY <1>1 DEF S5, Has
<1>4. KnownInv'
  <2>1. \A id \in pqdone' : S5(id)'
    BY <1>1, <1>2, <1>3 DEF Finished
  <2>2. \A c \in Channels, id \in Ids :
          /\ passid'[c] # id
          /\ <<c, id>> \in pqchan' => S5(id)' /\ Has(c, id)'
    BY <1>1, <1>2, <1>3, EnvelopeAssumption DEF Scheduled, Has
  <2>3. \A id \in Ids, r \in Rcpts : del'[id][r] = "none"
    BY <1>1 DEF NoDelivery
  <2> QED
    BY <1>1, <2>1, <2>2, <2>3 DEF KnownInv, OneJob, OfChannel
<1>5. ReportInv' /\ SendInv' /\ TodoInv' /\ DownInv'
  BY <1>1 DEF ReportInv, SendInv, Eliminating, TodoInv, DownInv
<1>6. LawfulInv' /\ WriterInv' /\ BacklogInv'
  BY <1>1 DEF QueueInv, LawfulInv, Lawful, WriterInv, WriterState, Live,
              BacklogInv, Bare, Has, queueVars
<1>7. LateInv'
  BY <1>1 DEF LateInv
<1> QED
  BY <1>4, <1>5, <1>6, <1>7 DEF QueueInv

(* What a report is about, qmail-send has not heard of. *)
LEMMA ReadReportInv ==
  ASSUME Typed, QueueInv, ReadReport
  PROVE  QueueInv'
<1>1. PICK report \in treports :
        /\ TodoDel(report[1], report[2])
        /\ treports' = treports \ {report}
        /\ UNCHANGED <<tpc, tid, tleft, tchan, tstop, queueVars, envVars>>
  BY DEF ReadReport
<1>2. PICK x \in Ids, chans \in SUBSET Channels : report = <<x, chans>>
  BY DEF Typed, TypeOK, TodoTypeOK
<1>3. /\ spc = "idle" /\ todoalive
      /\ pqchan' = pqchan \/ pqchan' = pqchan \cup (chans \X {x})
      /\ pqdone' = pqdone \/ pqdone' = pqdone \cup {x}
      /\ UNCHANGED <<spc, sid, passid, unread, del, todoalive, files, age>>
  BY <1>1, <1>2 DEF TodoDel, Idle, dirVars
<1>4. S5(x) /\ Unheard(x) /\ \A c \in chans : Has(c, x)
  BY <1>1, <1>2 DEF QueueInv, ReportInv
<1>5. \A id : S5(id)' <=> S5(id)
  BY <1>3 DEF S5, Has
<1>6. KnownInv'
  <2>1. OneJob'
    BY <1>3, <1>4 DEF QueueInv, KnownInv, OneJob, Unheard, OfChannel
  <2> QED
    BY <1>3, <1>4, <1>5, <2>1 DEF QueueInv, KnownInv, Has, OfChannel
<1>7. \A id \in Ids : id # x /\ Unheard(id) => Unheard(id)'
  BY <1>3 DEF Unheard
<1>8. ReportInv'
  <2>1. \A other \in treports' :
          other \in treports /\ other[1] # x /\ other[1] \in Ids
    BY <1>1, <1>2 DEF QueueInv, ReportInv, Typed, TypeOK, TodoTypeOK
  <2>2. tpc = "report" => tid # x /\ tid \in Ids
    BY <1>1, <1>2 DEF QueueInv, ReportInv, Typed, Working
  <2> QED
    BY <1>1, <1>3, <1>5, <1>7, <2>1, <2>2 DEF QueueInv, ReportInv, Unheard, S5, Has
<1>9. SendInv' /\ DownInv'
  BY <1>3 DEF SendInv, Eliminating, DownInv
<1> QED
  BY <1>1, <1>3, <1>6, <1>8, <1>9, SendQuietInv DEF envVars

(* Steps that change only flags, or only what qmail-send knows about       *)
(* qmail-todo.                                                             *)
LEMMA FlagsInv ==
  ASSUME Typed, QueueInv,
         \/ ReadStop \/ NoticeTodoGone \/ Terminate
         \/ \E id \in Ids : Expire(id)
  PROVE  QueueInv'
<1>1. CASE ReadStop \/ Terminate \/ \E id \in Ids : Expire(id)
  <2>1. UNCHANGED <<files, age, wpc, wid, tpc, tid, tchan, treports, spc, sid,
                    pqchan, pqdone, passid, unread, del, todoalive, late>>
    BY <1>1 DEF ReadStop, Terminate, SigTerm, Expire, dirVars, queueVars,
                todoVars, sendVars, memVars, envVars
  <2> QED
    BY <2>1, UnseenInv
<1>2. CASE NoticeTodoGone
  <2>1. /\ tpc = "dead" /\ treports = {} /\ spc = "idle" /\ spc' = "idle"
        /\ UNCHANGED <<files, age, sid, pqchan, pqdone, passid, unread, del, late,
                       queueVars, todoVars>>
    BY <1>2 DEF NoticeTodoGone, TodoGone, Idle, dirVars, envVars
  <2>2. KnownInv' /\ SendInv' /\ DownInv'
    BY <2>1 DEF QueueInv, KnownInv, OneJob, S5, Has, SendInv, Eliminating, DownInv
  <2>3. ReportInv'
    BY <2>1 DEF ReportInv, todoVars
  <2> QED
    BY <2>1, <2>2, <2>3, SendQuietInv DEF todoVars
<1> QED
  BY <1>1, <1>2

(* qmail-send dies: its qmail-clean may finish what it was asked.          *)
LEMMA SendDiesInv ==
  ASSUME Typed, QueueInv, SendDies
  PROVE  QueueInv'
<1>1. /\ spc # "down" /\ GoDown /\ spc' = "down" /\ treports' = {}
      /\ late' \in {late, late \cup Requested(spc, sid, "mess")}
      /\ UNCHANGED <<files, age, wpc, wid, tpc, tid, tchan>>
  BY DEF SendDies, GoDown, dirVars, queueVars
<1>2. KnownInv' /\ SendInv' /\ DownInv' /\ \A id \in Ids : Unheard(id)'
  BY <1>1, GoDownInv
<1>3. ReportInv'
  <2>1. tpc = "report" => tid \in Ids /\ S5(tid) /\ \A c \in tchan : Has(c, tid)
    BY DEF QueueInv, ReportInv, Typed, Working
  <2>2. tpc' = "report" => S5(tid)' /\ Unheard(tid)' /\ \A c \in tchan' : Has(c, tid)'
    BY <1>1, <1>2, <2>1 DEF S5, Has, Unheard
  <2> QED
    BY <1>1, <2>2 DEF ReportInv
<1>4. LawfulInv' /\ WriterInv' /\ TodoInv' /\ BacklogInv'
  BY <1>1 DEF QueueInv, LawfulInv, Lawful, WriterInv, WriterState, Live, TodoInv,
              BacklogInv, Bare, Has
<1>5. LateInv'
  <2>1. \A id \in Ids : <<"mess", id>> \notin late
    BY <1>1 DEF QueueInv, LateInv
  <2>2. CASE late' = late
    BY <1>1, <2>1, <2>2 DEF QueueInv, LateInv, Has
  <2>3. CASE spc \in {"clean_intd", "clean_mess"} /\ late' = late \cup Requested(spc, sid, "mess")
    <3>1. PICK x \in Ids : x = sid
      BY <2>3 DEF Typed, Working
    <3>2. /\ Has("mess", x) /\ Bare(x) /\ Left(x)
          /\ spc = "clean_mess" => ~Has("intd", x)
      BY <2>3, <3>1 DEF QueueInv, SendInv
    <3>3. /\ spc = "clean_intd" => late' = late \cup {<<"intd", x>>, <<"mess", x>>}
          /\ spc = "clean_mess" => late' = late \cup {<<"mess", x>>}
      BY <2>3, <3>1 DEF Requested
    <3>4. Has("mess", x)' /\ Bare(x)' /\ Left(x)' /\ (Has("intd", x)' <=> Has("intd", x))
      BY <1>1, <3>2 DEF Bare, Left, Live, Has
    <3>5. <<"todo", x>> \notin late
      BY <3>2 DEF QueueInv, LateInv, Bare
    <3> QED
      BY <1>1, <2>1, <2>3, <3>2, <3>3, <3>4, <3>5 DEF QueueInv, LateInv, Has
  <2> QED
    BY <1>1, <2>2, <2>3 DEF Requested, SendInv, QueueInv, Typed, TypeOK, SendTypeOK, SendPcs
<1> QED
  BY <1>2, <1>3, <1>4, <1>5 DEF QueueInv

(* qmail-todo dies: its qmail-clean may finish what it was asked. *)
LEMMA TodoDiesInv ==
  ASSUME Typed, QueueInv, TodoDies
  PROVE  QueueInv'
<1>1. /\ tpc # "dead" /\ tpc' = "dead" /\ treports' \subseteq treports
      /\ late' \in {late, late \cup Requested(tpc, tid, "todo")}
      /\ UNCHANGED <<files, age, wpc, wid, spc, sid, pqchan, pqdone, passid,
                     unread, del, todoalive>>
  BY DEF TodoDies, dirVars, queueVars, sendVars, memVars
<1>2. LawfulInv' /\ WriterInv' /\ BacklogInv'
  BY <1>1 DEF QueueInv, LawfulInv, Lawful, WriterInv, WriterState, Live,
              BacklogInv, Bare, Has
<1>3. KnownInv'
  BY <1>1 DEF QueueInv, KnownInv, S5, OneJob, Has
<1>4. SendInv'
  BY <1>1 DEF QueueInv, SendInv, S5, Bare, Left, Live, Has
<1>5. TodoInv' /\ DownInv'
  BY <1>1 DEF QueueInv, TodoInv, DownInv, NoneInFlight
<1>6. ReportInv'
  BY <1>1 DEF QueueInv, ReportInv, S5, Unheard, Has
<1>7. LateInv'
  <2>1. \A id \in Ids : <<"todo", id>> \notin late
    BY <1>1, NoLateTodo DEF QueueInv
  <2>2. CASE late' = late
    BY <1>1, <2>1, <2>2 DEF QueueInv, LateInv, Bare, Left, Live, Has
  <2>3. CASE tpc \in {"clean_intd", "clean_todo"} /\ late' = late \cup Requested(tpc, tid, "todo")
    <3>1. PICK x \in Ids : x = tid
      BY <2>3 DEF Typed, Working
    <3>2. /\ Has("todo", x) /\ Has("info", x)
          /\ tpc = "clean_todo" => ~Has("intd", x)
      BY <2>3, <3>1 DEF QueueInv, TodoInv
    <3>3. /\ tpc = "clean_intd" => late' = late \cup {<<"intd", x>>, <<"todo", x>>}
          /\ tpc = "clean_todo" => late' = late \cup {<<"todo", x>>}
      BY <2>3, <3>1 DEF Requested
    <3>4. <<"mess", x>> \notin late
      BY <3>2 DEF QueueInv, LateInv, Bare
    <3> QED
      BY <1>1, <2>1, <2>3, <3>2, <3>3, <3>4
         DEF QueueInv, LateInv, Bare, Left, Live, Has
  <2> QED
    BY <1>1, <2>2, <2>3
       DEF Requested, QueueInv, SendInv, Typed, TypeOK, TodoTypeOK, TodoPcs
<1> QED
  BY <1>2, <1>3, <1>4, <1>5, <1>6, <1>7 DEF QueueInv

(* An orphaned qmail-todo ends between two messages; a qmail-clean that    *)
(* dies ends the request.                                                  *)
LEMMA EndsInv ==
  ASSUME Typed, QueueInv, OrphanTodoExits \/ TodoCleanDies \/ SendCleanDies
  PROVE  QueueInv'
<1>1. CASE OrphanTodoExits \/ TodoCleanDies
  <2>1. /\ tpc # "dead" /\ tpc' \in {"dead", "idle"}
        /\ UNCHANGED <<files, age, treports, queueVars, sendVars, late>>
    BY <1>1 DEF OrphanTodoExits, TodoCleanDies, dirVars, envVars
  <2>2. tpc' = "dead" => spc = "down"
    BY <1>1 DEF OrphanTodoExits, TodoCleanDies
  <2>3. TodoInv' /\ DownInv'
    BY <2>1, DownFrame DEF QueueInv, TodoInv, sendVars, memVars
  <2>4. ReportInv'
    BY <2>1 DEF QueueInv, ReportInv, S5, Unheard, Has, sendVars, memVars
  <2> QED
    BY <2>1, <2>3, <2>4, TodoQuietInv
<1>2. CASE SendCleanDies
  <2>1. /\ spc \in {"clean_intd", "clean_mess"} /\ spc' = "idle"
        /\ UNCHANGED <<pqchan, pqdone, passid, unread, del, todoalive, files, age,
                       late, queueVars, todoVars>>
    BY <1>2 DEF SendCleanDies, SendGoto, dirVars
  <2>2. SendInv'
    BY <2>1 DEF SendInv, Eliminating
  <2> QED
    BY <2>1, <2>2, CleanupQuietInv DEF Eliminating
<1> QED
  BY <1>1, <1>2

(* What an orphaned qmail-clean unlinks, nobody else uses. *)
LEMMA LateUnlinkInv ==
  ASSUME Typed, QueueInv, LateUnlink
  PROVE  QueueInv'
<1>1. PICK f \in late :
        /\ <<"intd", f[2]>> \in late => f[1] = "intd"
        /\ late' = late \ {f} /\ files' = files \ {f}
        /\ UNCHANGED <<age, queueVars, todoVars, sendVars>>
  BY DEF LateUnlink
<1>2. PICK d \in Directories, x \in Ids : f = <<d, x>>
  BY DEF Typed, TypeOK
<1>3. d \in {"mess", "todo", "intd"}
  BY <1>1, <1>2 DEF QueueInv, LateInv
<1>4. /\ Has(d, x)' = FALSE /\ OnlyFilesOf(x)
      /\ \A e : e # d => (Has(e, x)' <=> Has(e, x))
  BY <1>1, <1>2 DEF OnlyFilesOf, Has
<1>5. \/ /\ <<"mess", x>> \in late /\ spc = "down" /\ Left(x) /\ Has("mess", x)
         /\ Bare(x) /\ <<"todo", x>> \notin late /\ d \in {"mess", "intd"}
      \/ /\ <<"todo", x>> \in late /\ tpc = "dead" /\ Has("todo", x)
         /\ Has("info", x) /\ <<"mess", x>> \notin late /\ d \in {"todo", "intd"}
  BY <1>1, <1>2, <1>3 DEF QueueInv, LateInv, Bare
<1>6. d # "intd" => ~Has("intd", x) /\ <<"intd", x>> \notin late
  BY <1>1, <1>2, <1>5 DEF QueueInv, LateInv
<1>7. Left(x) /\ ~S5(x)
  BY <1>5 DEF QueueInv, WriterInv, WriterState, Left, Bare, S5
<1>8. Has("mess", x) /\ Lawful(x)
  BY <1>5 DEF QueueInv, LawfulInv, Lawful, Bare
<1>9. Lawful(x)'
  BY <1>3, <1>4, <1>5, <1>6, <1>8 DEF Lawful, Bare
<1>10. LawfulInv' /\ WriterInv'
  BY <1>1, <1>4, <1>7, <1>9, LawfulFrame, WriterFrame DEF QueueInv, queueVars
<1>11. BacklogInv' /\ DownInv'
  BY <1>1, <1>4, BacklogFrame, DownFrame
     DEF QueueInv, Has, sendVars, memVars, todoVars
<1>12. KnownInv'
  BY <1>1, <1>4, <1>7, KnownFrame DEF QueueInv, sendVars, memVars
<1>13. ReportInv'
  BY <1>1, <1>4, <1>7, ReportFrame DEF QueueInv, sendVars, memVars, todoVars
<1>14. TodoInv'
  <2>1. CASE tpc = "dead"
    BY <1>1, <2>1 DEF TodoInv, todoVars
  <2>2. CASE tpc # "dead"
    <3>1. ~Has("todo", x)
      BY <1>5, <2>2 DEF Bare
    <3> QED
      BY <1>1, <1>4, <3>1, TodoFrame DEF QueueInv
  <2> QED
    BY <2>1, <2>2
<1>15. SendInv'
  <2>1. \A id \in Ids : Left(id) => Left(id)'
    BY <1>1 DEF Left, Live, queueVars
  <2>2. CASE spc \in {"down", "idle", "mark"} \/ sid # x
    BY <1>1, <1>4, <2>1, <2>2, SendFrame
       DEF QueueInv, sendVars, memVars, Typed, Working
  <2>3. CASE spc \notin {"down", "idle", "mark"} /\ sid = x
    <3>1. Has("todo", x) /\ d # "mess"
      BY <1>5, <2>3
    <3>2. ~Bare(x)
      BY <3>1 DEF Bare
    <3>3. spc = "old_info" \/ spc = "old_todo"
      BY <1>7, <2>3, <3>2 DEF QueueInv, SendInv, Eliminating, Typed, TypeOK, SendTypeOK, SendPcs
    <3>4. spc = "old_info"
      BY <2>3, <3>2, <3>3 DEF QueueInv, SendInv
    <3>5. Has("mess", x)'
      BY <1>4, <1>8, <3>1
    <3> QED
      BY <1>1, <2>3, <3>4, <3>5
         DEF QueueInv, SendInv, Eliminating, Has, sendVars, memVars
  <2> QED
    BY <2>2, <2>3
<1>16. LateInv'
  <2>1. ASSUME NEW id \in Ids, id # x
        PROVE  /\ \A e : Has(e, id)' <=> Has(e, id)
               /\ \A e : <<e, id>> \in late' <=> <<e, id>> \in late
    BY <1>1, <1>2, <1>4, <2>1 DEF OnlyFilesOf, Has
  <2>2. \A e : <<e, x>> \in late' <=> <<e, x>> \in late /\ e # d
    BY <1>1, <1>2
  <2>3. \A id \in Ids : (Left(id)' <=> Left(id))
    BY <1>1 DEF Left, Live, queueVars
  <2>4. /\ spc' = spc /\ tpc' = tpc
    BY <1>1 DEF sendVars, todoVars
  <2>5. ASSUME NEW id \in Ids, id # x
        PROVE  /\ <<"mess", id>> \in late' =>
                    /\ spc' = "down" /\ Left(id)'
                    /\ Has("mess", id)' /\ Bare(id)'
                    /\ Has("intd", id)' => <<"intd", id>> \in late'
               /\ <<"todo", id>> \in late' =>
                    /\ tpc' = "dead" /\ Has("todo", id)' /\ Has("info", id)'
                    /\ Has("intd", id)' => <<"intd", id>> \in late'
               /\ <<"intd", id>> \in late' =>
                    <<"mess", id>> \in late' \/ <<"todo", id>> \in late'
               /\ \A e \in Directories \ {"mess", "todo", "intd"} : <<e, id>> \notin late'
    BY <2>1, <2>3, <2>4, <2>5 DEF QueueInv, LateInv, Bare
  <2>6. /\ <<"mess", x>> \in late' =>
             /\ spc' = "down" /\ Left(x)'
             /\ Has("mess", x)' /\ Bare(x)'
             /\ Has("intd", x)' => <<"intd", x>> \in late'
        /\ <<"todo", x>> \in late' =>
             /\ tpc' = "dead" /\ Has("todo", x)' /\ Has("info", x)'
             /\ Has("intd", x)' => <<"intd", x>> \in late'
        /\ <<"intd", x>> \in late' =>
             <<"mess", x>> \in late' \/ <<"todo", x>> \in late'
        /\ \A e \in Directories \ {"mess", "todo", "intd"} : <<e, x>> \notin late'
    BY <1>3, <1>4, <1>5, <1>6, <1>7, <1>8, <2>2, <2>3, <2>4 DEF QueueInv, LateInv, Bare
  <2> QED
    BY <2>5, <2>6 DEF LateInv
<1> QED
  BY <1>10, <1>11, <1>12, <1>13, <1>14, <1>15, <1>16 DEF QueueInv

(* After a reboot the files are left, and nobody who knows of them. *)
LEMMA RebootInv ==
  ASSUME Typed, QueueInv, Reboot
  PROVE  QueueInv'
<1>1. /\ GoDown /\ spc' = "down" /\ tpc' = "dead" /\ treports' = {} /\ late' = {}
      /\ wpc' = [m \in Msgs |-> IF Live(m) THEN "dead" ELSE wpc[m]]
      /\ UNCHANGED <<files, age>>
  BY DEF Reboot, GoDown
<1>2. KnownInv' /\ SendInv' /\ DownInv'
  BY <1>1, GoDownInv
<1>3. WriterInv'
  BY <1>1 DEF WriterInv, Live
<1>4. TodoInv' /\ ReportInv' /\ LateInv'
  BY <1>1 DEF TodoInv, ReportInv, LateInv
<1>5. LawfulInv' /\ BacklogInv'
  BY <1>1 DEF QueueInv, LawfulInv, Lawful, BacklogInv, Bare, Has
<1> QED
  BY <1>2, <1>3, <1>4, <1>5 DEF QueueInv

(* No qmail-queue outlives DEATH, and no message waits in todo/ until it   *)
(* is OSSIFIED.                                                            *)
LEMMA TickInv ==
  ASSUME Typed, QueueInv, ~StaleBacklog, Tick
  PROVE  QueueInv'
<1>1. /\ MayTick /\ late = {} /\ age \in [Ids -> 0..MaxAge]
      /\ age' = [id \in Ids |-> IF age[id] < MaxAge THEN age[id] + 1 ELSE MaxAge]
      /\ UNCHANGED <<files, queueVars, todoVars, sendVars, envVars>>
  BY DEF Tick, MayTick, Typed, TypeOK, QueueTypeOK
<1>2. \A id \in Ids : /\ age[id] \in Nat /\ age'[id] \in Nat
                      /\ age'[id] <= age[id] + 1 /\ age[id] <= age'[id]
  BY <1>1, TimeAssumption DEF MaxAge
<1>3. BacklogInv'
  BY <1>1, <1>2, TimeAssumption DEF MayTick, BacklogInv, Has
<1>4. WriterInv'
  <2>1. ASSUME NEW m \in Msgs, Live(m) PROVE age'[wid[m]] <= DEATH
    BY <1>1, <1>2, <2>1, TimeAssumption DEF MayTick, Typed, Working
  <2> QED
    BY <1>1, <2>1 DEF QueueInv, WriterInv, WriterState, Live, Bare, Has, queueVars
<1>5. LawfulInv'
  BY <1>1 DEF QueueInv, LawfulInv, Lawful, Bare, Has
<1>6. TodoInv'
  BY <1>1 DEF QueueInv, TodoInv, Has, todoVars
<1>7. KnownInv'
  BY <1>1 DEF QueueInv, KnownInv, S5, OneJob, Has, sendVars, memVars
<1>8. ReportInv'
  BY <1>1 DEF QueueInv, ReportInv, S5, Unheard, Has, sendVars, memVars, todoVars
<1>9. SendInv'
  <2>1. spc \in {"old_info", "old_todo"} /\ age[sid] > OSSIFIED => age'[sid] > OSSIFIED
    BY <1>2, TimeAssumption DEF Typed, Working
  <2> QED
    BY <1>1, <2>1
       DEF QueueInv, SendInv, Eliminating, S5, Bare, Left, Live, Has, sendVars,
           memVars, queueVars
<1>10. LateInv' /\ DownInv'
  BY <1>1 DEF QueueInv, LateInv, DownInv, NoneInFlight, sendVars, memVars,
              todoVars, envVars
<1> QED
  BY <1>3, <1>4, <1>5, <1>6, <1>7, <1>8, <1>9, <1>10 DEF QueueInv

-----------------------------------------------------------------------------
(* QueueInv is an inductive invariant.                                     *)

(* The empty queue directory satisfies the invariant. *)
LEMMA InitQueueInv == Init => QueueInv
<1> SUFFICES ASSUME Init PROVE QueueInv
  OBVIOUS
<1> USE DEF Init, QueueInit, WriterInit, TodoInit, SendInit
<1>1. LawfulInv /\ BacklogInv
  BY DEF LawfulInv, Lawful, Bare, BacklogInv, Has
<1>2. WriterInv
  BY DEF WriterInv, Live
<1>3. TodoInv /\ ReportInv /\ SendInv /\ LateInv
  BY DEF TodoInv, ReportInv, SendInv, Eliminating, LateInv
<1>4. KnownInv
  BY EnvelopeAssumption DEF KnownInv, OneJob, NoDelivery, OfChannel
<1>5. DownInv
  BY DEF DownInv, NoneInFlight, NoDelivery
<1> QED
  BY <1>1, <1>2, <1>3, <1>4, <1>5 DEF QueueInv

(* Every step of the system keeps the invariant. *)
LEMMA NextQueueInv ==
  ASSUME Typed, QueueInv, ~StaleBacklog, [Next]_vars
  PROVE  QueueInv'
<1>1. CASE UNCHANGED vars
  BY <1>1, UnseenInv DEF vars, dirVars, queueVars, todoVars, sendVars, memVars, envVars
<1>2. CASE (\E m \in Msgs : Queue(m)) \/ Todo \/ Send
  BY <1>2, QueueStepInv, TodoStepInv, SendStepInv
<1>3. CASE \/ \E id \in Ids, r \in Rcpts, report \in Report : Spawner(id, r, report)
           \/ \E id \in Ids : ReapPid(id)
  BY <1>3, SpawnerInv, ReapPidInv
<1>4. CASE \/ Start \/ ReadReport \/ ReadStop \/ NoticeTodoGone \/ Terminate
           \/ \E id \in Ids : Expire(id)
  BY <1>4, StartInv, ReadReportInv, FlagsInv
<1>5. CASE \/ SendDies \/ TodoDies \/ OrphanTodoExits \/ SendCleanDies
           \/ TodoCleanDies \/ LateUnlink \/ Reboot \/ Tick
  BY <1>5, SendDiesInv, TodoDiesInv, EndsInv, LateUnlinkInv, RebootInv, TickInv
<1> QED
  BY <1>1, <1>2, <1>3, <1>4, <1>5 DEF Next

(* The inductive invariant holds in every behaviour. *)
THEOREM AlwaysQueueInv ==
  ASSUME ~StaleBacklog PROVE Spec => []QueueInv
<1>1. Init => QueueInv
  BY InitQueueInv
<1>2. Typed /\ QueueInv /\ [Next]_vars => QueueInv'
  BY NextQueueInv
<1> QED
  BY <1>1, <1>2, AlwaysTyped, PTL DEF Spec

(* At every moment each message is in one of the five states of INTERNALS  *)
(* section 2, whoever is in the middle of whatever handler, and whoever    *)
(* has died there (qmail-queue.c, qmail-todo.c todo_do(), qmail-send.c     *)
(* messdone() and cleanup_do(), qmail-clean.c).                            *)
THEOREM AlwaysAllStates ==
  ASSUME ~StaleBacklog PROVE Spec => []AllStates
<1>1. QueueInv => AllStates
  BY LawfulStates DEF QueueInv
<1> QED
  BY <1>1, AlwaysQueueInv, PTL

(* Neither qmail-clean unlinks a file that a living qmail-queue made and   *)
(* has not handed over (qmail-queue.c DEATH, qmail-clean.c cleanuppid(),   *)
(* qmail-send.c cleanup_do()).                                             *)
THEOREM AlwaysNeverReaped ==
  ASSUME ~StaleBacklog PROVE Spec => []NeverReaped
<1>1. QueueInv => NeverReaped
  BY DEF QueueInv, WriterInv, WriterState, Live, NeverReaped, LiveFiles
<1> QED
  BY <1>1, AlwaysQueueInv, PTL

(* A channel file waits in pqchan only when no pass reads it and none of   *)
(* its recipients is in a delivery slot (qmail-send.c pass_dochan(),       *)
(* job_close(), todo_do()): no recipient is handed out twice at a time.    *)
THEOREM AlwaysOneJob ==
  ASSUME ~StaleBacklog PROVE Spec => []OneJob
<1>1. QueueInv => OneJob
  BY DEF QueueInv, KnownInv
<1> QED
  BY <1>1, AlwaysQueueInv, PTL

-----------------------------------------------------------------------------
(***************************************************************************)
(* Scheduling holds in every behaviour of MailSystem, for all constants:   *)
(* as long as the daemons run and none of them is about to leave,          *)
(* qmail-send has, or is going to get, an entry for each preprocessed      *)
(* message.                                                                *)
(***************************************************************************)

(* qmail-todo knows of each channel file that it will have to report, and  *)
(* reports it.                                                             *)
ChansInv ==
  /\ tpc \in {"unremote", "uninfo", "info", "copy", "sync_info", "sync_chan", "clean_intd",
              "clean_todo", "report"} => (Has("local", tid) => "local" \in tchan)
  /\ tpc \in {"uninfo", "info", "copy", "sync_info", "sync_chan", "clean_intd",
              "clean_todo", "report"} => (Has("remote", tid) => "remote" \in tchan)
  /\ \A report \in treports : \A c \in Channels : Has(c, report[1]) => c \in report[2]

(* A channel file is known when it waits, is read, or is delivered from.   *)
ChanKnown(c, id) ==
  \/ <<c, id>> \in pqchan \/ passid[c] = id
  \/ \E r \in OfChannel(c) : del[id][r] # "none"

Announced(id) ==
  \/ \E chans \in SUBSET Channels : <<id, chans>> \in treports
  \/ tpc = "report" /\ tid = id

(* messdone() is at work on id. *)
BeingDone(id) == sid = id /\ spc \in Eliminating

(* Either qmail-send has not heard of id yet, or it knows of each channel  *)
(* file, and of the message when no channel file is left.                  *)
Tracked(id) ==
  \/ Announced(id)
  \/ /\ \A c \in Channels : Has(c, id) => ChanKnown(c, id)
     /\ HasChan(id) \/ id \in pqdone \/ BeingDone(id)

Preprocessed(id) == Has("info", id) /\ ~Has("todo", id)

(* No daemon is leaving, and none has left. *)
Staying == spc # "down" /\ ~exitasap /\ tpc # "dead" /\ ~tstop

TrackedInv ==
  Staying => \A id \in Ids : Preprocessed(id) => Tracked(id)

SchedulingInv == ChansInv /\ TrackedInv

(* Who is tracked is known.  TrackedInv is stronger where it is about each *)
(* channel file, which job_close() needs.                                  *)
LEMMA TrackedScheduled == TrackedInv => Scheduling
<1> SUFFICES ASSUME TrackedInv, Staying, NEW id \in Ids, Preprocessed(id) PROVE Known(id)
  BY DEF Scheduling, Staying, Preprocessed
<1>1. Tracked(id)
  BY DEF TrackedInv
<1>2. CASE Announced(id)
  BY <1>2 DEF Announced, Known
<1>3. CASE \E c \in Channels : ChanKnown(c, id)
  BY <1>3 DEF ChanKnown, Known, OfChannel
<1>4. CASE id \in pqdone \/ BeingDone(id)
  BY <1>4 DEF BeingDone, Eliminating, Known
<1> QED
  BY <1>1, <1>2, <1>3, <1>4 DEF Tracked, HasChan

-----------------------------------------------------------------------------
(* Frames.                                                                 *)

(* No channel file is made and qmail-todo does not go on. *)
LEMMA ChansFrame ==
  ASSUME Typed, ChansInv, treports' \subseteq treports,
         \A c \in Channels, id \in Ids : <<c, id>> \in files' => <<c, id>> \in files,
         tpc' \in {"idle", "dead"} \/ UNCHANGED <<tpc, tid, tchan>>
  PROVE  ChansInv'
<1>1. \A report \in treports' : \A c \in Channels : Has(c, report[1])' => c \in report[2]
  <2>1. \A report \in treports : report[1] \in Ids
    BY DEF Typed, TypeOK, TodoTypeOK
  <2>2. ASSUME NEW report \in treports', NEW c \in Channels, <<c, report[1]>> \in files'
        PROVE  c \in report[2]
    <3>1. <<c, report[1]>> \in files
      BY <2>1, <2>2
    <3> QED
      BY <3>1 DEF ChansInv, Has
  <2> QED
    BY <2>2 DEF Has
<1>2. CASE tpc' \in {"idle", "dead"}
  BY <1>1, <1>2 DEF ChansInv
<1>3. CASE UNCHANGED <<tpc, tid, tchan>> /\ tpc \notin {"idle", "dead"}
  <2>1. \A c \in Channels : Has(c, tid)' => Has(c, tid)
    BY <1>3 DEF Has, Typed, Working
  <2> QED
    BY <1>1, <1>3, <2>1 DEF ChansInv, Channels
<1> QED
  BY <1>2, <1>3

(* An entry stays an entry. *)
LEMMA TrackedFrame ==
  ASSUME NEW id \in Ids, Tracked(id),
         \A c \in Channels : <<c, id>> \in files' <=> <<c, id>> \in files,
         \A c \in Channels :
           /\ <<c, id>> \in pqchan => <<c, id>> \in pqchan' \/ passid'[c] = id
           /\ passid[c] = id => passid'[c] = id,
         \A r \in Rcpts : del[id][r] # "none" => del'[id][r] # "none",
         Announced(id) => Announced(id)',
         id \in pqdone \/ BeingDone(id) => id \in pqdone' \/ BeingDone(id)' \/ HasChan(id)
  PROVE  Tracked(id)'
<1>1. \A c \in Channels : ChanKnown(c, id) => ChanKnown(c, id)'
  BY DEF ChanKnown, OfChannel
<1>2. HasChan(id)' <=> HasChan(id)
  BY DEF HasChan, Has
<1> QED
  BY <1>1, <1>2 DEF Tracked, Has

(* So nothing is lost by a step that keeps all of them.                    *)
LEMMA QuietTracked ==
  ASSUME TrackedInv, Staying' => Staying,
         \A c \in Channels, id \in Ids :
           /\ <<c, id>> \in pqchan => <<c, id>> \in pqchan' \/ passid'[c] = id
           /\ passid[c] = id => passid'[c] = id,
         \A id \in Ids :
           /\ Preprocessed(id)' => Preprocessed(id)
           /\ Preprocessed(id) =>
                \A c \in Channels : <<c, id>> \in files' <=> <<c, id>> \in files
           /\ Announced(id) => Announced(id)'
           /\ Preprocessed(id)' /\ (id \in pqdone \/ BeingDone(id)) =>
                id \in pqdone' \/ BeingDone(id)' \/ HasChan(id),
         \A id \in Ids, r \in Rcpts : del[id][r] # "none" => del'[id][r] # "none"
  PROVE  TrackedInv'
<1> SUFFICES ASSUME Staying', NEW id \in Ids, Preprocessed(id)' PROVE Tracked(id)'
  BY DEF TrackedInv
<1>1. Preprocessed(id) /\ Tracked(id)
  BY DEF TrackedInv
<1> QED
  BY <1>1, TrackedFrame

-----------------------------------------------------------------------------
(* qmail-queue and qmail-todo.                                             *)

(* qmail-queue makes no info/ and no channel file. *)
LEMMA QueueScheduled ==
  ASSUME Typed, SchedulingInv, NEW m \in Msgs, Queue(m)
  PROVE  SchedulingInv'
<1>1. UNCHANGED <<todoVars, sendVars, envVars>>
  BY DEF Queue
<1>2. /\ \A d \in {"info", "local", "remote"}, id \in Ids :
           <<d, id>> \in files' <=> <<d, id>> \in files
      /\ \A id \in Ids : <<"todo", id>> \in files => <<"todo", id>> \in files'
  BY DEF Queue, QmailQueueStep, PidOpen, LinkMess, UnlinkPid, WriteMess, OpenIntd,
     WriteEnvelope, LinkTodo, PullTrigger, Abandon, CleanupIntd, CleanupMess, WriterDies,
     Goto, Link, Unlink, dirVars
<1>3. ChansInv'
  BY <1>1, <1>2, ChansFrame DEF SchedulingInv, Channels, todoVars
<1>4. TrackedInv'
  BY <1>1, <1>2, QuietTracked
     DEF SchedulingInv, Staying, Preprocessed, Has, Announced, BeingDone, Channels,
     todoVars, sendVars, memVars
<1> QED
  BY <1>3, <1>4 DEF SchedulingInv

(* Each channel file that qmail-todo makes goes into flagchan[] and into   *)
(* the report; those of its predecessors go first.                         *)
LEMMA TodoChans ==
  ASSUME Typed, QueueInv, ChansInv, Todo
  PROVE  ChansInv'
<1>1. CASE tpc' \in {"idle", "dead"} /\ tpc # "report"
  <2>1. UNCHANGED <<treports, files>>
    BY <1>1 DEF Todo, QmailTodoStep, OpenTodo, TodoStatMess, TodoUnlinkChan, TodoUnlinkInfo,
       TodoCreateInfo, CopyRecipient, EndOfEnvelope, TodoSyncInfo, TodoSyncChans,
       TodoCleanIntd, TodoCleanTodo, TodoReport, TodoLeaves, Fails, GiveUp, TodoGoto, dirVars
  <2> QED
    BY <1>1, <2>1, ChansFrame
<1>2. CASE TodoReport
  BY <1>2 DEF TodoReport, ChansInv, Has, Channels, dirVars
<1>3. CASE (\E id \in Ids : OpenTodo(id)) \/ TodoStatMess
  BY <1>3 DEF OpenTodo, TodoStatMess, GiveUp, TodoGoto, ChansInv, Has, dirVars
<1>4. CASE \E r \in Rcpts : CopyRecipient(r) /\ tpc' = "copy"
  <2>1. PICK r \in Rcpts : CopyRecipient(r) /\ tpc' = "copy"
    BY <1>4
  <2>2. PICK c \in Channels, x \in Ids : c = ChannelOf[r] /\ x = tid
    BY <2>1, EnvelopeAssumption DEF CopyRecipient, Typed, Working
  <2>3. /\ files' = files \cup {<<c, x>>} /\ tchan' = tchan \cup {c}
        /\ tpc = "copy" /\ UNCHANGED <<tid, treports>>
    BY <2>1, <2>2 DEF CopyRecipient, Fails, GiveUp, TodoGoto, Link
  <2>4. \A report \in treports : report[1] # x
    BY <2>2, <2>3 DEF QueueInv, TodoInv, ReportInv, S5
  <2> QED
    BY <2>1, <2>2, <2>3, <2>4 DEF ChansInv, Has, Channels
<1>5. CASE /\ tpc' \notin {"idle", "dead"}
           /\ \/ TodoUnlinkChan("local", "unlocal", "unremote")
              \/ TodoUnlinkChan("remote", "unremote", "uninfo")
  <2>1. /\ UNCHANGED <<tid, tchan, treports>>
        /\ \/ tpc' = "unremote" /\ files' = files \ {<<"local", tid>>}
           \/ tpc = "unremote" /\ tpc' = "uninfo" /\ files' = files \ {<<"remote", tid>>}
    BY <1>5 DEF TodoUnlinkChan, Fails, GiveUp, TodoGoto, Unlink
  <2> QED
    BY <2>1 DEF ChansInv, Has
<1>6. CASE /\ tpc' \notin {"idle", "dead"}
           /\ \/ TodoUnlinkInfo \/ TodoCreateInfo \/ EndOfEnvelope \/ TodoSyncInfo
              \/ TodoSyncChans \/ TodoCleanIntd \/ TodoCleanTodo
  <2>1. /\ UNCHANGED <<tid, tchan, treports>>
        /\ tpc \in {"uninfo", "info", "copy", "sync_info", "sync_chan", "clean_intd", "clean_todo"}
        /\ \A d \in {"local", "remote"} : \A id : <<d, id>> \in files' <=> <<d, id>> \in files
    BY <1>6 DEF TodoUnlinkInfo, TodoCreateInfo, EndOfEnvelope, TodoSyncInfo, TodoSyncChans,
       TodoCleanIntd, TodoCleanTodo, Fails, GiveUp, TodoGoto, Link, Unlink, dirVars
  <2> QED
    BY <2>1 DEF ChansInv, Has, Channels
<1>7. tpc = "report" => TodoReport
  BY DEF Todo, QmailTodoStep, OpenTodo, TodoStatMess, TodoUnlinkChan, TodoUnlinkInfo,
     TodoCreateInfo, CopyRecipient, EndOfEnvelope, TodoSyncInfo, TodoSyncChans,
     TodoCleanIntd, TodoCleanTodo, TodoLeaves
<1>8. \A r \in Rcpts : CopyRecipient(r) => tpc' \in {"copy", "idle"}
  BY DEF CopyRecipient, Fails, GiveUp, TodoGoto
<1>9. TodoLeaves => tpc' = "dead" /\ tpc # "report"
  BY DEF TodoLeaves, TodoGoto
<1> QED
  BY <1>1, <1>2, <1>3, <1>4, <1>5, <1>6, <1>7, <1>8, <1>9 DEF Todo, QmailTodoStep

(* What qmail-todo has preprocessed is announced; it is not seen before.   *)
LEMMA TodoTracked ==
  ASSUME Typed, QueueInv, TrackedInv, Todo
  PROVE  TrackedInv'
<1> UNCHANGED sendVars
  BY DEF Todo
<1>1. CASE TodoCleanTodo /\ tpc' = "report"
  <2>1. PICK x \in Ids : x = tid
    BY <1>1 DEF TodoCleanTodo, Typed, Working
  <2>2. /\ tpc = "clean_todo" /\ files' = files \ {<<"todo", x>>}
        /\ UNCHANGED <<tid, treports, tstop>>
    BY <1>1, <2>1 DEF TodoCleanTodo, Fails, GiveUp, TodoGoto, Unlink
  <2> SUFFICES ASSUME Staying', NEW id \in Ids, Preprocessed(id)' PROVE Tracked(id)'
    BY DEF TrackedInv
  <2>3. CASE id = x
    BY <1>1, <2>1, <2>2, <2>3 DEF Tracked, Announced
  <2>4. CASE id # x
    <3>1. /\ Preprocessed(id) /\ Staying
          /\ \A c \in Channels : <<c, id>> \in files' <=> <<c, id>> \in files
      BY <2>2, <2>4 DEF Preprocessed, Has, Channels, Staying, sendVars, memVars
    <3>2. Announced(id) => Announced(id)'
      BY <2>2 DEF Announced
    <3> QED
      BY <3>1, <3>2, TrackedFrame DEF TrackedInv, BeingDone, sendVars, memVars
  <2> QED
    BY <2>3, <2>4
<1>2. CASE ~(TodoCleanTodo /\ tpc' = "report")
  <2>1. ASSUME NEW id \in Ids, Has("todo", id)
        PROVE  <<"todo", id>> \in files'
    <3>1. CASE TodoCleanTodo
      BY <1>2, <2>1, <3>1 DEF TodoCleanTodo, Fails, GiveUp, TodoGoto, dirVars, Has
    <3>2. CASE ~TodoCleanTodo
      BY <2>1, <3>2, EnvelopeAssumption
         DEF Todo, QmailTodoStep, OpenTodo, TodoStatMess, TodoUnlinkChan, TodoUnlinkInfo,
         TodoCreateInfo, CopyRecipient, EndOfEnvelope, TodoSyncInfo, TodoSyncChans,
         TodoCleanIntd, TodoReport, TodoLeaves, Fails, Link, Unlink, dirVars, Has, Channels
    <3> QED
      BY <3>1, <3>2
  <2>2. ASSUME NEW id \in Ids, ~Has("todo", id), NEW d \in {"info", "local", "remote", "todo"}
        PROVE  <<d, id>> \in files' <=> <<d, id>> \in files
    <3>1. tpc \notin {"dead", "idle", "report"} => tid # id
      BY <2>2 DEF QueueInv, TodoInv
    <3> QED
      BY <2>2, <3>1
         DEF Todo, QmailTodoStep, OpenTodo, TodoStatMess, TodoUnlinkChan, TodoUnlinkInfo,
         TodoCreateInfo, CopyRecipient, EndOfEnvelope, TodoSyncInfo, TodoSyncChans,
         TodoCleanIntd, TodoCleanTodo, TodoReport, TodoLeaves, Fails, Link, Unlink, dirVars, Has
  <2>3. ASSUME NEW id \in Ids, Announced(id) PROVE Announced(id)'
    <3>1. CASE tpc = "report"
      <4>1. TodoReport
        BY <3>1
           DEF Todo, QmailTodoStep, OpenTodo, TodoStatMess, TodoUnlinkChan, TodoUnlinkInfo,
           TodoCreateInfo, CopyRecipient, EndOfEnvelope, TodoSyncInfo, TodoSyncChans,
           TodoCleanIntd, TodoCleanTodo, TodoLeaves
      <4>2. tchan \in SUBSET Channels
        BY DEF Typed, TypeOK, TodoTypeOK
      <4> QED
        BY <2>3, <4>1, <4>2 DEF TodoReport, Announced
    <3>2. CASE tpc # "report"
      <4>1. treports' = treports
        BY <3>2
           DEF Todo, QmailTodoStep, OpenTodo, TodoStatMess, TodoUnlinkChan, TodoUnlinkInfo,
           TodoCreateInfo, CopyRecipient, EndOfEnvelope, TodoSyncInfo, TodoSyncChans,
           TodoCleanIntd, TodoCleanTodo, TodoReport, TodoLeaves, Fails, GiveUp, TodoGoto
      <4> QED
        BY <2>3, <3>2, <4>1 DEF Announced
    <3> QED
      BY <3>1, <3>2
  <2>4. Staying' => Staying
    <3>1. tpc = "dead" => FALSE
      BY DEF Todo, QmailTodoStep, OpenTodo, TodoStatMess, TodoUnlinkChan, TodoUnlinkInfo,
         TodoCreateInfo, CopyRecipient, EndOfEnvelope, TodoSyncInfo, TodoSyncChans,
         TodoCleanIntd, TodoCleanTodo, TodoReport, TodoLeaves
    <3>2. tstop' = tstop
      BY DEF Todo, QmailTodoStep, OpenTodo, TodoStatMess, TodoUnlinkChan, TodoUnlinkInfo,
         TodoCreateInfo, CopyRecipient, EndOfEnvelope, TodoSyncInfo, TodoSyncChans,
         TodoCleanIntd, TodoCleanTodo, TodoReport, TodoLeaves, Fails, GiveUp, TodoGoto
    <3> QED
      BY <3>1, <3>2 DEF Staying, sendVars, memVars
  <2>5. ASSUME NEW id \in Ids
        PROVE  /\ Preprocessed(id)' => Preprocessed(id)
               /\ Preprocessed(id) =>
                    \A c \in Channels : <<c, id>> \in files' <=> <<c, id>> \in files
    BY <2>1, <2>2 DEF Preprocessed, Has, Channels
  <2> QED
    BY <2>3, <2>4, <2>5, QuietTracked DEF BeingDone, sendVars, memVars
<1> QED
  BY <1>1, <1>2

-----------------------------------------------------------------------------
(* qmail-send.                                                             *)

(* job_close() of the last reference puts the channel file back, or        *)
(* unlinks it and then asks whether it was the last one.                   *)
LEMMA JobCloseTracked ==
  ASSUME TrackedInv, Staying' => Staying, spc \notin Eliminating, UNCHANGED todoVars,
         NEW c \in Channels, NEW x \in Ids, NEW STATE busy, NEW STATE hit,
         NEW STATE left, NEW STATE recs, JobClose(c, x, busy, hit, left, recs),
         busy => passid'[c] = x \/ \E r \in OfChannel(c) : del'[x][r] # "none",
         \A o \in Channels, id \in Ids :
           (o # c \/ id # x) /\ passid[o] = id => passid'[o] = id,
         \A id \in Ids, r \in Rcpts :
           (ChannelOf[r] # c \/ id # x) /\ del[id][r] # "none" => del'[id][r] # "none"
  PROVE  TrackedInv'
<1> SUFFICES ASSUME Staying', NEW id \in Ids, Preprocessed(id)' PROVE Tracked(id)'
  BY DEF TrackedInv
<1>1. /\ files' = files \/ files' = files \ {<<c, x>>}
      /\ pqchan \subseteq pqchan' /\ pqdone \subseteq pqdone'
  BY DEF JobClose, Unlink
<1>2. Tracked(id)
  <2>1. Preprocessed(id)
    BY <1>1 DEF Preprocessed, Has, Channels
  <2> QED
    BY <2>1 DEF TrackedInv
<1>3. CASE Announced(id)
  BY <1>3 DEF Tracked, Announced, todoVars
<1>4. CASE ~Announced(id)
  <2>1. ASSUME NEW o \in Channels, Has(o, id)' PROVE ChanKnown(o, id)'
    <3>1. CASE o = c /\ id = x
      <4>1. busy \/ <<c, x>> \in pqchan'
        BY <2>1, <3>1 DEF JobClose, Unlink, Has
      <4> QED
        BY <3>1, <4>1 DEF ChanKnown
    <3>2. CASE ~(o = c /\ id = x)
      <4>1. ChanKnown(o, id)
        BY <1>1, <1>2, <1>4, <2>1 DEF Tracked, Has
      <4> QED
        BY <1>1, <3>2, <4>1 DEF ChanKnown, OfChannel
    <3> QED
      BY <3>1, <3>2
  <2>2. HasChan(id)' \/ id \in pqdone'
    <3>1. CASE id \in pqdone
      BY <1>1, <3>1
    <3>2. CASE HasChan(id)
      <4>1. CASE files' = files
        BY <3>2, <4>1 DEF HasChan, Has
      <4>2. CASE files' # files
        <5>1. /\ files' = files \ {<<c, x>>}
              /\ (\E o \in Channels \ {c} : Has(o, x)) \/ x \in pqdone'
          BY <4>2 DEF JobClose, Unlink
        <5> QED
          BY <3>2, <5>1 DEF HasChan, Has
      <4> QED
        BY <4>1, <4>2
    <3> QED
      BY <1>2, <1>4, <3>1, <3>2 DEF Tracked, BeingDone
  <2> QED
    BY <2>1, <2>2 DEF Tracked
<1> QED
  BY <1>3, <1>4

(* The end of a pass leaves deliveries as references to the job, the end   *)
(* of a delivery leaves its pass and the other ones.                       *)
LEMMA EndTracked ==
  ASSUME Typed, TrackedInv,
         \/ \E c \in Channels, hit \in BOOLEAN : EndPass(c, hit)
         \/ \E id \in Ids, r \in Rcpts, mark \in BOOLEAN : EndDelivery(id, r, mark),
         spc \in {"idle", "mark"}, UNCHANGED todoVars
  PROVE  TrackedInv'
<1>1. ASSUME NEW c \in Channels, NEW hit \in BOOLEAN, EndPass(c, hit)
      PROVE  TrackedInv'
  <2>1. PICK x \in Ids : x = passid[c]
    BY <1>1 DEF EndPass, Typed, TypeOK, SendTypeOK
  <2>2. JobClose(c, x, \E r \in OfChannel(c) : del[x][r] # "none", hit, undone[x],
                 pending[x])
    BY <1>1, <2>1 DEF EndPass
  <2>3. /\ spc = "idle" /\ UNCHANGED <<spc, del, exitasap>>
        /\ passid' = [passid EXCEPT ![c] = NoId]
    BY <1>1 DEF EndPass, Idle
  <2>4. /\ Staying' => Staying
        /\ spc \notin Eliminating
        /\ \A o \in Channels, id \in Ids : (o # c \/ id # x) /\ passid[o] = id => passid'[o] = id
    BY <2>1, <2>3 DEF Staying, Eliminating, todoVars, Typed, TypeOK, SendTypeOK
  <2>5. (\E r \in OfChannel(c) : del[x][r] # "none")
          => passid'[c] = x \/ \E r \in OfChannel(c) : del'[x][r] # "none"
    BY <2>3
  <2>6. \A id \in Ids, r \in Rcpts :
          (ChannelOf[r] # c \/ id # x) /\ del[id][r] # "none" => del'[id][r] # "none"
    BY <2>3
  <2> QED
    BY <2>2, <2>4, <2>5, <2>6, JobCloseTracked
<1>2. ASSUME NEW x \in Ids, NEW r \in Rcpts, NEW mark \in BOOLEAN, EndDelivery(x, r, mark)
      PROVE  TrackedInv'
  <2>1. PICK c \in Channels : c = ChannelOf[r]
    BY EnvelopeAssumption
  <2>2. /\ spc' = "idle" /\ UNCHANGED <<passid, exitasap>>
        /\ del' = [del EXCEPT ![x][r] = "none"]
    BY <1>2 DEF EndDelivery
  <2>3. /\ Staying' => Staying
        /\ spc \notin Eliminating
        /\ \A o \in Channels, id \in Ids : (o # c \/ id # x) /\ passid[o] = id => passid'[o] = id
    BY <1>2, <2>2 DEF Staying, Eliminating, todoVars
  <2>4. Busy(c, x, {r}) => passid'[c] = x \/ \E q \in OfChannel(c) : del'[x][q] # "none"
    BY <2>2 DEF Busy, OfChannel, Typed, TypeOK, SendTypeOK
  <2>5. \A id \in Ids, q \in Rcpts :
          (ChannelOf[q] # c \/ id # x) /\ del[id][q] # "none" => del'[id][q] # "none"
    BY <2>1, <2>2 DEF Typed, TypeOK, SendTypeOK
  <2>6. ASSUME NEW STATE left, NEW STATE recs,
               JobClose(c, x, Busy(c, x, {r}), <<c, x>> \in hiteof, left, recs)
        PROVE  TrackedInv'
    BY <2>3, <2>4, <2>5, <2>6, JobCloseTracked
  <2>7. CASE mark
    <3>1. PICK recs \in MarkDone(x, r) :
            JobClose(c, x, Busy(c, x, {r}), <<c, x>> \in hiteof, undone[x] \ {r}, recs)
      BY <1>2, <2>1, <2>7 DEF EndDelivery
    <3> QED
      BY <2>6, <3>1
  <2>8. CASE ~mark
    <3>1. JobClose(c, x, Busy(c, x, {r}), <<c, x>> \in hiteof, undone[x], pending[x])
      BY <1>2, <2>1, <2>8 DEF EndDelivery
    <3> QED
      BY <2>6, <3>1
  <2> QED
    BY <2>7, <2>8
<1> QED
  BY <1>1, <1>2

(* A pass takes the place of an entry, a delivery adds to its job.         *)
LEMMA BeginTracked ==
  ASSUME Typed, TrackedInv,
         \/ \E c \in Channels, id \in Ids : OpenPass(c, id)
         \/ \E c \in Channels, r \in Rcpts : ReadRecipient(c, r)
         \/ \E id \in Ids, r \in Rcpts : ReportD(id, r),
         UNCHANGED todoVars
  PROVE  TrackedInv'
<1>1. /\ spc = "idle" /\ spc' # "down" /\ UNCHANGED <<pqdone, exitasap>>
      /\ \A d \in {"todo", "info", "local", "remote"}, id \in Ids :
           <<d, id>> \in files' <=> <<d, id>> \in files
  BY DEF OpenPass, ReadRecipient, ReportD, Idle, Link, dirVars
<1> DEFINE Stays ==
             /\ \A c \in Channels, id \in Ids :
                  /\ <<c, id>> \in pqchan => <<c, id>> \in pqchan' \/ passid'[c] = id
                  /\ passid[c] = id => passid'[c] = id
             /\ \A id \in Ids, r \in Rcpts : del[id][r] # "none" => del'[id][r] # "none"
<1>2. Stays
  <2>1. ASSUME NEW o \in Channels, NEW x \in Ids, OpenPass(o, x)
        PROVE  Stays
    <3>1. /\ pqchan' = pqchan \ {<<o, x>>} /\ passid' = [passid EXCEPT ![o] = x]
          /\ passid[o] = NoId /\ UNCHANGED del
      BY <2>1 DEF OpenPass
    <3> QED
      BY <3>1, EnvelopeAssumption DEF Typed, TypeOK, SendTypeOK
  <2>2. ASSUME NEW o \in Channels, NEW q \in Rcpts, ReadRecipient(o, q)
        PROVE  Stays
    <3>1. PICK x \in Ids : x = passid[o]
      BY <2>2 DEF ReadRecipient, Typed, TypeOK, SendTypeOK
    <3>2. /\ del' = [del EXCEPT ![x][q] = "sent"] /\ UNCHANGED <<pqchan, passid>>
      BY <2>2, <3>1 DEF ReadRecipient
    <3> QED
      BY <3>2 DEF Typed, TypeOK, SendTypeOK
  <2>3. ASSUME NEW x \in Ids, NEW q \in Rcpts, ReportD(x, q)
        PROVE  Stays
    <3>1. /\ del' = [del EXCEPT ![x][q] = "noted"] /\ UNCHANGED <<pqchan, passid>>
      BY <2>3 DEF ReportD
    <3> QED
      BY <3>1 DEF Typed, TypeOK, SendTypeOK
  <2> QED
    BY <2>1, <2>2, <2>3
<1> QED
  BY <1>1, <1>2, QuietTracked
     DEF Staying, Preprocessed, Has, Announced, BeingDone, Eliminating, Channels, todoVars

(* A stat of messdone() lets it go on, or stops it because of what is      *)
(* there, or has the message put back.                                     *)
LEMMA StatOutcome ==
  ASSUME NEW pc, NEW d, NEW present \in BOOLEAN, NEW next, MessDoneStat(pc, d, present, next)
  PROVE  \/ spc' = next /\ sid' = sid
         \/ (Has(d, sid) <=> ~present)
         \/ sid \in pqdone'
<1>1. Has(d, sid) \in BOOLEAN
  BY DEF Has
<1> QED
  BY <1>1 DEF MessDoneStat, SendGoto, TryAgain

(* messdone() puts the message back or ends with info/; it stops halfway   *)
(* only when it sees a channel file.                                       *)
LEMMA MessDoneTracked ==
  ASSUME Typed, QueueInv, TrackedInv,
         \/ \E id \in Ids : MessDone(id)
         \/ MessDoneStat("stat_local", "local", FALSE, "stat_remote")
         \/ MessDoneStat("stat_remote", "remote", FALSE, "stat_todo")
         \/ MessDoneStat("stat_todo", "todo", FALSE, "stat_info")
         \/ MessDoneStat("stat_info", "info", TRUE, "bounce")
         \/ InjectBounce \/ UnlinkBounce \/ UnlinkInfo,
         UNCHANGED todoVars
  PROVE  TrackedInv'
<1>1. /\ spc # "down" /\ UNCHANGED <<pqchan, passid, del, exitasap>>
      /\ \A d \in {"todo", "local", "remote"}, id \in Ids :
           <<d, id>> \in files' <=> <<d, id>> \in files
      /\ \A id \in Ids : <<"info", id>> \in files' => <<"info", id>> \in files
  BY DEF MessDone, MessDoneStat, InjectBounce, UnlinkBounce, UnlinkInfo, Idle, Unlink, dirVars,
     restVars
<1>2. Staying' => Staying
  BY <1>1 DEF Staying, todoVars
<1>3. ASSUME NEW x \in Ids, Preprocessed(x)', x \in pqdone \/ BeingDone(x)
      PROVE  x \in pqdone' \/ BeingDone(x)' \/ HasChan(x)
  <2>1. CASE \E id \in Ids : MessDone(id)
    BY <1>3, <2>1 DEF MessDone, Idle, BeingDone, Eliminating
  <2>2. CASE ~\E id \in Ids : MessDone(id)
    <3>1. spc \in Eliminating /\ pqdone \subseteq pqdone'
      BY <2>2 DEF MessDoneStat, InjectBounce, UnlinkBounce, UnlinkInfo, TryAgain, Eliminating
    <3>2. CASE BeingDone(x)
      <4>1. S5(x) /\ sid = x
        BY <3>2 DEF BeingDone, QueueInv, SendInv
      <4>2. CASE MessDoneStat("stat_local", "local", FALSE, "stat_remote")
        <5>1. (spc' = "stat_remote" /\ sid' = sid) \/ Has("local", sid) \/ sid \in pqdone'
          BY <4>2, StatOutcome
        <5> QED
          BY <4>1, <5>1 DEF BeingDone, Eliminating, HasChan, Channels
      <4>3. CASE MessDoneStat("stat_remote", "remote", FALSE, "stat_todo")
        <5>1. (spc' = "stat_todo" /\ sid' = sid) \/ Has("remote", sid) \/ sid \in pqdone'
          BY <4>3, StatOutcome
        <5> QED
          BY <4>1, <5>1 DEF BeingDone, Eliminating, HasChan, Channels
      <4>4. CASE \/ MessDoneStat("stat_todo", "todo", FALSE, "stat_info")
                 \/ MessDoneStat("stat_info", "info", TRUE, "bounce")
        <5>1. \/ spc' \in {"stat_info", "bounce"} /\ sid' = sid
              \/ Has("todo", sid) \/ ~Has("info", sid) \/ sid \in pqdone'
          BY <4>4, StatOutcome
        <5> QED
          BY <4>1, <5>1 DEF BeingDone, Eliminating, S5
      <4>5. CASE InjectBounce \/ UnlinkBounce
        BY <4>1, <4>5 DEF InjectBounce, UnlinkBounce, TryAgain, SendGoto, BeingDone, Eliminating
      <4>6. CASE UnlinkInfo
        BY <1>3, <4>1, <4>6 DEF UnlinkInfo, TryAgain, Unlink, Preprocessed, Has
      <4> QED
        BY <2>2, <4>2, <4>3, <4>4, <4>5, <4>6
    <3> QED
      BY <1>3, <3>1, <3>2
  <2> QED
    BY <2>1, <2>2
<1> QED
  BY <1>1, <1>2, <1>3, QuietTracked DEF Preprocessed, Has, Announced, Channels, todoVars

(* cleanup_do() and the end of messdone(), with no info/ file any more. *)
LEMMA CleanupTracked ==
  ASSUME Typed, TrackedInv,
         \/ \E id \in Ids : CleanupOld(id)
         \/ CleanupStat("old_info", "info", "old_todo")
         \/ CleanupStat("old_todo", "todo", "clean_intd")
         \/ CleanFile("clean_intd", "intd", "clean_mess")
         \/ CleanFile("clean_mess", "mess", "idle"),
         UNCHANGED todoVars
  PROVE  TrackedInv'
<1>1. /\ spc \notin Eliminating /\ spc # "down"
      /\ UNCHANGED <<pqchan, pqdone, passid, del, exitasap>>
  BY DEF CleanupOld, CleanupStat, CleanFile, Idle, Eliminating, restVars
<1>2. \A d \in {"todo", "info", "local", "remote"}, id \in Ids :
        <<d, id>> \in files' <=> <<d, id>> \in files
  BY DEF CleanupOld, CleanupStat, CleanFile, Unlink, dirVars
<1> QED
  BY <1>1, <1>2, QuietTracked
     DEF Staying, Preprocessed, Has, Announced, BeingDone, Channels, todoVars

(* Only qmail-todo makes channel files. *)
LEMMA SendFiles ==
  ASSUME SendStep
  PROVE  \A c \in Channels, id \in Ids : <<c, id>> \in files' => <<c, id>> \in files
<1>1. ASSUME \/ \E c \in Channels, hit \in BOOLEAN : EndPass(c, hit)
             \/ \E id \in Ids, r \in Rcpts, mark \in BOOLEAN : EndDelivery(id, r, mark)
      PROVE  files' \subseteq files
  <2>1. ASSUME NEW c, NEW id, NEW STATE busy, NEW STATE hit, NEW STATE left, NEW STATE recs,
               JobClose(c, id, busy, hit, left, recs)
        PROVE  files' \subseteq files
    BY <2>1 DEF JobClose, Unlink
  <2> QED
    BY <1>1, <2>1 DEF EndPass, EndDelivery
<1>2. CASE \/ \E c \in Channels, hit \in BOOLEAN : EndPass(c, hit)
           \/ \E id \in Ids, r \in Rcpts : ReportK(id, r) \/ ReportZ(id, r) \/ MarkFailed(id, r)
  BY <1>1, <1>2 DEF ReportK, ReportZ, MarkFailed
<1>3. CASE \E id \in Ids, r \in Rcpts : ReportD(id, r)
  BY <1>3 DEF ReportD, Link, Channels
<1>4. CASE \/ \E c \in Channels, id \in Ids : OpenPass(c, id)
           \/ \E c \in Channels, r \in Rcpts : ReadRecipient(c, r)
           \/ \E id \in Ids : MessDone(id) \/ CleanupOld(id)
           \/ MessDoneStat("stat_local", "local", FALSE, "stat_remote")
           \/ MessDoneStat("stat_remote", "remote", FALSE, "stat_todo")
           \/ MessDoneStat("stat_todo", "todo", FALSE, "stat_info")
           \/ MessDoneStat("stat_info", "info", TRUE, "bounce")
           \/ InjectBounce \/ UnlinkBounce \/ UnlinkInfo
           \/ CleanFile("clean_intd", "intd", "clean_mess")
           \/ CleanFile("clean_mess", "mess", "idle")
           \/ CleanupStat("old_info", "info", "old_todo")
           \/ CleanupStat("old_todo", "todo", "clean_intd")
           \/ SendExit
  BY <1>4 DEF OpenPass, ReadRecipient, MessDone, CleanupOld, MessDoneStat, InjectBounce,
     UnlinkBounce, UnlinkInfo, CleanFile, CleanupStat, SendExit, Unlink, dirVars
<1> QED
  BY <1>2, <1>3, <1>4 DEF SendStep

(* All of qmail-send. *)
LEMMA SendScheduling ==
  ASSUME Typed, QueueInv, SchedulingInv, Send
  PROVE  SchedulingInv'
<1> SendStep /\ UNCHANGED <<queueVars, todoVars, envVars>>
  BY DEF Send
<1>1. TrackedInv'
  <2>1. CASE \/ \E c \in Channels, hit \in BOOLEAN : EndPass(c, hit)
             \/ \E id \in Ids, r \in Rcpts :
                  ReportK(id, r) \/ ReportZ(id, r) \/ MarkFailed(id, r)
    <3>1. \/ \E c \in Channels, hit \in BOOLEAN : EndPass(c, hit)
          \/ \E id \in Ids, r \in Rcpts, mark \in BOOLEAN : EndDelivery(id, r, mark)
      BY <2>1 DEF ReportK, ReportZ, MarkFailed
    <3>2. spc \in {"idle", "mark"} /\ TrackedInv
      BY <2>1 DEF EndPass, ReportK, ReportZ, MarkFailed, Idle, SchedulingInv
    <3> QED
      BY <3>1, <3>2, EndTracked
  <2>2. CASE SendExit
    BY <2>2 DEF SendExit, GoDown, TrackedInv, Staying
  <2> QED
    BY <2>1, <2>2, BeginTracked, MessDoneTracked, CleanupTracked DEF SchedulingInv, SendStep
<1>2. \A c \in Channels, id \in Ids : <<c, id>> \in files' => <<c, id>> \in files
  BY SendFiles
<1>3. ChansInv'
  BY <1>2, ChansFrame DEF SchedulingInv, todoVars
<1> QED
  BY <1>1, <1>3 DEF SchedulingInv

-----------------------------------------------------------------------------
(* The others.                                                             *)

(* pqstart() makes an entry for each channel file, and for each message    *)
(* that has none.                                                          *)
LEMMA StartScheduling ==
  ASSUME Typed, SchedulingInv, Start
  PROVE  SchedulingInv'
<1>1. /\ pqchan' = {x \in Channels \X Ids : Scheduled(x[1], x[2])}
      /\ pqdone' = {id \in Ids : Finished(id)}
      /\ files' = files /\ tpc' = "idle" /\ treports' = {}
  BY DEF Start, SendStart, dirVars
<1>2. TrackedInv'
  <2> SUFFICES ASSUME NEW id \in Ids, Preprocessed(id)' PROVE Tracked(id)'
    BY DEF TrackedInv
  <2>1. Has("info", id) /\ ~Has("todo", id)
    BY <1>1 DEF Preprocessed, Has
  <2>2. ASSUME NEW c \in Channels, Has(c, id)' PROVE ChanKnown(c, id)'
    <3>1. <<c, id>> \in pqchan'
      BY <1>1, <2>1, <2>2 DEF Scheduled, Has
    <3> QED
      BY <3>1 DEF ChanKnown
  <2>3. HasChan(id)' \/ id \in pqdone'
    BY <1>1, <2>1 DEF Finished, HasChan, Has
  <2> QED
    BY <2>2, <2>3 DEF Tracked
<1>3. ChansInv'
  BY <1>1, ChansFrame DEF SchedulingInv
<1> QED
  BY <1>2, <1>3 DEF SchedulingInv

(* todo_del() does what the report says. *)
LEMMA ReadReportScheduling ==
  ASSUME Typed, QueueInv, SchedulingInv, ReadReport
  PROVE  SchedulingInv'
<1>1. PICK report \in treports :
        /\ TodoDel(report[1], report[2]) /\ treports' = treports \ {report}
        /\ UNCHANGED <<tpc, tid, tchan, tstop>>
  BY DEF ReadReport
<1>2. PICK x \in Ids, chans \in SUBSET Channels : report = <<x, chans>>
  BY DEF Typed, TypeOK, TodoTypeOK
<1>3. UNCHANGED <<files, spc, sid, passid, del, exitasap>>
  BY <1>1 DEF TodoDel, dirVars
<1>4. ChansInv'
  BY <1>1, <1>3, ChansFrame DEF SchedulingInv
<1>5. TrackedInv'
  <2> SUFFICES ASSUME Staying', NEW id \in Ids, Preprocessed(id)' PROVE Tracked(id)'
    BY DEF TrackedInv
  <2>1. Staying /\ Preprocessed(id)
    BY <1>1, <1>3 DEF Staying, Preprocessed, Has
  <2>2. /\ pqchan' = pqchan \cup (chans \X {x})
        /\ pqdone' = IF chans = {} THEN pqdone \cup {x} ELSE pqdone
    BY <1>1, <1>2, <2>1 DEF TodoDel, Staying
  <2>3. CASE id = x
    <3>1. \A c \in Channels : (Has(c, x) => c \in chans) /\ (c \in chans => Has(c, x))
      BY <1>2 DEF SchedulingInv, ChansInv, QueueInv, ReportInv
    <3>2. \A c \in Channels : Has(c, id)' => ChanKnown(c, id)'
      BY <1>3, <2>2, <2>3, <3>1 DEF ChanKnown, Has
    <3>3. HasChan(id)' \/ id \in pqdone'
      BY <1>3, <2>2, <2>3, <3>1 DEF HasChan, Has
    <3> QED
      BY <3>2, <3>3 DEF Tracked
  <2>4. CASE id # x
    <3>1. Announced(id) => Announced(id)'
      BY <1>1, <1>2, <2>4 DEF Announced
    <3> QED
      BY <1>3, <2>1, <2>2, <3>1, TrackedFrame DEF SchedulingInv, TrackedInv, BeingDone
  <2> QED
    BY <2>3, <2>4
<1> QED
  BY <1>4, <1>5 DEF SchedulingInv

(* A daemon that leaves, or is told to, ends what was promised. *)
LEMMA LeavingScheduling ==
  ASSUME Typed, SchedulingInv,
         \/ SendDies \/ TodoDies \/ OrphanTodoExits \/ SendCleanDies \/ TodoCleanDies
         \/ ReadStop \/ NoticeTodoGone \/ Terminate \/ Reboot
  PROVE  SchedulingInv'
<1>1. /\ files' = files /\ treports' \subseteq treports
      /\ tpc' \in {"idle", "dead"} \/ UNCHANGED <<tpc, tid, tchan>>
  <2>1. CASE SendDies \/ TodoDies \/ OrphanTodoExits
    BY <2>1 DEF SendDies, TodoDies, OrphanTodoExits, dirVars
  <2>2. CASE SendCleanDies \/ TodoCleanDies \/ Terminate
    BY <2>2 DEF SendCleanDies, TodoCleanDies, Terminate, SigTerm, dirVars, todoVars
  <2>3. CASE ReadStop \/ NoticeTodoGone \/ Reboot
    BY <2>3 DEF ReadStop, NoticeTodoGone, TodoGone, Reboot, dirVars, todoVars
  <2> QED
    BY <2>1, <2>2, <2>3
<1>2. ~Staying'
  BY DEF SendDies, TodoDies, OrphanTodoExits, SendCleanDies, TodoCleanDies, ReadStop,
     NoticeTodoGone, TodoGone, Terminate, SigTerm, Reboot, GoDown, Staying
<1>3. ChansInv'
  BY <1>1, ChansFrame DEF SchedulingInv
<1> QED
  BY <1>2, <1>3 DEF SchedulingInv, TrackedInv

(* Neither reports of spawners nor the time nor pid/ files concern it, and *)
(* an orphaned qmail-clean unlinks todo/ only after qmail-todo has died.   *)
LEMMA AroundScheduling ==
  ASSUME Typed, QueueInv, SchedulingInv,
         \/ \E id \in Ids, r \in Rcpts, report \in Report : Spawner(id, r, report)
         \/ (\E id \in Ids : ReapPid(id) \/ Expire(id))
         \/ Tick \/ LateUnlink \/ UNCHANGED vars
  PROVE  SchedulingInv'
<1>1. UNCHANGED <<tpc, tid, tchan, tstop, treports, spc, sid, pqchan, pqdone, passid, exitasap>>
  BY DEF Spawner, SpawnerReports, ReapPid, CleanupPid, Expire, Tick, LateUnlink, vars,
     todoVars, sendVars, memVars, restVars
<1>2. \A id \in Ids, r \in Rcpts : del[id][r] # "none" => del'[id][r] # "none"
  <2>1. ASSUME NEW x \in Ids, NEW q \in Rcpts, NEW report \in Report, Spawner(x, q, report)
        PROVE  \A id \in Ids, r \in Rcpts : del[id][r] # "none" => del'[id][r] # "none"
    <3>1. del' = [del EXCEPT ![x][q] = report] /\ report # "none"
      BY <2>1 DEF Spawner, SpawnerReports, Report
    <3> QED
      BY <3>1 DEF Typed, TypeOK, SendTypeOK
  <2>2. CASE ~\E id \in Ids, r \in Rcpts, report \in Report : Spawner(id, r, report)
    <3>1. del' = del
      BY <2>2 DEF ReapPid, CleanupPid, Expire, Tick, LateUnlink, vars, sendVars, memVars,
         restVars
    <3> QED
      BY <3>1
  <2> QED
    BY <2>1, <2>2
<1>3. /\ \A d \in {"info", "local", "remote"}, id \in Ids :
           <<d, id>> \in files' <=> <<d, id>> \in files
      /\ tpc = "dead" \/ \A id \in Ids : <<"todo", id>> \in files' <=> <<"todo", id>> \in files
  <2>1. CASE LateUnlink
    <3>1. PICK f \in late : files' = files \ {f}
      BY <2>1 DEF LateUnlink
    <3>2. PICK d \in Directories, x \in Ids : f = <<d, x>>
      BY DEF Typed, TypeOK
    <3>3. d \in {"mess", "intd", "todo"} /\ (d = "todo" => tpc = "dead")
      BY <3>1, <3>2 DEF QueueInv, LateInv
    <3> QED
      BY <3>1, <3>2, <3>3
  <2>2. CASE ~LateUnlink
    BY <2>2 DEF Spawner, SpawnerReports, ReapPid, CleanupPid, Expire, Tick, vars, dirVars, Unlink
  <2> QED
    BY <2>1, <2>2
<1>4. ChansInv'
  BY <1>1, <1>3, ChansFrame DEF SchedulingInv, Channels
<1>5. TrackedInv'
  <2>1. CASE tpc = "dead"
    BY <1>1, <2>1 DEF TrackedInv, Staying
  <2>2. CASE tpc # "dead"
    BY <1>1, <1>2, <1>3, <2>2, QuietTracked
       DEF SchedulingInv, Staying, Preprocessed, Has, Announced, BeingDone, Channels
  <2> QED
    BY <2>1, <2>2
<1> QED
  BY <1>4, <1>5 DEF SchedulingInv

-----------------------------------------------------------------------------

(* Every step keeps all preprocessed messages tracked. *)
LEMMA NextScheduling ==
  ASSUME Typed, QueueInv, SchedulingInv, [Next]_vars
  PROVE  SchedulingInv'
<1>1. CASE \E m \in Msgs : Queue(m)
  BY <1>1, QueueScheduled
<1>2. CASE Todo
  BY <1>2, TodoChans, TodoTracked DEF SchedulingInv
<1>3. CASE Send \/ Start \/ ReadReport
  BY <1>3, SendScheduling, StartScheduling, ReadReportScheduling
<1>4. CASE \/ SendDies \/ TodoDies \/ OrphanTodoExits \/ SendCleanDies \/ TodoCleanDies
           \/ ReadStop \/ NoticeTodoGone \/ Terminate \/ Reboot
  BY <1>4, LeavingScheduling
<1>5. CASE \/ \E id \in Ids, r \in Rcpts, report \in Report : Spawner(id, r, report)
           \/ (\E id \in Ids : ReapPid(id) \/ Expire(id))
           \/ Tick \/ LateUnlink \/ UNCHANGED vars
  BY <1>5, AroundScheduling
<1> QED
  BY <1>1, <1>2, <1>3, <1>4, <1>5 DEF Next

(* qmail-send does not forget a preprocessed message: the head of pqdone   *)
(* that messdone() takes, the entry that pass_dochan() takes and the       *)
(* reference that job_close() gives up are replaced before the handler     *)
(* ends, and todo_del() learns of the channel files that qmail-todo made   *)
(* (qmail-send.c:388-392 on pqdone and pqchan).                            *)
THEOREM AlwaysScheduling ==
  ASSUME ~StaleBacklog PROVE Spec => []Scheduling
<1>1. Init => SchedulingInv
  BY DEF Init, TodoInit, SendInit, SchedulingInv, ChansInv, TrackedInv, Staying
<1>2. Typed /\ QueueInv /\ SchedulingInv /\ [Next]_vars => SchedulingInv'
  BY NextScheduling
<1>3. SchedulingInv => Scheduling
  BY TrackedScheduled DEF SchedulingInv
<1> QED
  BY <1>1, <1>2, <1>3, AlwaysTyped, AlwaysQueueInv, PTL DEF Spec

-----------------------------------------------------------------------------
(***************************************************************************)
(* QueuedIsDurable holds in every behaviour of MailSystem, for all         *)
(* constants: the order of fsync, link and unlink in qmail-queue and       *)
(* qmail-todo is such that no crash of the machine tears what the queue    *)
(* depends on.  QueueInv says who owns a file meanwhile.                   *)
(***************************************************************************)

Clean(d, id) == <<d, id>> \notin dirty

(* What qmail-queue has synced before its next step. *)
WriterSynced ==
  \A m \in Msgs :
    /\ wpc[m] \in {"intd", "env", "todo"} => Clean("mess", wid[m])
    /\ wpc[m] = "todo" => Clean("intd", wid[m])

(* What qmail-todo has synced, or has removed and not made again. *)
TodoSynced ==
  /\ tpc \in {"unremote", "uninfo", "info", "copy", "sync_info", "sync_chan"} =>
       Clean("local", tid) \/ "local" \in tchan
  /\ tpc \in {"uninfo", "info", "copy", "sync_info", "sync_chan"} =>
       Clean("remote", tid) \/ "remote" \in tchan
  /\ tpc \in {"sync_chan", "clean_intd", "clean_todo"} => Clean("info", tid)
  /\ tpc \in {"clean_intd", "clean_todo"} => \A c \in Channels : Clean(c, tid)

(* A todo/ file goes late only if it was ready to go. *)
LateSynced ==
  \A id \in Ids : <<"todo", id>> \in late =>
    Clean("info", id) /\ \A c \in Channels : Clean(c, id)

DurableInv == WriterSynced /\ TodoSynced /\ LateSynced /\ QueuedIsDurable

-----------------------------------------------------------------------------

(* todo/ stays as it is and info/ does not grow. *)
NothingNew ==
  \A id \in Ids : /\ <<"todo", id>> \in files' <=> <<"todo", id>> \in files
                  /\ <<"info", id>> \in files' => <<"info", id>> \in files

(* A step that writes no file, links none into todo/ or info/ and gives    *)
(* nobody a file to take care of keeps everything durable.                 *)
LEMMA DurableFrame ==
  ASSUME DurableInv, NothingNew, dirty' \subseteq dirty, UNCHANGED <<wpc, wid>>,
         tpc' \in {"idle", "dead", "report"} \/ UNCHANGED <<tpc, tid, tchan>>,
         \A id \in Ids : <<"todo", id>> \in late' => <<"todo", id>> \in late
  PROVE  DurableInv'
<1> USE DEF DurableInv, Clean
<1>1. WriterSynced'
  BY DEF WriterSynced
<1>2. TodoSynced'
  BY DEF TodoSynced
<1>3. LateSynced'
  BY DEF LateSynced
<1>4. QueuedIsDurable'
  BY DEF QueuedIsDurable, NothingNew, Has
<1> QED
  BY <1>1, <1>2, <1>3, <1>4

(* What qmail-send and the others unlink is neither in todo/ nor new.      *)
LEMMA UnlinkNothingNew ==
  ASSUME NEW d, NEW id, d # "todo", Unlink(d, id) PROVE NothingNew
BY DEF Unlink, NothingNew

-----------------------------------------------------------------------------
(* qmail-queue.                                                            *)

(* A new inode is one that nobody depends on.                              *)
LEMMA PidOpenDurable ==
  ASSUME Typed, QueueInv, DurableInv, NEW m \in Msgs, PidOpen(m),
         UNCHANGED <<todoVars, envVars>>
  PROVE  DurableInv'
<1>1. PICK id \in Ids :
        /\ Fresh(id) /\ wpc[m] = "start"
        /\ wpc' = [wpc EXCEPT ![m] = "link"] /\ wid' = [wid EXCEPT ![m] = id]
        /\ files' = files \cup {<<"pid", id>>}
        /\ dirty' = (dirty \ (Directories \X {id})) \cup {<<"mess", id>>}
  BY DEF PidOpen, Link
<1>2. /\ wpc \in [Msgs -> WriterPcs] /\ wid \in [Msgs -> Ids \cup {NoId}]
  BY DEF Typed, TypeOK, WriterTypeOK
<1>3. ~Has("todo", id) /\ ~Has("info", id)
  BY <1>1 DEF Fresh, QueueInv, LawfulInv, Lawful, Bare
<1>4. \A d, x : <<d, x>> \in dirty' => <<d, x>> \in dirty \/ x = id
  BY <1>1
<1>5. WriterSynced'
  <2>1. \A n \in Msgs : n # m /\ Live(n) => wid[n] # id
    BY <1>1 DEF Fresh
  <2>2. SUFFICES ASSUME NEW n \in Msgs, wpc'[n] \in {"intd", "env", "todo"}
                 PROVE  /\ <<"mess", wid'[n]>> \notin dirty'
                        /\ wpc'[n] = "todo" => <<"intd", wid'[n]>> \notin dirty'
    BY DEF WriterSynced, Clean
  <2>3. n # m /\ wpc'[n] = wpc[n] /\ wid'[n] = wid[n] /\ Live(n)
    BY <1>1, <1>2, <2>2 DEF Live
  <2> QED
    BY <1>4, <2>1, <2>2, <2>3 DEF DurableInv, WriterSynced, Clean
<1>6. TodoSynced'
  <2>1. tpc \in {"unremote", "uninfo", "info", "copy", "sync_info", "sync_chan",
                 "clean_intd", "clean_todo"} => tid # id
    BY <1>3 DEF QueueInv, TodoInv
  <2>2. tpc' = tpc /\ tid' = tid /\ tchan' = tchan
    BY DEF todoVars
  <2> QED
    BY <1>4, <2>1, <2>2 DEF DurableInv, TodoSynced, Clean
<1>7. LateSynced'
  BY <1>3, <1>4 DEF QueueInv, LateInv, DurableInv, LateSynced, Clean, envVars
<1>8. QueuedIsDurable'
  BY <1>1, <1>3, <1>4 DEF DurableInv, QueuedIsDurable, Has
<1> QED
  BY <1>5, <1>6, <1>7, <1>8 DEF DurableInv

(* qmail-queue links todo/ when both files are synced.                     *)
LEMMA QueueDurable ==
  ASSUME Typed, QueueInv, DurableInv, NEW m \in Msgs, Queue(m)
  PROVE  DurableInv'
<1> UNCHANGED <<todoVars, envVars>>
  BY DEF Queue
<1>1. CASE PidOpen(m)
  BY <1>1, PidOpenDurable
<1>2. ASSUME ~PidOpen(m) PROVE DurableInv'
  <2>1. /\ wpc \in [Msgs -> WriterPcs] /\ wid \in [Msgs -> Ids \cup {NoId}]
    BY DEF Typed, TypeOK, WriterTypeOK
  <2>2. Live(m) /\ wid' = wid /\ wid[m] \in Ids
    BY <1>2 DEF Queue, QmailQueueStep, LinkMess, UnlinkPid, WriteMess, OpenIntd,
       WriteEnvelope, LinkTodo, PullTrigger, Abandon, CleanupIntd, CleanupMess,
       WriterDies, Goto, Live, Typed, Working
  <2>3. PICK x \in Ids : x = wid[m]
    BY <2>2
  <2>4. WriterState(m) /\ \A n \in Msgs : n # m /\ Live(n) => wid[n] # x
    BY <2>2, <2>3 DEF QueueInv, WriterInv
  <2>5. \E pc \in WriterPcs : wpc' = [wpc EXCEPT ![m] = pc]
    BY <1>2 DEF Queue, QmailQueueStep, LinkMess, UnlinkPid, WriteMess, OpenIntd,
       WriteEnvelope, LinkTodo, PullTrigger, Abandon, CleanupIntd, CleanupMess,
       WriterDies, Goto, WriterPcs
  <2>6. \A n \in Msgs : n # m => wpc'[n] = wpc[n]
    BY <2>5
  <2>7. CASE WriteMess(m) \/ WriteEnvelope(m)
    <3>1. /\ files' = files /\ dirty' \subseteq dirty
          /\ \/ wpc' = [wpc EXCEPT ![m] = "intd"] /\ <<"mess", x>> \notin dirty'
             \/ /\ wpc[m] = "env"
                /\ wpc' = [wpc EXCEPT ![m] = "todo"] /\ <<"intd", x>> \notin dirty'
      BY <2>3, <2>7 DEF WriteMess, WriteEnvelope, Goto
    <3>2. WriterSynced'
      <4> SUFFICES ASSUME NEW n \in Msgs
                   PROVE  /\ wpc'[n] \in {"intd", "env", "todo"} =>
                               <<"mess", wid[n]>> \notin dirty'
                          /\ wpc'[n] = "todo" => <<"intd", wid[n]>> \notin dirty'
        BY <2>2 DEF WriterSynced, Clean
      <4>1. CASE n = m
        BY <2>1, <2>3, <3>1, <4>1 DEF DurableInv, WriterSynced, Clean
      <4>2. CASE n # m
        BY <2>6, <3>1, <4>2 DEF DurableInv, WriterSynced, Clean
      <4> QED
        BY <4>1, <4>2
    <3>3. TodoSynced' /\ LateSynced'
      BY <3>1 DEF DurableInv, TodoSynced, LateSynced, Clean, todoVars, envVars
    <3>4. QueuedIsDurable'
      BY <3>1 DEF DurableInv, QueuedIsDurable, Has
    <3> QED
      BY <3>2, <3>3, <3>4 DEF DurableInv
  <2>8. CASE OpenIntd(m)
    <3>1. /\ dirty' = dirty \cup {<<"intd", x>>}
          /\ files' = files \cup {<<"intd", x>>}
          /\ wpc[m] = "intd" /\ wpc' = [wpc EXCEPT ![m] = "env"]
      BY <2>3, <2>8 DEF OpenIntd, Goto, Link
    <3>2. ~Has("todo", x)
      BY <2>3, <2>4, <3>1 DEF WriterState, Bare
    <3>3. WriterSynced'
      <4> SUFFICES ASSUME NEW n \in Msgs
                   PROVE  /\ wpc'[n] \in {"intd", "env", "todo"} =>
                               <<"mess", wid[n]>> \notin dirty'
                          /\ wpc'[n] = "todo" => <<"intd", wid[n]>> \notin dirty'
        BY <2>2 DEF WriterSynced, Clean
      <4>1. CASE n = m
        BY <2>1, <2>3, <3>1, <4>1 DEF DurableInv, WriterSynced, Clean
      <4>2. CASE n # m
        BY <2>4, <2>6, <3>1, <4>2 DEF DurableInv, WriterSynced, Clean, Live
      <4> QED
        BY <4>1, <4>2
    <3>4. TodoSynced' /\ LateSynced'
      BY <3>1 DEF DurableInv, TodoSynced, LateSynced, Clean, Channels,
                  todoVars, envVars
    <3>5. QueuedIsDurable'
      BY <3>1, <3>2 DEF DurableInv, QueuedIsDurable, Has, Channels
    <3> QED
      BY <3>3, <3>4, <3>5 DEF DurableInv
  <2>9. CASE ~WriteMess(m) /\ ~WriteEnvelope(m) /\ ~OpenIntd(m)
    <3>1. dirty' = dirty /\ wpc'[m] \notin {"env", "todo"}
          /\ (wpc'[m] # "intd")
      BY <1>2, <2>1, <2>9 DEF Queue, QmailQueueStep, LinkMess, UnlinkPid,
         LinkTodo, PullTrigger, Abandon, CleanupIntd, CleanupMess, WriterDies,
         Goto, dirVars
    <3>2. WriterSynced'
      BY <2>2, <2>6, <3>1 DEF DurableInv, WriterSynced, Clean
    <3>3. TodoSynced' /\ LateSynced'
      BY <3>1 DEF DurableInv, TodoSynced, LateSynced, Clean, todoVars, envVars
    <3>4. CASE LinkTodo(m)
      <4>1. files' = files \cup {<<"todo", x>>} /\ wpc[m] = "todo"
        BY <2>3, <3>4 DEF LinkTodo, Link
      <4>2. <<"mess", x>> \notin dirty /\ <<"intd", x>> \notin dirty
        BY <2>3, <4>1 DEF DurableInv, WriterSynced, Clean
      <4>3. QueuedIsDurable'
        BY <3>1, <4>1, <4>2 DEF DurableInv, QueuedIsDurable, Has
      <4> QED
        BY <3>2, <3>3, <4>3 DEF DurableInv
    <3>5. CASE ~LinkTodo(m)
      <4>1. NothingNew
        BY <1>2, <2>9, <3>5 DEF Queue, QmailQueueStep, LinkMess, UnlinkPid,
           PullTrigger, Abandon, CleanupIntd, CleanupMess, WriterDies, Link,
           Unlink, NothingNew, dirVars
      <4>2. QueuedIsDurable'
        BY <3>1, <4>1 DEF DurableInv, QueuedIsDurable, NothingNew, Has
      <4> QED
        BY <3>2, <3>3, <4>2 DEF DurableInv
    <3> QED
      BY <3>4, <3>5
  <2> QED
    BY <2>7, <2>8, <2>9
<1> QED
  BY <1>1, <1>2

-----------------------------------------------------------------------------
(* qmail-todo.                                                             *)

(* The steps of todo_do() before the request to its qmail-clean change     *)
(* files and dirty in info/, local/ and remote/ of a message in todo/.     *)
LEMMA TodoWorkDurable ==
  ASSUME DurableInv, NEW x \in Ids, Has("todo", x), UNCHANGED <<wpc, wid, late>>,
         \A id : <<"todo", id>> \in files' <=> <<"todo", id>> \in files,
         \A id : id # x => (<<"info", id>> \in files' => <<"info", id>> \in files),
         \A d, id : <<d, id>> \in dirty' =>
           \/ <<d, id>> \in dirty
           \/ id = x /\ d \in {"info"} \cup Channels,
         \A id \in Ids : <<"todo", id>> \notin late, TodoSynced'
  PROVE  DurableInv'
<1>1. WriterSynced'
  BY DEF DurableInv, WriterSynced, Clean, Channels
<1>2. LateSynced'
  BY DEF LateSynced
<1>0. \A id \in Ids :
        /\ <<"todo", id>> \in files =>
             <<"mess", id>> \notin dirty /\ <<"intd", id>> \notin dirty
        /\ <<"info", id>> \in files /\ <<"todo", id>> \notin files =>
             \A d \in {"mess", "info"} \cup Channels : <<d, id>> \notin dirty
  BY DEF DurableInv, QueuedIsDurable, Has
<1>3. ASSUME NEW id \in Ids, <<"todo", id>> \in files'
      PROVE  <<"mess", id>> \notin dirty' /\ <<"intd", id>> \notin dirty'
  <2>1. <<"todo", id>> \in files
    BY <1>3
  <2>2. /\ <<"mess", id>> \in dirty' => <<"mess", id>> \in dirty
        /\ <<"intd", id>> \in dirty' => <<"intd", id>> \in dirty
    BY DEF Channels
  <2> QED
    BY <1>0, <2>1, <2>2
<1>4. ASSUME NEW id \in Ids, <<"info", id>> \in files', <<"todo", id>> \notin files',
             NEW d \in {"mess", "info"} \cup Channels
      PROVE  <<d, id>> \notin dirty'
  <2>1. <<"todo", id>> \notin files
    BY <1>4
  <2>2. id # x
    BY <2>1 DEF Has
  <2>3. <<"info", id>> \in files
    BY <1>4, <2>2
  <2>4. <<d, id>> \in dirty' => <<d, id>> \in dirty
    BY <2>2
  <2> QED
    BY <1>0, <2>1, <2>3, <2>4
<1>5. QueuedIsDurable'
  BY <1>3, <1>4 DEF QueuedIsDurable, Has
<1> QED
  BY <1>1, <1>2, <1>5 DEF DurableInv

(* qmail-todo has todo/ removed when info/, local/ and remote/ are synced. *)
LEMMA TodoDurable ==
  ASSUME Typed, QueueInv, DurableInv, Todo
  PROVE  DurableInv'
<1> UNCHANGED <<wpc, wid, late>>
  BY DEF Todo, queueVars, envVars
<1>1. ASSUME Fails \/ EndOfEnvelope \/ TodoLeaves \/ TodoReport \/ TodoStatMess
                   \/ \E id \in Ids : OpenTodo(id)
      PROVE  DurableInv'
  <2>1. files' = files /\ dirty' = dirty
    BY <1>1 DEF Fails, EndOfEnvelope, TodoLeaves, TodoReport, TodoStatMess,
                OpenTodo, dirVars
  <2>2. \/ tpc' \in {"idle", "dead", "stat", "unlocal"}
        \/ tpc = "copy" /\ tpc' = "sync_info" /\ UNCHANGED <<tid, tchan>>
    BY <1>1 DEF Fails, GiveUp, TodoGoto, EndOfEnvelope, TodoLeaves, TodoReport,
                TodoStatMess, OpenTodo
  <2>3. TodoSynced'
    BY <2>1, <2>2 DEF DurableInv, TodoSynced, Clean
  <2> QED
    BY <2>1, <2>3 DEF DurableInv, WriterSynced, LateSynced, QueuedIsDurable,
                      Clean, Has
<1>2. ASSUME ~Fails,
             \/ TodoUnlinkChan("local", "unlocal", "unremote")
             \/ TodoUnlinkChan("remote", "unremote", "uninfo")
             \/ TodoUnlinkInfo \/ TodoCreateInfo
             \/ \E r \in Rcpts : CopyRecipient(r)
             \/ TodoSyncInfo \/ TodoSyncChans
      PROVE  DurableInv'
  <2>1. tpc \in {"unlocal", "unremote", "uninfo", "info", "copy", "sync_info",
                 "sync_chan"}
    BY <1>2 DEF TodoUnlinkChan, TodoUnlinkInfo, TodoCreateInfo, CopyRecipient,
                TodoSyncInfo, TodoSyncChans
  <2>2. tid \in Ids /\ Has("todo", tid)
    BY <2>1 DEF QueueInv, TodoInv, Typed, Working
  <2>3. \A id \in Ids : <<"todo", id>> \notin late
    BY <2>1, NoLateTodo DEF QueueInv
  <2>4. tid' = tid
    BY <1>2 DEF TodoUnlinkChan, TodoUnlinkInfo, TodoCreateInfo, CopyRecipient,
                TodoSyncInfo, TodoSyncChans, TodoGoto
  <2> DEFINE Only(x) ==
        /\ \A id : <<"todo", id>> \in files' <=> <<"todo", id>> \in files
        /\ \A id : id # x => (<<"info", id>> \in files' => <<"info", id>> \in files)
        /\ \A d, id : <<d, id>> \in dirty' =>
             \/ <<d, id>> \in dirty
             \/ id = x /\ d \in {"info"} \cup Channels
  <2>5. ASSUME TodoUnlinkChan("local", "unlocal", "unremote")
        PROVE  Only(tid) /\ TodoSynced'
    <3>1. /\ files' = files \ {<<"local", tid>>} /\ dirty' = dirty \ {<<"local", tid>>}
          /\ tpc' = "unremote"
      BY <1>2, <2>5 DEF TodoUnlinkChan, Unlink, TodoGoto
    <3>2. TodoSynced'
      BY <2>4, <3>1 DEF TodoSynced, Clean
    <3> QED
      BY <3>1, <3>2
  <2>6. ASSUME TodoUnlinkChan("remote", "unremote", "uninfo")
        PROVE  Only(tid) /\ TodoSynced'
    <3>1. /\ files' = files \ {<<"remote", tid>>} /\ dirty' = dirty \ {<<"remote", tid>>}
          /\ tpc = "unremote" /\ tpc' = "uninfo" /\ tchan' = tchan
      BY <1>2, <2>6 DEF TodoUnlinkChan, Unlink, TodoGoto
    <3>2. TodoSynced'
      BY <2>4, <3>1 DEF DurableInv, TodoSynced, Clean
    <3> QED
      BY <3>1, <3>2
  <2>7. ASSUME TodoUnlinkInfo \/ TodoCreateInfo
        PROVE  Only(tid) /\ TodoSynced'
    <3>1. /\ files' \in {files \ {<<"info", tid>>}, files \cup {<<"info", tid>>}}
          /\ dirty' \in {dirty \ {<<"info", tid>>}, dirty \cup {<<"info", tid>>}}
          /\ tpc \in {"uninfo", "info"} /\ tpc' \in {"info", "copy"} /\ tchan' = tchan
      BY <1>2, <2>7 DEF TodoUnlinkInfo, TodoCreateInfo, Unlink, Link, TodoGoto
    <3>2. TodoSynced'
      BY <2>4, <3>1 DEF DurableInv, TodoSynced, Clean
    <3> QED
      BY <3>1, <3>2
  <2>8. ASSUME NEW r \in Rcpts, CopyRecipient(r)
        PROVE  Only(tid) /\ TodoSynced'
    <3>1. ChannelOf[r] \in {"local", "remote"}
      BY EnvelopeAssumption DEF Channels
    <3>2. PICK c \in Channels : c = ChannelOf[r]
      BY <3>1 DEF Channels
    <3>3. /\ files' = files \cup {<<c, tid>>} /\ dirty' = dirty \cup {<<c, tid>>}
          /\ tpc = "copy" /\ tpc' = "copy" /\ tchan' = tchan \cup {c}
      BY <1>2, <2>8, <3>2 DEF CopyRecipient, Link, TodoGoto
    <3>4. TodoSynced'
      BY <2>4, <3>2, <3>3 DEF DurableInv, TodoSynced, Clean, Channels
    <3>5. Only(tid)
      BY <3>2, <3>3 DEF Channels
    <3> QED
      BY <3>4, <3>5
  <2>9. ASSUME TodoSyncInfo
        PROVE  Only(tid) /\ TodoSynced'
    <3>1. /\ files' = files /\ dirty' = dirty \ {<<"info", tid>>}
          /\ tpc = "sync_info" /\ tpc' = "sync_chan" /\ tchan' = tchan
      BY <1>2, <2>9 DEF TodoSyncInfo, TodoGoto
    <3>2. TodoSynced'
      BY <2>4, <3>1 DEF DurableInv, TodoSynced, Clean
    <3> QED
      BY <3>1, <3>2
  <2>10. ASSUME TodoSyncChans
         PROVE  Only(tid) /\ TodoSynced'
    <3>1. /\ files' = files /\ dirty' = dirty \ (tchan \X {tid})
          /\ tpc = "sync_chan" /\ tpc' = "clean_intd"
      BY <1>2, <2>10 DEF TodoSyncChans, TodoGoto
    <3>2. Clean("info", tid) /\ \A c \in Channels : Clean(c, tid) \/ c \in tchan
      BY <3>1 DEF DurableInv, TodoSynced, Channels
    <3>3. TodoSynced'
      BY <2>4, <3>1, <3>2 DEF TodoSynced, Clean
    <3> QED
      BY <3>1, <3>3
  <2>11. Only(tid) /\ TodoSynced'
    BY <1>2, <2>5, <2>6, <2>7, <2>8, <2>9, <2>10
  <2>12. PICK x \in Ids : x = tid
    BY <2>2
  <2> QED
    BY <2>2, <2>3, <2>11, <2>12, TodoWorkDurable
<1>3. ASSUME ~Fails, TodoCleanIntd
      PROVE  DurableInv'
  <2>1. /\ Unlink("intd", tid) /\ tpc = "clean_intd" /\ tpc' = "clean_todo"
        /\ UNCHANGED <<dirty, tid, tchan>>
    BY <1>3 DEF TodoCleanIntd, TodoGoto
  <2>2. PICK x \in Ids : x = tid
    BY <2>1 DEF Typed, Working
  <2>3. files' = files \ {<<"intd", x>>}
    BY <2>1, <2>2 DEF Unlink
  <2>4. TodoSynced'
    BY <2>1 DEF DurableInv, TodoSynced, Clean
  <2> QED
    BY <2>1, <2>3, <2>4 DEF DurableInv, WriterSynced, LateSynced,
       QueuedIsDurable, Clean, Has
<1>4. ASSUME ~Fails, TodoCleanTodo
      PROVE  DurableInv'
  <2>1. /\ Unlink("todo", tid) /\ tpc = "clean_todo" /\ tpc' = "report"
        /\ UNCHANGED <<dirty, tid, tchan>>
    BY <1>4 DEF TodoCleanTodo, TodoGoto
  <2>2. PICK x \in Ids : x = tid
    BY <2>1 DEF Typed, Working
  <2>3. files' = files \ {<<"todo", x>>}
    BY <2>1, <2>2 DEF Unlink
  <2>4. Has("todo", x)
    BY <2>1, <2>2 DEF QueueInv, TodoInv
  <2>5. \A d \in {"mess", "info"} \cup Channels : <<d, x>> \notin dirty
    BY <2>1, <2>2, <2>4 DEF DurableInv, TodoSynced, QueuedIsDurable, Clean
  <2>6. QueuedIsDurable'
    BY <2>1, <2>3, <2>5 DEF DurableInv, QueuedIsDurable, Has
  <2>7. TodoSynced'
    BY <2>1 DEF TodoSynced
  <2> QED
    BY <2>1, <2>6, <2>7 DEF DurableInv, WriterSynced, LateSynced, Clean
<1> QED
  BY <1>1, <1>2, <1>3, <1>4 DEF Todo, QmailTodoStep

-----------------------------------------------------------------------------
(* qmail-send, deaths, and time.                                           *)

(* qmail-send writes nothing that has to be synced, and links only bounce/. *)
LEMMA SendNothingNew ==
  ASSUME Send PROVE NothingNew /\ dirty' = dirty
<1>1. ASSUME NEW c \in Channels, NEW id, NEW busy, NEW hit, NEW left, NEW recs,
             JobClose(c, id, busy, hit, left, recs)
      PROVE  NothingNew
  BY <1>1, JobCloseEffect, UnlinkNothingNew DEF NothingNew, Channels
<1>2. ASSUME NEW id \in Ids, NEW r \in Rcpts, NEW mark \in BOOLEAN,
             EndDelivery(id, r, mark)
      PROVE  NothingNew /\ dirty' = dirty
  <2>1. ChannelOf[r] \in Channels
    BY EnvelopeAssumption
  <2>2. \E busy, hit, left, recs : JobClose(ChannelOf[r], id, busy, hit, left, recs)
    BY <1>2 DEF EndDelivery
  <2> QED
    BY <1>1, <1>2, <2>1, <2>2 DEF EndDelivery
<1>3. ASSUME NEW id \in Ids, NEW r \in Rcpts,
             ReportK(id, r) \/ ReportZ(id, r) \/ ReportD(id, r) \/ MarkFailed(id, r)
      PROVE  NothingNew /\ dirty' = dirty
  <2>1. CASE ReportD(id, r)
    BY <2>1 DEF ReportD, Link, NothingNew
  <2> QED
    BY <1>2, <1>3, <2>1 DEF ReportK, ReportZ, MarkFailed
<1>4. ASSUME NEW c \in Channels, NEW hit \in BOOLEAN, EndPass(c, hit)
      PROVE  NothingNew /\ dirty' = dirty
  <2>1. \E id, busy, left, recs : JobClose(c, id, busy, hit, left, recs)
    BY <1>4 DEF EndPass
  <2> QED
    BY <1>1, <1>4, <2>1 DEF EndPass
<1>5. ASSUME \/ \E c \in Channels, id \in Ids : OpenPass(c, id)
             \/ \E c \in Channels, r \in Rcpts : ReadRecipient(c, r)
             \/ \E id \in Ids : MessDone(id) \/ CleanupOld(id)
             \/ MessDoneStat("stat_local", "local", FALSE, "stat_remote")
             \/ MessDoneStat("stat_remote", "remote", FALSE, "stat_todo")
             \/ MessDoneStat("stat_todo", "todo", FALSE, "stat_info")
             \/ MessDoneStat("stat_info", "info", TRUE, "bounce")
             \/ InjectBounce
             \/ CleanupStat("old_info", "info", "old_todo")
             \/ CleanupStat("old_todo", "todo", "clean_intd")
             \/ SendExit
      PROVE  NothingNew /\ dirty' = dirty
  BY <1>5 DEF OpenPass, ReadRecipient, MessDone, CleanupOld, MessDoneStat,
     InjectBounce, CleanupStat, SendExit, dirVars, NothingNew
<1>6. ASSUME \/ UnlinkBounce \/ UnlinkInfo
             \/ CleanFile("clean_intd", "intd", "clean_mess")
             \/ CleanFile("clean_mess", "mess", "idle")
      PROVE  NothingNew /\ dirty' = dirty
  BY <1>6, UnlinkNothingNew
     DEF UnlinkBounce, UnlinkInfo, CleanFile, dirVars, NothingNew
<1> QED
  BY <1>3, <1>4, <1>5, <1>6 DEF Send, SendStep

(* A qmail-clean that outlives qmail-todo unlinks todo/ as it should. *)
LEMMA TodoDiesDurable ==
  ASSUME Typed, QueueInv, DurableInv, TodoDies
  PROVE  DurableInv'
<1>1. UNCHANGED <<files, dirty, wpc, wid>> /\ tpc' = "dead"
  BY DEF TodoDies, dirVars, queueVars
<1>2. LateSynced'
  <2> SUFFICES ASSUME NEW id \in Ids, <<"todo", id>> \in late'
               PROVE  Clean("info", id) /\ \A c \in Channels : Clean(c, id)
    BY <1>1 DEF LateSynced, Clean
  <2>1. CASE <<"todo", id>> \in late
    BY <2>1 DEF DurableInv, LateSynced
  <2>2. CASE <<"todo", id>> \notin late
    <3>0. <<"todo", id>> \in Requested(tpc, tid, "todo")
      BY <2>2 DEF TodoDies
    <3>1. tpc \in {"clean_intd", "clean_todo"} /\ tid = id
      <4>1. CASE tpc = "clean_intd"
        BY <3>0, <4>1 DEF Requested
      <4>2. CASE tpc \in {"clean_mess", "clean_todo"}
        BY <3>0, <4>2 DEF Requested, Typed, TypeOK, TodoTypeOK, TodoPcs
      <4>3. CASE tpc \notin {"clean_intd", "clean_mess", "clean_todo"}
        BY <3>0, <4>3 DEF Requested
      <4> QED
        BY <4>1, <4>2, <4>3
    <3> QED
      BY <3>1 DEF DurableInv, TodoSynced
  <2> QED
    BY <2>1, <2>2
<1> QED
  BY <1>1, <1>2 DEF DurableInv, WriterSynced, TodoSynced, QueuedIsDurable, Clean, Has

(* ... and when it does, info/ and the channel files are synced. *)
LEMMA LateUnlinkDurable ==
  ASSUME Typed, QueueInv, DurableInv, LateUnlink
  PROVE  DurableInv'
<1>1. PICK f \in late : files' = files \ {f} /\ late' = late \ {f}
  BY DEF LateUnlink
<1>2. UNCHANGED <<dirty, wpc, wid, tpc, tid, tchan>>
  BY DEF LateUnlink, queueVars, todoVars
<1>3. WriterSynced' /\ TodoSynced' /\ LateSynced'
  BY <1>1, <1>2 DEF DurableInv, WriterSynced, TodoSynced, LateSynced, Clean
<1>4. ASSUME NEW id \in Ids, f = <<"todo", id>>
      PROVE  \A d \in {"mess", "info"} \cup Channels : Clean(d, id)
  BY <1>1, <1>4 DEF DurableInv, LateSynced, QueuedIsDurable, QueueInv, LateInv, Clean
<1>5. QueuedIsDurable'
  BY <1>1, <1>2, <1>4 DEF DurableInv, QueuedIsDurable, Clean, Has
<1> QED
  BY <1>3, <1>5 DEF DurableInv

(* After a reboot everything that is left is on disk. *)
LEMMA RebootDurable ==
  ASSUME Reboot PROVE DurableInv'
<1>1. dirty' = {}
  BY DEF Reboot
<1> QED
  BY <1>1 DEF DurableInv, WriterSynced, TodoSynced, LateSynced, QueuedIsDurable, Clean

(* Every step of the system keeps what is queued durable. *)
LEMMA NextDurable ==
  ASSUME Typed, QueueInv, DurableInv, [Next]_vars
  PROVE  DurableInv'
<1>1. CASE (\E m \in Msgs : Queue(m)) \/ Todo \/ TodoDies \/ LateUnlink \/ Reboot
  BY <1>1, QueueDurable, TodoDurable, TodoDiesDurable, LateUnlinkDurable,
     RebootDurable
<1>2. CASE Send
  BY <1>2, SendNothingNew, DurableFrame DEF Send, queueVars, todoVars, envVars
<1>3. CASE \E id \in Ids : ReapPid(id)
  <2>1. NothingNew /\ dirty' = dirty
    BY <1>3, UnlinkNothingNew DEF ReapPid, CleanupPid
  <2> QED
    BY <1>3, <2>1, DurableFrame DEF ReapPid, queueVars, todoVars, envVars
<1>4. CASE SendDies
  <2>1. UNCHANGED <<files, dirty, wpc, wid, tpc, tid, tchan>>
    BY <1>4 DEF SendDies, dirVars, queueVars
  <2>2. \A id : <<"todo", id>> \in late' => <<"todo", id>> \in late
    BY <1>4 DEF SendDies, Requested
  <2> QED
    BY <2>1, <2>2, DurableFrame DEF NothingNew
<1>5. CASE \/ Start \/ ReadReport \/ ReadStop \/ NoticeTodoGone
           \/ OrphanTodoExits \/ SendCleanDies \/ TodoCleanDies \/ Terminate
           \/ Tick \/ (\E id \in Ids : Expire(id))
           \/ \E id \in Ids, r \in Rcpts, report \in Report : Spawner(id, r, report)
           \/ UNCHANGED vars
  <2>1. UNCHANGED <<files, dirty, wpc, wid, late>>
    BY <1>5 DEF Start, SendStart, ReadReport, TodoDel, ReadStop, NoticeTodoGone,
       TodoGone, OrphanTodoExits, SendCleanDies, TodoCleanDies, Terminate, SigTerm,
       Tick, Expire, Spawner, SpawnerReports, vars, dirVars, queueVars, envVars
  <2>2. tpc' \in {"idle", "dead"} \/ UNCHANGED <<tpc, tid, tchan>>
    BY <1>5 DEF Start, ReadReport, ReadStop, NoticeTodoGone,
       OrphanTodoExits, SendCleanDies, TodoCleanDies, Terminate,
       Tick, Expire, Spawner, vars, todoVars
  <2> QED
    BY <2>1, <2>2, DurableFrame DEF NothingNew
<1> QED
  BY <1>1, <1>2, <1>3, <1>4, <1>5 DEF Next

(* Every reachable state is durable, and what its processes have synced is *)
(* what they rely on.                                                      *)
THEOREM AlwaysDurableInv ==
  ASSUME ~StaleBacklog PROVE Spec => []DurableInv
<1>1. Init => DurableInv
  BY DEF Init, QueueInit, WriterInit, TodoInit, DurableInv, WriterSynced,
     TodoSynced, LateSynced, QueuedIsDurable, Clean, Has
<1>2. Typed /\ QueueInv /\ DurableInv /\ [Next]_vars => DurableInv'
  BY NextDurable
<1> QED
  BY <1>1, <1>2, AlwaysTyped, AlwaysQueueInv, PTL DEF Spec

(* Whatever a crash of the machine may tear is not what the queue depends  *)
(* on: qmail-queue has synced the message and the envelope when it links   *)
(* todo/ (qmail-queue.c main()), and qmail-todo has synced info/, local/   *)
(* and remote/ when todo/ goes (qmail-todo.c todo_do()), however the two,  *)
(* their qmail-cleans and their deaths are interleaved.                    *)
THEOREM AlwaysDurable ==
  ASSUME ~StaleBacklog PROVE Spec => []QueuedIsDurable
<1>1. DurableInv => QueuedIsDurable
  BY DEF DurableInv
<1> QED
  BY <1>1, AlwaysDurableInv, PTL

-----------------------------------------------------------------------------
(***************************************************************************)
(* NoLoss holds in every behaviour of MailSystem, for all constants: an    *)
(* accepted message is settled for each of its recipients or the queue     *)
(* directory still carries it.                                             *)
(***************************************************************************)

(* r has been delivered whichever message id holds. *)
Delivered(id, r) == \A m \in Msgs : held[id] = m => r \in delivered[m]

Done(id, r) == Delivered(id, r) \/ (Has("bounce", id) /\ r \in noted[id])

(* The inode of a qmail-queue holds its message. *)
HolderInv ==
  \A m \in Msgs :
    /\ Live(m) => held[wid[m]] = m
    /\ m \in accepted => wpc[m] \in {"trigger", "dead"}

(* T records are in a file. *)
RecordInv == \A id \in Ids : \A r \in pending[id] : Has(ChannelOf[r], id)

(* qmail-todo has copied each recipient or is going to; a todo/ file goes  *)
(* late only if it has copied them all.                                    *)
CopyInv ==
  /\ tpc \in {"stat", "unlocal", "unremote", "uninfo", "info"} =>
       Envelope(tid) \subseteq tleft
  /\ tpc \in {"copy", "sync_info", "sync_chan", "clean_intd", "clean_todo"} =>
       Envelope(tid) \subseteq tleft \cup pending[tid]
  /\ tpc \in {"sync_info", "sync_chan", "clean_intd", "clean_todo"} => tleft = {}
  /\ \A id \in Ids : <<"todo", id>> \in late => Envelope(id) \subseteq pending[id]

(* Of a file that was read to its end, what the job does not count as to   *)
(* do is done; of one that is being read, what was not read is left too.   *)
JobInv ==
  \A c \in Channels, id \in Ids :
    /\ <<c, id>> \in hiteof =>
         /\ S5(id) /\ Has(c, id)
         /\ \A r \in pending[id] \cap OfChannel(c) : r \in undone[id] \/ Done(id, r)
    /\ passid[c] = id =>
         \A r \in pending[id] \cap OfChannel(c) :
           r \in unread[c] \/ r \in undone[id] \/ Done(id, r)

(* What is about to be marked is done; what bounce/ lists when it is about *)
(* to be unlinked has been reported.                                       *)
FateInv ==
  /\ \A id \in Ids, r \in Rcpts :
       /\ del[id][r] = "K" => Delivered(id, r)
       /\ del[id][r] = "noted" => Has("bounce", id) /\ r \in noted[id]
  /\ spc = "unbounce" =>
       \A m \in Msgs : held[sid] = m => noted[sid] \subseteq bounced[m] \cup discarded[m]

(* The envelope was synced before it went. *)
WholeInv ==
  \A id \in Ids : Has("info", id) /\ ~Has("todo", id) => Clean("intd", id)

PromiseInv ==
  HolderInv /\ RecordInv /\ CopyInv /\ JobInv /\ FateInv /\ WholeInv /\ NoLoss

-----------------------------------------------------------------------------
(* Frames.                                                                 *)

(* What has become of a recipient is never taken back. *)
FatesGrow ==
  \A m \in Msgs :
    /\ delivered[m] \subseteq delivered'[m] /\ bounced[m] \subseteq bounced'[m]
    /\ discarded[m] \subseteq discarded'[m] /\ forgotten[m] \subseteq forgotten'[m]

(* NoLoss depends on what happens to the recipients the queue carries.     *)
LEMMA NoLossStep ==
  ASSUME NoLoss, FatesGrow, accepted' = accepted, accepted \subseteq Msgs,
         \A m \in accepted : \A r \in To[m] :
           Carried(m, r) => Carried(m, r)' \/ Settled(m, r)'
  PROVE  NoLoss'
<1>1. ASSUME NEW m \in accepted, NEW r \in To[m] PROVE Settled(m, r)' \/ Carried(m, r)'
  <2>1. Settled(m, r) => Settled(m, r)'
    BY DEF Settled, FatesGrow
  <2> QED
    BY <2>1 DEF NoLoss
<1> QED
  BY <1>1 DEF NoLoss

(* No file that matters is made or removed. *)
FilesKept ==
  \A id \in Ids :
    /\ \A d \in {"mess", "todo", "info", "bounce"} \cup Channels :
         <<d, id>> \in files' <=> <<d, id>> \in files
    /\ <<"intd", id>> \in files' => <<"intd", id>> \in files

(* Then what is known of the deliveries stays true ... *)
LEMMA JobKept ==
  ASSUME JobInv, FilesKept, FatesGrow, UNCHANGED <<held, pending, noted>>,
         UNCHANGED <<hiteof, passid, unread, undone>>
  PROVE  JobInv'
<1>1. \A id \in Ids : \A r : Done(id, r) => Done(id, r)'
  BY DEF Done, Delivered, FilesKept, FatesGrow, Has
<1>2. \A c \in Channels, id \in Ids : S5(id) /\ Has(c, id) => S5(id)' /\ Has(c, id)'
  BY DEF S5, Has, FilesKept
<1>3. ASSUME NEW c \in Channels, NEW id \in Ids, <<c, id>> \in hiteof'
      PROVE  /\ S5(id)' /\ Has(c, id)'
             /\ \A r \in pending'[id] \cap OfChannel(c) : r \in undone'[id] \/ Done(id, r)'
  BY <1>1, <1>2, <1>3 DEF JobInv
<1>4. ASSUME NEW c \in Channels, NEW id \in Ids, passid'[c] = id
      PROVE  \A r \in pending'[id] \cap OfChannel(c) :
               r \in unread'[c] \/ r \in undone'[id] \/ Done(id, r)'
  BY <1>1, <1>4 DEF JobInv
<1> QED
  BY <1>3, <1>4 DEF JobInv

(* ... and so does all the rest.                                           *)
LEMMA QuietPromise ==
  ASSUME Typed, PromiseInv, FilesKept, FatesGrow, dirty' \subseteq dirty,
         UNCHANGED <<held, pending, noted, accepted, wid>>,
         UNCHANGED <<hiteof, passid, unread, undone>>,
         \A m \in Msgs : \/ wpc'[m] = wpc[m]
                         \/ wpc'[m] = "dead"
                         \/ wpc'[m] \notin {"start", "dead"} /\ Live(m) /\ m \notin accepted,
         tpc' \in {"idle", "dead", "report"} \/ UNCHANGED <<tpc, tid, tleft>>,
         \A id \in Ids : <<"todo", id>> \in late' => <<"todo", id>> \in late,
         \A id \in Ids, r \in Rcpts :
           del'[id][r] \in {"K", "noted"} => del'[id][r] = del[id][r],
         spc' = "unbounce" =>
           \/ spc = "unbounce" /\ sid' = sid
           \/ \A m \in Msgs : held[sid'] = m =>
                noted[sid'] \subseteq bounced'[m] \cup discarded'[m]
  PROVE  PromiseInv'
<1> accepted \subseteq Msgs
  BY DEF Typed, TypeOK, WriterTypeOK
<1>1. HolderInv'
  BY DEF PromiseInv, HolderInv, Live
<1>2. RecordInv'
  <2>1. \A id \in Ids : pending[id] \subseteq Rcpts
    BY DEF Typed, TypeOK, QueueTypeOK
  <2> QED
    BY <2>1, EnvelopeAssumption DEF PromiseInv, RecordInv, FilesKept, Has
<1>3. CopyInv'
  BY DEF PromiseInv, CopyInv, Envelope
<1>4. JobInv'
  BY JobKept DEF PromiseInv
<1>5. FateInv'
  <2>1. ASSUME NEW id \in Ids, NEW r \in Rcpts
        PROVE  /\ del'[id][r] = "K" => Delivered(id, r)'
               /\ del'[id][r] = "noted" => Has("bounce", id)' /\ r \in noted'[id]
    BY <2>1 DEF PromiseInv, FateInv, Delivered, FatesGrow, FilesKept, Has
  <2>2. ASSUME spc' = "unbounce", NEW m \in Msgs, held'[sid'] = m
        PROVE  noted'[sid'] \subseteq bounced'[m] \cup discarded'[m]
    BY <2>2 DEF PromiseInv, FateInv, FatesGrow
  <2> QED
    BY <2>1, <2>2 DEF FateInv
<1>6. WholeInv'
  BY DEF PromiseInv, WholeInv, FilesKept, Clean, Has
<1>7. NoLoss'
  <2>1. ASSUME NEW m \in accepted, NEW r \in To[m], Carried(m, r)
        PROVE  Carried(m, r)'
    <3>1. wid[m] \in Ids
      BY <2>1 DEF Carried, Holds, Typed, TypeOK, WriterTypeOK
    <3>2. PICK id \in Ids : id = wid[m]
      BY <3>1
    <3>3. ChannelOf[r] \in Channels
      BY <2>1, EnvelopeAssumption
    <3> QED
      BY <2>1, <3>2, <3>3 DEF Carried, Holds, Has, FilesKept
  <2> QED
    BY <2>1, NoLossStep DEF PromiseInv
<1> QED
  BY <1>1, <1>2, <1>3, <1>4, <1>5, <1>6, <1>7 DEF PromiseInv

(* Nothing is promised about a message that is not queued. *)
LEMMA BarePromise ==
  ASSUME Typed, QueueInv, PromiseInv, NEW x \in Ids, Bare(x), Bare(x)',
         OnlyFilesOf(x), \A d, id : <<d, id>> \in dirty' => <<d, id>> \in dirty \/ id = x,
         UNCHANGED <<held, pending, noted, accepted, wid, tpc, tid, tleft>>,
         UNCHANGED <<hiteof, passid, unread, undone, del, fateVars, forgotten>>,
         \A m \in Msgs : Live(m)' => Live(m),
         \A m \in accepted : wpc'[m] \in {wpc[m], "dead"},
         \A id \in Ids : <<"todo", id>> \in late' => <<"todo", id>> \in late,
         spc' = "unbounce" => spc = "unbounce" /\ sid' = sid
  PROVE  PromiseInv'
<1>0. accepted \subseteq Msgs /\ \A id \in Ids : pending[id] \subseteq Rcpts
  BY DEF Typed, TypeOK, WriterTypeOK, QueueTypeOK
<1>1. HolderInv'
  BY <1>0 DEF PromiseInv, HolderInv
<1>2. pending[x] = {}
  <2>1. \A r \in Rcpts : ~Has(ChannelOf[r], x)
    BY EnvelopeAssumption DEF Bare, Channels
  <2> QED
    BY <1>0, <2>1 DEF PromiseInv, RecordInv
<1>3. RecordInv'
  BY <1>2 DEF PromiseInv, RecordInv, OnlyFilesOf, Has
<1>4. CopyInv'
  BY DEF PromiseInv, CopyInv, Envelope
<1>5. ~S5(x)
  BY DEF S5, Bare
<1>6. \A c \in Channels : passid[c] # x /\ <<c, x>> \notin hiteof
  BY <1>5 DEF QueueInv, KnownInv, PromiseInv, JobInv
<1>7. \A id \in Ids : id # x =>
        /\ S5(id) => S5(id)'
        /\ \A d : Has(d, id) => Has(d, id)'
        /\ \A r : Done(id, r) => Done(id, r)'
  BY DEF S5, OnlyFilesOf, Has, Done, Delivered, fateVars
<1>8. JobInv'
  <2>1. ASSUME NEW c \in Channels, NEW id \in Ids, <<c, id>> \in hiteof'
        PROVE  /\ S5(id)' /\ Has(c, id)'
               /\ \A r \in pending'[id] \cap OfChannel(c) : r \in undone'[id] \/ Done(id, r)'
    BY <1>6, <1>7, <2>1 DEF PromiseInv, JobInv
  <2>2. ASSUME NEW c \in Channels, NEW id \in Ids, passid'[c] = id
        PROVE  \A r \in pending'[id] \cap OfChannel(c) :
                 r \in unread'[c] \/ r \in undone'[id] \/ Done(id, r)'
    BY <1>6, <1>7, <2>2 DEF PromiseInv, JobInv
  <2> QED
    BY <2>1, <2>2 DEF JobInv
<1>9. FateInv'
  <2>1. ASSUME NEW id \in Ids, NEW r \in Rcpts
        PROVE  /\ del'[id][r] = "K" => Delivered(id, r)'
               /\ del'[id][r] = "noted" => Has("bounce", id)' /\ r \in noted'[id]
    <3>1. del[id][r] # "none" => id # x
      BY <1>5 DEF QueueInv, KnownInv
    <3> QED
      BY <1>7, <3>1 DEF PromiseInv, FateInv, Delivered, fateVars
  <2>2. spc' = "unbounce" =>
          \A m \in Msgs : held'[sid'] = m =>
            noted'[sid'] \subseteq bounced'[m] \cup discarded'[m]
    BY DEF PromiseInv, FateInv, fateVars
  <2> QED
    BY <2>1, <2>2 DEF FateInv
<1>10. WholeInv'
  BY DEF PromiseInv, WholeInv, Bare, OnlyFilesOf, Clean, Has
<1>11. NoLoss'
  <2>1. FatesGrow
    BY DEF FatesGrow, fateVars
  <2>2. ASSUME NEW m \in accepted, NEW r \in To[m], Carried(m, r)
        PROVE  Carried(m, r)'
    <3>1. wid[m] # x
      BY <2>2 DEF Carried, Bare
    <3> QED
      BY <2>2, <3>1 DEF Carried, Holds, OnlyFilesOf, Has
  <2> QED
    BY <1>0, <2>1, <2>2, NoLossStep DEF PromiseInv
<1> QED
  BY <1>1, <1>3, <1>4, <1>8, <1>9, <1>10, <1>11 DEF PromiseInv

(* While a message is in todo/, its other files may come and go. *)
LEMMA TodoPromise ==
  ASSUME Typed, QueueInv, PromiseInv, NEW x \in Ids, Has("todo", x), Has("todo", x)',
         Has("mess", x)', OnlyFilesOf(x), RecordInv', CopyInv',
         \A d, id : <<d, id>> \in dirty' => <<d, id>> \in dirty \/ id = x,
         \A id \in Ids : id # x => pending'[id] = pending[id],
         UNCHANGED <<held, noted, queueVars, hiteof, passid, unread, undone>>,
         UNCHANGED <<spc, sid, del, fateVars, forgotten>>
  PROVE  PromiseInv'
<1>0. accepted \subseteq Msgs
  BY DEF Typed, TypeOK, WriterTypeOK
<1>1. HolderInv'
  BY DEF PromiseInv, HolderInv, queueVars, Live
<1>5. ~S5(x)
  BY DEF S5
<1>6. \A c \in Channels : passid[c] # x /\ <<c, x>> \notin hiteof
  BY <1>5 DEF QueueInv, KnownInv, PromiseInv, JobInv
<1>7. \A id \in Ids : id # x =>
        /\ S5(id) => S5(id)'
        /\ \A d : Has(d, id) => Has(d, id)'
        /\ \A r : Done(id, r) => Done(id, r)'
  BY DEF S5, OnlyFilesOf, Has, Done, Delivered, fateVars
<1>8. JobInv'
  <2>1. ASSUME NEW c \in Channels, NEW id \in Ids, <<c, id>> \in hiteof'
        PROVE  /\ S5(id)' /\ Has(c, id)'
               /\ \A r \in pending'[id] \cap OfChannel(c) : r \in undone'[id] \/ Done(id, r)'
    BY <1>6, <1>7, <2>1 DEF PromiseInv, JobInv
  <2>2. ASSUME NEW c \in Channels, NEW id \in Ids, passid'[c] = id
        PROVE  \A r \in pending'[id] \cap OfChannel(c) :
                 r \in unread'[c] \/ r \in undone'[id] \/ Done(id, r)'
    BY <1>6, <1>7, <2>2 DEF PromiseInv, JobInv
  <2> QED
    BY <2>1, <2>2 DEF JobInv
<1>9. FateInv'
  <2>1. ASSUME NEW id \in Ids, NEW r \in Rcpts
        PROVE  /\ del'[id][r] = "K" => Delivered(id, r)'
               /\ del'[id][r] = "noted" => Has("bounce", id)' /\ r \in noted'[id]
    <3>1. del[id][r] # "none" => id # x
      BY <1>5 DEF QueueInv, KnownInv
    <3> QED
      BY <1>7, <3>1 DEF PromiseInv, FateInv, Delivered, fateVars
  <2> QED
    BY <2>1 DEF PromiseInv, FateInv, fateVars
<1>10. WholeInv'
  BY DEF PromiseInv, WholeInv, OnlyFilesOf, Clean, Has
<1>11. NoLoss'
  <2>1. FatesGrow
    BY DEF FatesGrow, fateVars
  <2>2. ASSUME NEW m \in accepted, NEW r \in To[m], Carried(m, r)
        PROVE  Carried(m, r)'
    <3>1. wid'[m] = wid[m] /\ held' = held
      BY DEF queueVars
    <3>2. CASE wid[m] = x
      BY <2>2, <3>1, <3>2 DEF Carried, Holds, Has
    <3>3. CASE wid[m] # x
      <4>1. wid[m] \in Ids
        BY <2>2 DEF Carried, Holds, Typed, TypeOK, WriterTypeOK
      <4> QED
        BY <2>2, <3>1, <3>3, <4>1 DEF Carried, Holds, OnlyFilesOf, Has
    <3> QED
      BY <3>2, <3>3
  <2>3. accepted' = accepted
    BY DEF queueVars
  <2> QED
    BY <1>0, <2>1, <2>2, <2>3, NoLossStep DEF PromiseInv
<1> QED
  BY <1>1, <1>8, <1>9, <1>10, <1>11 DEF PromiseInv

-----------------------------------------------------------------------------
(* qmail-queue.                                                            *)

(* A new inode is one that carries nothing. *)
LEMMA PidOpenPromise ==
  ASSUME Typed, QueueInv, PromiseInv, NEW m \in Msgs, PidOpen(m),
         UNCHANGED <<todoVars, sendVars, envVars>>
  PROVE  PromiseInv'
<1>1. PICK x \in Ids :
        /\ Fresh(x) /\ wpc[m] = "start"
        /\ wpc' = [wpc EXCEPT ![m] = "link"] /\ wid' = [wid EXCEPT ![m] = x]
        /\ files' = files \cup {<<"pid", x>>}
        /\ dirty' = (dirty \ (Directories \X {x})) \cup {<<"mess", x>>}
        /\ held' = [held EXCEPT ![x] = m]
        /\ UNCHANGED <<pending, noted, accepted>>
  BY DEF PidOpen, Link
<1>2. /\ wpc \in [Msgs -> WriterPcs] /\ wid \in [Msgs -> Ids \cup {NoId}]
      /\ held \in [Ids -> Msgs \cup {NoMsg}] /\ accepted \subseteq Msgs
  BY DEF Typed, TypeOK, WriterTypeOK, QueueTypeOK
<1>3. ~Has("mess", x) /\ Bare(x)
  BY <1>1 DEF Fresh, QueueInv, LawfulInv, Lawful
<1>4. \A id \in Ids : id # x => held'[id] = held[id] /\ Envelope(id)' = Envelope(id)
  BY <1>1, <1>2 DEF Envelope
<1>5. HolderInv'
  <2>1. ASSUME NEW n \in Msgs, Live(n)'
        PROVE  held'[wid'[n]] = n
    <3>1. CASE n = m
      BY <1>1, <1>2, <3>1
    <3>2. CASE n # m
      <4>1. Live(n) /\ wid'[n] = wid[n]
        BY <1>1, <1>2, <2>1, <3>2 DEF Live
      <4>2. wid[n] \in Ids /\ wid[n] # x
        BY <1>1, <4>1 DEF Fresh, Typed, Working
      <4> QED
        BY <1>4, <4>1, <4>2 DEF PromiseInv, HolderInv
    <3> QED
      BY <3>1, <3>2
  <2>2. \A n \in Msgs : n \in accepted' => wpc'[n] \in {"trigger", "dead"}
    BY <1>1, <1>2 DEF PromiseInv, HolderInv
  <2> QED
    BY <2>1, <2>2 DEF HolderInv
<1>6. RecordInv'
  BY <1>1 DEF PromiseInv, RecordInv, Has
<1>7. CopyInv'
  <2>1. tpc \notin {"dead", "idle", "report"} => tid \in Ids /\ tid # x
    BY <1>3 DEF QueueInv, TodoInv, Bare, Typed, Working
  <2>2. \A id \in Ids : <<"todo", id>> \in late => id # x
    BY <1>3 DEF QueueInv, LateInv, Bare
  <2>3. UNCHANGED <<tpc, tid, tleft, late, pending>>
    BY <1>1 DEF todoVars, envVars
  <2>4. \A id \in Ids : <<"todo", id>> \in late' => Envelope(id)' \subseteq pending'[id]
    BY <1>4, <2>2, <2>3 DEF PromiseInv, CopyInv
  <2>5. CASE tpc \in {"dead", "idle", "report"}
    BY <2>3, <2>4, <2>5 DEF CopyInv
  <2>6. CASE tpc \notin {"dead", "idle", "report"}
    <3>1. PICK y \in Ids : y = tid /\ y # x
      BY <2>1, <2>6
    <3>2. Envelope(y)' = Envelope(y)
      BY <1>4, <3>1
    <3> QED
      BY <2>3, <2>4, <3>1, <3>2 DEF PromiseInv, CopyInv, Envelope
  <2> QED
    BY <2>5, <2>6
<1>8. \A id \in Ids : S5(id) => id # x
  BY <1>3 DEF S5, Bare
<1>9. \A id \in Ids : id # x =>
        /\ S5(id) => S5(id)'
        /\ \A d : Has(d, id) => Has(d, id)'
        /\ \A r : Delivered(id, r) => Delivered(id, r)'
        /\ \A r : Done(id, r) => Done(id, r)'
  BY <1>1, <1>4 DEF S5, Has, Done, Delivered, sendVars, fateVars
<1>10. JobInv'
  <2>1. ASSUME NEW c \in Channels, NEW id \in Ids, <<c, id>> \in hiteof'
        PROVE  /\ S5(id)' /\ Has(c, id)'
               /\ \A r \in pending'[id] \cap OfChannel(c) : r \in undone'[id] \/ Done(id, r)'
    BY <1>1, <1>8, <1>9, <2>1 DEF PromiseInv, JobInv, sendVars, memVars
  <2>2. ASSUME NEW c \in Channels, NEW id \in Ids, passid'[c] = id
        PROVE  \A r \in pending'[id] \cap OfChannel(c) :
                 r \in unread'[c] \/ r \in undone'[id] \/ Done(id, r)'
    BY <1>1, <1>8, <1>9, <2>2
       DEF PromiseInv, JobInv, QueueInv, KnownInv, sendVars, memVars
  <2> QED
    BY <2>1, <2>2 DEF JobInv
<1>11. FateInv'
  <2>1. ASSUME NEW id \in Ids, NEW r \in Rcpts
        PROVE  /\ del'[id][r] = "K" => Delivered(id, r)'
               /\ del'[id][r] = "noted" => Has("bounce", id)' /\ r \in noted'[id]
    <3>1. del' = del
      BY DEF sendVars, memVars
    <3>2. del[id][r] # "none" => id # x
      BY <1>8 DEF QueueInv, KnownInv
    <3> QED
      BY <1>1, <1>9, <3>1, <3>2 DEF PromiseInv, FateInv
  <2>2. ASSUME spc' = "unbounce", NEW n \in Msgs, held'[sid'] = n
        PROVE  noted'[sid'] \subseteq bounced'[n] \cup discarded'[n]
    <3>1. spc = "unbounce" /\ UNCHANGED <<sid, bounced, discarded>>
      BY <2>2 DEF sendVars, fateVars
    <3>2. S5(sid) /\ sid \in Ids
      BY <3>1 DEF QueueInv, SendInv, Eliminating, Typed, Working
    <3>3. held[sid] = n
      BY <1>4, <1>8, <2>2, <3>1, <3>2
    <3> QED
      BY <1>1, <3>1, <3>3 DEF PromiseInv, FateInv
  <2> QED
    BY <2>1, <2>2 DEF FateInv
<1>12. WholeInv'
  BY <1>1, <1>3 DEF PromiseInv, WholeInv, Bare, Clean, Has
<1>13. NoLoss'
  <2>1. FatesGrow
    BY DEF FatesGrow, sendVars, fateVars, envVars
  <2>2. ASSUME NEW n \in accepted, NEW r \in To[n], Carried(n, r)
        PROVE  Carried(n, r)'
    <3>1. n # m
      BY <1>1, <1>2, <2>2 DEF PromiseInv, HolderInv
    <3>2. n \in Msgs /\ wid'[n] = wid[n]
      BY <1>1, <1>2, <3>1
    <3>3. wid[n] # x /\ wid[n] \in Ids
      BY <1>2, <1>3, <2>2, <3>2 DEF Carried, Holds
    <3> QED
      BY <1>1, <1>4, <2>2, <3>2, <3>3 DEF Carried, Holds, Has
  <2> QED
    BY <1>1, <1>2, <2>1, <2>2, NoLossStep DEF PromiseInv
<1> QED
  BY <1>5, <1>6, <1>7, <1>10, <1>11, <1>12, <1>13 DEF PromiseInv

(* qmail-queue accepts a message only when the queue carries it. *)
LEMMA LinkTodoPromise ==
  ASSUME Typed, QueueInv, PromiseInv, NEW m \in Msgs, LinkTodo(m),
         UNCHANGED <<todoVars, sendVars, envVars>>
  PROVE  PromiseInv'
<1>1. PICK x \in Ids : x = wid[m]
  BY DEF LinkTodo, Live, Typed, Working
<1>2. /\ wpc[m] = "todo" /\ wpc' = [wpc EXCEPT ![m] = "trigger"]
      /\ files' = files \cup {<<"todo", x>>} /\ accepted' = accepted \cup {m}
      /\ UNCHANGED <<wid, dirty, held, pending, noted>>
  BY <1>1 DEF LinkTodo, Goto, Link
<1>3. /\ wpc \in [Msgs -> WriterPcs] /\ accepted \subseteq Msgs
      /\ wid \in [Msgs -> Ids \cup {NoId}]
  BY DEF Typed, TypeOK, WriterTypeOK
<1>4. Bare(x) /\ Has("mess", x) /\ held[x] = m
  BY <1>1, <1>2 DEF QueueInv, WriterInv, WriterState, Live, PromiseInv, HolderInv
<1>5. HolderInv'
  <2>1. ASSUME NEW n \in Msgs
        PROVE  /\ Live(n)' => held'[wid'[n]] = n
               /\ n \in accepted' => wpc'[n] \in {"trigger", "dead"}
    <3>1. Live(n)' => Live(n)
      BY <1>2, <1>3 DEF Live
    <3> QED
      BY <1>2, <1>3, <3>1 DEF PromiseInv, HolderInv
  <2> QED
    BY <2>1 DEF HolderInv
<1>6. RecordInv' /\ CopyInv'
  BY <1>2 DEF PromiseInv, RecordInv, CopyInv, Envelope, Has, todoVars, envVars
<1>7. \A id \in Ids : S5(id) => S5(id)'
  BY <1>2, <1>4 DEF S5, Bare, Has
<1>8. \A d, id : Has(d, id) => Has(d, id)'
  BY <1>2 DEF Has
<1>9. \A id \in Ids : \A r : Done(id, r) => Done(id, r)'
  BY <1>2, <1>8 DEF Done, Delivered, sendVars, fateVars
<1>10. JobInv'
  <2>1. ASSUME NEW c \in Channels, NEW id \in Ids, <<c, id>> \in hiteof'
        PROVE  /\ S5(id)' /\ Has(c, id)'
               /\ \A r \in pending'[id] \cap OfChannel(c) : r \in undone'[id] \/ Done(id, r)'
    BY <1>2, <1>7, <1>8, <1>9, <2>1 DEF PromiseInv, JobInv, sendVars, memVars
  <2>2. ASSUME NEW c \in Channels, NEW id \in Ids, passid'[c] = id
        PROVE  \A r \in pending'[id] \cap OfChannel(c) :
                 r \in unread'[c] \/ r \in undone'[id] \/ Done(id, r)'
    BY <1>2, <1>9, <2>2 DEF PromiseInv, JobInv, sendVars, memVars
  <2> QED
    BY <2>1, <2>2 DEF JobInv
<1>11. FateInv'
  BY <1>2, <1>8 DEF PromiseInv, FateInv, Delivered, Has, sendVars, memVars, fateVars
<1>12. WholeInv'
  BY <1>2, <1>4 DEF PromiseInv, WholeInv, Bare, Clean, Has
<1>13. NoLoss'
  <2>1. ASSUME NEW n \in accepted', NEW r \in To[n] PROVE Settled(n, r)' \/ Carried(n, r)'
    <3>1. CASE n = m
      BY <1>1, <1>2, <1>3, <1>4, <3>1, EnvelopeAssumption DEF Carried, Holds, Has
    <3>2. CASE n # m
      <4>1. Settled(n, r) \/ Carried(n, r)
        BY <1>2, <2>1, <3>2 DEF PromiseInv, NoLoss
      <4>2. Settled(n, r) => Settled(n, r)'
        BY DEF Settled, sendVars, fateVars, envVars
      <4>3. Carried(n, r) => Carried(n, r)'
        BY <1>2 DEF Carried, Holds, Has
      <4> QED
        BY <4>1, <4>2, <4>3
    <3> QED
      BY <3>1, <3>2
  <2> QED
    BY <2>1 DEF NoLoss
<1> QED
  BY <1>5, <1>6, <1>10, <1>11, <1>12, <1>13 DEF PromiseInv

(* Every step of a qmail-queue keeps the promise. *)
LEMMA QueuePromise ==
  ASSUME Typed, QueueInv, PromiseInv, NEW m \in Msgs, Queue(m)
  PROVE  PromiseInv'
<1> UNCHANGED <<todoVars, sendVars, envVars>>
  BY DEF Queue
<1>1. CASE PidOpen(m)
  BY <1>1, PidOpenPromise
<1>2. CASE LinkTodo(m)
  BY <1>2, LinkTodoPromise
<1>3. ASSUME ~PidOpen(m), ~LinkTodo(m) PROVE PromiseInv'
  <2>1. /\ wpc \in [Msgs -> WriterPcs] /\ accepted \subseteq Msgs
    BY DEF Typed, TypeOK, WriterTypeOK
  <2>2. /\ Live(m) /\ UNCHANGED <<wid, held, pending, noted, accepted>>
        /\ \E pc \in WriterPcs \ {"start"} : wpc' = [wpc EXCEPT ![m] = pc]
    BY <1>3 DEF Queue, QmailQueueStep, LinkMess, UnlinkPid, WriteMess, OpenIntd,
       WriteEnvelope, PullTrigger, Abandon, CleanupIntd, CleanupMess,
       WriterDies, Goto, Live, WriterPcs, dirVars
  <2>3. \A n \in Msgs : n # m => wpc'[n] = wpc[n]
    BY <2>2
  <2>4. UNCHANGED <<tpc, tid, tleft, late, forgotten, fateVars, hiteof, passid,
                    unread, undone, del, spc, sid>>
    BY DEF todoVars, sendVars, memVars, envVars
  <2>5. PICK x \in Ids : x = wid[m]
    BY <2>2 DEF Typed, Working
  <2>6. CASE PullTrigger(m) \/ WriterDies(m) \/ UnlinkPid(m)
    <3>1. FilesKept /\ dirty' = dirty
      BY <2>6 DEF PullTrigger, WriterDies, UnlinkPid, Unlink, FilesKept, dirVars,
                  Channels
    <3>2. \A n \in Msgs : \/ wpc'[n] = wpc[n]
                          \/ wpc'[n] = "dead"
                          \/ wpc'[n] \notin {"start", "dead"} /\ Live(n) /\ n \notin accepted
      <4>1. wpc'[m] = "dead" \/ (wpc[m] = "unpid" /\ wpc'[m] = "mess")
        BY <2>1, <2>6 DEF PullTrigger, WriterDies, UnlinkPid, Goto
      <4>2. wpc[m] = "unpid" => m \notin accepted
        BY DEF PromiseInv, HolderInv
      <4> QED
        BY <2>2, <2>3, <4>1, <4>2
    <3>3. FatesGrow
      BY <2>4 DEF FatesGrow, fateVars
    <3> QED
      BY <2>2, <2>4, <3>1, <3>2, <3>3, QuietPromise
  <2>7. CASE \/ LinkMess(m) \/ WriteMess(m) \/ OpenIntd(m) \/ WriteEnvelope(m)
             \/ Abandon(m) \/ CleanupIntd(m) \/ CleanupMess(m)
    <3>1. wpc[m] \in {"link", "mess", "intd", "env", "clean_intd", "clean_mess"}
      BY <2>7 DEF LinkMess, WriteMess, OpenIntd, WriteEnvelope, Abandon,
                  CleanupIntd, CleanupMess
    <3>2. Bare(x)
      BY <2>2, <2>5, <3>1 DEF QueueInv, WriterInv, WriterState
    <3>3. /\ \/ files' = files
             \/ \E d \in {"mess", "intd"} :
                  files' \in {files \cup {<<d, x>>}, files \ {<<d, x>>}}
          /\ dirty' \subseteq dirty \cup {<<"intd", x>>}
      BY <2>5, <2>7 DEF LinkMess, WriteMess, OpenIntd, WriteEnvelope, Abandon,
                  CleanupIntd, CleanupMess, Link, Unlink, dirVars
    <3>4. OnlyFilesOf(x) /\ Bare(x)'
      BY <3>2, <3>3 DEF OnlyFilesOf, Bare, Has
    <3>5. m \notin accepted
      BY <3>1 DEF PromiseInv, HolderInv
    <3>6. \A n \in accepted : wpc'[n] \in {wpc[n], "dead"}
      BY <2>1, <2>3, <3>5
    <3>7. \A n \in Msgs : Live(n)' => Live(n)
      BY <2>2, <2>3 DEF Live
    <3>8. \A d, id : <<d, id>> \in dirty' => <<d, id>> \in dirty \/ id = x
      BY <3>3
    <3> QED
      BY <2>2, <2>4, <3>2, <3>4, <3>6, <3>7, <3>8, BarePromise
  <2> QED
    BY <1>3, <2>6, <2>7 DEF Queue, QmailQueueStep
<1> QED
  BY <1>1, <1>2, <1>3

-----------------------------------------------------------------------------
(* qmail-todo.                                                             *)

(* T records written and removed while the message is in todo/. *)
LEMMA TodoRecords ==
  ASSUME Typed, QueueInv, PromiseInv, ~Fails,
         \/ TodoUnlinkChan("local", "unlocal", "unremote")
         \/ TodoUnlinkChan("remote", "unremote", "uninfo")
         \/ TodoUnlinkInfo \/ TodoCreateInfo
         \/ \E r \in Rcpts : CopyRecipient(r)
         \/ TodoSyncInfo \/ TodoSyncChans,
         UNCHANGED <<queueVars, sendVars, envVars>>
  PROVE  PromiseInv'
<1>1. tpc \in {"unlocal", "unremote", "uninfo", "info", "copy", "sync_info",
               "sync_chan"}
  BY DEF TodoUnlinkChan, TodoUnlinkInfo, TodoCreateInfo, CopyRecipient,
         TodoSyncInfo, TodoSyncChans
<1>2. PICK x \in Ids : x = tid
  BY <1>1 DEF Typed, Working
<1>3. Has("todo", x) /\ Has("mess", x)
  BY <1>1, <1>2 DEF QueueInv, TodoInv, LawfulInv, Lawful, Bare
<1>4. pending \in [Ids -> SUBSET Rcpts] /\ tleft \subseteq Rcpts
  BY DEF Typed, TypeOK, QueueTypeOK, TodoTypeOK
<1>5. \A id \in Ids : <<"todo", id>> \notin late'
  BY <1>1, NoLateTodo DEF QueueInv, envVars
<1> DEFINE Kept ==
      /\ \E d \in {"info"} \cup Channels :
           files' \in {files, files \cup {<<d, x>>}, files \ {<<d, x>>}}
      /\ \A d, id : <<d, id>> \in dirty' => <<d, id>> \in dirty \/ id = x
      /\ \A id \in Ids : id # x => pending'[id] = pending[id]
      /\ UNCHANGED <<held, noted>>
<1>6. ASSUME NEW c \in Channels,
             \/ c = "local" /\ TodoUnlinkChan("local", "unlocal", "unremote")
             \/ c = "remote" /\ TodoUnlinkChan("remote", "unremote", "uninfo")
      PROVE  Kept /\ RecordInv' /\ CopyInv'
  <2>1. /\ files' = files \ {<<c, x>>} /\ dirty' = dirty \ {<<c, x>>}
        /\ pending' = [pending EXCEPT ![x] = @ \ OfChannel(c)]
        /\ UNCHANGED <<held, noted, tid, tleft>>
        /\ tpc \in {"unlocal", "unremote"} /\ tpc' \in {"unremote", "uninfo"}
    BY <1>2, <1>6 DEF TodoUnlinkChan, Unlink, TodoGoto
  <2>2. RecordInv'
    BY <1>4, <2>1 DEF PromiseInv, RecordInv, OfChannel, Has
  <2>3. CopyInv'
    BY <1>5, <2>1 DEF PromiseInv, CopyInv, Envelope
  <2>4. Kept
    BY <1>4, <2>1
  <2> QED
    BY <2>2, <2>3, <2>4
<1>7. ASSUME TodoUnlinkInfo \/ TodoCreateInfo
      PROVE  Kept /\ RecordInv' /\ CopyInv'
  <2>1. /\ files' \in {files \ {<<"info", x>>}, files \cup {<<"info", x>>}}
        /\ dirty' \in {dirty \ {<<"info", x>>}, dirty \cup {<<"info", x>>}}
        /\ UNCHANGED <<held, pending, noted, tid, tleft>>
        /\ tpc \in {"uninfo", "info"} /\ tpc' \in {"info", "copy"}
    BY <1>2, <1>7 DEF TodoUnlinkInfo, TodoCreateInfo, Unlink, Link, TodoGoto
  <2>2. RecordInv'
    <3>1. \A r \in Rcpts : ChannelOf[r] # "info"
      BY EnvelopeAssumption DEF Channels
    <3> QED
      BY <1>4, <2>1, <3>1 DEF PromiseInv, RecordInv, Has
  <2>3. CopyInv'
    BY <1>5, <2>1 DEF PromiseInv, CopyInv, Envelope
  <2>4. Kept
    BY <2>1
  <2> QED
    BY <2>2, <2>3, <2>4
<1>8. ASSUME NEW r \in Rcpts, CopyRecipient(r)
      PROVE  Kept /\ RecordInv' /\ CopyInv'
  <2>1. PICK c \in Channels : c = ChannelOf[r]
    BY EnvelopeAssumption
  <2>2. /\ files' = files \cup {<<c, x>>} /\ dirty' = dirty \cup {<<c, x>>}
        /\ pending' = [pending EXCEPT ![x] = @ \cup {r}]
        /\ tleft' = tleft \ {r}
        /\ UNCHANGED <<held, noted, tid>>
        /\ tpc = "copy" /\ tpc' = "copy"
    BY <1>2, <1>8, <2>1 DEF CopyRecipient, Link, TodoGoto
  <2>3. RecordInv'
    BY <1>4, <2>1, <2>2 DEF PromiseInv, RecordInv, Has
  <2>4. CopyInv'
    BY <1>2, <1>4, <1>5, <2>2 DEF PromiseInv, CopyInv, Envelope
  <2>5. Kept
    BY <1>4, <2>1, <2>2
  <2> QED
    BY <2>3, <2>4, <2>5
<1>9. ASSUME TodoSyncInfo \/ TodoSyncChans
      PROVE  Kept /\ RecordInv' /\ CopyInv'
  <2>1. /\ files' = files /\ dirty' \subseteq dirty
        /\ UNCHANGED <<held, pending, noted, tid, tleft>>
        /\ tpc \in {"sync_info", "sync_chan"} /\ tpc' \in {"sync_chan", "clean_intd"}
    BY <1>9 DEF TodoSyncInfo, TodoSyncChans, TodoGoto
  <2>2. RecordInv' /\ CopyInv'
    BY <1>5, <2>1 DEF PromiseInv, RecordInv, CopyInv, Envelope, Has
  <2> QED
    BY <2>1, <2>2
<1>10. Kept /\ RecordInv' /\ CopyInv'
  BY <1>6, <1>7, <1>8, <1>9 DEF Channels
<1>11. OnlyFilesOf(x) /\ Has("todo", x)' /\ Has("mess", x)'
  BY <1>3, <1>10 DEF OnlyFilesOf, Has, Channels
<1>12. UNCHANGED <<queueVars, hiteof, passid, unread, undone, spc, sid, del,
                   fateVars, forgotten>>
  BY DEF sendVars, memVars, envVars
<1> QED
  BY <1>3, <1>10, <1>11, <1>12, TodoPromise

(* When todo/ goes, the channel files carry every recipient. *)
LEMMA UnlinkTodoPromise ==
  ASSUME Typed, QueueInv, DurableInv, PromiseInv, NEW x \in Ids,
         files' = files \ {<<"todo", x>>}, Has("info", x), Has("todo", x),
         Envelope(x) \subseteq pending[x],
         UNCHANGED <<dirty, held, pending, noted, queueVars, sendVars, forgotten>>,
         tpc' \in {"idle", "dead", "report"} \/ UNCHANGED <<tpc, tid, tleft>>,
         \A id \in Ids : <<"todo", id>> \in late' => <<"todo", id>> \in late
  PROVE  PromiseInv'
<1>0. accepted \subseteq Msgs /\ \A id \in Ids : pending[id] \subseteq Rcpts
  BY DEF Typed, TypeOK, WriterTypeOK, QueueTypeOK
<1>1. HolderInv' /\ CopyInv'
  BY DEF PromiseInv, HolderInv, Live, CopyInv, Envelope, queueVars
<1>2. \A d, id : d # "todo" => (Has(d, id)' <=> Has(d, id))
  BY DEF Has
<1>3. RecordInv'
  <2>1. \A r \in Rcpts : ChannelOf[r] # "todo"
    BY EnvelopeAssumption DEF Channels
  <2> QED
    BY <1>0, <1>2, <2>1 DEF PromiseInv, RecordInv
<1>4. \A id \in Ids : \A r : Done(id, r) => Done(id, r)'
  BY <1>2 DEF Done, Delivered, sendVars, fateVars
<1>5. \A c \in Channels, id \in Ids : S5(id) /\ Has(c, id) => S5(id)' /\ Has(c, id)'
  BY <1>2 DEF S5, Has, Channels
<1>6. JobInv'
  <2>1. ASSUME NEW c \in Channels, NEW id \in Ids, <<c, id>> \in hiteof'
        PROVE  /\ S5(id)' /\ Has(c, id)'
               /\ \A r \in pending'[id] \cap OfChannel(c) : r \in undone'[id] \/ Done(id, r)'
    BY <1>4, <1>5, <2>1 DEF PromiseInv, JobInv, sendVars, memVars
  <2>2. ASSUME NEW c \in Channels, NEW id \in Ids, passid'[c] = id
        PROVE  \A r \in pending'[id] \cap OfChannel(c) :
                 r \in unread'[c] \/ r \in undone'[id] \/ Done(id, r)'
    BY <1>4, <2>2 DEF PromiseInv, JobInv, sendVars, memVars
  <2> QED
    BY <2>1, <2>2 DEF JobInv
<1>7. FateInv'
  BY <1>2 DEF PromiseInv, FateInv, Delivered, sendVars, memVars, fateVars
<1>8. WholeInv'
  <2>1. Clean("intd", x)
    BY DEF DurableInv, QueuedIsDurable, Clean
  <2> QED
    BY <1>2, <2>1 DEF PromiseInv, WholeInv, Clean, Has
<1>9. NoLoss'
  <2>1. FatesGrow
    BY DEF FatesGrow, sendVars, fateVars
  <2>2. ASSUME NEW m \in accepted, NEW r \in To[m], Carried(m, r)
        PROVE  Carried(m, r)'
    <3>1. wid' = wid /\ wid[m] \in Ids
      BY <2>2 DEF queueVars, Carried, Holds, Typed, TypeOK, WriterTypeOK
    <3>2. r \in Rcpts /\ ChannelOf[r] \in Channels /\ m # NoMsg
      BY <1>0, EnvelopeAssumption
    <3>3. CASE wid[m] = x
      <4>1. r \in pending[x] /\ Has(ChannelOf[r], x)
        BY <2>2, <3>2, <3>3 DEF Carried, Holds, Envelope, PromiseInv, RecordInv
      <4>2. ChannelOf[r] # "todo"
        BY <3>2 DEF Channels
      <4> QED
        BY <1>2, <2>2, <3>1, <3>3, <4>1, <4>2 DEF Carried, Holds
    <3>4. CASE wid[m] # x
      <4>1. \A d : Has(d, wid[m])' <=> Has(d, wid[m])
        BY <3>1, <3>4 DEF Has
      <4> QED
        BY <2>2, <3>1, <4>1 DEF Carried, Holds, Has
    <3> QED
      BY <3>3, <3>4
  <2> QED
    BY <1>0, <2>1, <2>2, NoLossStep DEF PromiseInv, queueVars
<1> QED
  BY <1>1, <1>3, <1>6, <1>7, <1>8, <1>9 DEF PromiseInv

(* Every step of qmail-todo keeps the promise. *)
LEMMA TodoStepPromise ==
  ASSUME Typed, QueueInv, DurableInv, PromiseInv, Todo
  PROVE  PromiseInv'
<1> UNCHANGED <<queueVars, sendVars, envVars>>
  BY DEF Todo
<1>1. UNCHANGED <<accepted, wid, wpc, forgotten, fateVars, hiteof, passid,
                  unread, undone, del, spc, sid, late>> /\ FatesGrow
  BY DEF queueVars, sendVars, memVars, fateVars, envVars, FatesGrow
<1>2. ASSUME files' = files, dirty' \subseteq dirty, UNCHANGED <<held, pending, noted>>,
             tpc' \in {"idle", "dead", "report"} \/ UNCHANGED <<tpc, tid, tleft>>
      PROVE  PromiseInv'
  BY <1>1, <1>2, QuietPromise DEF FilesKept
<1>3. CASE Fails \/ TodoLeaves \/ TodoReport
  BY <1>2, <1>3 DEF Fails, GiveUp, TodoGoto, TodoLeaves, TodoReport, dirVars
<1>4. CASE TodoStatMess \/ EndOfEnvelope \/ \E id \in Ids : OpenTodo(id)
  <2>1. UNCHANGED <<files, dirty, held, pending, noted>>
    BY <1>4 DEF TodoStatMess, EndOfEnvelope, OpenTodo, dirVars
  <2>2. CASE tpc' = "idle"
    BY <1>2, <2>1, <2>2
  <2>3. CASE tpc' # "idle"
    <3>1. \/ tpc' = "stat" /\ tleft' = Envelope(tid)'
          \/ tpc = "stat" /\ tpc' = "unlocal" /\ UNCHANGED <<tid, tleft>>
          \/ tpc = "copy" /\ tpc' = "sync_info" /\ tleft = {} /\ UNCHANGED <<tid, tleft>>
      BY <1>4, <2>1, <2>3 DEF TodoStatMess, EndOfEnvelope, OpenTodo, TodoGoto,
         GiveUp, Envelope
    <3>2. CopyInv'
      BY <1>1, <2>1, <3>1 DEF PromiseInv, CopyInv, Envelope
    <3>3. JobInv'
      BY <1>1, <2>1, JobKept DEF PromiseInv, FilesKept
    <3>4. NoLoss'
      BY <1>1, <2>1 DEF PromiseInv, NoLoss, Settled, Carried, Holds, Has, fateVars
    <3> QED
      BY <1>1, <2>1, <3>2, <3>3, <3>4
         DEF PromiseInv, HolderInv, Live, RecordInv, FateInv, Delivered, WholeInv,
             Clean, Has, fateVars
  <2> QED
    BY <2>2, <2>3
<1>5. ASSUME ~Fails,
             \/ TodoUnlinkChan("local", "unlocal", "unremote")
             \/ TodoUnlinkChan("remote", "unremote", "uninfo")
             \/ TodoUnlinkInfo \/ TodoCreateInfo
             \/ \E r \in Rcpts : CopyRecipient(r)
             \/ TodoSyncInfo \/ TodoSyncChans
      PROVE  PromiseInv'
  BY <1>5, TodoRecords
<1>6. ASSUME ~Fails, TodoCleanIntd
      PROVE  PromiseInv'
  <2>1. PICK x \in Ids : x = tid
    BY <1>6 DEF TodoCleanIntd, Typed, Working
  <2>2. /\ files' = files \ {<<"intd", x>>} /\ tpc = "clean_intd" /\ tpc' = "clean_todo"
        /\ UNCHANGED <<dirty, held, pending, noted, tid, tleft>>
    BY <1>6, <2>1 DEF TodoCleanIntd, TodoGoto, Unlink
  <2>3. Has("todo", x) /\ Has("mess", x)
    BY <2>1, <2>2 DEF QueueInv, TodoInv, LawfulInv, Lawful, Bare
  <2>4. OnlyFilesOf(x) /\ Has("todo", x)' /\ Has("mess", x)'
    BY <2>2, <2>3 DEF OnlyFilesOf, Has
  <2>5. RecordInv'
    <3>1. \A r \in Rcpts : ChannelOf[r] # "intd"
      BY EnvelopeAssumption DEF Channels
    <3>2. \A id \in Ids : pending[id] \subseteq Rcpts
      BY DEF Typed, TypeOK, QueueTypeOK
    <3> QED
      BY <2>2, <3>1, <3>2 DEF PromiseInv, RecordInv, Has
  <2>6. CopyInv'
    BY <1>1, <2>2 DEF PromiseInv, CopyInv, Envelope
  <2> QED
    BY <1>1, <2>2, <2>3, <2>4, <2>5, <2>6, TodoPromise
<1>7. ASSUME ~Fails, TodoCleanTodo
      PROVE  PromiseInv'
  <2>1. PICK x \in Ids : x = tid
    BY <1>7 DEF TodoCleanTodo, Typed, Working
  <2>2. /\ files' = files \ {<<"todo", x>>} /\ tpc = "clean_todo" /\ tpc' = "report"
        /\ UNCHANGED <<dirty, held, pending, noted>>
    BY <1>7, <2>1 DEF TodoCleanTodo, TodoGoto, Unlink
  <2>3. Has("todo", x) /\ Has("info", x)
    BY <2>1, <2>2 DEF QueueInv, TodoInv
  <2>4. Envelope(x) \subseteq pending[x]
    BY <2>1, <2>2 DEF PromiseInv, CopyInv
  <2> QED
    BY <1>1, <2>2, <2>3, <2>4, UnlinkTodoPromise
<1> QED
  BY <1>3, <1>4, <1>5, <1>6, <1>7 DEF Todo, QmailTodoStep

-----------------------------------------------------------------------------
(* qmail-send.                                                             *)

(* job_close() of the channel file c/x unlinks it only when every          *)
(* recipient in it is done.                                                *)
LEMMA JobClosePromise ==
  ASSUME Typed, QueueInv, PromiseInv, NEW c \in Channels, NEW x \in Ids,
         NEW busy, NEW hit, NEW left \in SUBSET Rcpts, NEW recs \in SUBSET Rcpts,
         JobClose(c, x, busy, hit, left, recs), S5(x), Has(c, x),
         recs \subseteq pending[x], left \subseteq undone[x],
         \A r \in (pending[x] \ recs) \cup (undone[x] \ left) : Done(x, r),
         hit => \A r \in pending[x] \cap OfChannel(c) : r \in undone[x] \/ Done(x, r),
         \A o \in Channels : \/ passid'[o] = passid[o] /\ unread'[o] = unread[o]
                             \/ passid'[o] = NoId,
         ~busy => passid'[c] # x,
         \A id \in Ids, r \in Rcpts :
           del'[id][r] \in {"K", "noted"} => del'[id][r] = del[id][r],
         spc' = "idle", UNCHANGED <<dirty, held, noted, fateVars>>,
         UNCHANGED <<queueVars, todoVars, envVars>>
  PROVE  PromiseInv'
<1>0. /\ accepted \subseteq Msgs /\ pending \in [Ids -> SUBSET Rcpts]
      /\ undone \in [Ids -> SUBSET Rcpts]
  BY DEF Typed, TypeOK, WriterTypeOK, QueueTypeOK, SendTypeOK
<1> DEFINE gone == ~busy /\ AllDone(c, hit, left) /\ files' = files \ {<<c, x>>}
<1>1. /\ undone' = [undone EXCEPT ![x] = undone'[x]]
      /\ undone'[x] \in {left, left \ OfChannel(c)}
      /\ pending' = [pending EXCEPT ![x] = pending'[x]]
      /\ gone \/ (files' = files /\ pending'[x] = recs)
      /\ gone => pending'[x] = recs \ OfChannel(c)
      /\ hiteof' \subseteq hiteof \cup {<<c, x>>}
      /\ busy => undone'[x] = left
      /\ <<c, x>> \in hiteof' => busy /\ (hit \/ <<c, x>> \in hiteof)
  <2>1. CASE busy
    BY <1>0, <2>1 DEF JobClose
  <2>2. CASE ~busy
    <3>1. /\ hiteof' = hiteof \ {<<c, x>>}
          /\ undone' = [undone EXCEPT ![x] = left \ OfChannel(c)]
      BY <2>2 DEF JobClose
    <3>2. \/ files' = files /\ pending' = [pending EXCEPT ![x] = recs]
          \/ gone /\ pending' = [pending EXCEPT ![x] = recs \ OfChannel(c)]
      BY <2>2 DEF JobClose, Unlink
    <3>3. gone => files' # files
      BY DEF Has
    <3> HIDE DEF gone
    <3> QED
      BY <1>0, <2>2, <3>1, <3>2, <3>3
  <2> QED
    BY <2>1, <2>2
<1>2. /\ \A id \in Ids : id # x => pending'[id] = pending[id] /\ undone'[id] = undone[id]
      /\ pending'[x] \subseteq recs
  BY <1>0, <1>1
<1>3. \A d, id : d # c \/ id # x => (<<d, id>> \in files' <=> <<d, id>> \in files)
  BY <1>1
<1>4. \A id \in Ids : \A r : Done(id, r) => Done(id, r)'
  BY <1>3 DEF Done, Delivered, Has, fateVars, Channels
<1>5. \A id \in Ids : S5(id) => S5(id)'
  BY <1>3 DEF S5, Has, Channels
<1>6. HolderInv' /\ CopyInv'
  <2>1. HolderInv'
    BY DEF PromiseInv, HolderInv, Live, queueVars
  <2>2. CopyInv'
    <3>1. \A id \in Ids : Has("todo", id) => pending'[id] = pending[id]
      BY <1>2 DEF S5
    <3>2. tpc \in {"copy", "sync_info", "sync_chan", "clean_intd", "clean_todo"} =>
            tid \in Ids /\ Has("todo", tid)
      BY DEF QueueInv, TodoInv, Typed, Working
    <3>3. \A id \in Ids : <<"todo", id>> \in late => Has("todo", id)
      BY DEF QueueInv, LateInv
    <3>4. UNCHANGED <<tpc, tid, tleft, late, held>>
      BY DEF todoVars, envVars
    <3>5. Envelope(tid)' = Envelope(tid) /\ \A id \in Ids : Envelope(id)' = Envelope(id)
      BY <3>4 DEF Envelope
    <3>6. tpc \in {"copy", "sync_info", "sync_chan", "clean_intd", "clean_todo"} =>
            pending'[tid] = pending[tid]
      BY <3>1, <3>2
    <3> QED
      BY <3>1, <3>3, <3>4, <3>5, <3>6 DEF PromiseInv, CopyInv
  <2> QED
    BY <2>1, <2>2
<1>7. RecordInv'
  <2>1. ASSUME NEW id \in Ids, NEW r \in pending'[id]
        PROVE  <<ChannelOf[r], id>> \in files'
    <3>1. r \in pending[id] /\ r \in Rcpts
      BY <1>0, <1>2, <2>1
    <3>2. <<ChannelOf[r], id>> \in files
      BY <3>1 DEF PromiseInv, RecordInv, Has
    <3>3. CASE id # x \/ ChannelOf[r] # c
      BY <1>3, <3>2, <3>3
    <3>4. CASE id = x /\ ChannelOf[r] = c
      <4>1. ~gone
        BY <1>1, <2>1, <3>1, <3>4 DEF OfChannel
      <4> HIDE DEF gone
      <4> QED
        BY <1>1, <3>2, <4>1
    <3> QED
      BY <3>3, <3>4
  <2> QED
    BY <2>1 DEF RecordInv, Has
<1> HIDE DEF gone
<1>8. JobInv'
  <2>1. ASSUME NEW o \in Channels, NEW r \in pending'[x] \cap OfChannel(o),
               r \in undone[x]
        PROVE  \/ r \in undone'[x] \/ Done(x, r)'
               \/ o = c /\ ~busy
    <3>1. CASE r \notin left
      BY <1>4, <2>1, <3>1
    <3>2. CASE r \in left /\ o # c
      BY <1>1, <2>1, <3>2 DEF OfChannel
    <3>3. CASE r \in left /\ o = c /\ busy
      BY <1>1, <3>3
    <3> QED
      BY <3>1, <3>2, <3>3
  <2>2. ASSUME NEW o \in Channels, NEW id \in Ids, <<o, id>> \in hiteof'
        PROVE  /\ S5(id)' /\ Has(o, id)'
               /\ \A r \in pending'[id] \cap OfChannel(o) : r \in undone'[id] \/ Done(id, r)'
    <3>1. CASE id = x /\ o = c
      <4>1. busy /\ files' = files
        BY <1>1, <2>2, <3>1 DEF gone
      <4>2. \A r \in pending[x] \cap OfChannel(c) : r \in undone[x] \/ Done(x, r)
        BY <1>1, <2>2, <3>1 DEF PromiseInv, JobInv
      <4>3. \A r \in pending'[x] \cap OfChannel(c) : r \in undone'[x] \/ Done(x, r)'
        BY <1>2, <1>4, <2>1, <4>1, <4>2
      <4> QED
        BY <1>5, <3>1, <4>1, <4>3 DEF Has
    <3>2. CASE id = x /\ o # c
      <4>1. <<o, x>> \in hiteof
        BY <1>1, <2>2, <3>2
      <4>2. Has(o, x)'
        BY <1>3, <3>2, <4>1 DEF PromiseInv, JobInv, Has
      <4>3. \A r \in pending[x] \cap OfChannel(o) : r \in undone[x] \/ Done(x, r)
        BY <4>1 DEF PromiseInv, JobInv
      <4>4. \A r \in pending'[x] \cap OfChannel(o) : r \in undone'[x] \/ Done(x, r)'
        BY <1>2, <1>4, <2>1, <3>2, <4>3
      <4> QED
        BY <1>5, <3>2, <4>2, <4>4
    <3>3. CASE id # x
      <4>1. <<o, id>> \in hiteof
        BY <1>1, <2>2, <3>3
      <4>2. /\ S5(id) /\ Has(o, id)
            /\ \A r \in pending[id] \cap OfChannel(o) : r \in undone[id] \/ Done(id, r)
        BY <4>1 DEF PromiseInv, JobInv
      <4>3. S5(id)' /\ Has(o, id)'
        BY <1>3, <1>5, <3>3, <4>2 DEF Has
      <4> QED
        BY <1>2, <1>4, <3>3, <4>2, <4>3
    <3> QED
      BY <3>1, <3>2, <3>3
  <2>3. ASSUME NEW o \in Channels, NEW id \in Ids, passid'[o] = id
        PROVE  \A r \in pending'[id] \cap OfChannel(o) :
                 r \in unread'[o] \/ r \in undone'[id] \/ Done(id, r)'
    <3>1. passid[o] = id /\ unread'[o] = unread[o]
      BY <2>3, EnvelopeAssumption
    <3>2. \A r \in pending[id] \cap OfChannel(o) :
            r \in unread[o] \/ r \in undone[id] \/ Done(id, r)
      BY <3>1 DEF PromiseInv, JobInv
    <3>3. CASE id = x
      <4>1. o = c => busy
        BY <2>3, <3>3
      <4> QED
        BY <1>2, <1>4, <2>1, <3>1, <3>2, <3>3, <4>1
    <3>4. CASE id # x
      BY <1>2, <1>4, <3>1, <3>2, <3>4
    <3> QED
      BY <3>3, <3>4
  <2> QED
    BY <2>2, <2>3 DEF JobInv
<1>9. FateInv'
  <2>1. \A id \in Ids : Has("bounce", id)' <=> Has("bounce", id)
    BY <1>3 DEF Has, Channels
  <2>2. ASSUME NEW id \in Ids, NEW r \in Rcpts
        PROVE  /\ del'[id][r] = "K" => Delivered(id, r)'
               /\ del'[id][r] = "noted" => Has("bounce", id)' /\ r \in noted'[id]
    BY <2>1, <2>2 DEF PromiseInv, FateInv, Delivered, fateVars
  <2> QED
    BY <2>2 DEF FateInv
<1>10. WholeInv'
  <2>1. \A id \in Ids : /\ Has("todo", id)' <=> Has("todo", id)
                        /\ Has("info", id)' <=> Has("info", id)
    BY <1>3 DEF Has, Channels
  <2> QED
    BY <2>1 DEF PromiseInv, WholeInv, Clean
<1>11. NoLoss'
  <2>1. FatesGrow
    BY DEF FatesGrow, fateVars, envVars
  <2>2. ASSUME NEW m \in accepted, NEW r \in To[m], Carried(m, r)
        PROVE  Carried(m, r)' \/ Settled(m, r)'
    <3>1. UNCHANGED <<wid, held>>
      BY DEF queueVars
    <3>2. r \in Rcpts /\ m \in Msgs
      BY <1>0, EnvelopeAssumption
    <3>3. wid[m] \in Ids
      BY <2>2, <3>2 DEF Carried, Holds, Typed, TypeOK, WriterTypeOK
    <3>4. \A d \in {"mess", "todo", "info", "bounce"} :
            Has(d, wid[m])' <=> Has(d, wid[m])
      BY <1>3, <3>1 DEF Has, Channels
    <3>5. CASE wid[m] = x
      <4>1. CASE Done(x, r)
        <5>1. r \in delivered[m] => Settled(m, r)'
          BY DEF Settled, fateVars
        <5>2. held[x] = m
          BY <2>2, <3>5 DEF Carried, Holds
        <5>3. Delivered(x, r) => r \in delivered[m]
          BY <3>2, <5>2 DEF Delivered
        <5>4. ASSUME Has("bounce", x), r \in noted[x] PROVE Carried(m, r)'
          BY <2>2, <3>1, <3>4, <3>5, <5>4 DEF Carried, Holds, S5
        <5> QED
          BY <4>1, <5>1, <5>3, <5>4 DEF Done
      <4>2. CASE ~Done(x, r)
        <5>1. r \in pending[x] /\ Has(ChannelOf[r], x)
          BY <2>2, <3>5, <4>2 DEF Carried, Done, S5
        <5>2. r \in recs
          BY <4>2, <5>1
        <5>3. r \in pending'[x]
          <6>1. CASE gone /\ ChannelOf[r] = c
            <7>1. r \in OfChannel(c)
              BY <3>2, <6>1 DEF OfChannel
            <7>2. hit /\ r \notin left
              BY <6>1, <7>1 DEF gone, AllDone
            <7> QED
              BY <4>2, <5>1, <7>1, <7>2
          <6>2. CASE gone /\ ChannelOf[r] # c
            BY <1>1, <5>2, <6>2 DEF OfChannel
          <6>3. CASE ~gone
            BY <1>1, <5>2, <6>3
          <6> QED
            BY <6>1, <6>2, <6>3
        <5>4. Has(ChannelOf[r], x)'
          BY <1>7, <5>3 DEF RecordInv
        <5> QED
          BY <2>2, <3>1, <3>4, <3>5, <5>3, <5>4 DEF Carried, Holds, S5
      <4> QED
        BY <4>1, <4>2
    <3>6. CASE wid[m] # x
      <4>1. \A d : Has(d, wid[m])' <=> Has(d, wid[m])
        BY <1>3, <3>1, <3>6 DEF Has
      <4>2. pending'[wid[m]] = pending[wid[m]]
        BY <1>2, <3>3, <3>6
      <4> QED
        BY <2>2, <3>1, <4>1, <4>2 DEF Carried, Holds, Has
    <3> QED
      BY <3>5, <3>6
  <2> QED
    BY <1>0, <2>1, <2>2, NoLossStep DEF PromiseInv, queueVars
<1> QED
  BY <1>6, <1>7, <1>8, <1>9, <1>10, <1>11 DEF PromiseInv

(* A pass that reaches the end of the file has nothing left to read. *)
LEMMA EndPassPromise ==
  ASSUME Typed, QueueInv, PromiseInv, NEW c \in Channels, NEW hit \in BOOLEAN,
         EndPass(c, hit), UNCHANGED <<queueVars, todoVars, envVars>>
  PROVE  PromiseInv'
<1> DEFINE busy == \E r \in OfChannel(c) : del[passid[c]][r] # "none"
<1>1. passid \in [Channels -> Ids \cup {NoId}] /\ unread \in [Channels -> SUBSET Rcpts]
  BY DEF Typed, TypeOK, SendTypeOK
<1>2. PICK x \in Ids : x = passid[c]
  BY <1>1 DEF EndPass
<1>3. JobClose(c, x, busy, hit, undone[x], pending[x])
  BY <1>2 DEF EndPass
<1>4. /\ spc' = "idle" /\ del' = del
      /\ passid' = [passid EXCEPT ![c] = NoId]
      /\ unread' = [unread EXCEPT ![c] = {}]
      /\ hit => unread[c] = {}
      /\ UNCHANGED <<dirty, held, noted, fateVars>>
  BY DEF EndPass, Idle
<1>5. undone[x] \in SUBSET Rcpts /\ pending[x] \in SUBSET Rcpts
  BY DEF Typed, TypeOK, SendTypeOK, QueueTypeOK
<1>6. S5(x) /\ Has(c, x)
  BY <1>2 DEF QueueInv, KnownInv
<1>7. hit => \A r \in pending[x] \cap OfChannel(c) : r \in undone[x] \/ Done(x, r)
  BY <1>2, <1>4 DEF PromiseInv, JobInv
<1>8. /\ \A o \in Channels : \/ passid'[o] = passid[o] /\ unread'[o] = unread[o]
                             \/ passid'[o] = NoId
      /\ passid'[c] # x
  BY <1>1, <1>4, EnvelopeAssumption
<1>9. \A r \in (pending[x] \ pending[x]) \cup (undone[x] \ undone[x]) : Done(x, r)
  OBVIOUS
<1>10. \A id \in Ids, r \in Rcpts :
         del'[id][r] \in {"K", "noted"} => del'[id][r] = del[id][r]
  BY <1>4
<1> HIDE DEF busy
<1> QED
  BY <1>3, <1>4, <1>5, <1>6, <1>7, <1>8, <1>9, <1>10, JobClosePromise

(* A report that ends; a recipient that gets its D is done. *)
LEMMA EndDeliveryPromise ==
  ASSUME Typed, QueueInv, PromiseInv, NEW x \in Ids, NEW r \in Rcpts,
         NEW mark \in BOOLEAN, del[x][r] # "none", mark => del[x][r] \in {"K", "noted"},
         EndDelivery(x, r, mark), UNCHANGED <<queueVars, todoVars, envVars>>
  PROVE  PromiseInv'
<1> DEFINE c == ChannelOf[r]
           busy == Busy(c, x, {r})
           hit == <<c, x>> \in hiteof
<1>1. c \in Channels
  BY EnvelopeAssumption
<1>2. undone[x] \in SUBSET Rcpts /\ pending[x] \in SUBSET Rcpts
  BY DEF Typed, TypeOK, SendTypeOK, QueueTypeOK
<1>3. mark => Done(x, r)
  BY DEF PromiseInv, FateInv, Done
<1>4. PICK left \in SUBSET Rcpts, recs \in SUBSET Rcpts :
        /\ JobClose(c, x, busy, hit, left, recs)
        /\ recs \subseteq pending[x] /\ left \subseteq undone[x]
        /\ \A q \in (pending[x] \ recs) \cup (undone[x] \ left) : mark /\ q = r
  <2>1. CASE mark
    <3>1. PICK recs \in MarkDone(x, r) : JobClose(c, x, busy, hit, undone[x] \ {r}, recs)
      BY <2>1 DEF EndDelivery
    <3>2. /\ recs \in SUBSET Rcpts /\ recs \subseteq pending[x]
          /\ pending[x] \ recs \subseteq {r}
      BY <1>2 DEF MarkDone
    <3> DEFINE left == undone[x] \ {r}
    <3>3. left \in SUBSET Rcpts /\ left \subseteq undone[x] /\ undone[x] \ left \subseteq {r}
      BY <1>2
    <3>4. JobClose(c, x, busy, hit, left, recs)
      BY <3>1
    <3> HIDE DEF c, busy, hit, left
    <3> QED
      BY <2>1, <3>2, <3>3, <3>4
  <2>2. CASE ~mark
    <3>1. JobClose(c, x, busy, hit, undone[x], pending[x])
      BY <2>2 DEF EndDelivery
    <3> HIDE DEF c, busy, hit
    <3> QED
      BY <1>2, <3>1
  <2> QED
    BY <2>1, <2>2
<1>5. /\ spc' = "idle" /\ del' = [del EXCEPT ![x][r] = "none"]
      /\ UNCHANGED <<passid, unread, dirty, held, noted, fateVars>>
  BY DEF EndDelivery
<1>6. S5(x) /\ Has(c, x)
  BY DEF QueueInv, KnownInv
<1>7. hit => \A q \in pending[x] \cap OfChannel(c) : q \in undone[x] \/ Done(x, q)
  BY <1>1 DEF PromiseInv, JobInv
<1>8. \A q \in (pending[x] \ recs) \cup (undone[x] \ left) : Done(x, q)
  BY <1>3, <1>4
<1>9. ~busy => passid'[c] # x
  BY <1>5 DEF Busy
<1>10. \A id \in Ids, q \in Rcpts :
         del'[id][q] \in {"K", "noted"} => del'[id][q] = del[id][q]
  BY <1>5 DEF Typed, TypeOK, SendTypeOK
<1>11. \A o \in Channels : passid'[o] = passid[o] /\ unread'[o] = unread[o]
  BY <1>5
<1> HIDE DEF c, busy, hit
<1> QED
  BY <1>1, <1>4, <1>5, <1>6, <1>7, <1>8, <1>9, <1>10, <1>11, JobClosePromise

(* Opening a job: nothing is read yet. *)
LEMMA OpenPassPromise ==
  ASSUME Typed, PromiseInv, NEW c \in Channels, NEW x \in Ids, OpenPass(c, x),
         UNCHANGED <<queueVars, todoVars, envVars>>
  PROVE  PromiseInv'
<1>1. /\ passid' = [passid EXCEPT ![c] = x]
      /\ unread' = [unread EXCEPT ![c] = pending[x] \cap OfChannel(c)]
      /\ UNCHANGED <<spc, sid, hiteof, undone, del, files, dirty, held, pending,
                     noted, fateVars>>
  BY DEF OpenPass, dirVars
<1>2. \A o \in Channels : o # c => passid'[o] = passid[o] /\ unread'[o] = unread[o]
  BY <1>1 DEF Typed, TypeOK, SendTypeOK
<1>3. passid'[c] = x /\ unread'[c] = pending[x] \cap OfChannel(c)
  BY <1>1 DEF Typed, TypeOK, SendTypeOK
<1>4. \A id, r : Done(id, r)' <=> Done(id, r)
  BY <1>1 DEF Done, Delivered, Has, fateVars
<1>5. JobInv'
  <2>1. ASSUME NEW o \in Channels, NEW id \in Ids, <<o, id>> \in hiteof'
        PROVE  /\ S5(id)' /\ Has(o, id)'
               /\ \A r \in pending'[id] \cap OfChannel(o) : r \in undone'[id] \/ Done(id, r)'
    BY <1>1, <1>4, <2>1 DEF PromiseInv, JobInv, S5, Has
  <2>2. ASSUME NEW o \in Channels, NEW id \in Ids, passid'[o] = id
        PROVE  \A r \in pending'[id] \cap OfChannel(o) :
                 r \in unread'[o] \/ r \in undone'[id] \/ Done(id, r)'
    <3>1. CASE o = c
      BY <1>1, <1>3, <2>2, <3>1
    <3>2. CASE o # c
      BY <1>1, <1>2, <1>4, <2>2, <3>2 DEF PromiseInv, JobInv
    <3> QED
      BY <3>1, <3>2
  <2> QED
    BY <2>1, <2>2 DEF JobInv
<1> QED
  BY <1>1, <1>5 DEF PromiseInv, HolderInv, RecordInv, CopyInv, FateInv, WholeInv, NoLoss,
     Live, Has, Envelope, Done, Delivered, Clean, Carried, Holds, Settled, queueVars,
     todoVars, envVars, fateVars

(* A recipient that is read is one to be done. *)
LEMMA ReadRecipientPromise ==
  ASSUME Typed, PromiseInv, NEW c \in Channels, NEW r \in Rcpts, ReadRecipient(c, r),
         UNCHANGED <<queueVars, todoVars, envVars>>
  PROVE  PromiseInv'
<1>1. PICK x \in Ids : x = passid[c]
  BY DEF ReadRecipient, Typed, TypeOK, SendTypeOK
<1>2. /\ unread' = [unread EXCEPT ![c] = @ \ {r}]
      /\ undone' = [undone EXCEPT ![x] = @ \cup {r}]
      /\ del' = [del EXCEPT ![x][r] = "sent"]
      /\ UNCHANGED <<spc, sid, passid, hiteof, files, dirty, held, pending, noted, fateVars>>
  BY <1>1 DEF ReadRecipient, dirVars
<1>3. /\ \A id \in Ids : undone[id] \subseteq undone'[id]
      /\ r \in undone'[x]
      /\ \A o \in Channels : unread[o] \subseteq unread'[o] \cup {r}
      /\ \A o \in Channels : o # c => unread'[o] = unread[o]
  BY <1>2 DEF Typed, TypeOK, SendTypeOK
<1>4. \A id, q : Done(id, q)' <=> Done(id, q)
  BY <1>2 DEF Done, Delivered, Has, fateVars
<1>5. JobInv'
  <2>1. ASSUME NEW o \in Channels, NEW id \in Ids, <<o, id>> \in hiteof'
        PROVE  /\ S5(id)' /\ Has(o, id)'
               /\ \A q \in pending'[id] \cap OfChannel(o) : q \in undone'[id] \/ Done(id, q)'
    BY <1>2, <1>3, <1>4, <2>1 DEF PromiseInv, JobInv, S5, Has
  <2>2. ASSUME NEW o \in Channels, NEW id \in Ids, passid'[o] = id,
               NEW q \in pending'[id] \cap OfChannel(o)
        PROVE  q \in unread'[o] \/ q \in undone'[id] \/ Done(id, q)'
    <3>1. q \in unread[o] \/ q \in undone[id] \/ Done(id, q)
      BY <1>2, <2>2 DEF PromiseInv, JobInv
    <3>2. CASE o = c
      BY <1>1, <1>2, <1>3, <1>4, <2>2, <3>1, <3>2
    <3>3. CASE o # c
      BY <1>3, <1>4, <3>1, <3>3
    <3> QED
      BY <3>2, <3>3
  <2> QED
    BY <2>1, <2>2 DEF JobInv
<1>6. FateInv'
  <2>1. \A id \in Ids, q \in Rcpts :
          del'[id][q] \in {"K", "noted"} => del'[id][q] = del[id][q]
    BY <1>2 DEF Typed, TypeOK, SendTypeOK
  <2> QED
    BY <1>2, <2>1 DEF PromiseInv, FateInv, Delivered, Has, fateVars
<1> QED
  BY <1>2, <1>5, <1>6 DEF PromiseInv, HolderInv, RecordInv, CopyInv, WholeInv, NoLoss,
     Live, Has, Envelope, Clean, Carried, Holds, Settled, queueVars, todoVars, envVars,
     fateVars

(* addbounce(): the failure is noted before the record is marked. *)
LEMMA ReportDPromise ==
  ASSUME Typed, QueueInv, PromiseInv, NEW x \in Ids, NEW r \in Rcpts, ReportD(x, r),
         UNCHANGED <<queueVars, todoVars, envVars>>
  PROVE  PromiseInv'
<1>1. /\ spc' = "mark" /\ del[x][r] # "none"
      /\ del' = [del EXCEPT ![x][r] = "noted"]
      /\ files' = files \cup {<<"bounce", x>>}
      /\ noted' = [noted EXCEPT ![x] = @ \cup {r}]
      /\ UNCHANGED <<passid, unread, hiteof, undone, dirty, held, pending, fateVars>>
  BY DEF ReportD, Link
<1>2. \A d, id : <<d, id>> \in files' <=> <<d, id>> \in files \/ <<d, id>> = <<"bounce", x>>
  BY <1>1
<1>3. (\A id \in Ids : noted[id] \subseteq noted'[id]) /\ r \in noted'[x]
  BY <1>1 DEF Typed, TypeOK, QueueTypeOK
<1>4. \A id \in Ids : \A q : Done(id, q) => Done(id, q)'
  BY <1>1, <1>2, <1>3 DEF Done, Delivered, Has, fateVars
<1>5. JobInv'
  <2>1. ASSUME NEW o \in Channels, NEW id \in Ids, <<o, id>> \in hiteof'
        PROVE  /\ S5(id)' /\ Has(o, id)'
               /\ \A q \in pending'[id] \cap OfChannel(o) : q \in undone'[id] \/ Done(id, q)'
    BY <1>1, <1>2, <1>4, <2>1 DEF PromiseInv, JobInv, S5, Has
  <2>2. ASSUME NEW o \in Channels, NEW id \in Ids, passid'[o] = id
        PROVE  \A q \in pending'[id] \cap OfChannel(o) :
                 q \in unread'[o] \/ q \in undone'[id] \/ Done(id, q)'
    BY <1>1, <1>4, <2>2 DEF PromiseInv, JobInv
  <2> QED
    BY <2>1, <2>2 DEF JobInv
<1>6. FateInv'
  <2>1. ASSUME NEW id \in Ids, NEW q \in Rcpts
        PROVE  /\ del'[id][q] = "K" => Delivered(id, q)'
               /\ del'[id][q] = "noted" => Has("bounce", id)' /\ q \in noted'[id]
    <3>1. CASE id = x /\ q = r
      <4>1. del'[x][r] = "noted"
        BY <1>1 DEF Typed, TypeOK, SendTypeOK
      <4> QED
        BY <1>2, <1>3, <3>1, <4>1 DEF Has
    <3>2. CASE ~(id = x /\ q = r)
      <4>1. del'[id][q] = del[id][q]
        BY <1>1, <3>2 DEF Typed, TypeOK, SendTypeOK
      <4> QED
        BY <1>1, <1>2, <1>3, <4>1 DEF PromiseInv, FateInv, Delivered, Has, fateVars
    <3> QED
      BY <3>1, <3>2
  <2> QED
    BY <1>1, <2>1 DEF FateInv
<1>7. HolderInv' /\ CopyInv' /\ WholeInv'
  BY <1>1, <1>2 DEF PromiseInv, HolderInv, CopyInv, WholeInv, Live, Has, Envelope, Clean,
     queueVars, todoVars, envVars
<1>8. RecordInv'
  BY <1>1, <1>2 DEF PromiseInv, RecordInv, Has
<1>9. NoLoss'
  <2>1. FatesGrow
    BY <1>1 DEF FatesGrow, fateVars, envVars
  <2>2. ASSUME NEW m \in accepted, NEW q \in To[m], Carried(m, q)
        PROVE  Carried(m, q)'
    <3>1. wid[m] \in Ids /\ wid' = wid
      BY <2>2 DEF Carried, Holds, Typed, TypeOK, WriterTypeOK, queueVars
    <3> QED
      BY <1>1, <1>2, <1>3, <2>2, <3>1 DEF Carried, Holds, Has
  <2>3. accepted' = accepted /\ accepted \subseteq Msgs
    BY DEF queueVars, Typed, TypeOK, WriterTypeOK
  <2> QED
    BY <2>1, <2>2, <2>3, NoLossStep DEF PromiseInv
<1> QED
  BY <1>5, <1>6, <1>7, <1>8, <1>9 DEF PromiseInv

(* A message without channel files whose bounce/ file, if there is one, has *)
(* been reported is owed to nobody.                                         *)
LEMMA DiscardPromise ==
  ASSUME Typed, QueueInv, PromiseInv, NEW x \in Ids, S5(x),
         ~Has("local", x), ~Has("remote", x),
         NEW d \in {"bounce", "info"}, Unlink(d, x),
         Has("bounce", x) =>
           \A m \in Msgs : held[x] = m => noted[x] \subseteq bounced[m] \cup discarded[m],
         \A id \in Ids : id # x => noted'[id] = noted[id],
         spc' # "unbounce",
         UNCHANGED <<dirty, held, pending, hiteof, passid, unread, undone, del, fateVars>>,
         UNCHANGED <<queueVars, todoVars, envVars>>
  PROVE  PromiseInv'
<1>1. \A e, id : id # x \/ e # d => (<<e, id>> \in files' <=> <<e, id>> \in files)
  BY DEF Unlink
<1>2. \A c \in Channels : passid[c] # x /\ <<c, x>> \notin hiteof
  BY DEF QueueInv, KnownInv, PromiseInv, JobInv, Channels
<1>3. \A r \in Rcpts : del[x][r] = "none"
  BY EnvelopeAssumption DEF QueueInv, KnownInv, Channels
<1>4. \A id \in Ids : id # x => \A r : Done(id, r) => Done(id, r)'
  BY <1>1 DEF Done, Delivered, Has, fateVars
<1>5. JobInv'
  <2>1. ASSUME NEW o \in Channels, NEW id \in Ids, <<o, id>> \in hiteof'
        PROVE  /\ S5(id)' /\ Has(o, id)'
               /\ \A q \in pending'[id] \cap OfChannel(o) : q \in undone'[id] \/ Done(id, q)'
    BY <1>1, <1>2, <1>4, <2>1 DEF PromiseInv, JobInv, S5, Has
  <2>2. ASSUME NEW o \in Channels, NEW id \in Ids, passid'[o] = id
        PROVE  \A q \in pending'[id] \cap OfChannel(o) :
                 q \in unread'[o] \/ q \in undone'[id] \/ Done(id, q)'
    BY <1>2, <1>4, <2>2 DEF PromiseInv, JobInv
  <2> QED
    BY <2>1, <2>2 DEF JobInv
<1>6. FateInv'
  <2>1. ASSUME NEW id \in Ids, NEW q \in Rcpts
        PROVE  /\ del'[id][q] = "K" => Delivered(id, q)'
               /\ del'[id][q] = "noted" => Has("bounce", id)' /\ q \in noted'[id]
    BY <1>1, <1>3 DEF PromiseInv, FateInv, Delivered, Has, fateVars
  <2> QED
    BY <2>1 DEF FateInv
<1>7. HolderInv' /\ CopyInv'
  BY DEF PromiseInv, HolderInv, CopyInv, Live, Envelope, queueVars, todoVars, envVars
<1>8. RecordInv'
  <2>1. ASSUME NEW id \in Ids, NEW r \in pending'[id] PROVE <<ChannelOf[r], id>> \in files'
    <3>1. r \in Rcpts
      BY <2>1 DEF Typed, TypeOK, QueueTypeOK
    <3>2. ChannelOf[r] # d
      BY <3>1, EnvelopeAssumption DEF Channels
    <3> QED
      BY <1>1, <2>1, <3>2 DEF PromiseInv, RecordInv, Has
  <2> QED
    BY <2>1 DEF RecordInv, Has
<1>9. WholeInv'
  BY <1>1 DEF PromiseInv, WholeInv, Has, Clean, Unlink
<1>10. NoLoss'
  <2>1. FatesGrow
    BY DEF FatesGrow, fateVars, envVars
  <2>2. ASSUME NEW m \in accepted, NEW r \in To[m], Carried(m, r)
        PROVE  Carried(m, r)' \/ Settled(m, r)'
    <3>0. m \in Msgs /\ r \in Rcpts
      BY EnvelopeAssumption DEF Typed, TypeOK, WriterTypeOK
    <3>1. wid[m] \in Ids /\ wid' = wid /\ ChannelOf[r] \in Channels
      BY <2>2, <3>0, EnvelopeAssumption
         DEF Carried, Holds, Typed, TypeOK, WriterTypeOK, queueVars
    <3>2. CASE wid[m] = x
      <4>1. held[x] = m /\ Has("bounce", x) /\ r \in noted[x]
        BY <2>2, <3>1, <3>2 DEF Carried, Holds, S5, Channels
      <4> QED
        BY <3>0, <4>1 DEF Settled, fateVars
    <3>3. CASE wid[m] # x
      BY <1>1, <2>2, <3>1, <3>3 DEF Carried, Holds, Has
    <3> QED
      BY <3>2, <3>3
  <2>3. accepted' = accepted /\ accepted \subseteq Msgs
    BY DEF queueVars, Typed, TypeOK, WriterTypeOK
  <2> QED
    BY <2>1, <2>2, <2>3, NoLossStep DEF PromiseInv
<1> QED
  BY <1>5, <1>6, <1>7, <1>8, <1>9, <1>10 DEF PromiseInv

(* A qmail-send that starts or has ended remembers no job. *)
LEMMA FreshPromise ==
  ASSUME PromiseInv, FreshMemory, spc' # "unbounce",
         tpc' \in {"idle", "dead"} \/ UNCHANGED <<tpc, tid, tleft>>,
         \A id \in Ids : <<"todo", id>> \in late' => <<"todo", id>> \in late,
         UNCHANGED <<dirVars, queueVars, fateVars, forgotten>>
  PROVE  PromiseInv'
<1>1. JobInv'
  BY EnvelopeAssumption DEF JobInv, FreshMemory
<1>2. FateInv'
  BY DEF FateInv, FreshMemory, NoDelivery
<1>3. HolderInv' /\ RecordInv' /\ WholeInv' /\ NoLoss'
  BY DEF PromiseInv, HolderInv, RecordInv, WholeInv, NoLoss, Live, Has, Clean, Carried,
     Holds, Settled, dirVars, queueVars, fateVars
<1>4. CopyInv'
  BY DEF PromiseInv, CopyInv, Envelope, dirVars
<1> QED
  BY <1>1, <1>2, <1>3, <1>4 DEF PromiseInv

(* Steps of qmail-send that change no file and no job. *)
LEMMA SendLooksPromise ==
  ASSUME Typed, PromiseInv, UNCHANGED <<dirVars, queueVars, todoVars, envVars>>,
         UNCHANGED <<hiteof, passid, unread, undone, del>>, FatesGrow,
         spc' = "unbounce" =>
           \/ spc = "unbounce" /\ sid' = sid
           \/ \A m \in Msgs : held[sid'] = m =>
                noted[sid'] \subseteq bounced'[m] \cup discarded'[m]
  PROVE  PromiseInv'
<1>1. FilesKept /\ UNCHANGED <<dirty, held, pending, noted>>
  BY DEF FilesKept, dirVars
<1>2. UNCHANGED <<wpc, wid, accepted, tpc, tid, tleft, late>>
  BY DEF queueVars, todoVars, envVars
<1>3. \A id \in Ids, r \in Rcpts :
        del'[id][r] \in {"K", "noted"} => del'[id][r] = del[id][r]
  OBVIOUS
<1> QED
  BY <1>1, <1>2, <1>3, QuietPromise

(* injectbounce() reports all that bounce/ lists. *)
LEMMA InjectBouncePromise ==
  ASSUME Typed, PromiseInv, InjectBounce, UNCHANGED <<queueVars, todoVars, envVars>>
  PROVE  PromiseInv'
<1>1. PICK x \in Ids : x = sid
  BY DEF InjectBounce, Typed, Working
<1>2. /\ UNCHANGED <<hiteof, passid, unread, undone, del, delivered, forgotten, dirVars>>
      /\ sid' = sid
  BY DEF InjectBounce, SendGoto, TryAgain, restVars, envVars
<1>3. /\ bounced \in [Msgs -> SUBSET Rcpts] /\ discarded \in [Msgs -> SUBSET Rcpts]
      /\ held[x] \in Msgs \cup {NoMsg}
  BY DEF Typed, TypeOK, SendTypeOK, QueueTypeOK
<1>4. /\ \A m \in Msgs : bounced[m] \subseteq bounced'[m] /\ discarded[m] \subseteq discarded'[m]
      /\ spc' = "unbounce" =>
           \A m \in Msgs : held[x] = m => noted[x] \subseteq bounced'[m] \cup discarded'[m]
  <2>1. CASE UNCHANGED <<bounced, discarded>> /\ spc' # "unbounce"
    BY <2>1
  <2>2. CASE /\ bounced' = bounced
             /\ discarded' = [discarded EXCEPT ![held[x]] = @ \cup noted[x]]
    BY <1>3, <2>2
  <2>3. CASE /\ discarded' = discarded
             /\ bounced' = [bounced EXCEPT ![held[x]] = @ \cup noted[x]]
    BY <1>3, <2>3
  <2> QED
    BY <1>1, <2>1, <2>2, <2>3 DEF InjectBounce, SendGoto, TryAgain
<1>5. FatesGrow
  BY <1>2, <1>4 DEF FatesGrow
<1> QED
  BY <1>1, <1>2, <1>4, <1>5, SendLooksPromise

(* bounce/ and info/ of a message that is done. *)
LEMMA UnlinkDonePromise ==
  ASSUME Typed, QueueInv, PromiseInv, UnlinkBounce \/ UnlinkInfo,
         UNCHANGED <<queueVars, todoVars, envVars>>
  PROVE  PromiseInv'
<1>1. PICK x \in Ids : x = sid
  BY DEF UnlinkBounce, UnlinkInfo, Typed, Working
<1>2. /\ spc \in {"unbounce", "uninfo"}
      /\ UNCHANGED <<sid, hiteof, passid, unread, undone, del, fateVars>>
      /\ spc' \in {"idle", "uninfo", "clean_intd"}
  BY DEF UnlinkBounce, UnlinkInfo, SendGoto, TryAgain, restVars
<1>3. S5(x) /\ ~Has("local", x) /\ ~Has("remote", x)
  BY <1>1, <1>2 DEF QueueInv, SendInv, Eliminating
<1>4. Has("bounce", x) =>
        \A m \in Msgs : held[x] = m => noted[x] \subseteq bounced[m] \cup discarded[m]
  BY <1>1, <1>2 DEF QueueInv, SendInv, PromiseInv, FateInv
<1>5. CASE UNCHANGED dirVars
  <2>1. FatesGrow
    BY <1>2 DEF FatesGrow, fateVars, envVars
  <2> QED
    BY <1>2, <1>5, <2>1, SendLooksPromise
<1>6. CASE ~UNCHANGED dirVars
  <2>1. PICK d \in {"bounce", "info"} :
          /\ Unlink(d, x) /\ UNCHANGED <<dirty, held, pending>>
          /\ noted' = noted \/ noted' = [noted EXCEPT ![x] = {}]
    BY <1>1, <1>6 DEF UnlinkBounce, UnlinkInfo
  <2>2. \A id \in Ids : id # x => noted'[id] = noted[id]
    BY <2>1 DEF Typed, TypeOK, QueueTypeOK
  <2> QED
    BY <1>2, <1>3, <1>4, <2>1, <2>2, DiscardPromise
<1> QED
  BY <1>5, <1>6

(* qmail-clean removes what no queued message needs. *)
LEMMA CleanFilePromise ==
  ASSUME Typed, QueueInv, PromiseInv, NEW pc, NEW d, NEW next, CleanFile(pc, d, next),
         <<pc, d, next>> \in {<<"clean_intd", "intd", "clean_mess">>,
                              <<"clean_mess", "mess", "idle">>},
         UNCHANGED <<queueVars, todoVars, envVars>>
  PROVE  PromiseInv'
<1>1. PICK x \in Ids : x = sid
  BY DEF CleanFile, Typed, Working
<1>2. /\ spc \in {"clean_intd", "clean_mess"} /\ spc' # "unbounce"
      /\ UNCHANGED <<dirty, held, pending, noted>>
      /\ UNCHANGED <<hiteof, passid, unread, undone, del, fateVars>>
      /\ UNCHANGED <<wpc, wid, accepted, tpc, tid, tleft, late, forgotten>>
      /\ UNCHANGED files \/ Unlink(d, x)
  BY <1>1 DEF CleanFile, SendGoto, restVars, dirVars, queueVars, todoVars, envVars
<1>3. Bare(x)
  BY <1>1, <1>2 DEF QueueInv, SendInv
<1>4. OnlyFilesOf(x) /\ Bare(x)'
  BY <1>2, <1>3 DEF OnlyFilesOf, Bare, Unlink, Has
<1> QED
  BY <1>2, <1>3, <1>4, BarePromise DEF Live

(* A step of qmail-send. *)
LEMMA SendPromise ==
  ASSUME Typed, QueueInv, PromiseInv, Send
  PROVE  PromiseInv'
<1> UNCHANGED <<queueVars, todoVars, envVars>>
  BY DEF Send
<1>1. ASSUME NEW id \in Ids, NEW r \in Rcpts,
             ReportK(id, r) \/ ReportZ(id, r) \/ MarkFailed(id, r)
      PROVE  PromiseInv'
  BY <1>1, EndDeliveryPromise DEF ReportK, ReportZ, MarkFailed
<1>2. ASSUME \/ \E id \in Ids : MessDone(id) \/ CleanupOld(id)
             \/ MessDoneStat("stat_local", "local", FALSE, "stat_remote")
             \/ MessDoneStat("stat_remote", "remote", FALSE, "stat_todo")
             \/ MessDoneStat("stat_todo", "todo", FALSE, "stat_info")
             \/ MessDoneStat("stat_info", "info", TRUE, "bounce")
             \/ CleanupStat("old_info", "info", "old_todo")
             \/ CleanupStat("old_todo", "todo", "clean_intd")
      PROVE  PromiseInv'
  <2>1. /\ UNCHANGED <<hiteof, passid, unread, undone, del, dirVars, fateVars>>
        /\ spc' # "unbounce"
    BY <1>2 DEF MessDone, CleanupOld, MessDoneStat, CleanupStat, SendGoto, TryAgain,
       restVars
  <2>2. FatesGrow
    BY <2>1 DEF FatesGrow, fateVars, envVars
  <2> QED
    BY <2>1, <2>2, SendLooksPromise
<1>3. CASE CleanFile("clean_intd", "intd", "clean_mess")
  BY <1>3, CleanFilePromise
<1>4. CASE CleanFile("clean_mess", "mess", "idle")
  BY <1>4, CleanFilePromise
<1>5. CASE SendExit
  BY <1>5, FreshPromise DEF SendExit, GoDown, todoVars, envVars
<1>6. CASE \/ \E c \in Channels, id \in Ids : OpenPass(c, id)
           \/ \E c \in Channels, r \in Rcpts : ReadRecipient(c, r)
           \/ \E c \in Channels, hit \in BOOLEAN : EndPass(c, hit)
           \/ \E id \in Ids, r \in Rcpts : ReportD(id, r)
           \/ InjectBounce \/ UnlinkBounce \/ UnlinkInfo
  BY <1>6, OpenPassPromise, ReadRecipientPromise, EndPassPromise, ReportDPromise,
     InjectBouncePromise, UnlinkDonePromise
<1> QED
  BY <1>1, <1>2, <1>3, <1>4, <1>5, <1>6 DEF Send, SendStep

-----------------------------------------------------------------------------
(* What happens to the daemons, and around them.                           *)

(* A report of K is a promise that the message was delivered. *)
LEMMA SpawnerPromise ==
  ASSUME Typed, QueueInv, PromiseInv, NEW x \in Ids, NEW r \in Rcpts, NEW report \in Report,
         Spawner(x, r, report)
  PROVE  PromiseInv'
<1>1. /\ del' = [del EXCEPT ![x][r] = report]
      /\ delivered' = IF report = "K"
                        THEN [delivered EXCEPT ![held[x]] = @ \cup {r}]
                        ELSE delivered
      /\ UNCHANGED <<spc, sid, passid, unread, hiteof, undone, bounced, discarded,
                     dirVars, queueVars, todoVars, envVars>>
  BY DEF Spawner, SpawnerReports
<1>2. /\ del \in [Ids -> [Rcpts -> {"none", "sent", "noted"} \cup Report]]
      /\ delivered \in [Msgs -> SUBSET Rcpts]
  BY DEF Typed, TypeOK, SendTypeOK
<1>3. /\ \A m \in Msgs : delivered[m] \subseteq delivered'[m]
      /\ report = "K" => \A m \in Msgs : held[x] = m => r \in delivered'[m]
  BY <1>1, <1>2
<1>4. FilesKept /\ UNCHANGED <<dirty, held, pending, noted, late, forgotten, files>>
  BY <1>1 DEF FilesKept, dirVars, envVars
<1>5. FatesGrow
  BY <1>1, <1>3, <1>4 DEF FatesGrow
<1>6. JobInv'
  BY <1>1, <1>4, <1>5, JobKept DEF PromiseInv
<1>7. FateInv'
  <2>1. ASSUME NEW id \in Ids, NEW q \in Rcpts
        PROVE  /\ del'[id][q] = "K" => Delivered(id, q)'
               /\ del'[id][q] = "noted" => Has("bounce", id)' /\ q \in noted'[id]
    <3>1. CASE id = x /\ q = r
      <4>1. del'[id][q] = report /\ report # "noted"
        BY <1>1, <1>2, <3>1 DEF Report
      <4> QED
        BY <1>3, <1>4, <3>1, <4>1 DEF Delivered
    <3>2. CASE ~(id = x /\ q = r)
      <4>1. del'[id][q] = del[id][q]
        BY <1>1, <1>2, <3>2
      <4> QED
        BY <1>3, <1>4, <4>1 DEF PromiseInv, FateInv, Delivered, Has
    <3> QED
      BY <3>1, <3>2
  <2>2. spc' = "unbounce" =>
          \A m \in Msgs : held'[sid'] = m =>
            noted'[sid'] \subseteq bounced'[m] \cup discarded'[m]
    BY <1>1, <1>4 DEF PromiseInv, FateInv
  <2> QED
    BY <2>1, <2>2 DEF FateInv
<1>8. NoLoss'
  <2>1. ASSUME NEW m \in accepted, NEW q \in To[m], Carried(m, q) PROVE Carried(m, q)'
    BY <1>1, <1>4, <2>1 DEF Carried, Holds, Has, queueVars
  <2>2. accepted' = accepted /\ accepted \subseteq Msgs
    BY <1>1 DEF queueVars, Typed, TypeOK, WriterTypeOK
  <2> QED
    BY <1>5, <2>1, <2>2, NoLossStep DEF PromiseInv
<1> QED
  BY <1>1, <1>4, <1>6, <1>7, <1>8 DEF PromiseInv, HolderInv, RecordInv, CopyInv, WholeInv,
     Live, Has, Envelope, Clean, queueVars, todoVars

(* The steps that only concern the pipes, the flags and the time, and the  *)
(* pid/ files, which are nothing to a queued message.                      *)
LEMMA AroundPromise ==
  ASSUME Typed, PromiseInv,
         \/ \E id \in Ids : ReapPid(id) \/ Expire(id)
         \/ ReadReport \/ ReadStop \/ NoticeTodoGone \/ OrphanTodoExits
         \/ SendCleanDies \/ TodoCleanDies \/ Terminate \/ Tick \/ UNCHANGED vars
  PROVE  PromiseInv'
<1> DEFINE job == <<hiteof, passid, unread, undone, del, fateVars>>
           old == <<dirty, held, pending, noted, queueVars, late, forgotten>>
<1>1. ASSUME NEW id \in Ids, ReapPid(id)
      PROVE  /\ files' = files \ {<<"pid", id>>}
             /\ UNCHANGED <<job, old, spc, sid, todoVars>>
  BY <1>1 DEF ReapPid, CleanupPid, Unlink, restVars, envVars
<1>2. ASSUME \/ (\E id \in Ids : Expire(id))
             \/ ReadReport \/ ReadStop \/ NoticeTodoGone \/ OrphanTodoExits
             \/ SendCleanDies \/ TodoCleanDies \/ Terminate \/ Tick \/ UNCHANGED vars
      PROVE  /\ UNCHANGED <<job, old, files>>
             /\ spc' = "idle" \/ UNCHANGED <<spc, sid>>
             /\ tpc' \in {"idle", "dead"} \/ UNCHANGED <<tpc, tid, tleft>>
  <2>1. CASE (\E id \in Ids : Expire(id)) \/ Tick \/ UNCHANGED vars
    BY <2>1 DEF Expire, Tick, vars, sendVars, memVars, todoVars, envVars, dirVars
  <2>2. CASE ReadReport \/ ReadStop \/ NoticeTodoGone
    BY <2>2 DEF ReadReport, TodoDel, ReadStop, NoticeTodoGone, TodoGone, dirVars, sendVars,
       memVars, todoVars, envVars
  <2>3. CASE OrphanTodoExits \/ SendCleanDies \/ TodoCleanDies \/ Terminate
    BY <2>3 DEF OrphanTodoExits, SendCleanDies, TodoCleanDies, Terminate, SigTerm, SendGoto,
       dirVars, sendVars, memVars, todoVars, envVars
  <2> QED
    BY <1>2, <2>1, <2>2, <2>3
<1>3. /\ FilesKept /\ UNCHANGED <<job, old>>
      /\ spc' = "unbounce" => spc = "unbounce" /\ sid' = sid
      /\ tpc' \in {"idle", "dead"} \/ UNCHANGED <<tpc, tid, tleft>>
  BY <1>1, <1>2 DEF FilesKept, Channels, todoVars
<1>4. FatesGrow /\ UNCHANGED <<wpc, wid, accepted>>
  BY <1>3 DEF FatesGrow, fateVars, queueVars
<1> QED
  BY <1>3, <1>4, QuietPromise

(* What an orphaned qmail-clean unlinks. *)
LEMMA LateUnlinkPromise ==
  ASSUME Typed, QueueInv, DurableInv, PromiseInv, LateUnlink
  PROVE  PromiseInv'
<1>1. PICK f \in late :
        /\ late' = late \ {f} /\ files' = files \ {f}
        /\ UNCHANGED <<dirty, held, pending, noted, forgotten, queueVars, todoVars, sendVars>>
  BY DEF LateUnlink
<1>2. PICK d \in Directories, x \in Ids : f = <<d, x>>
  BY DEF Typed, TypeOK
<1>3. UNCHANGED <<wpc, wid, accepted, tpc, tid, tleft, spc, sid, hiteof, passid, unread,
                  undone, del, fateVars>>
  BY <1>1 DEF queueVars, todoVars, sendVars, memVars
<1>4. CASE d = "mess"
  <2>1. Bare(x)
    BY <1>1, <1>2, <1>4 DEF QueueInv, LateInv
  <2>2. OnlyFilesOf(x) /\ Bare(x)'
    BY <1>1, <1>2, <2>1 DEF OnlyFilesOf, Bare, Has
  <2> QED
    BY <1>1, <1>3, <2>1, <2>2, BarePromise DEF Live
<1>5. CASE d = "intd"
  <2>1. FilesKept
    BY <1>1, <1>2, <1>5 DEF FilesKept, Channels
  <2>2. FatesGrow
    BY <1>1, <1>3 DEF FatesGrow, fateVars
  <2> QED
    BY <1>1, <1>3, <2>1, <2>2, QuietPromise
<1>6. CASE d = "todo"
  <2>1. Has("todo", x) /\ Has("info", x)
    BY <1>1, <1>2, <1>6 DEF QueueInv, LateInv
  <2>2. Envelope(x) \subseteq pending[x]
    BY <1>1, <1>2, <1>6 DEF PromiseInv, CopyInv
  <2> QED
    BY <1>1, <1>2, <1>3, <1>6, <2>1, <2>2, UnlinkTodoPromise
<1> QED
  BY <1>1, <1>2, <1>4, <1>5, <1>6 DEF QueueInv, LateInv

(* qmail-todo dies; its qmail-clean may outlive it. *)
LEMMA TodoDiesPromise ==
  ASSUME Typed, PromiseInv, TodoDies
  PROVE  PromiseInv'
<1>1. /\ tpc' = "dead" /\ late' \in {late, late \cup Requested(tpc, tid, "todo")}
      /\ UNCHANGED <<dirVars, queueVars, sendVars, forgotten>>
  BY DEF TodoDies
<1>2. CopyInv'
  <2> SUFFICES ASSUME NEW id \in Ids, <<"todo", id>> \in late'
               PROVE  Envelope(id) \subseteq pending[id]
    BY <1>1 DEF CopyInv, Envelope, dirVars
  <2>1. CASE <<"todo", id>> \in late
    BY <2>1 DEF PromiseInv, CopyInv
  <2>2. CASE <<"todo", id>> \notin late
    <3>1. <<"todo", id>> \in Requested(tpc, tid, "todo")
      BY <1>1, <2>2
    <3>2. tpc \in {"clean_intd", "clean_todo"} /\ tid = id
      <4>1. CASE tpc = "clean_intd"
        BY <3>1, <4>1 DEF Requested
      <4>2. CASE tpc \in {"clean_mess", "clean_todo"}
        BY <3>1, <4>2 DEF Requested, Typed, TypeOK, TodoTypeOK, TodoPcs
      <4>3. CASE tpc \notin {"clean_intd", "clean_mess", "clean_todo"}
        BY <3>1, <4>3 DEF Requested
      <4> QED
        BY <4>1, <4>2, <4>3
    <3> QED
      BY <3>2 DEF PromiseInv, CopyInv
  <2> QED
    BY <2>1, <2>2
<1>3. JobInv'
  BY <1>1 DEF PromiseInv, JobInv, S5, Has, Done, Delivered, dirVars, sendVars, memVars, fateVars
<1>4. FateInv'
  BY <1>1 DEF PromiseInv, FateInv, Has, Delivered, dirVars, sendVars, memVars, fateVars
<1>5. HolderInv' /\ RecordInv' /\ WholeInv' /\ NoLoss'
  BY <1>1 DEF PromiseInv, HolderInv, RecordInv, WholeInv, NoLoss, Live, Has, Clean, Carried,
     Holds, Settled, dirVars, queueVars, sendVars, fateVars
<1> QED
  BY <1>2, <1>3, <1>4, <1>5 DEF PromiseInv

(* A reboot finds what is queued on disk.  A note that is lost from        *)
(* bounce/ after the D mark of its record was kept is a failure that       *)
(* nobody will hear of.                                                    *)
LEMMA RebootPromise ==
  ASSUME Typed, DurableInv, PromiseInv, Reboot
  PROVE  PromiseInv'
<1> DEFINE lost(id) == UNION {OfChannel(c) : c \in {d \in Channels : <<d, id>> \in dirty}}
           kept(id) == Envelope(id) \cap
                         UNION {OfChannel(c) : c \in {d \in Channels : Has(d, id)}}
           torn == {id \in Ids : <<"mess", id>> \in dirty \/ <<"intd", id>> \in dirty}
<1>1. /\ spc' = "down" /\ FreshMemory /\ tpc' = "dead" /\ late' = {} /\ dirty' = {}
      /\ wpc' = [m \in Msgs |-> IF Live(m) THEN "dead" ELSE wpc[m]]
      /\ held' = [id \in Ids |-> IF id \in torn THEN NoMsg ELSE held[id]]
      /\ \A id \in Ids : noted'[id] \subseteq noted[id]
      /\ forgotten' =
           [m \in Msgs |->
              forgotten[m] \cup UNION {(noted[id] \ noted'[id]) \ pending'[id] :
                                       id \in {i \in Ids : held[i] = m}}]
      /\ UNCHANGED <<files, wid, accepted, fateVars>>
  BY DEF Reboot, GoDown
<1>2. PICK revert \in [Ids -> SUBSET Rcpts] :
        /\ \A id \in Ids : revert[id] \subseteq kept(id)
        /\ pending' = [id \in Ids |-> (pending[id] \cup revert[id]) \ lost(id)]
  BY DEF Reboot
<1>3. HolderInv'
  BY <1>1 DEF PromiseInv, HolderInv, Live
<1>4. RecordInv'
  <2>1. ASSUME NEW id \in Ids, NEW r \in pending'[id] PROVE Has(ChannelOf[r], id)
    <3>1. CASE r \in pending[id]
      BY <3>1 DEF PromiseInv, RecordInv
    <3>2. CASE r \in kept(id)
      BY <3>2 DEF OfChannel
    <3> QED
      BY <1>2, <2>1, <3>1, <3>2
  <2> QED
    BY <1>1, <2>1 DEF RecordInv, Has
<1>5. CopyInv' /\ WholeInv' /\ JobInv' /\ FateInv'
  BY <1>1, EnvelopeAssumption
     DEF CopyInv, WholeInv, Clean, JobInv, FateInv, FreshMemory, NoDelivery
<1>6. NoLoss'
  <2>1. FatesGrow
    BY <1>1 DEF FatesGrow, fateVars
  <2>2. ASSUME NEW m \in accepted, NEW r \in To[m], Carried(m, r)
        PROVE  Carried(m, r)' \/ Settled(m, r)'
    <3>1. PICK x \in Ids : x = wid[m]
      BY <2>2 DEF Carried, Holds, Typed, TypeOK, WriterTypeOK
    <3>2. m \in Msgs /\ r \in Rcpts /\ ChannelOf[r] \in Channels
      BY EnvelopeAssumption DEF Typed, TypeOK, WriterTypeOK
    <3>3. x \notin torn
      BY <2>2, <3>1 DEF Carried, DurableInv, QueuedIsDurable, PromiseInv, WholeInv, Clean
    <3>4. Holds(m)' /\ \A d : Has(d, x)' <=> Has(d, x)
      BY <1>1, <2>2, <3>1, <3>3 DEF Carried, Holds, Has
    <3> HIDE DEF torn
    <3>5. CASE Has("todo", x)
      BY <1>1, <2>2, <3>1, <3>4, <3>5 DEF Carried, Has
    <3>6. CASE Has("info", x) /\ ~Has("todo", x)
      <4>1. lost(x) = {}
        BY <3>6 DEF DurableInv, QueuedIsDurable
      <4>2. pending[x] \subseteq pending'[x]
        BY <1>2, <4>1
      <4>3. CASE r \in pending'[x]
        <5>1. Has(ChannelOf[r], x)'
          BY <1>4, <4>3 DEF RecordInv
        <5> QED
          BY <1>1, <2>2, <3>1, <3>4, <3>6, <4>3, <5>1 DEF Carried
      <4>4. CASE r \notin pending'[x]
        <5>1. Has("bounce", x) /\ r \in noted[x] /\ held[x] = m
          BY <2>2, <3>1, <3>6, <4>2, <4>4 DEF Carried, Holds
        <5>2. CASE r \in noted'[x]
          BY <1>1, <2>2, <3>1, <3>4, <3>6, <5>1, <5>2 DEF Carried
        <5>3. CASE r \notin noted'[x]
          <6>1. r \in (noted[x] \ noted'[x]) \ pending'[x]
            BY <4>4, <5>1, <5>3
          <6>2. r \in forgotten'[m]
            BY <1>1, <3>2, <5>1, <6>1
          <6> QED
            BY <6>2 DEF Settled
        <5> QED
          BY <5>2, <5>3
      <4> QED
        BY <4>3, <4>4
    <3> QED
      BY <2>2, <3>1, <3>5, <3>6 DEF Carried
  <2>3. accepted' = accepted /\ accepted \subseteq Msgs
    BY <1>1 DEF Typed, TypeOK, WriterTypeOK
  <2> QED
    BY <2>1, <2>2, <2>3, NoLossStep DEF PromiseInv
<1> QED
  BY <1>3, <1>4, <1>5, <1>6 DEF PromiseInv

-----------------------------------------------------------------------------

(* Nothing has been accepted before anything is started. *)
LEMMA InitPromise == Init => PromiseInv
<1> SUFFICES ASSUME Init PROVE PromiseInv
  OBVIOUS
<1>1. HolderInv /\ RecordInv /\ CopyInv /\ NoLoss
  BY DEF Init, QueueInit, WriterInit, TodoInit, HolderInv, RecordInv, CopyInv, NoLoss, Live
<1>2. JobInv /\ FateInv /\ WholeInv
  BY EnvelopeAssumption
     DEF Init, QueueInit, SendInit, JobInv, FateInv, WholeInv, Has, NoDelivery
<1> QED
  BY <1>1, <1>2 DEF PromiseInv

(* Every step of the system keeps the promise. *)
LEMMA NextPromise ==
  ASSUME Typed, QueueInv, DurableInv, PromiseInv, [Next]_vars
  PROVE  PromiseInv'
<1>1. CASE (\E m \in Msgs : Queue(m)) \/ Todo \/ Send
  BY <1>1, QueuePromise, TodoStepPromise, SendPromise
<1>2. CASE \E id \in Ids, r \in Rcpts, report \in Report : Spawner(id, r, report)
  BY <1>2, SpawnerPromise
<1>3. CASE Start
  BY <1>3, FreshPromise DEF Start, SendStart, envVars
<1>4. CASE SendDies
  <2>1. \A id \in Ids : <<"todo", id>> \in late' => <<"todo", id>> \in late
    BY <1>4 DEF SendDies, Requested
  <2> QED
    BY <1>4, <2>1, FreshPromise DEF SendDies, GoDown
<1>5. CASE TodoDies \/ LateUnlink \/ Reboot
  BY <1>5, TodoDiesPromise, LateUnlinkPromise, RebootPromise
<1>6. CASE \/ \E id \in Ids : ReapPid(id) \/ Expire(id)
           \/ ReadReport \/ ReadStop \/ NoticeTodoGone \/ OrphanTodoExits
           \/ SendCleanDies \/ TodoCleanDies \/ Terminate \/ Tick \/ UNCHANGED vars
  BY <1>6, AroundPromise
<1> QED
  BY <1>1, <1>2, <1>3, <1>4, <1>5, <1>6 DEF Next

(* What the steps of the system keep is true from the beginning. *)
THEOREM AlwaysPromiseInv ==
  ASSUME ~StaleBacklog PROVE Spec => []PromiseInv
<1>1. Init => PromiseInv
  BY InitPromise
<1>2. Typed /\ QueueInv /\ DurableInv /\ PromiseInv /\ [Next]_vars => PromiseInv'
  BY NextPromise
<1> QED
  BY <1>1, <1>2, AlwaysTyped, AlwaysQueueInv, AlwaysDurableInv, PTL DEF Spec

(* No recipient of an accepted message is lost: each has been delivered to *)
(* or reported, or the queue still carries it where qmail-todo or          *)
(* qmail-send will find it, whatever dies and however the link, copy,      *)
(* fsync, mark, addbounce and unlink calls of qmail-queue.c, qmail-todo.c  *)
(* and qmail-send.c are interleaved.                                       *)
THEOREM AlwaysNoLoss ==
  ASSUME ~StaleBacklog PROVE Spec => []NoLoss
<1>1. PromiseInv => NoLoss
  BY DEF PromiseInv
<1> QED
  BY <1>1, AlwaysPromiseInv, PTL

-----------------------------------------------------------------------------
(***************************************************************************)
(* MailSystem implements MailContract, for all constants: each step of the *)
(* programs and each death is one step of the contract or none of its      *)
(* business.                                                               *)
(***************************************************************************)

Reported(m) == bounced[m] \cup discarded[m] \cup forgotten[m]

(* An inode in todo/ or info/ holds an accepted message, whose only inode  *)
(* it is.                                                                  *)
OwnerInv ==
  \A id \in Ids : Has("todo", id) \/ Has("info", id) =>
    held[id] \in accepted /\ wid[held[id]] = id

(* Nobody is delivered to or reported who is not in the envelope: not the  *)
(* records of local/ and remote/, the notes in bounce/, the recipients of  *)
(* passes and deliveries, what qmail-todo has still to copy, the reported. *)
PendingAsked == \A id \in Ids : pending[id] \subseteq Envelope(id)

NotedAsked ==
  \A id \in Ids :
    noted[id] \subseteq Envelope(id) /\ (noted[id] # {} => Has("bounce", id))

JobAsked ==
  /\ \A id \in Ids, r \in Rcpts : del[id][r] # "none" => r \in Envelope(id)
  /\ \A c \in Channels : passid[c] # NoId => unread[c] \subseteq Envelope(passid[c])

Waiting == {"dead", "idle", "report"}

LeftAsked == tpc \notin Waiting => tleft \subseteq Envelope(tid)

ReportedAsked == \A m \in Msgs : Reported(m) \subseteq To[m]

OriginInv ==
  OwnerInv /\ PendingAsked /\ NotedAsked /\ JobAsked /\ LeftAsked /\ ReportedAsked

-----------------------------------------------------------------------------
(* Frames.                                                                 *)

(* Files do not appear in info/ unless they are in todo/. *)
LEMMA OwnerFrame ==
  ASSUME OwnerInv, UNCHANGED <<held, wid, accepted>>,
         \A id \in Ids : \/ <<"todo", id>> \in files' \/ <<"info", id>> \in files'
                        => Has("todo", id) \/ Has("info", id)
  PROVE  OwnerInv'
BY DEF OwnerInv, Has

(* No record is made, no note is made and none loses its file. *)
LEMMA FileAskedFrame ==
  ASSUME PendingAsked, NotedAsked, UNCHANGED <<held, noted>>,
         \A id \in Ids : /\ pending'[id] \subseteq pending[id]
                         /\ <<"bounce", id>> \in files => <<"bounce", id>> \in files'
  PROVE  PendingAsked' /\ NotedAsked'
<1>0. \A id : Envelope(id)' = Envelope(id)
  BY DEF Envelope
<1>1. PendingAsked'
  BY <1>0 DEF PendingAsked
<1>2. NotedAsked'
  BY <1>0 DEF NotedAsked, Has
<1> QED
  BY <1>1, <1>2

(* No pass and no delivery begins. *)
LEMMA JobAskedFrame ==
  ASSUME JobAsked, UNCHANGED held,
         \A id \in Ids, r \in Rcpts : del'[id][r] # "none" => del[id][r] # "none",
         \A c \in Channels : \/ passid'[c] = NoId
                             \/ passid'[c] = passid[c] /\ unread'[c] \subseteq unread[c]
  PROVE  JobAsked'
<1>1. \A id : held'[id] = held[id]
  OBVIOUS
<1>2. \A id \in Ids, r \in Rcpts : del'[id][r] # "none" => r \in Envelope(id)'
  BY <1>1 DEF JobAsked, Envelope
<1>3. ASSUME NEW c \in Channels, passid'[c] # NoId
      PROVE  unread'[c] \subseteq Envelope(passid[c])'
  <2>1. passid'[c] = passid[c] /\ unread'[c] \subseteq unread[c]
    BY <1>3
  <2>2. Envelope(passid[c])' = Envelope(passid[c])
    BY <2>1 DEF Envelope
  <2>3. unread[c] \subseteq Envelope(passid[c])
    BY <1>3, <2>1 DEF JobAsked
  <2> QED
    BY <2>1, <2>2, <2>3
<1> QED
  BY <1>2, <1>3 DEF JobAsked

(* qmail-todo does not begin with a message. *)
LEMMA LeftAskedFrame ==
  ASSUME LeftAsked, UNCHANGED held,
         tpc' \in Waiting \/ (tpc \notin Waiting /\ tid' = tid /\ tleft' \subseteq tleft)
  PROVE  LeftAsked'
BY DEF LeftAsked, Envelope

(* Nothing is reported. *)
LEMMA ReportedFrame ==
  ASSUME ReportedAsked, UNCHANGED <<bounced, discarded, forgotten>>
  PROVE  ReportedAsked'
BY DEF ReportedAsked, Reported

-----------------------------------------------------------------------------
(* Steps of the contract.                                                  *)

(* What the contract calls queue, gone and reported stays as it is. *)
LEMMA NoBusiness ==
  ASSUME accepted' = accepted, \A m \in accepted : InQueue(m)' <=> InQueue(m),
         delivered' = delivered, \A m \in Msgs : Reported(m)' = Reported(m)
  PROVE  UNCHANGED Contract!cvars
BY DEF Contract!cvars, InQueue, Reported

(* Nor does anybody join or leave when todo/ or info/ takes over from the  *)
(* other.                                                                  *)
LEMMA StillThere ==
  ASSUME Typed, UNCHANGED <<held, wid, accepted>>,
         \A id \in Ids : <<"todo", id>> \in files' \/ <<"info", id>> \in files'
                        <=> <<"todo", id>> \in files \/ <<"info", id>> \in files
  PROVE  \A m \in accepted : InQueue(m)' <=> InQueue(m)
<1>1. ASSUME NEW m \in accepted PROVE InQueue(m)' <=> InQueue(m)
  <2>1. wid[m] \in Ids \cup {NoId}
    BY DEF Typed, TypeOK, WriterTypeOK
  <2> QED
    BY <2>1 DEF InQueue, Holds, Has
<1> QED
  BY <1>1

(* Init maps to the initial state of the contract. *)
LEMMA InitContract == Init => Contract!Init
BY DEF Init, WriterInit, SendInit, Contract!Init, InQueue

(* What a step has to show that is not the contract's business. *)
LEMMA SilentStep ==
  ASSUME Typed, OriginInv, UNCHANGED <<held, noted, wid, accepted, fateVars, forgotten>>,
         \A id \in Ids : <<"bounce", id>> \in files => <<"bounce", id>> \in files',
         \A id \in Ids : <<"todo", id>> \in files' \/ <<"info", id>> \in files'
                        <=> <<"todo", id>> \in files \/ <<"info", id>> \in files,
         PendingAsked', JobAsked', LeftAsked'
  PROVE  OriginInv' /\ UNCHANGED Contract!cvars
<1>1. OwnerInv'
  BY OwnerFrame DEF OriginInv, Has
<1>2. NotedAsked'
  BY DEF OriginInv, NotedAsked, Envelope, Has
<1>3. ReportedAsked'
  BY DEF OriginInv, ReportedAsked, Reported, fateVars
<1>4. UNCHANGED Contract!cvars
  BY StillThere, NoBusiness DEF Reported, fateVars
<1> QED
  BY <1>1, <1>2, <1>3, <1>4 DEF OriginInv

-----------------------------------------------------------------------------
(* qmail-queue.                                                            *)

(* A new inode is in nobody's books. *)
LEMMA PidOpenOrigin ==
  ASSUME Typed, QueueInv, PromiseInv, OriginInv, NEW m \in Msgs, PidOpen(m),
         UNCHANGED <<todoVars, sendVars, envVars>>
  PROVE  OriginInv' /\ UNCHANGED Contract!cvars
<1>1. PICK x \in Ids :
        /\ Fresh(x) /\ wpc[m] = "start"
        /\ wid' = [wid EXCEPT ![m] = x]
        /\ files' = files \cup {<<"pid", x>>}
        /\ held' = [held EXCEPT ![x] = m]
        /\ UNCHANGED <<pending, noted, accepted>>
  BY DEF PidOpen, Link
<1>2. /\ wid \in [Msgs -> Ids \cup {NoId}] /\ held \in [Ids -> Msgs \cup {NoMsg}]
      /\ accepted \subseteq Msgs
  BY DEF Typed, TypeOK, WriterTypeOK, QueueTypeOK
<1>3. Bare(x) /\ m \notin accepted
  BY <1>1 DEF Fresh, QueueInv, LawfulInv, Lawful, PromiseInv, HolderInv
<1>4. /\ \A id \in Ids : id # x => held'[id] = held[id] /\ Envelope(id)' = Envelope(id)
      /\ \A n \in accepted : wid'[n] = wid[n]
      /\ \A d \in {"todo", "info", "bounce"}, id \in Ids : Has(d, id)' <=> Has(d, id)
  BY <1>1, <1>2, <1>3 DEF Envelope, Has
<1>5. OwnerInv'
  BY <1>1, <1>3, <1>4 DEF OriginInv, OwnerInv, Bare
<1>6. /\ pending[x] = {} /\ noted[x] = {} /\ ~S5(x)
      /\ tpc \notin Waiting => tid # x
  <2>1. \A r \in Rcpts : ~Has(ChannelOf[r], x)
    BY <1>3, EnvelopeAssumption DEF Bare, Channels
  <2>2. pending[x] \subseteq Rcpts
    BY DEF Typed, TypeOK, QueueTypeOK
  <2> QED
    BY <1>3, <2>1, <2>2
       DEF Bare, PromiseInv, RecordInv, OriginInv, NotedAsked, S5, QueueInv, TodoInv, Waiting
<1>7. PendingAsked' /\ NotedAsked'
  BY <1>1, <1>4, <1>6 DEF OriginInv, PendingAsked, NotedAsked
<1>8. JobAsked'
  <2>1. \A id \in Ids, r \in Rcpts : del[id][r] # "none" => id # x
    BY <1>6 DEF QueueInv, KnownInv
  <2>2. \A c \in Channels : passid[c] # NoId => passid[c] # x /\ passid[c] \in Ids
    BY <1>6 DEF QueueInv, KnownInv, Typed, TypeOK, SendTypeOK
  <2>3. UNCHANGED <<del, passid, unread>>
    BY DEF sendVars, memVars
  <2>4. ASSUME NEW c \in Channels, passid[c] # NoId
        PROVE  unread[c] \subseteq Envelope(passid[c])'
    <3>1. PICK id \in Ids : id = passid[c] /\ id # x
      BY <2>2, <2>4
    <3>2. Envelope(id)' = Envelope(id) /\ passid' = passid
      BY <1>4, <2>3, <3>1
    <3> QED
      BY <2>4, <3>1, <3>2 DEF OriginInv, JobAsked, Envelope
  <2> QED
    BY <1>4, <2>1, <2>3, <2>4 DEF OriginInv, JobAsked
<1>9. LeftAsked' /\ ReportedAsked'
  <2>1. tpc \notin Waiting => tid \in Ids /\ Envelope(tid)' = Envelope(tid)
    <3>1. ASSUME tpc \notin Waiting PROVE tid \in Ids /\ tid # x /\ tid' = tid
      BY <1>6, <3>1 DEF Typed, Working, Waiting, todoVars
    <3> QED
      BY <1>1, <3>1 DEF Envelope
  <2> QED
    BY <2>1 DEF OriginInv, LeftAsked, ReportedAsked, Reported, todoVars, sendVars,
       fateVars, envVars
<1>10. \A n \in accepted : InQueue(n)' <=> InQueue(n)
  <2>1. ASSUME NEW n \in accepted PROVE InQueue(n)' <=> InQueue(n)
    <3>1. wid'[n] = wid[n] /\ wid[n] \in Ids \cup {NoId} /\ accepted' = accepted
      BY <1>1, <1>2, <1>4
    <3>2. CASE wid[n] = x
      BY <1>3, <1>4, <3>1, <3>2 DEF InQueue, Bare
    <3>3. CASE wid[n] # x
      BY <1>4, <3>1, <3>3 DEF InQueue, Holds
    <3> QED
      BY <3>2, <3>3
  <2> QED
    BY <2>1
<1>11. UNCHANGED Contract!cvars
  BY <1>1, <1>10, NoBusiness DEF sendVars, fateVars, envVars, Reported
<1> QED
  BY <1>5, <1>7, <1>8, <1>9, <1>11 DEF OriginInv

(* The todo/ link is where the contract accepts the message. *)
LEMMA LinkTodoOrigin ==
  ASSUME Typed, QueueInv, PromiseInv, OriginInv, NEW m \in Msgs, LinkTodo(m),
         UNCHANGED <<todoVars, sendVars, envVars>>
  PROVE  OriginInv' /\ Contract!Accept(m)
<1>1. PICK x \in Ids : x = wid[m]
  BY DEF LinkTodo, Typed, Working, Live
<1>2. /\ files' = files \cup {<<"todo", x>>} /\ accepted' = accepted \cup {m}
      /\ UNCHANGED <<held, pending, noted, wid>>
  BY <1>1 DEF LinkTodo, Link, Goto
<1>3. m \notin accepted /\ held[x] = m
  BY <1>1 DEF LinkTodo, PromiseInv, HolderInv, Live
<1>4. OwnerInv'
  BY <1>1, <1>2, <1>3 DEF OriginInv, OwnerInv, Has
<1>5. PendingAsked' /\ NotedAsked' /\ JobAsked' /\ LeftAsked' /\ ReportedAsked'
  <2>1. PendingAsked' /\ NotedAsked'
    BY <1>2, FileAskedFrame DEF OriginInv
  <2>2. JobAsked'
    BY <1>2, JobAskedFrame DEF OriginInv, sendVars, memVars
  <2>3. LeftAsked' /\ ReportedAsked'
    BY <1>2 DEF OriginInv, LeftAsked, ReportedAsked, Reported, Envelope, todoVars, sendVars,
       fateVars, envVars
  <2> QED
    BY <2>1, <2>2, <2>3
<1>6. ASSUME NEW n \in accepted PROVE InQueue(n)' <=> InQueue(n)
  <2>1. wid[n] = x => ~Holds(n)
    BY <1>3 DEF Holds
  <2> QED
    BY <1>2, <2>1 DEF InQueue, Holds, Has
<1>7. InQueue(m)'
  BY <1>1, <1>2, <1>3, EnvelopeAssumption DEF InQueue, Holds, Has
<1>8. /\ {n \in Msgs : InQueue(n)'} = {n \in Msgs : InQueue(n)} \cup {m}
      /\ {n \in accepted' : ~InQueue(n)'} = {n \in accepted : ~InQueue(n)}
      /\ m \notin {n \in Msgs : InQueue(n)} \cup {n \in accepted : ~InQueue(n)}
  <2>1. \A n \in Msgs : (InQueue(n)' => n \in accepted \cup {m}) /\ (InQueue(n) => n \in accepted)
    BY <1>2 DEF InQueue
  <2> QED
    BY <1>2, <1>3, <1>6, <1>7, <2>1
<1>9. /\ delivered' = delivered
      /\ [n \in Msgs |-> bounced'[n] \cup discarded'[n] \cup forgotten'[n]]
           = [n \in Msgs |-> bounced[n] \cup discarded[n] \cup forgotten[n]]
  BY DEF sendVars, fateVars, envVars
<1>10. Contract!Accept(m)
  BY <1>8, <1>9 DEF Contract!Accept
<1> QED
  BY <1>4, <1>5, <1>10 DEF OriginInv

(* The other steps of qmail-queue concern nobody. *)
LEMMA QueueOrigin ==
  ASSUME Typed, QueueInv, PromiseInv, OriginInv, NEW m \in Msgs, Queue(m)
  PROVE  OriginInv' /\ [Contract!Next]_(Contract!cvars)
<1> UNCHANGED <<todoVars, sendVars, envVars>>
  BY DEF Queue
<1>1. CASE PidOpen(m)
  BY <1>1, PidOpenOrigin
<1>2. CASE LinkTodo(m)
  BY <1>2, LinkTodoOrigin DEF Contract!Next
<1>3. ASSUME \/ LinkMess(m) \/ UnlinkPid(m) \/ WriteMess(m) \/ OpenIntd(m)
             \/ WriteEnvelope(m) \/ PullTrigger(m) \/ Abandon(m) \/ CleanupIntd(m)
             \/ CleanupMess(m) \/ WriterDies(m)
      PROVE  /\ UNCHANGED <<held, pending, noted, wid, accepted>>
             /\ \A d \in {"todo", "info", "bounce"}, id \in Ids :
                  <<d, id>> \in files' <=> <<d, id>> \in files
  BY <1>3 DEF LinkMess, UnlinkPid, WriteMess, OpenIntd, WriteEnvelope, PullTrigger, Abandon,
     CleanupIntd, CleanupMess, WriterDies, Goto, Link, Unlink, dirVars
<1>4. ASSUME UNCHANGED <<held, pending, noted, wid, accepted>>,
             \A d \in {"todo", "info", "bounce"}, id \in Ids :
               <<d, id>> \in files' <=> <<d, id>> \in files
      PROVE  OriginInv' /\ UNCHANGED Contract!cvars
  <2>1. JobAsked'
    BY <1>4, JobAskedFrame DEF OriginInv, sendVars, memVars
  <2>2. PendingAsked' /\ LeftAsked'
    BY <1>4 DEF OriginInv, PendingAsked, LeftAsked, Envelope, todoVars
  <2> QED
    BY <1>4, <2>1, <2>2, SilentStep DEF sendVars, envVars
<1> QED
  BY <1>1, <1>2, <1>3, <1>4 DEF Queue, QmailQueueStep

-----------------------------------------------------------------------------
(* qmail-todo.                                                             *)

(* It copies recipients of the envelope, and no message leaves the queue   *)
(* while todo/ gives way to info/.                                         *)
LEMMA TodoOrigin ==
  ASSUME Typed, QueueInv, OriginInv, Todo
  PROVE  OriginInv' /\ UNCHANGED Contract!cvars
<1> UNCHANGED <<queueVars, sendVars, envVars>>
  BY DEF Todo
<1>0. \A id : Envelope(id)' = Envelope(id)
  BY DEF Todo, QmailTodoStep, OpenTodo, TodoStatMess, TodoUnlinkChan, TodoUnlinkInfo,
     TodoCreateInfo, CopyRecipient, EndOfEnvelope, TodoSyncInfo, TodoSyncChans,
     TodoCleanIntd, TodoCleanTodo, TodoReport, TodoLeaves, Fails, dirVars, Envelope
<1>1. /\ UNCHANGED <<held, noted>>
      /\ \A d : d \notin {"local", "remote", "info", "todo", "intd"} =>
           \A id \in Ids : <<d, id>> \in files' <=> <<d, id>> \in files
  BY EnvelopeAssumption
     DEF Todo, QmailTodoStep, OpenTodo, TodoStatMess, TodoUnlinkChan, TodoUnlinkInfo,
     TodoCreateInfo, CopyRecipient, EndOfEnvelope, TodoSyncInfo, TodoSyncChans,
     TodoCleanIntd, TodoCleanTodo, TodoReport, TodoLeaves, Fails, Link, Unlink, dirVars,
     Channels
<1>2. JobAsked'
  BY <1>1, JobAskedFrame DEF OriginInv, sendVars, memVars
<1>3. LeftAsked'
  <2>1. CASE \E id \in Ids : OpenTodo(id)
    BY <1>0, <2>1 DEF OpenTodo, LeftAsked
  <2>2. CASE ~\E id \in Ids : OpenTodo(id)
    <3>1. tpc' \in Waiting \/ (tpc \notin Waiting /\ tid' = tid /\ tleft' \subseteq tleft)
      BY <2>2 DEF Todo, QmailTodoStep, TodoStatMess, TodoUnlinkChan, TodoUnlinkInfo,
         TodoCreateInfo, CopyRecipient, EndOfEnvelope, TodoSyncInfo, TodoSyncChans,
         TodoCleanIntd, TodoCleanTodo, TodoReport, TodoLeaves, Fails, GiveUp, TodoGoto, Waiting
    <3> QED
      BY <1>1, <3>1, LeftAskedFrame DEF OriginInv
  <2> QED
    BY <2>1, <2>2
<1>4. PendingAsked'
  <2>1. CASE \E r \in Rcpts : CopyRecipient(r)
    <3>1. PICK r \in Rcpts : CopyRecipient(r)
      BY <2>1
    <3>2. r \in Envelope(tid) /\ tid \in Ids
      BY <3>1 DEF CopyRecipient, OriginInv, LeftAsked, Waiting, Typed, Working
    <3>3. \A id \in Ids : pending'[id] \subseteq pending[id] \cup {r}
                          /\ (id # tid => pending'[id] = pending[id])
      BY <3>1 DEF CopyRecipient, Fails, dirVars, Typed, TypeOK, QueueTypeOK
    <3> QED
      BY <1>0, <3>2, <3>3 DEF OriginInv, PendingAsked
  <2>2. CASE ~\E r \in Rcpts : CopyRecipient(r)
    <3>1. \A id \in Ids : pending'[id] \subseteq pending[id]
      BY <2>2 DEF Todo, QmailTodoStep, OpenTodo, TodoStatMess, TodoUnlinkChan, TodoUnlinkInfo,
         TodoCreateInfo, EndOfEnvelope, TodoSyncInfo, TodoSyncChans, TodoCleanIntd,
         TodoCleanTodo, TodoReport, TodoLeaves, Fails, dirVars, Typed, TypeOK, QueueTypeOK
    <3> QED
      BY <1>0, <3>1 DEF OriginInv, PendingAsked
  <2> QED
    BY <2>1, <2>2
<1>5. ASSUME NEW id \in Ids
      PROVE  <<"todo", id>> \in files' \/ <<"info", id>> \in files'
               <=> <<"todo", id>> \in files \/ <<"info", id>> \in files
  <2>1. CASE TodoUnlinkInfo \/ TodoCreateInfo
    <3>1. Has("todo", tid)
      BY <2>1 DEF TodoUnlinkInfo, TodoCreateInfo, QueueInv, TodoInv
    <3>2. /\ <<"todo", id>> \in files' <=> <<"todo", id>> \in files
          /\ id # tid => (<<"info", id>> \in files' <=> <<"info", id>> \in files)
      BY <2>1 DEF TodoUnlinkInfo, TodoCreateInfo, Fails, Link, Unlink, dirVars
    <3> QED
      BY <3>1, <3>2 DEF Has
  <2>2. CASE TodoCleanTodo
    <3>1. Has("info", tid)
      BY <2>2 DEF TodoCleanTodo, QueueInv, TodoInv
    <3>2. /\ <<"info", id>> \in files' <=> <<"info", id>> \in files
          /\ id # tid => (<<"todo", id>> \in files' <=> <<"todo", id>> \in files)
      BY <2>2 DEF TodoCleanTodo, Fails, Unlink, dirVars
    <3> QED
      BY <3>1, <3>2 DEF Has
  <2>3. CASE ~(TodoUnlinkInfo \/ TodoCreateInfo \/ TodoCleanTodo)
    <3>1. /\ <<"todo", id>> \in files' <=> <<"todo", id>> \in files
          /\ <<"info", id>> \in files' <=> <<"info", id>> \in files
      BY <2>3, EnvelopeAssumption
         DEF Todo, QmailTodoStep, OpenTodo, TodoStatMess, TodoUnlinkChan, CopyRecipient,
         EndOfEnvelope, TodoSyncInfo, TodoSyncChans, TodoCleanIntd, TodoReport, TodoLeaves,
         Fails, Link, Unlink, dirVars, Channels
    <3> QED
      BY <3>1
  <2> QED
    BY <2>1, <2>2, <2>3
<1> QED
  BY <1>1, <1>2, <1>3, <1>4, <1>5, SilentStep DEF queueVars, sendVars, envVars

-----------------------------------------------------------------------------
(* qmail-send.                                                             *)

(* job_close() makes no record, and the end of a pass or of a delivery is  *)
(* not the beginning of one.                                               *)
LEMMA JobCloseOrigin ==
  ASSUME Typed, OriginInv, NEW c \in Channels, NEW x \in Ids, NEW STATE busy,
         NEW STATE hit, NEW STATE left, NEW STATE recs, recs \in SUBSET pending[x],
         JobClose(c, x, busy, hit, left, recs),
         \A id \in Ids, r \in Rcpts : del'[id][r] # "none" => del[id][r] # "none",
         \A o \in Channels : \/ passid'[o] = NoId
                             \/ passid'[o] = passid[o] /\ unread'[o] \subseteq unread[o],
         UNCHANGED <<held, noted, fateVars, queueVars, todoVars, envVars>>
  PROVE  OriginInv' /\ UNCHANGED Contract!cvars
<1>1. files' = files \/ files' = files \ {<<c, x>>}
  BY DEF JobClose, Unlink
<1>2. \A id \in Ids : pending'[id] \subseteq pending[id]
  BY DEF JobClose, Typed, TypeOK, QueueTypeOK
<1>3. \A d \in {"todo", "info", "bounce"}, id \in Ids :
        <<d, id>> \in files' <=> <<d, id>> \in files
  BY <1>1 DEF Channels
<1>4. PendingAsked' /\ LeftAsked'
  BY <1>2 DEF OriginInv, PendingAsked, LeftAsked, Envelope, todoVars
<1>5. JobAsked'
  BY JobAskedFrame DEF OriginInv
<1> QED
  BY <1>3, <1>4, <1>5, SilentStep DEF queueVars, envVars

(* The end of a pass, and of a delivery. *)
LEMMA EndOrigin ==
  ASSUME Typed, OriginInv,
         \/ \E c \in Channels, hit \in BOOLEAN : EndPass(c, hit)
         \/ \E id \in Ids, r \in Rcpts, mark \in BOOLEAN : EndDelivery(id, r, mark),
         UNCHANGED <<queueVars, todoVars, envVars>>
  PROVE  OriginInv' /\ UNCHANGED Contract!cvars
<1>1. ASSUME NEW c \in Channels, NEW hit \in BOOLEAN, EndPass(c, hit)
      PROVE  OriginInv' /\ UNCHANGED Contract!cvars
  <2>1. PICK x \in Ids : x = passid[c]
    BY <1>1 DEF EndPass, Typed, TypeOK, SendTypeOK
  <2>2. JobClose(c, x, \E r \in OfChannel(c) : del[x][r] # "none", hit, undone[x],
                  pending[x])
    BY <1>1, <2>1 DEF EndPass
  <2>3. /\ passid' = [passid EXCEPT ![c] = NoId] /\ unread' = [unread EXCEPT ![c] = {}]
        /\ UNCHANGED <<del, held, noted, fateVars>>
    BY <1>1 DEF EndPass
  <2>4. \A o \in Channels : \/ passid'[o] = NoId
                            \/ passid'[o] = passid[o] /\ unread'[o] \subseteq unread[o]
    BY <2>3 DEF Typed, TypeOK, SendTypeOK
  <2>5. \A id \in Ids, r \in Rcpts : del'[id][r] # "none" => del[id][r] # "none"
    BY <2>3
  <2> QED
    BY <2>1, <2>2, <2>3, <2>4, <2>5, JobCloseOrigin
<1>2. ASSUME NEW x \in Ids, NEW r \in Rcpts, NEW mark \in BOOLEAN, EndDelivery(x, r, mark)
      PROVE  OriginInv' /\ UNCHANGED Contract!cvars
  <2>1. /\ del' = [del EXCEPT ![x][r] = "none"]
        /\ UNCHANGED <<passid, unread, held, noted, fateVars>>
    BY <1>2 DEF EndDelivery
  <2>2. /\ \A id \in Ids, q \in Rcpts : del'[id][q] # "none" => del[id][q] # "none"
        /\ ChannelOf[r] \in Channels
    BY <2>1, EnvelopeAssumption DEF Typed, TypeOK, SendTypeOK
  <2>3. ASSUME NEW recs \in SUBSET pending[x], NEW STATE left,
               JobClose(ChannelOf[r], x, Busy(ChannelOf[r], x, {r}),
                        <<ChannelOf[r], x>> \in hiteof, left, recs)
        PROVE  OriginInv' /\ UNCHANGED Contract!cvars
    BY <2>1, <2>2, <2>3, JobCloseOrigin
  <2>4. CASE mark
    <3>1. PICK recs \in MarkDone(x, r) :
            JobClose(ChannelOf[r], x, Busy(ChannelOf[r], x, {r}),
                     <<ChannelOf[r], x>> \in hiteof, undone[x] \ {r}, recs)
      BY <1>2, <2>4 DEF EndDelivery
    <3>2. recs \in SUBSET pending[x]
      BY <3>1 DEF MarkDone
    <3> QED
      BY <2>3, <3>1, <3>2
  <2>5. CASE ~mark
    <3>1. JobClose(ChannelOf[r], x, Busy(ChannelOf[r], x, {r}),
                   <<ChannelOf[r], x>> \in hiteof, undone[x], pending[x])
      BY <1>2, <2>5 DEF EndDelivery
    <3>2. \A recs \in SUBSET pending[x] : recs = pending[x] =>
            JobClose(ChannelOf[r], x, Busy(ChannelOf[r], x, {r}),
                     <<ChannelOf[r], x>> \in hiteof, undone[x], recs)
      BY <3>1
    <3> QED
      BY <2>3, <3>2
  <2> QED
    BY <2>4, <2>5
<1> QED
  BY <1>1, <1>2

(* Passes and deliveries begin with what the channel file lists. *)
LEMMA BeginOrigin ==
  ASSUME Typed, OriginInv,
         \/ \E c \in Channels, id \in Ids : OpenPass(c, id)
         \/ \E c \in Channels, r \in Rcpts : ReadRecipient(c, r),
         UNCHANGED <<queueVars, todoVars, envVars>>
  PROVE  OriginInv' /\ UNCHANGED Contract!cvars
<1>1. UNCHANGED <<dirVars, fateVars>>
  BY DEF OpenPass, ReadRecipient
<1>2. \A id : Envelope(id)' = Envelope(id)
  BY <1>1 DEF dirVars, Envelope
<1>3. JobAsked'
  <2>1. ASSUME NEW c \in Channels, NEW x \in Ids, OpenPass(c, x)
        PROVE  JobAsked'
    <3>1. /\ passid' = [passid EXCEPT ![c] = x]
          /\ unread' = [unread EXCEPT ![c] = pending[x] \cap OfChannel(c)]
          /\ UNCHANGED <<del, held>>
      BY <2>1 DEF OpenPass, dirVars
    <3>2. ASSUME NEW o \in Channels, passid'[o] # NoId
          PROVE  unread'[o] \subseteq Envelope(passid[o])'
      <4>1. CASE o = c
        <5>1. passid'[o] = x /\ unread'[o] \subseteq pending[x]
          BY <3>1, <4>1 DEF Typed, TypeOK, SendTypeOK
        <5> QED
          BY <3>1, <5>1 DEF OriginInv, PendingAsked, Envelope
      <4>2. CASE o # c
        <5>1. passid'[o] = passid[o] /\ unread'[o] = unread[o]
          BY <3>1, <4>2 DEF Typed, TypeOK, SendTypeOK
        <5> QED
          BY <3>1, <3>2, <5>1 DEF OriginInv, JobAsked, Envelope
      <4> QED
        BY <4>1, <4>2
    <3> QED
      BY <1>2, <3>1, <3>2 DEF OriginInv, JobAsked
  <2>2. ASSUME NEW c \in Channels, NEW r \in Rcpts, ReadRecipient(c, r)
        PROVE  JobAsked'
    <3>1. PICK x \in Ids : x = passid[c]
      BY <2>2 DEF ReadRecipient, Typed, TypeOK, SendTypeOK
    <3>2. /\ r \in unread[c] /\ passid[c] # NoId
          /\ unread' = [unread EXCEPT ![c] = @ \ {r}]
          /\ del' = [del EXCEPT ![x][r] = "sent"]
          /\ UNCHANGED <<passid, held>>
      BY <2>2, <3>1 DEF ReadRecipient, dirVars
    <3>3. r \in Envelope(x)
      BY <3>1, <3>2 DEF OriginInv, JobAsked
    <3>4. \A id \in Ids, q \in Rcpts : del'[id][q] # "none" => q \in Envelope(id)'
      BY <1>2, <3>2, <3>3 DEF OriginInv, JobAsked, Typed, TypeOK, SendTypeOK
    <3>5. \A o \in Channels : unread'[o] \subseteq unread[o]
      BY <3>2 DEF Typed, TypeOK, SendTypeOK
    <3>6. \A o \in Channels : passid'[o] # NoId => unread'[o] \subseteq Envelope(passid[o])'
      BY <3>2, <3>5 DEF OriginInv, JobAsked, Envelope
    <3> QED
      BY <3>4, <3>6 DEF JobAsked
  <2> QED
    BY <2>1, <2>2
<1>4. PendingAsked' /\ LeftAsked'
  BY <1>1, <1>2 DEF OriginInv, PendingAsked, LeftAsked, Envelope, dirVars, todoVars
<1> QED
  BY <1>1, <1>3, <1>4, SilentStep DEF dirVars, queueVars, envVars

(* Only the failures of messages in the queue are reported. *)
LEMMA FailuresReported ==
  ASSUME Typed, accepted' = accepted, \A m \in accepted : InQueue(m)' <=> InQueue(m),
         delivered' = delivered,
         \A m \in Msgs :
           /\ Reported(m) \subseteq Reported(m)'
           /\ Reported(m)' # Reported(m) => InQueue(m) /\ Reported(m)' \subseteq To[m]
  PROVE  Contract!ReportFailures
<1> DEFINE reported == [m \in Msgs |-> bounced[m] \cup discarded[m] \cup forgotten[m]]
<1>1. \A m \in Msgs : reported[m] = Reported(m) /\ reported'[m] = Reported(m)'
  BY DEF Reported
<1>2. reported' \in [Msgs -> SUBSET Rcpts]
  <2>1. ASSUME NEW m \in Msgs PROVE Reported(m)' \subseteq Rcpts
    <3>1. Reported(m) \subseteq Rcpts
      BY DEF Typed, TypeOK, SendTypeOK, Reported
    <3>2. To[m] \subseteq Rcpts
      BY EnvelopeAssumption
    <3> QED
      BY <3>1, <3>2
  <2> QED
    BY <1>1, <2>1
<1>3. /\ {m \in Msgs : InQueue(m)'} = {m \in Msgs : InQueue(m)}
      /\ {m \in accepted' : ~InQueue(m)'} = {m \in accepted : ~InQueue(m)}
  <2>1. \A m : (InQueue(m) => m \in accepted) /\ (InQueue(m)' => m \in accepted)
    BY DEF InQueue
  <2> QED
    BY <2>1
<1>4. \A m \in Msgs :
        /\ reported[m] \subseteq reported'[m]
        /\ reported'[m] # reported[m] =>
             m \in {n \in Msgs : InQueue(n)} /\ reported'[m] \subseteq To[m]
  BY <1>1
<1> QED
  BY <1>2, <1>3, <1>4 DEF Contract!ReportFailures

(* What a step with the queue directory as it is has to show when nothing  *)
(* is begun.                                                               *)
LEMMA StillAsked ==
  ASSUME Typed, OriginInv, UNCHANGED <<held, accepted, wid, passid, unread, del>>,
         UNCHANGED todoVars,
         \A id \in Ids : /\ pending'[id] \subseteq pending[id]
                         /\ noted'[id] \subseteq noted[id]
                         /\ noted'[id] # {} /\ Has("bounce", id) => <<"bounce", id>> \in files'
                         /\ \/ <<"todo", id>> \in files' \/ <<"info", id>> \in files'
                            => Has("todo", id) \/ Has("info", id)
  PROVE  OwnerInv' /\ PendingAsked' /\ NotedAsked' /\ JobAsked' /\ LeftAsked'
<1>1. \A id : Envelope(id)' = Envelope(id)
  BY DEF Envelope
<1>2. OwnerInv'
  BY OwnerFrame DEF OriginInv
<1>3. PendingAsked'
  BY <1>1 DEF OriginInv, PendingAsked
<1>4. NotedAsked'
  <2>1. ASSUME NEW id \in Ids
        PROVE  noted'[id] \subseteq Envelope(id)' /\ (noted'[id] # {} => Has("bounce", id)')
    BY <1>1 DEF OriginInv, NotedAsked, Has
  <2> QED
    BY <2>1 DEF NotedAsked
<1>5. JobAsked' /\ LeftAsked'
  BY <1>1 DEF OriginInv, JobAsked, LeftAsked, Envelope, todoVars
<1> QED
  BY <1>2, <1>3, <1>4, <1>5

(* A message that qmail-send is eliminating is in the queue. *)
LEMMA Eliminated ==
  ASSUME Typed, QueueInv, OriginInv, spc \in Eliminating
  PROVE  \E x \in Ids : /\ x = sid /\ S5(x) /\ held[x] \in accepted /\ wid[held[x]] = x
                        /\ InQueue(held[x]) /\ Envelope(x) = To[held[x]]
<1>1. PICK x \in Ids : x = sid /\ S5(x)
  BY DEF Eliminating, Typed, Working, QueueInv, SendInv, TypeOK, SendTypeOK
<1>2. held[x] \in accepted /\ wid[held[x]] = x
  BY <1>1 DEF S5, OriginInv, OwnerInv
<1>3. held[x] \in Msgs
  BY <1>2 DEF Typed, TypeOK, WriterTypeOK
<1>4. InQueue(held[x])
  BY <1>1, <1>2, EnvelopeAssumption DEF InQueue, Holds, S5
<1>5. Envelope(x) = To[held[x]]
  BY <1>3, EnvelopeAssumption DEF Envelope
<1> QED
  BY <1>1, <1>2, <1>4, <1>5

(* The bounce message, or the triple bounce that is not sent, reports the  *)
(* noted failures of a message in the queue.                               *)
LEMMA InjectBounceOrigin ==
  ASSUME Typed, QueueInv, OriginInv, InjectBounce,
         UNCHANGED <<queueVars, todoVars, envVars>>
  PROVE  OriginInv' /\ [Contract!ReportFailures]_(Contract!cvars)
<1>1. PICK x \in Ids : /\ x = sid /\ held[x] \in accepted
                       /\ InQueue(held[x]) /\ Envelope(x) = To[held[x]]
  BY Eliminated DEF InjectBounce, Eliminating
<1>2. /\ UNCHANGED <<files, held, pending, noted, accepted, wid, forgotten, delivered>>
      /\ UNCHANGED <<passid, unread, del>>
  BY DEF InjectBounce, dirVars, restVars, queueVars, envVars
<1>3. OwnerInv' /\ PendingAsked' /\ NotedAsked' /\ JobAsked' /\ LeftAsked'
  BY <1>2, StillAsked DEF Has
<1>4. ASSUME NEW m \in Msgs
      PROVE  \/ bounced'[m] = bounced[m] /\ discarded'[m] = discarded[m]
             \/ /\ m = held[x] /\ bounced[m] \subseteq bounced'[m]
                /\ discarded[m] \subseteq discarded'[m]
                /\ bounced'[m] \cup discarded'[m] = bounced[m] \cup discarded[m] \cup noted[x]
  BY <1>1 DEF InjectBounce, Typed, TypeOK, SendTypeOK
<1>5. noted[x] \subseteq To[held[x]]
  BY <1>1 DEF OriginInv, NotedAsked
<1>6. ASSUME NEW m \in Msgs
      PROVE  /\ Reported(m) \subseteq Reported(m)' /\ Reported(m)' \subseteq To[m]
             /\ Reported(m)' # Reported(m) => InQueue(m)
  <2>1. Reported(m) \subseteq To[m]
    BY DEF OriginInv, ReportedAsked
  <2>2. Reported(m)' = bounced'[m] \cup discarded'[m] \cup forgotten[m]
    BY <1>2 DEF Reported
  <2>3. CASE bounced'[m] = bounced[m] /\ discarded'[m] = discarded[m]
    BY <2>1, <2>2, <2>3 DEF Reported
  <2>4. CASE /\ m = held[x] /\ bounced[m] \subseteq bounced'[m]
             /\ discarded[m] \subseteq discarded'[m]
             /\ bounced'[m] \cup discarded'[m] = bounced[m] \cup discarded[m] \cup noted[x]
    BY <1>1, <1>5, <2>1, <2>2, <2>4 DEF Reported
  <2> QED
    BY <1>4, <2>3, <2>4
<1>7. \A m \in accepted : InQueue(m)' <=> InQueue(m)
  BY <1>2 DEF InQueue, Holds, Has
<1> QED
  BY <1>2, <1>3, <1>6, <1>7, FailuresReported DEF OriginInv, ReportedAsked

(* What bounce/ listed goes with it.                                       *)
LEMMA UnlinkBounceOrigin ==
  ASSUME Typed, QueueInv, OriginInv, UnlinkBounce,
         UNCHANGED <<queueVars, todoVars, envVars>>
  PROVE  OriginInv' /\ UNCHANGED Contract!cvars
<1>1. PICK x \in Ids : x = sid
  BY Eliminated DEF UnlinkBounce, Eliminating
<1>2. \/ files' = files /\ noted' = noted
      \/ files' = files \ {<<"bounce", x>>} /\ noted' = [noted EXCEPT ![x] = {}]
  BY <1>1 DEF UnlinkBounce, Unlink, dirVars
<1>3. UNCHANGED <<held, pending, accepted, wid, forgotten, fateVars, passid, unread, del>>
  BY DEF UnlinkBounce, dirVars, restVars, queueVars, envVars
<1>4. \A d \in {"todo", "info"}, id \in Ids : <<d, id>> \in files' <=> <<d, id>> \in files
  BY <1>2
<1>5. \A id \in Ids :
        /\ noted'[id] \subseteq noted[id]
        /\ noted'[id] # {} /\ Has("bounce", id) => <<"bounce", id>> \in files'
  BY <1>2 DEF Has, Typed, TypeOK, QueueTypeOK
<1>6. OwnerInv' /\ PendingAsked' /\ NotedAsked' /\ JobAsked' /\ LeftAsked'
  BY <1>3, <1>4, <1>5, StillAsked DEF Has
<1>7. ReportedAsked'
  BY <1>3, ReportedFrame DEF OriginInv, fateVars
<1>8. UNCHANGED Contract!cvars
  BY <1>3, <1>4, StillThere, NoBusiness DEF Reported, fateVars
<1> QED
  BY <1>6, <1>7, <1>8 DEF OriginInv

(* info/ goes when nothing carries the message any more.                   *)
LEMMA UnlinkInfoOrigin ==
  ASSUME Typed, QueueInv, PromiseInv, OriginInv, UnlinkInfo,
         UNCHANGED <<queueVars, todoVars, envVars>>
  PROVE  OriginInv' /\ [Contract!Next]_(Contract!cvars)
<1>1. PICK x \in Ids : /\ x = sid /\ S5(x) /\ held[x] \in accepted /\ wid[held[x]] = x
                       /\ InQueue(held[x])
  BY Eliminated DEF UnlinkInfo, Eliminating
<1>2. UNCHANGED <<held, pending, noted, accepted, wid, forgotten, fateVars, passid, unread, del>>
  BY DEF UnlinkInfo, dirVars, restVars, queueVars, envVars
<1>3. files' = files \/ files' = files \ {<<"info", x>>}
  BY <1>1 DEF UnlinkInfo, Unlink, dirVars
<1>4. OwnerInv' /\ PendingAsked' /\ NotedAsked' /\ JobAsked' /\ LeftAsked'
  BY <1>2, <1>3, StillAsked DEF Has
<1>5. ReportedAsked'
  BY <1>2, ReportedFrame DEF OriginInv, fateVars
<1>6. CASE files' = files
  BY <1>2, <1>4, <1>5, <1>6, StillThere, NoBusiness DEF Reported, fateVars, OriginInv
<1>7. CASE files' = files \ {<<"info", x>>}
  <2>1. PICK m \in Msgs : m = held[x] /\ m \in accepted
    BY <1>1 DEF Typed, TypeOK, WriterTypeOK
  <2>2. To[m] \subseteq delivered[m] \cup Reported(m)
    <3>1. ~Has("todo", x) /\ ~Has("local", x) /\ ~Has("remote", x) /\ ~Has("bounce", x)
      BY <1>1 DEF UnlinkInfo, S5, QueueInv, SendInv
    <3>2. ASSUME NEW r \in To[m] PROVE Settled(m, r)
      <4>1. ChannelOf[r] \in {"local", "remote"}
        BY EnvelopeAssumption DEF Channels
      <4>2. ~Carried(m, r)
        BY <1>1, <2>1, <3>1, <4>1 DEF Carried
      <4> QED
        BY <2>1, <4>2 DEF PromiseInv, NoLoss
    <3> QED
      BY <3>2 DEF Settled, Reported
  <2>3. ~InQueue(m)'
    BY <1>1, <1>2, <1>7, <2>1 DEF InQueue, S5, Has
  <2>4. ASSUME NEW n \in accepted, n # m PROVE InQueue(n)' <=> InQueue(n)
    <3>1. wid[n] = x => ~Holds(n)
      BY <2>1, <2>4 DEF Holds
    <3> QED
      BY <1>2, <1>7, <3>1 DEF InQueue, Holds, Has
  <2>5. /\ {n \in Msgs : InQueue(n)'} = {n \in Msgs : InQueue(n)} \ {m}
        /\ {n \in accepted' : ~InQueue(n)'} = {n \in accepted : ~InQueue(n)} \cup {m}
        /\ m \in {n \in Msgs : InQueue(n)}
    <3>1. \A n \in Msgs : (InQueue(n)' => n \in accepted) /\ (InQueue(n) => n \in accepted)
      BY <1>2 DEF InQueue
    <3> QED
      BY <1>1, <1>2, <2>1, <2>3, <2>4, <3>1
  <2>6. UNCHANGED <<delivered, bounced, discarded, forgotten>>
    BY <1>2 DEF fateVars
  <2>7. Contract!Eliminate(m)
    BY <2>2, <2>5, <2>6 DEF Contract!Eliminate, Reported
  <2> QED
    BY <1>4, <1>5, <2>7 DEF OriginInv, Contract!Next
<1> QED
  BY <1>3, <1>6, <1>7

(* addbounce() notes a recipient of the envelope.                          *)
LEMMA ReportDOrigin ==
  ASSUME Typed, OriginInv, NEW x \in Ids, NEW r \in Rcpts, ReportD(x, r),
         UNCHANGED <<queueVars, todoVars, envVars>>
  PROVE  OriginInv' /\ UNCHANGED Contract!cvars
<1>1. /\ del[x][r] # "none" /\ del' = [del EXCEPT ![x][r] = "noted"]
      /\ files' = files \cup {<<"bounce", x>>}
      /\ noted' = [noted EXCEPT ![x] = @ \cup {r}]
      /\ UNCHANGED <<held, pending, accepted, wid, forgotten, fateVars, passid, unread>>
  BY DEF ReportD, Link, queueVars, envVars
<1>2. \A id : Envelope(id)' = Envelope(id)
  BY <1>1 DEF Envelope
<1>3. NotedAsked'
  <2>1. r \in Envelope(x)
    BY <1>1 DEF OriginInv, JobAsked
  <2>2. ASSUME NEW id \in Ids
        PROVE  noted'[id] \subseteq Envelope(id) /\ (noted'[id] # {} => <<"bounce", id>> \in files')
    BY <1>1, <2>1 DEF OriginInv, NotedAsked, Has, Typed, TypeOK, QueueTypeOK
  <2> QED
    BY <1>2, <2>2 DEF NotedAsked, Has
<1>4. JobAsked'
  <2>1. \A id \in Ids, q \in Rcpts : del'[id][q] # "none" => del[id][q] # "none"
    BY <1>1 DEF Typed, TypeOK, SendTypeOK
  <2> QED
    BY <1>1, <2>1, JobAskedFrame DEF OriginInv
<1>5. \A d \in {"todo", "info"}, id \in Ids : <<d, id>> \in files' <=> <<d, id>> \in files
  BY <1>1
<1>6. OwnerInv'
  BY <1>1, <1>5, OwnerFrame DEF OriginInv, Has
<1>7. PendingAsked' /\ LeftAsked' /\ ReportedAsked'
  BY <1>1, <1>2 DEF OriginInv, PendingAsked, LeftAsked, ReportedAsked, Reported, fateVars, todoVars
<1>8. UNCHANGED Contract!cvars
  BY <1>1, <1>5, StillThere, NoBusiness DEF Reported, fateVars
<1> QED
  BY <1>3, <1>4, <1>6, <1>7, <1>8 DEF OriginInv

(* Looking at files, unlinking files of mess/ and intd/, or nothing at     *)
(* all; a process that ends or begins with an empty job table.             *)
LEMMA QuietOrigin ==
  ASSUME Typed, OriginInv, UNCHANGED <<held, pending, noted, wid, accepted, fateVars, forgotten>>,
         \A d \in {"todo", "info", "bounce"}, id \in Ids :
           <<d, id>> \in files' <=> <<d, id>> \in files,
         \A id \in Ids, r \in Rcpts : del'[id][r] # "none" => del[id][r] # "none",
         \A c \in Channels : passid'[c] = NoId \/ (passid'[c] = passid[c] /\ unread'[c] = unread[c]),
         tpc' \in Waiting \/ UNCHANGED <<tpc, tid, tleft>>
  PROVE  OriginInv' /\ UNCHANGED Contract!cvars
<1>1. \A id : Envelope(id)' = Envelope(id)
  BY DEF Envelope
<1>2. PendingAsked' /\ LeftAsked'
  BY <1>1 DEF OriginInv, PendingAsked, LeftAsked
<1>3. JobAsked'
  BY JobAskedFrame DEF OriginInv
<1> QED
  BY <1>2, <1>3, SilentStep

(* No memory, no job. *)
LEMMA FreshOrigin ==
  ASSUME FreshMemory
  PROVE  /\ \A id \in Ids, r \in Rcpts : del'[id][r] # "none" => del[id][r] # "none"
         /\ \A c \in Channels : passid'[c] = NoId
BY DEF FreshMemory, NoDelivery

(* Such are most steps of messdone() and of cleanup_do(), and the exit.    *)
LEMMA SendQuietOrigin ==
  ASSUME Typed, OriginInv,
         \/ \E id \in Ids : MessDone(id) \/ CleanupOld(id)
         \/ MessDoneStat("stat_local", "local", FALSE, "stat_remote")
         \/ MessDoneStat("stat_remote", "remote", FALSE, "stat_todo")
         \/ MessDoneStat("stat_todo", "todo", FALSE, "stat_info")
         \/ MessDoneStat("stat_info", "info", TRUE, "bounce")
         \/ CleanFile("clean_intd", "intd", "clean_mess")
         \/ CleanFile("clean_mess", "mess", "idle")
         \/ CleanupStat("old_info", "info", "old_todo")
         \/ CleanupStat("old_todo", "todo", "clean_intd")
         \/ SendExit,
         UNCHANGED <<queueVars, todoVars, envVars>>
  PROVE  OriginInv' /\ UNCHANGED Contract!cvars
<1>1. UNCHANGED <<held, pending, noted, wid, accepted, fateVars, forgotten, tpc, tid, tleft>>
  BY DEF MessDone, CleanupOld, MessDoneStat, CleanFile, CleanupStat, SendExit, GoDown,
     dirVars, queueVars, todoVars, envVars
<1>2. \A d \in {"todo", "info", "bounce"}, id \in Ids :
        <<d, id>> \in files' <=> <<d, id>> \in files
  BY DEF MessDone, CleanupOld, MessDoneStat, CleanFile, CleanupStat, SendExit, Unlink, dirVars
<1>3. /\ \A id \in Ids, r \in Rcpts : del'[id][r] # "none" => del[id][r] # "none"
      /\ \A c \in Channels : passid'[c] = NoId \/ (passid'[c] = passid[c] /\ unread'[c] = unread[c])
  <2>1. CASE SendExit
    BY <2>1, FreshOrigin DEF SendExit, GoDown
  <2>2. CASE ~SendExit
    <3>1. UNCHANGED <<del, passid, unread>>
      BY <2>2 DEF MessDone, CleanupOld, MessDoneStat, CleanFile, CleanupStat, restVars
    <3> QED
      BY <3>1
  <2> QED
    BY <2>1, <2>2
<1> QED
  BY <1>1, <1>2, <1>3, QuietOrigin

(* All of qmail-send. *)
LEMMA SendOrigin ==
  ASSUME Typed, QueueInv, PromiseInv, OriginInv, Send
  PROVE  OriginInv' /\ [Contract!Next]_(Contract!cvars)
<1> SendStep /\ UNCHANGED <<queueVars, todoVars, envVars>>
  BY DEF Send
<1>1. CASE \/ \E c \in Channels, hit \in BOOLEAN : EndPass(c, hit)
           \/ \E id \in Ids, r \in Rcpts : ReportK(id, r) \/ ReportZ(id, r) \/ MarkFailed(id, r)
  <2>1. \/ \E c \in Channels, hit \in BOOLEAN : EndPass(c, hit)
        \/ \E id \in Ids, r \in Rcpts, mark \in BOOLEAN : EndDelivery(id, r, mark)
    BY <1>1 DEF ReportK, ReportZ, MarkFailed
  <2> QED
    BY <2>1, EndOrigin
<1>2. CASE \/ \E c \in Channels, id \in Ids : OpenPass(c, id)
           \/ \E c \in Channels, r \in Rcpts : ReadRecipient(c, r)
  BY <1>2, BeginOrigin
<1>3. CASE \E id \in Ids, r \in Rcpts : ReportD(id, r)
  BY <1>3, ReportDOrigin
<1>4. CASE InjectBounce
  BY <1>4, InjectBounceOrigin DEF Contract!Next
<1>5. CASE UnlinkBounce \/ UnlinkInfo
  BY <1>5, UnlinkBounceOrigin, UnlinkInfoOrigin
<1> QED
  BY <1>1, <1>2, <1>3, <1>4, <1>5, SendQuietOrigin DEF SendStep

-----------------------------------------------------------------------------
(* The others.                                                             *)

(* A delivery is of a message in the queue, to one of its recipients.      *)
LEMMA SpawnerOrigin ==
  ASSUME Typed, QueueInv, OriginInv, NEW x \in Ids, NEW r \in Rcpts, NEW report \in Report,
         Spawner(x, r, report)
  PROVE  OriginInv' /\ [Contract!Next]_(Contract!cvars)
<1>1. /\ del[x][r] = "sent" /\ del' = [del EXCEPT ![x][r] = report]
      /\ delivered' = IF report = "K"
                        THEN [delivered EXCEPT ![held[x]] = @ \cup {r}]
                        ELSE delivered
      /\ UNCHANGED <<passid, unread, bounced, discarded, dirVars, queueVars, todoVars,
                     envVars>>
  BY DEF Spawner, SpawnerReports
<1>2. UNCHANGED <<files, held, pending, noted, wid, accepted, forgotten>>
  BY <1>1 DEF dirVars, queueVars, envVars
<1>3. \A id : Envelope(id)' = Envelope(id)
  BY <1>2 DEF Envelope
<1>4. JobAsked'
  <2>1. \A id \in Ids, q \in Rcpts : del'[id][q] # "none" => del[id][q] # "none"
    BY <1>1 DEF Typed, TypeOK, SendTypeOK
  <2> QED
    BY <1>1, <1>2, <2>1, JobAskedFrame DEF OriginInv
<1>5. OriginInv'
  BY <1>1, <1>2, <1>3, <1>4 DEF OriginInv, OwnerInv, PendingAsked, NotedAsked, LeftAsked,
     ReportedAsked, Reported, Has, todoVars
<1>6. \A m : InQueue(m)' <=> InQueue(m)
  BY <1>2 DEF InQueue, Holds, Has
<1>7. CASE report = "K"
  <2>1. S5(x) /\ r \in Envelope(x)
    BY <1>1 DEF QueueInv, KnownInv, OriginInv, JobAsked
  <2>2. PICK m \in Msgs : m = held[x] /\ m \in accepted /\ wid[m] = x
    BY <2>1 DEF S5, OriginInv, OwnerInv, Typed, TypeOK, WriterTypeOK
  <2>3. InQueue(m) /\ r \in To[m]
    BY <2>1, <2>2, EnvelopeAssumption DEF InQueue, Holds, S5, Envelope
  <2>4. /\ {n \in Msgs : InQueue(n)'} = {n \in Msgs : InQueue(n)}
        /\ {n \in accepted' : ~InQueue(n)'} = {n \in accepted : ~InQueue(n)}
    BY <1>2, <1>6
  <2>5. /\ delivered' = [delivered EXCEPT ![m] = @ \cup {r}]
        /\ UNCHANGED <<bounced, discarded, forgotten>>
    BY <1>1, <1>2, <1>7, <2>2
  <2>6. Contract!Deliver(m, r)
    BY <2>2, <2>3, <2>4, <2>5 DEF Contract!Deliver
  <2> QED
    BY <1>5, <2>6 DEF Contract!Next
<1>8. CASE report # "K"
  BY <1>1, <1>2, <1>5, <1>6, <1>8, NoBusiness DEF Reported
<1> QED
  BY <1>7, <1>8

(* Starts, stops, deaths and the time. *)
LEMMA AroundOrigin ==
  ASSUME Typed, OriginInv,
         \/ \E id \in Ids : ReapPid(id) \/ Expire(id)
         \/ Start \/ SendDies \/ TodoDies
         \/ ReadReport \/ ReadStop \/ NoticeTodoGone \/ OrphanTodoExits
         \/ SendCleanDies \/ TodoCleanDies \/ Terminate \/ Tick \/ UNCHANGED vars
  PROVE  OriginInv' /\ UNCHANGED Contract!cvars
<1> DEFINE job == <<passid, unread, del>>
           old == <<held, pending, noted, wid, accepted, fateVars, forgotten>>
<1>1. ASSUME NEW id \in Ids, ReapPid(id)
      PROVE  /\ files' = files \ {<<"pid", id>>}
             /\ UNCHANGED <<job, old, tpc, tid, tleft>>
  BY <1>1 DEF ReapPid, CleanupPid, Unlink, restVars, queueVars, todoVars, envVars
<1>2. ASSUME \/ (\E id \in Ids : Expire(id)) \/ Tick \/ UNCHANGED vars
             \/ ReadReport \/ ReadStop \/ NoticeTodoGone \/ OrphanTodoExits \/ TodoDies
             \/ SendCleanDies \/ TodoCleanDies \/ Terminate
      PROVE  /\ UNCHANGED <<job, old, files>>
             /\ tpc' \in {"idle", "dead"} \/ UNCHANGED <<tpc, tid, tleft>>
  <2>1. CASE (\E id \in Ids : Expire(id)) \/ Tick \/ UNCHANGED vars
    BY <2>1 DEF Expire, Tick, vars, sendVars, memVars, queueVars, todoVars, envVars, dirVars
  <2>2. CASE ReadReport \/ ReadStop \/ NoticeTodoGone
    BY <2>2 DEF ReadReport, TodoDel, ReadStop, NoticeTodoGone, TodoGone, dirVars, queueVars,
       sendVars, memVars, todoVars, envVars
  <2>3. CASE OrphanTodoExits \/ TodoDies \/ SendCleanDies \/ TodoCleanDies \/ Terminate
    BY <2>3 DEF OrphanTodoExits, TodoDies, SendCleanDies, TodoCleanDies, Terminate, SigTerm,
       SendGoto, dirVars, queueVars, sendVars, memVars, todoVars, envVars
  <2> QED
    BY <1>2, <2>1, <2>2, <2>3
<1>3. ASSUME Start \/ SendDies
      PROVE  /\ UNCHANGED <<old, files>> /\ FreshMemory
             /\ tpc' = "idle" \/ UNCHANGED <<tpc, tid, tleft>>
  BY <1>3 DEF Start, SendStart, SendDies, GoDown, dirVars, queueVars, envVars
<1>4. /\ UNCHANGED old
      /\ (UNCHANGED job) \/ FreshMemory
      /\ tpc' \in {"idle", "dead"} \/ UNCHANGED <<tpc, tid, tleft>>
      /\ \A d \in {"todo", "info", "bounce"}, id \in Ids :
           <<d, id>> \in files' <=> <<d, id>> \in files
  BY <1>1, <1>2, <1>3
<1>5. /\ \A id \in Ids, r \in Rcpts : del'[id][r] # "none" => del[id][r] # "none"
      /\ \A c \in Channels : passid'[c] = NoId \/ (passid'[c] = passid[c] /\ unread'[c] = unread[c])
  BY <1>4, FreshOrigin
<1>6. /\ UNCHANGED <<held, pending, noted, wid, accepted, fateVars, forgotten>>
      /\ tpc' \in Waiting \/ UNCHANGED <<tpc, tid, tleft>>
  BY <1>4 DEF Waiting
<1> HIDE DEF job, old
<1> QED
  BY <1>4, <1>5, <1>6, QuietOrigin

(* The todo/ file that an orphaned qmail-clean unlinks leaves info/.       *)
LEMMA LateUnlinkOrigin ==
  ASSUME Typed, QueueInv, OriginInv, LateUnlink
  PROVE  OriginInv' /\ UNCHANGED Contract!cvars
<1>1. PICK f \in late :
        /\ files' = files \ {f}
        /\ UNCHANGED <<held, pending, noted, forgotten, queueVars, todoVars, sendVars>>
  BY DEF LateUnlink
<1>2. PICK d \in Directories, x \in Ids : f = <<d, x>>
  BY DEF Typed, TypeOK
<1>3. d \in {"mess", "intd", "todo"} /\ (d = "todo" => Has("info", x))
  BY <1>1, <1>2 DEF QueueInv, LateInv
<1>4. /\ \A id \in Ids : <<"bounce", id>> \in files => <<"bounce", id>> \in files'
      /\ \A id \in Ids : <<"todo", id>> \in files' \/ <<"info", id>> \in files'
                         <=> <<"todo", id>> \in files \/ <<"info", id>> \in files
  BY <1>1, <1>2, <1>3 DEF Has
<1>5. UNCHANGED <<wid, accepted, fateVars, passid, unread, del, tpc, tid, tleft>>
  BY <1>1 DEF queueVars, todoVars, sendVars, memVars
<1>6. PendingAsked' /\ JobAsked' /\ LeftAsked'
  BY <1>1, <1>5 DEF OriginInv, PendingAsked, JobAsked, LeftAsked, Envelope
<1> QED
  BY <1>1, <1>4, <1>5, <1>6, SilentStep

(* A reboot tears no queued message, and what it takes from bounce/ is     *)
(* forgotten while the message is in the queue.                            *)
LEMMA RebootOrigin ==
  ASSUME Typed, QueueInv, DurableInv, PromiseInv, OriginInv, Reboot
  PROVE  OriginInv' /\ [Contract!ReportFailures]_(Contract!cvars)
<1> DEFINE lost(id) == UNION {OfChannel(c) : c \in {d \in Channels : <<d, id>> \in dirty}}
           kept(id) == Envelope(id) \cap
                         UNION {OfChannel(c) : c \in {d \in Channels : Has(d, id)}}
           torn == {id \in Ids : <<"mess", id>> \in dirty \/ <<"intd", id>> \in dirty}
<1>1. /\ FreshMemory /\ tpc' = "dead"
      /\ held' = [id \in Ids |-> IF id \in torn THEN NoMsg ELSE held[id]]
      /\ \A id \in Ids : noted'[id] \subseteq noted[id]
      /\ forgotten' =
           [m \in Msgs |->
              forgotten[m] \cup UNION {(noted[id] \ noted'[id]) \ pending'[id] :
                                       id \in {i \in Ids : held[i] = m}}]
      /\ UNCHANGED <<files, wid, accepted, delivered, bounced, discarded>>
  BY DEF Reboot, GoDown, fateVars
<1>2. PICK revert \in [Ids -> SUBSET Rcpts] :
        /\ \A id \in Ids : revert[id] \subseteq kept(id)
        /\ pending' = [id \in Ids |-> (pending[id] \cup revert[id]) \ lost(id)]
  BY DEF Reboot
<1>3. ASSUME NEW id \in torn PROVE Bare(id)
  <2>1. ~Has("todo", id) /\ ~Has("info", id)
    BY DEF DurableInv, QueuedIsDurable, PromiseInv, WholeInv, Clean
  <2> QED
    BY <2>1 DEF QueueInv, LawfulInv, Lawful
<1>4. ASSUME NEW id \in Ids PROVE pending'[id] \subseteq pending[id] \cup kept(id)
  BY <1>2
<1>5. ASSUME NEW id \in torn PROVE pending'[id] = {} /\ noted'[id] = {}
  <2>1. id \in Ids /\ Bare(id)
    BY <1>3
  <2>2. \A r \in Rcpts : ~Has(ChannelOf[r], id)
    BY <2>1, EnvelopeAssumption DEF Bare, Channels
  <2>3. pending[id] = {}
    BY <2>1, <2>2 DEF PromiseInv, RecordInv, Typed, TypeOK, QueueTypeOK
  <2>4. kept(id) = {}
    BY <2>1 DEF Bare, Channels
  <2>5. noted[id] = {}
    BY <2>1 DEF Bare, OriginInv, NotedAsked
  <2> QED
    BY <1>1, <1>4, <2>1, <2>3, <2>4, <2>5
<1>6. ASSUME NEW id \in Ids, id \notin torn
      PROVE  held'[id] = held[id] /\ Envelope(id)' = Envelope(id)
  BY <1>1, <1>6 DEF Envelope
<1>7. ASSUME NEW id \in Ids, Has("todo", id) \/ Has("info", id) PROVE id \notin torn
  BY <1>3, <1>7 DEF Bare
<1> HIDE DEF torn
<1>8. OwnerInv'
  <2>1. ASSUME NEW id \in Ids, Has("todo", id)' \/ Has("info", id)'
        PROVE  held'[id] \in accepted /\ wid[held'[id]] = id
    BY <1>1, <1>6, <1>7, <2>1 DEF OriginInv, OwnerInv, Has
  <2> QED
    BY <1>1, <2>1 DEF OwnerInv
<1>9. PendingAsked' /\ NotedAsked'
  <2>1. ASSUME NEW id \in Ids
        PROVE  /\ pending'[id] \subseteq Envelope(id)' /\ noted'[id] \subseteq Envelope(id)'
               /\ noted'[id] # {} => Has("bounce", id)'
    <3>1. CASE id \in torn
      BY <1>5, <3>1
    <3>2. CASE id \notin torn
      <4>1. pending'[id] \subseteq Envelope(id)
        BY <1>4 DEF OriginInv, PendingAsked
      <4> QED
        BY <1>1, <1>6, <3>2, <4>1 DEF OriginInv, NotedAsked, Has
    <3> QED
      BY <3>1, <3>2
  <2> QED
    BY <2>1 DEF PendingAsked, NotedAsked
<1>10. JobAsked' /\ LeftAsked'
  BY <1>1 DEF FreshMemory, NoDelivery, JobAsked, LeftAsked, Waiting
<1>11. ASSUME NEW m \in accepted PROVE InQueue(m)' <=> InQueue(m)
  <2>1. m \in Msgs /\ wid[m] \in Ids \cup {NoId} /\ wid' = wid /\ accepted' = accepted
    BY <1>1 DEF Typed, TypeOK, WriterTypeOK
  <2>2. CASE wid[m] = NoId
    BY <2>1, <2>2 DEF InQueue, Holds
  <2>3. CASE wid[m] \in Ids
    <3>1. PICK x \in Ids : x = wid[m]
      BY <2>3
    <3>2. \A d : Has(d, x)' <=> Has(d, x)
      BY <1>1 DEF Has
    <3>3. CASE Has("todo", x) \/ Has("info", x)
      BY <1>6, <1>7, <2>1, <3>1, <3>2, <3>3 DEF InQueue, Holds
    <3>4. CASE ~(Has("todo", x) \/ Has("info", x))
      BY <2>1, <3>1, <3>2, <3>4 DEF InQueue
    <3> QED
      BY <3>3, <3>4
  <2> QED
    BY <2>1, <2>2, <2>3
<1>12. ASSUME NEW m \in Msgs
       PROVE  /\ Reported(m) \subseteq Reported(m)' /\ Reported(m)' \subseteq To[m]
              /\ Reported(m)' # Reported(m) => InQueue(m)
  <2>1. Reported(m) \subseteq To[m]
    BY DEF OriginInv, ReportedAsked
  <2>2. /\ forgotten[m] \subseteq forgotten'[m]
        /\ \A r \in forgotten'[m] \ forgotten[m] :
             \E i \in Ids : held[i] = m /\ r \in noted[i]
    BY <1>1
  <2>3. ASSUME NEW i \in Ids, held[i] = m, NEW r \in noted[i]
        PROVE  r \in To[m] /\ InQueue(m)
    <3>1. Has("bounce", i) /\ r \in Envelope(i)
      BY <2>3 DEF OriginInv, NotedAsked
    <3>2. Has("todo", i) \/ Has("info", i)
      BY <3>1 DEF QueueInv, LawfulInv, Lawful, Bare
    <3>3. m \in accepted /\ wid[m] = i
      BY <2>3, <3>2 DEF OriginInv, OwnerInv
    <3> QED
      BY <2>3, <3>1, <3>2, <3>3, EnvelopeAssumption DEF Envelope, InQueue, Holds
  <2> QED
    BY <1>1, <2>1, <2>2, <2>3 DEF Reported
<1>13. Contract!ReportFailures
  BY <1>1, <1>11, <1>12, FailuresReported
<1> QED
  BY <1>8, <1>9, <1>10, <1>12, <1>13 DEF OriginInv, ReportedAsked

-----------------------------------------------------------------------------

(* Nobody is in anybody's books before anything is started. *)
LEMMA InitOrigin == Init => OriginInv
<1> SUFFICES ASSUME Init PROVE OriginInv
  OBVIOUS
<1>1. OwnerInv /\ PendingAsked /\ NotedAsked /\ LeftAsked
  BY DEF Init, QueueInit, TodoInit, OwnerInv, PendingAsked, NotedAsked, LeftAsked, Has, Waiting
<1>2. JobAsked /\ ReportedAsked
  BY DEF Init, SendInit, JobAsked, ReportedAsked, Reported, NoDelivery
<1> QED
  BY <1>1, <1>2 DEF OriginInv

(* Every step of the system is a step of the contract or none of its       *)
(* business.                                                               *)
LEMMA NextOrigin ==
  ASSUME Typed, QueueInv, DurableInv, PromiseInv, OriginInv, [Next]_vars
  PROVE  OriginInv' /\ [Contract!Next]_(Contract!cvars)
<1>1. CASE (\E m \in Msgs : Queue(m)) \/ Todo \/ Send
  BY <1>1, QueueOrigin, TodoOrigin, SendOrigin
<1>2. CASE \E id \in Ids, r \in Rcpts, report \in Report : Spawner(id, r, report)
  BY <1>2, SpawnerOrigin
<1>3. CASE Reboot
  BY <1>3, RebootOrigin DEF Contract!Next
<1>4. CASE LateUnlink
  BY <1>4, LateUnlinkOrigin
<1>5. CASE \/ \E id \in Ids : ReapPid(id) \/ Expire(id)
           \/ Start \/ SendDies \/ TodoDies
           \/ ReadReport \/ ReadStop \/ NoticeTodoGone \/ OrphanTodoExits
           \/ SendCleanDies \/ TodoCleanDies \/ Terminate \/ Tick \/ UNCHANGED vars
  BY <1>5, AroundOrigin
<1> QED
  BY <1>1, <1>2, <1>3, <1>4, <1>5 DEF Next

(* The queue keeps MailContract: a message that qmail-queue has accepted   *)
(* leaves the queue only when each of its recipients has been delivered to *)
(* or reported (messdone() of qmail-send.c), only recipients of its        *)
(* envelope are delivered to or reported, only while it is there, and it   *)
(* never comes back.                                                       *)
THEOREM ImplementsContract ==
  ASSUME ~StaleBacklog PROVE Spec => KeepsContract
<1>1. Init => Contract!Init /\ OriginInv
  BY InitContract, InitOrigin
<1>2. /\ Typed /\ QueueInv /\ DurableInv /\ PromiseInv /\ OriginInv /\ [Next]_vars
        => OriginInv' /\ [Contract!Next]_(Contract!cvars)
  BY NextOrigin
<1> QED
  BY <1>1, <1>2, AlwaysTyped, AlwaysQueueInv, AlwaysDurableInv, AlwaysPromiseInv, PTL
     DEF Spec, KeepsContract, Contract!Spec
===============================================================================
