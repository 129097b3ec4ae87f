----------------------------- MODULE QmailSend ------------------------------
(***************************************************************************)
(* qmail-send: schedules the preprocessed messages, hands recipients to    *)
(* qmail-lspawn and qmail-rspawn, records their reports in local/, remote/ *)
(* and bounce/, and eliminates the messages that are done.  It is one      *)
(* select() loop; a handler that makes several system calls which others   *)
(* could see between, or which a crash could separate, is several steps    *)
(* here and spc says which one is next.  Times of retry are left out: an   *)
(* entry of a priority queue may be due at any moment.                     *)
(***************************************************************************)
EXTENDS QueueDir

VARIABLES
  spc,       \* "down", "idle", or the next step of the current handler
  sid,       \* the message of the current handler
  pqchan,    \* <<c, id>>: id waits in pqchan[c]
  pqdone,    \* messages to eliminate
  passid,    \* passid[c]: message whose channel file is being read (pass[c])
  unread,    \* unread[c]: its T records that were not read yet
  hiteof,    \* <<c, id>>: the job has read the whole file (flaghiteof)
  dying,     \* <<c, id>>: the job was opened after queuelifetime (flagdying)
  undone,    \* undone[id]: read by the job, not marked (numtodo counts them)
  del,       \* del[id][r]: delivery slot of r: unused, sent, reported, or noted
  exitasap,  \* flagexitasap
  todoalive  \* flagtodoalive

memVars == <<pqchan, pqdone, passid, unread, hiteof, dying, undone, del,
             exitasap, todoalive>>

VARIABLES
  delivered,  \* delivered[m]: recipients with a successful delivery
  bounced,    \* bounced[m]: recipients listed in an injected bounce message
  discarded   \* discarded[m]: failed recipients of a discarded triple bounce

fateVars == <<delivered, bounced, discarded>>

SendPcs == {"down", "idle", "mark", "stat_local", "stat_remote", "stat_todo",
            "stat_info", "bounce", "unbounce", "uninfo", "clean_intd",
            "clean_mess", "old_info", "old_todo"}

Report == {"K", "Z", "D"}

SendTypeOK ==
  /\ spc \in SendPcs
  /\ sid \in Ids \cup {NoId}
  /\ pqchan \subseteq Channels \X Ids
  /\ pqdone \subseteq Ids
  /\ passid \in [Channels -> Ids \cup {NoId}]
  /\ unread \in [Channels -> SUBSET Rcpts]
  /\ hiteof \subseteq Channels \X Ids
  /\ dying \subseteq Channels \X Ids
  /\ undone \in [Ids -> SUBSET Rcpts]
  /\ del \in [Ids -> [Rcpts -> {"none", "sent", "noted"} \cup Report]]
  /\ exitasap \in BOOLEAN /\ todoalive \in BOOLEAN
  /\ delivered \in [Msgs -> SUBSET Rcpts]
  /\ bounced \in [Msgs -> SUBSET Rcpts]
  /\ discarded \in [Msgs -> SUBSET Rcpts]

NoDelivery == [id \in Ids |-> [r \in Rcpts |-> "none"]]

SendInit ==
  /\ spc = "down" /\ sid = NoId
  /\ pqchan = {} /\ pqdone = {}
  /\ passid = [c \in Channels |-> NoId]
  /\ unread = [c \in Channels |-> {}]
  /\ hiteof = {} /\ dying = {}
  /\ undone = [id \in Ids |-> {}] /\ del = NoDelivery
  /\ exitasap = FALSE /\ todoalive = FALSE
  /\ delivered = [m \in Msgs |-> {}]
  /\ bounced = [m \in Msgs |-> {}]
  /\ discarded = [m \in Msgs |-> {}]

(* Job table, queues and slots of a process that starts or has ended.      *)
FreshMemory ==
  /\ sid' = NoId
  /\ passid' = [c \in Channels |-> NoId]
  /\ unread' = [c \in Channels |-> {}]
  /\ hiteof' = {} /\ dying' = {}
  /\ undone' = [id \in Ids |-> {}] /\ del' = NoDelivery
  /\ exitasap' = FALSE

GoDown ==
  /\ spc' = "down" /\ FreshMemory
  /\ pqchan' = {} /\ pqdone' = {} /\ todoalive' = FALSE

SendGoto(pc) == spc' = pc /\ UNCHANGED sid

Idle == spc = "idle"

-----------------------------------------------------------------------------
(* Start, and the reports of qmail-todo.                                   *)

(* pqadd(id).  Two wrong versions, without the stat of todo/id and without *)
(* the entry in pqdone, and the code's.                                    *)
ScheduledEvenInTodo(c, id) == Has("info", id) /\ Has(c, id)
NeverFinished(id)          == FALSE
Scheduled(c, id) == Has("info", id) /\ ~Has("todo", id) /\ Has(c, id)
Finished(id)     == Has("info", id) /\ ~Has("todo", id) /\ ~HasChan(id)

(* main() up to the loop: pqstart() rebuilds the queues from info/, and    *)
(* todo_init() wakes the waiting qmail-todo.                               *)
SendStart ==
  /\ spc = "down" /\ spc' = "idle" /\ FreshMemory
  /\ pqchan' = {x \in Channels \X Ids : Scheduled(x[1], x[2])}
  /\ pqdone' = {id \in Ids : Finished(id)}
  /\ todoalive' = TRUE
  /\ UNCHANGED <<dirVars, fateVars>>

(* todo_do() reading a 'D' report: dropped once qmail-send is exiting.     *)
TodoDel(id, chans) ==
  /\ Idle /\ todoalive
  /\ IF exitasap THEN UNCHANGED <<pqchan, pqdone>>
     ELSE /\ pqchan' = pqchan \cup (chans \X {id})
          /\ pqdone' = IF chans = {} THEN pqdone \cup {id} ELSE pqdone
  /\ UNCHANGED <<spc, sid, passid, unread, hiteof, dying, undone, del,
                 exitasap, todoalive, dirVars, fateVars>>

(* todo_do() reading X or an end of file: tododied() unless exiting.       *)
TodoGone ==
  /\ Idle /\ todoalive
  /\ todoalive' = FALSE /\ exitasap' = TRUE
  /\ UNCHANGED <<spc, sid, pqchan, pqdone, passid, unread, hiteof, dying,
                 undone, del, dirVars, fateVars>>

-----------------------------------------------------------------------------
(* Passes and jobs.                                                        *)

(* Nothing of the channel file is left to do: flaghiteof and no numtodo.   *)
(* (AllRead, a wrong version, does not look at numtodo.)                   *)
AllRead(c, hit, left) == hit
AllDone(c, hit, left) == hit /\ left \cap OfChannel(c) = {}

(* job_close(): the job of channel file c/id gives up one reference.  busy *)
(* says that others remain, hit that the file was read to its end, left    *)
(* which recipients of id are not marked, recs which still carry a T.      *)
JobClose(c, id, busy, hit, left, recs) ==
  LET over == /\ hiteof' = hiteof \ {<<c, id>>}
              /\ dying' = dying \ {<<c, id>>}
              /\ undone' = [undone EXCEPT ![id] = left \ OfChannel(c)]
      again == /\ pqchan' = pqchan \cup {<<c, id>>}
               /\ pending' = [pending EXCEPT ![id] = recs]
               /\ UNCHANGED <<files, pqdone>>
  IN
  \/ /\ busy
     /\ hiteof' = IF hit THEN hiteof \cup {<<c, id>>} ELSE hiteof
     /\ undone' = [undone EXCEPT ![id] = left]
     /\ pending' = [pending EXCEPT ![id] = recs]
     /\ UNCHANGED <<files, pqchan, pqdone, dying>>
  \/ ~busy /\ over /\ (~AllDone(c, hit, left) \/ IoErrors) /\ again
  \/ /\ ~busy /\ over /\ AllDone(c, hit, left)
     /\ Unlink(c, id)
     /\ pending' = [pending EXCEPT ![id] = recs \ OfChannel(c)]
     /\ \/ /\ \A o \in Channels \ {c} : ~Has(o, id)
           /\ pqdone' = pqdone \cup {id}
        \/ /\ \E o \in Channels \ {c} : Has(o, id)
           /\ pqdone' \in IF IoErrors THEN {pqdone, pqdone \cup {id}}
                          ELSE {pqdone}
     /\ UNCHANGED pqchan

(* Other references to the job: its pass and its deliveries.  (The first   *)
(* version, a wrong one, does not count the pass.)                         *)
BusyDelivering(c, id, reported) ==
  \E r \in OfChannel(c) \ reported : del[id][r] # "none"

Busy(c, id, reported) ==
  \/ passid[c] = id
  \/ \E r \in OfChannel(c) \ reported : del[id][r] # "none"

(* pass_dochan() opening a job for a file that is due.  When the open or   *)
(* getinfo() fails the entry goes back, with a later time.                 *)
OpenPass(c, id) ==
  /\ Idle /\ ~exitasap /\ passid[c] = NoId /\ <<c, id>> \in pqchan
  /\ Has(c, id) /\ Has("info", id)
  /\ pqchan' = pqchan \ {<<c, id>>}
  /\ passid' = [passid EXCEPT ![c] = id]
  /\ unread' = [unread EXCEPT ![c] = pending[id] \cap OfChannel(c)]
  /\ dying' = IF id \in expired THEN dying \cup {<<c, id>>} ELSE dying
  /\ UNCHANGED <<spc, sid, pqdone, hiteof, undone, del, exitasap, todoalive,
                 dirVars, fateVars>>

(* pass_dochan() reading a T record: del_start() sends it to the spawner.  *)
ReadRecipient(c, r) ==
  LET id == passid[c] IN
  /\ Idle /\ ~exitasap /\ id # NoId /\ r \in unread[c]
  /\ unread' = [unread EXCEPT ![c] = @ \ {r}]
  /\ undone' = [undone EXCEPT ![id] = @ \cup {r}]
  /\ del' = [del EXCEPT ![id][r] = "sent"]
  /\ UNCHANGED <<spc, sid, pqchan, pqdone, passid, hiteof, dying, exitasap,
                 todoalive, dirVars, fateVars>>

(* pass_dochan() at the end of the file, or (hit FALSE) giving up on it.   *)
EndPass(c, hit) ==
  LET id == passid[c] IN
  /\ Idle /\ ~exitasap /\ id # NoId
  /\ IF hit THEN unread[c] = {} ELSE IoErrors
  /\ passid' = [passid EXCEPT ![c] = NoId]
  /\ unread' = [unread EXCEPT ![c] = {}]
  /\ JobClose(c, id, \E r \in OfChannel(c) : del[id][r] # "none", hit,
              undone[id], pending[id])
  /\ UNCHANGED <<spc, sid, del, exitasap, todoalive,
                 dirty, held, noted, age, expired, fateVars>>

-----------------------------------------------------------------------------
(* Delivery reports.                                                       *)

(* A spawned program ends and its spawner reports (qmail-lspawn with       *)
(* qmail-local, qmail-rspawn with qmail-remote; modelled by their reports, *)
(* K, Z or D, of which only K promises that the message was delivered).    *)
SpawnerReports(id, r, report) ==
  /\ spc # "down" /\ del[id][r] = "sent"
  /\ del' = [del EXCEPT ![id][r] = report]
  /\ delivered' = IF report = "K"
                    THEN [delivered EXCEPT ![held[id]] = @ \cup {r}]
                    ELSE delivered
  /\ UNCHANGED <<spc, sid, pqchan, pqdone, passid, unread, hiteof, dying,
                 undone, exitasap, todoalive, bounced, discarded, dirVars>>

(* markdone() writes D over the T of the record; when it cannot, it only   *)
(* warns.                                                                  *)
MarkDone(id, r) == IF IoErrors THEN {pending[id] \ {r}, pending[id]}
                   ELSE {pending[id] \ {r}}

(* The end of a report on r: markdone() unless the delivery is deferred,   *)
(* job_close(), and the slot is free again.                                *)
EndDelivery(id, r, mark) ==
  LET c == ChannelOf[r] IN
  /\ spc' = "idle" /\ UNCHANGED sid
  /\ del' = [del EXCEPT ![id][r] = "none"]
  /\ IF mark
       THEN \E recs \in MarkDone(id, r) :
              JobClose(c, id, Busy(c, id, {r}), <<c, id>> \in hiteof,
                       undone[id] \ {r}, recs)
       ELSE JobClose(c, id, Busy(c, id, {r}), <<c, id>> \in hiteof,
                     undone[id], pending[id])
  /\ UNCHANGED <<passid, unread, exitasap, todoalive,
                 dirty, held, noted, age, expired, fateVars>>

ReportK(id, r) == Idle /\ del[id][r] = "K" /\ EndDelivery(id, r, TRUE)

ReportZ(id, r) ==
  /\ Idle /\ del[id][r] = "Z" /\ <<ChannelOf[r], id>> \notin dying
  /\ EndDelivery(id, r, FALSE)

(* A failure, or a deferral of a dying job: addbounce() comes first, ...   *)
ReportD(id, r) ==
  /\ Idle
  /\ \/ del[id][r] = "D"
     \/ del[id][r] = "Z" /\ <<ChannelOf[r], id>> \in dying
  /\ spc' = "mark" /\ sid' = id
  /\ del' = [del EXCEPT ![id][r] = "noted"]
  /\ Link("bounce", id)
  /\ noted' = [noted EXCEPT ![id] = @ \cup {r}]
  /\ UNCHANGED <<pqchan, pqdone, passid, unread, hiteof, dying, undone,
                 exitasap, todoalive, dirty, held, pending, age, expired,
                 fateVars>>

(* ... then markdone().                                                    *)
MarkFailed(id, r) ==
  spc = "mark" /\ del[id][r] = "noted" /\ EndDelivery(id, r, TRUE)

-----------------------------------------------------------------------------
(* messdone(): eliminating a message.                                      *)

(* pass_do() takes the head of pqdone; it does so while exiting, too.      *)
MessDone(id) ==
  /\ Idle /\ id \in pqdone
  /\ spc' = "stat_local" /\ sid' = id
  /\ pqdone' = pqdone \ {id}
  /\ UNCHANGED <<pqchan, passid, unread, hiteof, dying, undone, del,
                 exitasap, todoalive, dirVars, fateVars>>

restVars == <<pqchan, passid, unread, hiteof, dying, undone, del, exitasap,
              todoalive>>

(* "will try again later"; Forget, a wrong version, does not. *)
Forget   == SendGoto("idle") /\ UNCHANGED pqdone
TryAgain == SendGoto("idle") /\ pqdone' = pqdone \cup {sid}

(* One of the stats that precede: messdone() goes on only if d/id is       *)
(* (present TRUE) or is not (present FALSE) there.                         *)
MessDoneStat(pc, d, present, next) ==
  /\ spc = pc
  /\ \/ Has(d, sid) = present /\ SendGoto(next) /\ UNCHANGED pqdone
     \/ Has(d, sid) # present /\ SendGoto("idle") /\ UNCHANGED pqdone
     \/ IoErrors /\ TryAgain
  /\ UNCHANGED <<restVars, dirVars, fateVars>>

(* A wrong version: it does not matter whether the bounce was accepted. *)
InjectBounceUnchecked ==
  LET m == held[sid] IN
  /\ spc = "bounce"
  /\ SendGoto(IF Has("bounce", sid) THEN "unbounce" ELSE "uninfo")
  /\ bounced' \in {bounced, [bounced EXCEPT ![m] = @ \cup noted[sid]]}
  /\ UNCHANGED <<pqdone, discarded, restVars, delivered, dirVars>>

(* injectbounce(): nothing to do, a triple bounce is discarded, or a new   *)
(* qmail-queue accepts (or does not accept) the bounce message.            *)
InjectBounce ==
  LET m == held[sid] IN
  /\ spc = "bounce"
  /\ \/ /\ ~Has("bounce", sid)
        /\ SendGoto("uninfo") /\ UNCHANGED <<pqdone, bounced, discarded>>
     \/ /\ Has("bounce", sid) /\ m \in DoubleBounces
        /\ SendGoto("unbounce") /\ UNCHANGED <<pqdone, bounced>>
        /\ discarded' = [discarded EXCEPT ![m] = @ \cup noted[sid]]
     \/ /\ Has("bounce", sid) /\ m \notin DoubleBounces
        /\ SendGoto("unbounce") /\ UNCHANGED <<pqdone, discarded>>
        /\ bounced' = [bounced EXCEPT ![m] = @ \cup noted[sid]]
     \/ /\ IoErrors \/ (Has("bounce", sid) /\ m \notin DoubleBounces)
        /\ TryAgain /\ UNCHANGED <<bounced, discarded>>
  /\ UNCHANGED <<restVars, delivered, dirVars>>

(* A wrong version: bounce/ is injected and stays. *)
KeepBounce ==
  /\ spc = "unbounce" /\ SendGoto("uninfo")
  /\ UNCHANGED <<pqdone, restVars, dirVars, fateVars>>

UnlinkBounce ==
  /\ spc = "unbounce"
  /\ \/ /\ SendGoto("uninfo") /\ UNCHANGED pqdone
        /\ Unlink("bounce", sid)
        /\ noted' = [noted EXCEPT ![sid] = {}]
        /\ UNCHANGED <<dirty, held, pending, age, expired>>
     \/ IoErrors /\ TryAgain /\ UNCHANGED dirVars
  /\ UNCHANGED <<restVars, fateVars>>

UnlinkInfo ==
  /\ spc = "uninfo"
  /\ \/ /\ SendGoto("clean_intd") /\ UNCHANGED pqdone
        /\ Unlink("info", sid)
        /\ expired' = expired \ {sid}
        /\ UNCHANGED <<dirty, held, pending, noted, age>>
     \/ IoErrors /\ TryAgain /\ UNCHANGED dirVars
  /\ UNCHANGED <<restVars, fateVars>>

(* The "foop/" request to qmail-clean; "!" is only logged.                 *)
CleanFile(pc, d, next) ==
  /\ spc = pc
  /\ \/ /\ SendGoto(next) /\ Unlink(d, sid)
        /\ UNCHANGED <<dirty, held, pending, noted, age, expired>>
     \/ IoErrors /\ SendGoto("idle") /\ UNCHANGED dirVars
  /\ UNCHANGED <<pqdone, restVars, fateVars>>

-----------------------------------------------------------------------------
(* cleanup_do(), one file of mess/.                                        *)

(* (MaybeAlive, a wrong version, takes files that may be in use.) *)
MaybeAlive(id) == age[id] >= DEATH
Ossified(id)   == age[id] > OSSIFIED

(* A wrong version: only what has a file in intd/ is cleaned up. *)
CleanupIntdOnly(id) ==
  /\ Idle /\ Has("mess", id) /\ Has("intd", id) /\ Ossified(id)
  /\ spc' = "old_info" /\ sid' = id
  /\ UNCHANGED <<pqdone, restVars, dirVars, fateVars>>

(* readsubdir returned id, and the file is OSSIFIED. *)
CleanupOld(id) ==
  /\ Idle /\ Has("mess", id) /\ Ossified(id)
  /\ spc' = "old_info" /\ sid' = id
  /\ UNCHANGED <<pqdone, restVars, dirVars, fateVars>>

(* A wrong version: it does not look. *)
CleanupNoStat(pc, d, next) ==
  /\ spc = pc /\ SendGoto(next)
  /\ UNCHANGED <<pqdone, restVars, dirVars, fateVars>>

(* A stat that must find nothing; any other outcome leaves the file alone. *)
CleanupStat(pc, d, next) ==
  /\ spc = pc
  /\ IF Has(d, sid) THEN SendGoto("idle")
     ELSE \/ SendGoto(next)
          \/ IoErrors /\ SendGoto("idle")
  /\ UNCHANGED <<pqdone, restVars, dirVars, fateVars>>

(* cleanuppid() of either qmail-clean.                                     *)
CleanupPid(id) ==
  /\ Has("pid", id) /\ age[id] >= OSSIFIED
  /\ Unlink("pid", id)
  /\ UNCHANGED <<dirty, held, pending, noted, age, expired,
                 spc, sid, pqdone, restVars, fateVars>>

-----------------------------------------------------------------------------

SigTerm ==
  /\ spc # "down" /\ ~exitasap /\ exitasap' = TRUE
  /\ UNCHANGED <<spc, sid, pqchan, pqdone, passid, unread, hiteof, dying,
                 undone, del, todoalive, dirVars, fateVars>>

(* del_canexit() *)
NoneInFlight == \A id \in Ids, r \in Rcpts : del[id][r] = "none"

(* The loop ends; pqfinish() only saves times of retry.                    *)
SendExit ==
  /\ Idle /\ exitasap /\ NoneInFlight /\ ~todoalive
  /\ GoDown /\ UNCHANGED <<dirVars, fateVars>>

SendStep ==
  \/ \E c \in Channels, id \in Ids : OpenPass(c, id)
  \/ \E c \in Channels, r \in Rcpts : ReadRecipient(c, r)
  \/ \E c \in Channels, hit \in BOOLEAN : EndPass(c, hit)
  \/ \E id \in Ids, r \in Rcpts :
       \/ ReportK(id, r) \/ ReportZ(id, r)
       \/ ReportD(id, r) \/ MarkFailed(id, r)
  \/ \E id \in Ids : MessDone(id) \/ CleanupOld(id)
  \/ MessDoneStat("stat_local", "local", FALSE, "stat_remote")
  \/ MessDoneStat("stat_remote", "remote", FALSE, "stat_todo")
  \/ MessDoneStat("stat_todo", "todo", FALSE, "stat_info")
  \/ MessDoneStat("stat_info", "info", TRUE, "bounce")
  \/ InjectBounce \/ UnlinkBounce \/ UnlinkInfo
  \/ CleanFile("clean_intd", "intd", "clean_mess")
  \/ CleanFile("clean_mess", "mess", "idle")
  \/ CleanupStat("old_info", "info", "old_todo")
  \/ CleanupStat("old_todo", "todo", "clean_intd")
  \/ SendExit

=============================================================================
