----------------------------- MODULE QmailTodo ------------------------------
(***************************************************************************)
(* qmail-todo (built with EXTERNAL_TODO): preprocesses each message of     *)
(* todo/ into info/, local/ and remote/, has its qmail-clean remove intd/  *)
(* and todo/, and reports the message to qmail-send through a pipe.        *)
(* todo_do() is one call, but qmail-queue, qmail-send and a crash fall     *)
(* between its system calls, so each of these is a step.                   *)
(***************************************************************************)
EXTENDS QueueDir

VARIABLES
  tpc,       \* what qmail-todo does next
  tid,       \* the message it is preprocessing
  tleft,     \* recipients it has not copied yet
  tchan,     \* channels whose file it has created (flagchan)
  treports,  \* <<id, channels>>: 'D' reports not yet read by qmail-send
  tstop      \* flagstopasap

todoVars == <<tpc, tid, tleft, tchan, treports, tstop>>

TodoPcs == {"dead", "idle", "stat", "unlocal", "unremote", "uninfo", "info",
            "copy", "sync_info", "sync_chan", "clean_intd", "clean_todo",
            "report"}

TodoTypeOK ==
  /\ tpc \in TodoPcs
  /\ tid \in Ids \cup {NoId}
  /\ tleft \subseteq Rcpts
  /\ tchan \subseteq Channels
  /\ treports \subseteq Ids \X SUBSET Channels
  /\ tstop \in BOOLEAN

TodoInit ==
  /\ tpc = "dead" /\ tid = NoId /\ tleft = {} /\ tchan = {}
  /\ treports = {} /\ tstop = FALSE

TodoGoto(pc) == tpc' = pc /\ UNCHANGED <<tid, treports, tstop>>

(* Every failed call, open_excl() of a file that exists among them, ends   *)
(* at "fail:" or a return, which leave the files as they are.              *)
GiveUp == TodoGoto("idle") /\ UNCHANGED <<tleft, tchan>>

Fails == IoErrors /\ GiveUp /\ UNCHANGED dirVars

-----------------------------------------------------------------------------

(* readdir() returned id and open_read() of todo/id succeeded. *)
OpenTodo(id) ==
  /\ tpc = "idle" /\ ~tstop /\ Has("todo", id)
  /\ tpc' = "stat" /\ tid' = id
  /\ tleft' = Envelope(id) /\ tchan' = {}
  /\ UNCHANGED <<treports, tstop, dirVars>>

TodoStatMess ==
  /\ tpc = "stat"
  /\ \/ Has("mess", tid) /\ TodoGoto("unlocal") /\ UNCHANGED <<tleft, tchan>>
     \/ (~Has("mess", tid) \/ IoErrors) /\ GiveUp
  /\ UNCHANGED dirVars

(* What an earlier, interrupted preprocessing left is removed first. *)
TodoUnlinkChan(c, pc, next) ==
  /\ tpc = pc
  /\ \/ /\ TodoGoto(next) /\ UNCHANGED <<tleft, tchan>>
        /\ Unlink(c, tid)
        /\ dirty' = dirty \ {<<c, tid>>}
        /\ pending' = [pending EXCEPT ![tid] = @ \ OfChannel(c)]
        /\ UNCHANGED <<held, noted, age, expired>>
     \/ Fails

TodoUnlinkInfo ==
  /\ tpc = "uninfo"
  /\ \/ /\ TodoGoto("info") /\ UNCHANGED <<tleft, tchan>>
        /\ Unlink("info", tid)
        /\ dirty' = dirty \ {<<"info", tid>>}
        /\ expired' = expired \ {tid}
        /\ UNCHANGED <<held, pending, noted, age>>
     \/ Fails

TodoCreateInfo ==
  /\ tpc = "info"
  /\ \/ /\ ~Has("info", tid)
        /\ TodoGoto("copy") /\ UNCHANGED <<tleft, tchan>>
        /\ Link("info", tid)
        /\ dirty' = dirty \cup {<<"info", tid>>}
        /\ UNCHANGED <<held, pending, noted, age, expired>>
     \/ Fails

(* One T record of the envelope: rewrite() picks the channel, whose file   *)
(* is created at its first recipient.                                      *)
CopyRecipient(r) ==
  LET c == ChannelOf[r] IN
  /\ tpc = "copy" /\ r \in tleft
  /\ \/ /\ c \in tchan \/ ~Has(c, tid)
        /\ TodoGoto("copy")
        /\ tleft' = tleft \ {r} /\ tchan' = tchan \cup {c}
        /\ Link(c, tid)
        /\ dirty' = dirty \cup {<<c, tid>>}
        /\ pending' = [pending EXCEPT ![tid] = @ \cup {r}]
        /\ UNCHANGED <<held, noted, age, expired>>
     \/ Fails

EndOfEnvelope ==
  /\ tpc = "copy" /\ tleft = {}
  /\ TodoGoto("sync_info")
  /\ UNCHANGED <<tleft, tchan, dirVars>>

TodoSyncInfo ==
  /\ tpc = "sync_info"
  /\ \/ /\ TodoGoto("sync_chan") /\ UNCHANGED <<tleft, tchan>>
        /\ dirty' = dirty \ {<<"info", tid>>}
        /\ UNCHANGED <<files, held, pending, noted, age, expired>>
     \/ Fails

(* A wrong version: the flush without the fsync. *)
TodoFlushChans ==
  /\ tpc = "sync_chan"
  /\ TodoGoto("clean_intd") /\ UNCHANGED <<tleft, tchan, dirVars>>

TodoSyncChans ==
  /\ tpc = "sync_chan"
  /\ \/ /\ TodoGoto("clean_intd") /\ UNCHANGED <<tleft, tchan>>
        /\ dirty' = dirty \ (tchan \X {tid})
        /\ UNCHANGED <<files, held, pending, noted, age, expired>>
     \/ Fails

-----------------------------------------------------------------------------

(* The "todo/" request to qmail-clean, which answers + only when both      *)
(* unlinks succeeded; after any other answer todo_do() returns.            *)
TodoCleanIntd ==
  /\ tpc = "clean_intd"
  /\ \/ /\ TodoGoto("clean_todo") /\ UNCHANGED <<tleft, tchan>>
        /\ Unlink("intd", tid)
        /\ UNCHANGED <<dirty, held, pending, noted, age, expired>>
     \/ Fails

TodoCleanTodo ==
  /\ tpc = "clean_todo"
  /\ \/ /\ TodoGoto("report") /\ UNCHANGED <<tleft, tchan>>
        /\ Unlink("todo", tid)
        /\ UNCHANGED <<dirty, held, pending, noted, age, expired>>
     \/ Fails

(* comm_write(): DL, DR, DB or DX. *)
TodoReport ==
  /\ tpc = "report"
  /\ tpc' = "idle"
  /\ treports' = treports \cup {<<tid, tchan>>}
  /\ UNCHANGED <<tid, tleft, tchan, tstop, dirVars>>

(* With flagstopasap set and every report written, comm_exit() sends X.    *)
(* qmail-send reads it after the reports that precede it in the pipe.      *)
TodoLeaves ==
  /\ tpc = "idle" /\ tstop
  /\ TodoGoto("dead")
  /\ UNCHANGED <<tleft, tchan, dirVars>>

QmailTodoStep ==
  \/ \E id \in Ids : OpenTodo(id)
  \/ TodoStatMess
  \/ TodoUnlinkChan("local", "unlocal", "unremote")
  \/ TodoUnlinkChan("remote", "unremote", "uninfo")
  \/ TodoUnlinkInfo \/ TodoCreateInfo
  \/ (\E r \in Rcpts : CopyRecipient(r)) \/ EndOfEnvelope
  \/ TodoSyncInfo \/ TodoSyncChans
  \/ TodoCleanIntd \/ TodoCleanTodo
  \/ TodoReport \/ TodoLeaves

=============================================================================
