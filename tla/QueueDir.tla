------------------------------ MODULE QueueDir ------------------------------
(***************************************************************************)
(* The queue directory of qmail-1.03: pid/, mess/, intd/, todo/, info/,    *)
(* local/, remote/ and bounce/, shared by qmail-queue, qmail-todo,         *)
(* qmail-send and the two qmail-clean processes.  Every message is named   *)
(* by the inode number of its mess/ file (qmail-queue.c:195), so Ids are   *)
(* inode numbers, and each entry of a directory is present or absent.      *)
(* The contents of a file are kept only as far as somebody depends on      *)
(* them: which message an inode holds, which recipients still carry a T    *)
(* record, which failures bounce/ lists, and which files are not yet       *)
(* complete on disk.                                                       *)
(***************************************************************************)
EXTENDS Naturals

CONSTANTS
  Ids,           \* inode numbers the file system hands out
  Msgs,          \* invocations of qmail-queue; each one submits one message
  Rcpts,         \* envelope recipients
  To,            \* To[m]: the recipients in the envelope of m
  ChannelOf,     \* ChannelOf[r]: the channel rewrite() routes r to
  DoubleBounces, \* messages whose envelope sender is #@[]
  NoMsg,         \* an inode that never held a message
  NoId,          \* no inode
  DEATH,         \* qmail-queue.c:22, 24 hours
  OSSIFIED,      \* qmail-send.c:43 and qmail-clean.c:20, 36 hours
  IoErrors       \* may a system call on a queue file fail?

Channels == {"local", "remote"}

(* qmail-queue.c:22 says DEATH "_must_ be below q-s's OSSIFIED". *)
ASSUME TimeAssumption == DEATH \in Nat /\ OSSIFIED \in Nat /\ DEATH < OSSIFIED

ASSUME EnvelopeAssumption ==
  /\ To \in [Msgs -> SUBSET Rcpts]
  /\ ChannelOf \in [Rcpts -> Channels]
  /\ DoubleBounces \subseteq Msgs
  /\ NoMsg \notin Msgs
  /\ NoId \notin Ids
  /\ IoErrors \in BOOLEAN

VARIABLES
  files,    \* <<d, id>>: directory d has a file named id
  dirty,    \* <<d, id>>: contents of d/id not yet known to be on disk
  held,     \* held[id]: the message the inode id was created for
  pending,  \* pending[id]: recipients whose record in local/ or remote/ is T
  noted,    \* noted[id]: recipients listed in bounce/id
  age,      \* age[id]: time since the inode was created, up to MaxAge
  expired   \* ids whose info/ file is older than queuelifetime

dirVars == <<files, dirty, held, pending, noted, age, expired>>

Directories ==
  {"pid", "mess", "intd", "todo", "info", "bounce"} \cup Channels

(* A file older than OSSIFIED stays older: age saturates there. *)
MaxAge == OSSIFIED + 1

QueueTypeOK ==
  /\ files \subseteq Directories \X Ids
  /\ dirty \subseteq Directories \X Ids
  /\ held \in [Ids -> Msgs \cup {NoMsg}]
  /\ pending \in [Ids -> SUBSET Rcpts]
  /\ noted \in [Ids -> SUBSET Rcpts]
  /\ age \in [Ids -> 0..MaxAge]
  /\ expired \subseteq Ids

QueueInit ==
  /\ files = {} /\ dirty = {} /\ expired = {}
  /\ held = [id \in Ids |-> NoMsg]
  /\ pending = [id \in Ids |-> {}]
  /\ noted = [id \in Ids |-> {}]
  /\ age = [id \in Ids |-> 0]

Has(d, id)    == <<d, id>> \in files
Link(d, id)   == files' = files \cup {<<d, id>>}
Unlink(d, id) == files' = files \ {<<d, id>>}

HasChan(id) == \E c \in Channels : Has(c, id)

(* The recipients of the message in inode id, and those of one channel. *)
Envelope(id) == IF held[id] = NoMsg THEN {} ELSE To[held[id]]
OfChannel(c) == {r \in Rcpts : ChannelOf[r] = c}

-----------------------------------------------------------------------------
(* The states of a message in INTERNALS section 2. *)

S1(id) == \A d \in Directories \ {"pid"} : ~Has(d, id)

S2(id) == /\ Has("mess", id)
          /\ \A d \in Directories \ {"pid", "mess"} : ~Has(d, id)

S3(id) == /\ Has("mess", id) /\ Has("intd", id)
          /\ \A d \in Directories \ {"pid", "mess", "intd"} : ~Has(d, id)

S4(id) == Has("mess", id) /\ Has("todo", id) /\ ~Has("bounce", id)

S5(id) == /\ Has("mess", id) /\ Has("info", id)
          /\ ~Has("intd", id) /\ ~Has("todo", id)

=============================================================================
