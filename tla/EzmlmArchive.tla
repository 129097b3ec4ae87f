------------------------------ MODULE EzmlmArchive ------------------------------
(***************************************************************************)
(* A list of ezmlm-idx that keeps its messages: ezmlm-send numbers, archives, *)
(* indexes and distributes the posts, ezmlm-get makes digests of them and     *)
(* sends single messages to who asks, ezmlm-idx makes the index anew.         *)
(* qmail-local starts ezmlm-send again for a post while it exits with 111 or  *)
(* is killed, and cron starts ezmlm-get for the digests again and again.      *)
(***************************************************************************)
EXTENDS Integers, FiniteSets

CONSTANTS
  Posts,
  MaxNum,               \* bound on the numbers of messages
  SendFailures, DigestFailures,     \* bounds: failures of qmail-queue
  MaxCrashes            \* bound: programs that are killed

ArchiveAssumption == {MaxNum, SendFailures, DigestFailures, MaxCrashes} \subseteq Nat

Numbers == 1..MaxNum

VARIABLES
  waiting,              \* posts that qmail-local has to deliver
  num, dignum,          \* the files of these names
  archive,              \* archive/ per number: [post, x, whole], x is the bit that tells it is whole
  index,                \* [n, post]: the lines of the index
  lock,                 \* who holds the list's lock: [who, at, post]
  digest,               \* ezmlm-get for a digest: [at, max, prev, has]
  sent,                 \* [n, post]: what the subscribers got
  digested,             \* per post how many digests had it
  get,                  \* ezmlm-get for a message: what it took num to be, 0 while there is none
  sendFailures, digestFailures, crashes

vars == <<waiting, num, dignum, archive, index, lock, digest, sent, digested, get, sendFailures, digestFailures, crashes>>
faults == <<sendFailures, digestFailures, crashes>>
files == <<num, dignum, archive, index>>
readers == <<digest, digested, get>>

NoPost == "none"
NoFile == [post |-> NoPost, x |-> FALSE, whole |-> FALSE]
Free == [who |-> "nobody", at |-> "", post |-> NoPost]
NoDigest == [at |-> "idle", max |-> 0, prev |-> 0, has |-> {}]
Line(n, p) == [n |-> n, post |-> p]

Init ==
  /\ waiting = Posts /\ num = 0 /\ dignum = 0 /\ archive = [n \in Numbers |-> NoFile] /\ index = {}
  /\ lock = Free /\ digest = NoDigest /\ sent = {} /\ digested = [p \in Posts |-> 0] /\ get = 0
  /\ sendFailures = 0 /\ digestFailures = 0 /\ crashes = 0

-----------------------------------------------------------------------------
(* ezmlm-send.                                                               *)
Sends(at) == lock.who = "send" /\ lock.at = at
Step(at) == lock' = [lock EXCEPT !.at = at]
MsgNum == num + 1

(* open_trunc() makes the file empty, and leaves its mode as it is.           *)
SendStart(p) ==
  /\ p \in waiting /\ lock = Free /\ MsgNum \in Numbers /\ lock' = [who |-> "send", at |-> "index", post |-> p]
  /\ archive' = [archive EXCEPT ![MsgNum] = [@ EXCEPT !.post = p, !.whole = FALSE]]
  /\ UNCHANGED <<waiting, num, dignum, index, sent, readers, faults>>

(* A wrong version: the line before is lost. *)
SendIndexDrops ==
  /\ Sends("index") /\ Step("archive") /\ index' = {l \in index : l.n < MsgNum - 1} \cup {Line(MsgNum, lock.post)}
  /\ UNCHANGED <<waiting, num, dignum, archive, sent, readers, faults>>

(* The lines of the index that come before this message, and its own.         *)
SendIndex ==
  /\ Sends("index") /\ Step("archive") /\ index' = {l \in index : l.n < MsgNum} \cup {Line(MsgNum, lock.post)}
  /\ UNCHANGED <<waiting, num, dignum, archive, sent, readers, faults>>

(* A post that the list does not take is known when all of it is read.        *)
SendRefuse ==
  /\ Sends("archive") /\ lock' = Free /\ waiting' = waiting \ {lock.post}
  /\ UNCHANGED <<files, sent, readers, faults>>

(* A wrong version: the post is distributed before its number is written. *)
SendArchiveEarly ==
  /\ Sends("archive") /\ Step("number") /\ archive' = [archive EXCEPT ![MsgNum] = [@ EXCEPT !.x = TRUE, !.whole = TRUE]]
  /\ sent' = sent \cup {Line(MsgNum, lock.post)}
  /\ UNCHANGED <<waiting, num, dignum, index, readers, faults>>

SendArchive ==
  /\ Sends("archive") /\ Step("number") /\ archive' = [archive EXCEPT ![MsgNum] = [@ EXCEPT !.x = TRUE, !.whole = TRUE]]
  /\ UNCHANGED <<waiting, num, dignum, index, sent, readers, faults>>

SendNumber ==
  /\ Sends("number") /\ Step("out") /\ num' = MsgNum
  /\ UNCHANGED <<waiting, dignum, archive, index, sent, readers, faults>>

SendOut ==
  /\ Sends("out") /\ Step("exit") /\ sent' = sent \cup {Line(num, lock.post)}
  /\ UNCHANGED <<waiting, files, readers, faults>>

(* A wrong version: qmail-local is told to try again. *)
SendExitTemp ==
  /\ Sends("exit") /\ lock' = Free /\ waiting' = waiting
  /\ UNCHANGED <<files, sent, readers, faults>>

SendExit ==
  /\ Sends("exit") /\ lock' = Free /\ waiting' = waiting \ {lock.post}
  /\ UNCHANGED <<files, sent, readers, faults>>

SendFails ==
  /\ Sends("out") /\ sendFailures < SendFailures /\ sendFailures' = sendFailures + 1 /\ Step("give_back")
  /\ UNCHANGED <<waiting, files, sent, readers, digestFailures, crashes>>

SendGiveBack ==
  /\ Sends("give_back") /\ num' = num - 1 /\ lock' = Free
  /\ UNCHANGED <<waiting, dignum, archive, index, sent, readers, faults>>

-----------------------------------------------------------------------------
(* ezmlm-get for a digest.                                                    *)
DigestNum ==
  /\ digest.at = "idle" /\ num > dignum /\ digest' = [NoDigest EXCEPT !.at = "lock", !.max = num]
  /\ UNCHANGED <<waiting, files, lock, sent, digested, get, faults>>

(* A wrong version: one new message is not enough. *)
DigestLockTwo ==
  /\ digest.at = "lock" /\ lock = Free
  /\ IF digest.max > dignum + 1
     THEN lock' = [Free EXCEPT !.who = "digest"] /\ digest' = [digest EXCEPT !.at = "read", !.prev = dignum]
     ELSE UNCHANGED lock /\ digest' = NoDigest
  /\ UNCHANGED <<waiting, files, sent, digested, get, faults>>

DigestLock ==
  /\ digest.at = "lock" /\ lock = Free
  /\ IF digest.max > dignum
     THEN lock' = [Free EXCEPT !.who = "digest"] /\ digest' = [digest EXCEPT !.at = "read", !.prev = dignum]
     ELSE UNCHANGED lock /\ digest' = NoDigest
  /\ UNCHANGED <<waiting, files, sent, digested, get, faults>>

DigestRead ==
  /\ digest.at = "read"
  /\ digest' = [digest EXCEPT !.at = "number",
                  !.has = {archive[n].post : n \in {n \in digest.prev + 1..digest.max : archive[n].x}}]
  /\ UNCHANGED <<waiting, files, lock, sent, digested, get, faults>>

DigestNumber ==
  /\ digest.at = "number" /\ digest' = [digest EXCEPT !.at = "out"] /\ dignum' = digest.max
  /\ UNCHANGED <<waiting, num, archive, index, lock, sent, digested, get, faults>>

DigestOut ==
  /\ digest.at = "out" /\ digest' = NoDigest /\ lock' = Free
  /\ digested' = [p \in Posts |-> digested[p] + (IF p \in digest.has THEN 1 ELSE 0)]
  /\ UNCHANGED <<waiting, files, sent, get, faults>>

(* A wrong version: dignum is not written back. *)
DigestFailsKeeps ==
  /\ digest.at = "out" /\ digestFailures < DigestFailures /\ digestFailures' = digestFailures + 1
  /\ dignum' = dignum /\ digest' = NoDigest /\ lock' = Free
  /\ UNCHANGED <<waiting, num, archive, index, sent, digested, get, sendFailures, crashes>>

DigestFails ==
  /\ digest.at = "out" /\ digestFailures < DigestFailures /\ digestFailures' = digestFailures + 1
  /\ dignum' = digest.prev /\ digest' = NoDigest /\ lock' = Free
  /\ UNCHANGED <<waiting, num, archive, index, sent, digested, get, sendFailures, crashes>>

-----------------------------------------------------------------------------
(* A wrong version: the number that was asked for is not compared with num. *)
GetNumAny ==
  /\ get = 0 /\ get' = MaxNum
  /\ UNCHANGED <<waiting, files, lock, digest, sent, digested, faults>>

(* ezmlm-get for a message does not lock the list.                           *)
GetNum ==
  /\ get = 0 /\ get' = num
  /\ UNCHANGED <<waiting, files, lock, digest, sent, digested, faults>>

GetRead(n) ==
  /\ n \in 1..get /\ archive[n].x /\ get' = 0
  /\ UNCHANGED <<waiting, files, lock, digest, sent, digested, faults>>

(* ezmlm-idx.                                                                *)
Rebuild ==
  /\ lock = Free /\ num > 0 /\ index' = {Line(n, archive[n].post) : n \in {n \in 1..num : archive[n].x}}
  /\ UNCHANGED <<waiting, num, dignum, archive, lock, sent, readers, faults>>

KillHolder ==
  /\ lock # Free /\ crashes < MaxCrashes /\ crashes' = crashes + 1 /\ lock' = Free
  /\ digest' = IF lock.who = "digest" THEN NoDigest ELSE digest
  /\ UNCHANGED <<waiting, files, sent, digested, get, sendFailures, digestFailures>>

SendStep == SendIndex \/ SendArchive \/ SendNumber \/ SendOut \/ SendExit \/ SendGiveBack
DigestStep == DigestRead \/ DigestNumber \/ DigestOut

Next ==
  \/ (\E p \in Posts : SendStart(p)) \/ SendStep \/ SendRefuse \/ SendFails
  \/ DigestNum \/ DigestLock \/ DigestStep \/ DigestFails
  \/ GetNum \/ (\E n \in Numbers : GetRead(n)) \/ Rebuild \/ KillHolder

Fairness ==
  /\ WF_vars(SendStep) /\ WF_vars(DigestNum) /\ SF_vars(DigestLock) /\ WF_vars(DigestStep)

Spec == Init /\ [][Next]_vars
FairSpec == Spec /\ Fairness

-----------------------------------------------------------------------------
(* The number of a message tells its file in the archive, from the time that    *)
(* the subscribers can know the number, whoever is killed and whatever fails.   *)
ArchiveTells == \A l \in sent : archive[l.n] = [post |-> l.post, x |-> TRUE, whole |-> TRUE]

(* It is in the index, too.                                                  *)
IndexTells == sent \subseteq index

(* If nobody is killed, a post is distributed once.                          *)
SentOnce == crashes = 0 => \A k, l \in sent : k.post = l.post => k = l

(* If nobody is killed, each message that was distributed is in one digest,     *)
(* once dignum says so.                                                      *)
InOneDigest ==
  crashes = 0 /\ digest.at = "idle" => \A l \in sent : digested[l.post] = (IF l.n <= dignum THEN 1 ELSE 0)

ReadsWhole == \A n \in Numbers : GetRead(n) => archive[n].whole

(* Who asks for a message gets all of it.                                    *)
GetsWhole == [][ReadsWhole]_vars

(* Every message that was distributed gets into a digest, if nobody is killed.  *)
GetsDigested == \A p \in Posts : (\E n \in Numbers : Line(n, p) \in sent) ~> (digested[p] > 0 \/ crashes > 0)
=============================================================================
