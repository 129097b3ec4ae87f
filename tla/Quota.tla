---------------------------------- MODULE Quota ---------------------------------
(***************************************************************************)
(* The quota of one vpopmail user: the messages in new and cur, the lines of  *)
(* maildirsize, and the vdelivermail processes that check it, count again,    *)
(* add to it, warn the user and deliver, all without a lock, while the user's *)
(* mail reader moves and deletes messages.  The quota is a number of messages.*)
(***************************************************************************)
EXTENDS Integers, Sequences

CONSTANTS
  Procs, Quota,
  Window,               \* seconds for which a fresh count is taken at its word: 15 * 60
  Ops,                  \* what programs do: "deliver", "setquota"
  Alone,                \* does one program run at a time
  Moves,                \* may the reader move messages from new to cur
  MaxTime, Deletes      \* bounds: the clock, messages deleted

QuotaAssumption ==
  /\ {Quota, Window, MaxTime, Deletes} \subseteq Nat /\ {Alone, Moves} \subseteq BOOLEAN /\ Ops \subseteq {"deliver", "setquota"}

VARIABLES
  new, cur,             \* number of messages
  stamp,                \* modification times of the two directories
  files, here,          \* every maildirsize ever made: [sum, lines, time, since]; the one of
                        \* that name, 0 if none.  since (a ghost): when its count began
  warned,               \* has quotawarn a time of today
  clock, deleted,
  pc, job,              \* per program; job: [extra, then, n, max, fd, since]; since (a ghost): from when on
                        \* the mailbox is what the decision is about
  full,                 \* ghost: the last time when no message had room
  warnings, twice       \* ghosts: warnings delivered; was one delivered after another

box == <<new, cur, stamp>>
size == <<files, here>>
ghosts == <<full, warnings, twice>>
vars == <<box, size, warned, clock, deleted, pc, job, ghosts>>

NoJob == [extra |-> 0, then |-> "end", n |-> 0, max |-> 0, fd |-> 0, since |-> 0]
Init ==
  /\ new = 0 /\ cur = 0 /\ stamp = [new |-> 0, cur |-> 0] /\ files = << >> /\ here = 0 /\ warned = FALSE
  /\ clock = 0 /\ deleted = 0 /\ pc = [p \in Procs |-> "idle"] /\ job = [p \in Procs |-> NoJob]
  /\ full = (IF Quota = 0 THEN 0 ELSE -Window - 1) /\ warnings = 0 /\ twice = FALSE

Go(p, to) == pc' = [pc EXCEPT ![p] = to]
Later(a, b) == IF a > b THEN a ELSE b
IsFull(n) == n + 1 > Quota
Seen(n) == full' = IF IsFull(n) \/ IsFull(new + cur) THEN clock ELSE full

(* A wrong version: the message itself is not added. *)
OverOne(n, x) == n > Quota

(* qcalc(): with x more, is it too much.                                     *)
Over(n, x) == n + x > Quota

-----------------------------------------------------------------------------
Start(p) ==
  /\ pc[p] = "idle"
  /\ Alone => \A q \in Procs : pc[q] \in {"idle", "end", "refused"}
  /\ \E op \in Ops :
       IF op = "deliver"
       THEN job' = [job EXCEPT ![p] = [NoJob EXCEPT !.extra = 1, !.then = "add"]] /\ UNCHANGED here
       ELSE job' = [job EXCEPT ![p] = NoJob] /\ here' = 0
  /\ Go(p, "check")
  /\ UNCHANGED <<box, files, warned, clock, deleted, ghosts>>

(* What follows a check: with extra 1 the decision of user_over_maildirquota(),*)
(* with extra 0 the percentage of vmaildir_readquota().                       *)
Decide(p, over, n) ==
  Go(p, CASE job[p].then = "end" -> "end"
          [] job[p].then = "add" -> IF over THEN "refuse" ELSE "add"
          [] OTHER -> IF over \/ 100 * n >= 90 * Quota THEN "warn" ELSE "deliver")

(* A wrong version: a file that is over is taken at its word whatever was added to it. *)
CheckLines(p) ==
  /\ pc[p] = "check"
  /\ LET f == files[here]
         over == Over(f.sum, job[p].extra)
     IN IF here # 0 /\ (~over \/ clock < f.time + Window)
        THEN /\ Decide(p, over, f.sum)
             /\ job' = [job EXCEPT ![p].fd = IF over THEN 0 ELSE here, ![p].since = f.since + Later(0, clock - Window - f.time)]
        ELSE /\ Go(p, "count_new")
             /\ job' = [job EXCEPT ![p].n = 0, ![p].max = 0]
  /\ UNCHANGED <<box, size, warned, clock, deleted, ghosts>>

(* docheckquota(), the file as it is.                                        *)
Check(p) ==
  /\ pc[p] = "check"
  /\ LET f == files[here]
         over == Over(f.sum, job[p].extra)
     IN IF here # 0 /\ (~over \/ (f.lines = 1 /\ clock < f.time + Window))
        THEN /\ Decide(p, over, f.sum)
             /\ job' = [job EXCEPT ![p].fd = IF over THEN 0 ELSE here, ![p].since = f.since + Later(0, clock - Window - f.time)]
        ELSE /\ Go(p, "count_new")
             /\ job' = [job EXCEPT ![p].n = 0, ![p].max = 0]
  /\ UNCHANGED <<box, size, warned, clock, deleted, ghosts>>

CountNew(p) ==
  /\ pc[p] = "count_new" /\ Go(p, "count_cur")
  /\ job' = [job EXCEPT ![p].n = new, ![p].max = stamp.new, ![p].since = clock]
  /\ UNCHANGED <<box, size, warned, clock, deleted, ghosts>>

CountCur(p) ==
  /\ pc[p] = "count_cur" /\ Go(p, "rename")
  /\ job' = [job EXCEPT ![p].n = @ + cur, ![p].max = Later(@, stamp.cur)]
  /\ UNCHANGED <<box, size, warned, clock, deleted, ghosts>>

(* A new maildirsize with one line is written in tmp and renamed.            *)
NewFile(n, begun) ==
  files' = Append(files, [sum |-> n, lines |-> 1, time |-> clock, since |-> begun]) /\ here' = Len(files) + 1
Rename(p) ==
  /\ pc[p] = "rename" /\ NewFile(job[p].n, job[p].since) /\ Go(p, "look_again")
  /\ job' = [job EXCEPT ![p].fd = Len(files) + 1]
  /\ UNCHANGED <<box, warned, clock, deleted, ghosts>>

(* Did anything change meanwhile?  Then it is not over for user_over_...(),   *)
(* and the percentage stays what the old file said, more than there is.      *)
LookAgain(p) ==
  /\ pc[p] = "look_again"
  /\ IF Later(stamp.new, stamp.cur) # job[p].max
     THEN Decide(p, FALSE, IF job[p].then = "add" THEN 0 ELSE Quota)
     ELSE Decide(p, Over(job[p].n, job[p].extra), job[p].n)
  /\ UNCHANGED <<box, size, warned, clock, deleted, job, ghosts>>

(* doaddquota(): a line is added to the file that is open, or to the one of   *)
(* that name, or to a new one.                                               *)
AddLine(fd, begun) ==
  IF fd = 0
  THEN NewFile(1, begun)
  ELSE files' = [files EXCEPT ![fd].sum = @ + 1, ![fd].lines = @ + 1, ![fd].time = clock] /\ UNCHANGED here

(* user_over_maildirquota() adds the message before it is delivered.         *)
AddBefore(p) ==
  /\ pc[p] = "add" /\ AddLine(job[p].fd, job[p].since) /\ Go(p, "check")
  /\ job' = [job EXCEPT ![p].extra = 0, ![p].then = "percent"]
  /\ UNCHANGED <<box, warned, clock, deleted, ghosts>>

-----------------------------------------------------------------------------
(* deliver_quota_warning(), in a delivery and before a refusal: once a day.   *)
Warn(p) ==
  /\ pc[p] \in {"warn", "refuse"}
  /\ LET after == IF pc[p] = "warn" THEN "deliver" ELSE "refused"
     IN job' = [job EXCEPT ![p].then = after] /\ Go(p, IF warned THEN after ELSE "stamp")
  /\ UNCHANGED <<box, size, warned, clock, deleted, ghosts>>

(* A wrong version: the time of the warning is not kept. *)
StampLate(p) ==
  /\ pc[p] = "stamp" /\ UNCHANGED warned /\ Go(p, "send_warning")
  /\ UNCHANGED <<box, size, clock, deleted, job, ghosts>>

Stamp(p) ==
  /\ pc[p] = "stamp" /\ warned' = TRUE /\ Go(p, "send_warning")
  /\ UNCHANGED <<box, size, clock, deleted, job, ghosts>>

(* deliver_to_maildir(): link() into new, then a line in maildirsize.         *)
Deliver(p) ==
  /\ pc[p] \in {"deliver", "send_warning"}
  /\ new' = new + 1 /\ stamp' = [stamp EXCEPT !.new = clock] /\ Seen(new + cur + 1)
  /\ Go(p, IF pc[p] = "deliver" THEN "account" ELSE "account_warning")
  /\ warnings' = (IF pc[p] = "deliver" THEN warnings ELSE warnings + 1)
  /\ twice' = (twice \/ (pc[p] # "deliver" /\ warnings > 0))
  /\ job' = [job EXCEPT ![p].since = clock]
  /\ UNCHANGED <<cur, size, warned, clock, deleted>>

(* A wrong version: only the message that was checked is accounted for. *)
AddNothing(p) ==
  /\ pc[p] \in {"account", "account_warning"} /\ UNCHANGED size
  /\ Go(p, IF pc[p] = "account" THEN "end" ELSE job[p].then)
  /\ job' = IF job[p].then = "refused" \/ pc[p] = "account" THEN [job EXCEPT ![p] = NoJob] ELSE job
  /\ UNCHANGED <<box, warned, clock, deleted, ghosts>>

AddAfter(p) ==
  /\ pc[p] \in {"account", "account_warning"} /\ AddLine(here, job[p].since)
  /\ Go(p, IF pc[p] = "account" THEN "end" ELSE job[p].then)
  /\ job' = IF job[p].then = "refused" \/ pc[p] = "account" THEN [job EXCEPT ![p] = NoJob] ELSE job
  /\ UNCHANGED <<box, warned, clock, deleted, ghosts>>

-----------------------------------------------------------------------------
Move ==
  /\ Moves /\ new > 0 /\ new' = new - 1 /\ cur' = cur + 1 /\ stamp' = [new |-> clock, cur |-> clock]
  /\ UNCHANGED <<size, warned, clock, deleted, pc, job, ghosts>>

Delete ==
  /\ deleted < Deletes /\ deleted' = deleted + 1
  /\ \/ new > 0 /\ new' = new - 1 /\ stamp' = [stamp EXCEPT !.new = clock] /\ UNCHANGED cur
     \/ cur > 0 /\ cur' = cur - 1 /\ stamp' = [stamp EXCEPT !.cur = clock] /\ UNCHANGED new
  /\ Seen(new + cur)
  /\ UNCHANGED <<size, warned, clock, pc, job, warnings, twice>>

Tick ==
  /\ clock < MaxTime /\ clock' = clock + 1
  /\ full' = IF IsFull(new + cur) THEN clock' ELSE full
  /\ UNCHANGED <<box, size, warned, deleted, pc, job, warnings, twice>>

Next ==
  \/ \E p \in Procs :
       \/ Start(p) \/ Check(p) \/ CountNew(p) \/ CountCur(p) \/ Rename(p) \/ LookAgain(p) \/ AddBefore(p)
       \/ Warn(p) \/ Stamp(p) \/ Deliver(p) \/ AddAfter(p)
  \/ Move \/ Delete \/ Tick
Spec == Init /\ [][Next]_vars

-----------------------------------------------------------------------------
(* A message is refused only if there was no room for it since the count of   *)
(* the mailbox began that the refusal rests on, at most a quarter of an hour  *)
(* before it (and the time the counting took).                               *)
RefusedIfFull == \A p \in Procs : pc[p] = "refuse" => full >= job[p].since

(* One program at a time never fills the mailbox beyond the quota, but for    *)
(* the warning.                                                              *)
NeverOver == new + cur - warnings <= Quota

Idle == \A p \in Procs : pc[p] \in {"idle", "end", "refused"}
(* Every message is in the sum, ...                                          *)
NoneForgotten == Idle /\ here # 0 => files[here].sum >= new + cur
(* ... and only once, as long as none was deleted.                           *)
EachOnce == Idle /\ here # 0 /\ deleted = 0 => files[here].sum = new + cur

(* A day has one warning.                                                    *)
OneWarning == ~twice
=============================================================================
