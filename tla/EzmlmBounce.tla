------------------------------ MODULE EzmlmBounce ------------------------------
(***************************************************************************)
(* How a mailing list of ezmlm-idx finds out that a subscriber is gone: the   *)
(* distribution bounces that ezmlm-return keeps in bounce/d and bounce/h, the *)
(* warnings and probes that ezmlm-warn sends for them, and the removal of the *)
(* address when a probe bounces too.  One address of a list; a unit of time   *)
(* is the timeout of ezmlm-warn, ten days unless it is told otherwise.        *)
(***************************************************************************)
EXTENDS Integers, FiniteSets

CONSTANTS
  Files,                \* names in bounce/d; a bound: while all are taken, bounces wait in the queue
  Dead,                 \* does the address always bounce; else any message to it may
  Prompt,               \* do bounces come back, and get taken, before their cookies expire
  MaxMail,              \* bound: warnings, or probes, that are on the way; the rest waits
  MaxSubscriptions,     \* bound: how often the address is subscribed
  MaxCrashes            \* bound: programs of the list that are killed

BounceAssumption == {Dead, Prompt} \subseteq BOOLEAN /\ {MaxMail, MaxSubscriptions, MaxCrashes} \subseteq Nat

Timeout == 1            \* bouncetimeout
Expiry == 3             \* 3000000 seconds for cookies, three timeouts for bounce/h

VARIABLES
  subscribed, times,    \* is the address on the list; how often it has been put there
  file,                 \* bounce/d: [kind, age] per name, NoFile where there is none
  h,                    \* the age of the address's file in bounce/h, Absent
  mail,                 \* to or from the address: [kind, back, age], back once it has bounced
  pc, it,               \* who holds lockbounce, and where; the mail or the name it is about
  crashes,
  since,                \* ghost: time since a message of the list bounced first, Absent
  warned                \* ghost: has a warning been sent since the last subscription

vars == <<subscribed, times, file, h, mail, pc, it, crashes, since, warned>>
bounce == <<file, h>>
list == <<subscribed, times>>
ghosts == <<since, warned>>

Absent == -1
NoFile == [kind |-> "none", age |-> 0]
NoMail == [kind |-> "none", back |-> FALSE, age |-> 0]
(* Ages from max on are one.                                                 *)
Older(a, max) == IF a = Absent \/ a = max THEN a ELSE a + 1
OlderMail(m) == IF m.kind = "post" THEN m ELSE [m EXCEPT !.age = Older(@, Expiry)]
Of(kind) == {f \in Files : file[f].kind = kind}

Init ==
  /\ subscribed = TRUE /\ times = 1 /\ file = [f \in Files |-> NoFile] /\ h = Absent /\ mail = {}
  /\ pc = "free" /\ it = NoMail /\ crashes = 0 /\ since = Absent /\ warned = FALSE

-----------------------------------------------------------------------------
(* The list, its users and the mail system.                                  *)
Send(kind) == mail' = mail \cup {[kind |-> kind, back |-> FALSE, age |-> 0]}

Post ==
  /\ subscribed /\ \A m \in mail : m.kind # "post"
  /\ Send("post") /\ UNCHANGED <<list, bounce, pc, it, crashes, ghosts>>

Unsubscribe ==
  /\ subscribed /\ times < MaxSubscriptions /\ subscribed' = FALSE
  /\ UNCHANGED <<times, bounce, mail, pc, it, crashes, ghosts>>

Subscribe ==
  /\ ~subscribed /\ times < MaxSubscriptions /\ subscribed' = TRUE /\ times' = times + 1 /\ warned' = FALSE
  /\ UNCHANGED <<bounce, mail, pc, it, crashes, since>>

Arrive(m) ==
  /\ ~m.back /\ ~Dead /\ mail' = mail \ {m}
  /\ UNCHANGED <<list, bounce, pc, it, crashes, ghosts>>

Bounce(m) ==
  /\ ~m.back /\ mail' = (mail \ {m}) \cup {[m EXCEPT !.back = TRUE]}
  /\ since' = IF since = Absent THEN 0 ELSE since
  /\ UNCHANGED <<list, bounce, pc, it, crashes, warned>>

Tick ==
  /\ Prompt => \A m \in mail : m.age + 1 < Expiry
  /\ file' = [f \in Files |-> IF file[f] = NoFile THEN NoFile ELSE [file[f] EXCEPT !.age = Older(@, Timeout)]]
  /\ h' = Older(h, Expiry + 1) /\ mail' = {OlderMail(m) : m \in mail} /\ since' = Older(since, 2 * Timeout)
  /\ UNCHANGED <<list, pc, it, crashes, warned>>

-----------------------------------------------------------------------------
(* ezmlm-return of a distribution bounce.  It exits with 99 in the end, and   *)
(* the bounce is gone; killed before, it gets the same bounce again.          *)
Drop(m) == mail' = mail \ {m}

TakePost(m) ==
  /\ pc = "free" /\ m.back /\ m.kind = "post" /\ Cardinality(Of("none")) > 1
  /\ IF subscribed
     THEN pc' = "read_h" /\ it' = m /\ UNCHANGED mail
     ELSE Drop(m) /\ UNCHANGED <<pc, it>>
  /\ UNCHANGED <<list, bounce, crashes, ghosts>>

(* A wrong version: the number of every bounce is kept, and the bounce too. *)
KeepBounceAlways ==
  /\ pc = "read_h" /\ pc' = "rename_h"
  /\ \E f \in Of("none") : file' = [file EXCEPT ![f] = [kind |-> "d", age |-> 0]]
  /\ UNCHANGED <<list, h, mail, it, crashes, ghosts>>

(* The first bounce becomes a file of bounce/d; of the next, while bounce/h   *)
(* has one, only the number is kept.                                         *)
KeepBounce ==
  /\ pc = "read_h" /\ pc' = "rename_h"
  /\ IF h = Absent
     THEN \E f \in Of("none") : file' = [file EXCEPT ![f] = [kind |-> "d", age |-> 0]]
     ELSE UNCHANGED file
  /\ UNCHANGED <<list, h, mail, it, crashes, ghosts>>

(* A wrong version: the number is there before the bounce is. *)
KeepNumberFirst ==
  /\ pc \in {"read_h", "rename_h"} /\ h' = 0 /\ Drop(it) /\ pc' = "free" /\ it' = NoMail
  /\ UNCHANGED <<list, file, crashes, ghosts>>

KeepNumber ==
  /\ pc = "rename_h" /\ h' = 0 /\ Drop(it) /\ pc' = "free" /\ it' = NoMail
  /\ UNCHANGED <<list, file, crashes, ghosts>>

(* A wrong version: the first warning that bounces is enough. *)
TakeWarningRemoves(m) ==
  /\ pc = "free" /\ m.back /\ m.kind = "warn" /\ Of("none") # {} /\ Drop(m)
  /\ IF subscribed /\ m.age < Expiry
     THEN subscribed' = FALSE
     ELSE UNCHANGED subscribed
  /\ UNCHANGED <<times, file, h, pc, it, crashes, ghosts>>

(* ezmlm-return of a bounced warning: a file for a probe.                    *)
TakeWarning(m) ==
  /\ pc = "free" /\ m.back /\ m.kind = "warn" /\ Of("none") # {} /\ Drop(m)
  /\ IF subscribed /\ m.age < Expiry
     THEN \E f \in Of("none") : file' = [file EXCEPT ![f] = [kind |-> "w", age |-> 0]]
     ELSE UNCHANGED file
  /\ UNCHANGED <<list, h, pc, it, crashes, ghosts>>

(* ezmlm-return of a bounced probe.                                          *)
TakeProbe(m) ==
  /\ m.back /\ m.kind = "probe" /\ Drop(m)
  /\ subscribed' = (subscribed /\ m.age >= Expiry)
  /\ UNCHANGED <<times, bounce, pc, it, crashes, ghosts>>

-----------------------------------------------------------------------------
(* A wrong version: a bounced warning is answered with a warning. *)
AnswerWarn(f) == "warn"

Answer(f) == IF file[f].kind = "d" THEN "warn" ELSE "probe"

(* ezmlm-warn: a file of bounce/d that is old enough.  Who is not on the list  *)
(* any more is not written to.                                               *)
Warn(f) ==
  /\ pc = "free" /\ file[f].kind \in {"d", "w"} /\ file[f].age >= Timeout
  /\ Cardinality({m \in mail : m.kind = Answer(f)}) < MaxMail
  /\ IF subscribed
     THEN /\ Send(Answer(f))
          /\ pc' = "unlink_h" /\ it' = f /\ warned' = (warned \/ file[f].kind = "d") /\ UNCHANGED file
     ELSE file' = [file EXCEPT ![f] = NoFile] /\ UNCHANGED <<mail, pc, it, warned>>
  /\ UNCHANGED <<list, h, crashes, since>>

UnlinkH ==
  /\ pc = "unlink_h" /\ pc' = "unlink_d" /\ h' = IF file[it].kind = "d" THEN Absent ELSE h
  /\ UNCHANGED <<list, file, mail, it, crashes, ghosts>>

UnlinkD ==
  /\ pc = "unlink_d" /\ pc' = "free" /\ it' = NoMail /\ file' = [file EXCEPT ![it] = NoFile]
  /\ UNCHANGED <<list, h, mail, crashes, ghosts>>

(* When all of them are done: files of bounce/h that nothing was added to for  *)
(* long are removed.                                                         *)
Clean ==
  /\ pc = "free" /\ h > Expiry /\ h' = Absent
  /\ \A f \in Files : file[f].kind \in {"d", "w"} => file[f].age < Timeout
  /\ UNCHANGED <<list, file, mail, pc, it, crashes, ghosts>>

Crash ==
  /\ pc # "free" /\ crashes < MaxCrashes /\ crashes' = crashes + 1 /\ pc' = "free" /\ it' = NoMail
  /\ UNCHANGED <<list, bounce, mail, ghosts>>

Next ==
  \/ Post \/ Unsubscribe \/ Subscribe \/ Tick
  \/ \E m \in mail : Arrive(m) \/ Bounce(m) \/ TakePost(m) \/ TakeWarning(m) \/ TakeProbe(m)
  \/ KeepBounce \/ KeepNumber \/ \E f \in Files : Warn(f)
  \/ UnlinkH \/ UnlinkD \/ Clean \/ Crash

(* qmail delivers every bounce, cron starts ezmlm-warn again and again, and    *)
(* the list has new messages; users do as they like.                         *)
Fairness ==
  /\ WF_vars(Post) /\ WF_vars(Tick)
  /\ (\A kind \in {"post", "warn", "probe"} : WF_vars(\E m \in mail : m.kind = kind /\ Bounce(m)))
  /\ SF_vars(\E m \in mail : TakePost(m))
  /\ SF_vars(\E m \in mail : TakeWarning(m)) /\ WF_vars(\E m \in mail : TakeProbe(m))
  /\ WF_vars(KeepBounce) /\ WF_vars(KeepNumber) /\ (\A f \in Files : SF_vars(Warn(f))) /\ WF_vars(UnlinkH) /\ WF_vars(UnlinkD)
  /\ SF_vars(Clean)

Spec == Init /\ [][Next]_vars
FairSpec == Spec /\ Fairness

-----------------------------------------------------------------------------
RemovedInPatience == subscribed /\ ~subscribed' /\ mail' # mail => since >= 2 * Timeout

(* Nobody is removed from the list earlier than two timeouts after the first   *)
(* bounce, in which a warning and a probe bounced too.                        *)
Patience == [][RemovedInPatience]_vars

(* While a file of bounce/h keeps bounces from getting a file in bounce/d,     *)
(* there is one, so that the address will be warned; unless the address was    *)
(* off the list in between.                                                  *)
HasBounce == times = 1 /\ pc = "free" /\ subscribed /\ h # Absent => Of("d") # {}

(* Nobody gets two warnings for the same bounces, if no program is killed.     *)
OneWarning == crashes = 0 => Cardinality(Of("d")) <= 1

(* An address that always bounces is off the list in the end.                 *)
DeadIsRemoved == subscribed ~> ~subscribed

(* A bounce of a subscriber leads to a warning of the subscriber.             *)
BounceWarns == (subscribed /\ pc = "rename_h") ~> (warned \/ ~subscribed)
=============================================================================
