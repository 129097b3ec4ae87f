----------------------------- MODULE EzmlmModerate -----------------------------
(***************************************************************************)
(* A moderated list of ezmlm-idx and one post to it: ezmlm-store keeps the    *)
(* post in mod/pending and asks the moderators, ezmlm-moderate acts on their  *)
(* answers, ezmlm-clean returns a post that nobody answered for in time.      *)
(* qmail-local starts ezmlm-store, and ezmlm-moderate, again with the same    *)
(* message as long as they exit with 111 or are killed.                       *)
(***************************************************************************)
EXTENDS Integers, FiniteSets

CONSTANTS
  NFiles,               \* names in mod/pending; a bound: each run of ezmlm-store takes a new one
  Moderators,           \* each of them may answer once
  Refused,              \* files that qmail-queue refuses for good to return
  MaxCrashes,           \* bound: programs that are killed, files that cannot be removed
  MaxFailures           \* bound: failures of qmail-queue and ezmlm-send that pass

Files == 1..NFiles      \* in the order that readdir() finds them

ModerateAssumption == Refused \subseteq Files /\ {NFiles, MaxCrashes, MaxFailures} \subseteq Nat

VARIABLES
  post,                 \* "queued" while qmail-local has it for ezmlm-store, "stored"
  store,                \* [at, f]: what ezmlm-store is doing, and its file
  pending,              \* per file "unused", "part", "whole": with the x bit, "gone"
  old,                  \* the files whose names are older than modtime
  marker,               \* mod/accepted and mod/rejected: "none", "accept", "reject"
  asked,                \* files that the moderators were asked about
  answers,              \* their answers, with qmail: [mod, f, verdict]
  told,                 \* per moderator what the answer to the answer was
  lock,                 \* who holds mod/lock: [who, at, f, a]
  done,                 \* [file, what] acted on, "accept", "reject" or "late"; how often
  crashes, failures

vars == <<post, store, pending, old, marker, asked, answers, told, lock, done, crashes, failures>>
disk == <<pending, old, marker>>
mods == <<asked, answers, told>>
faults == <<crashes, failures>>

Verdicts == {"accept", "reject"}
NoAnswer == [mod |-> "none", f |-> 0, verdict |-> "none"]
Unlocked == [who |-> "none", at |-> "", f |-> 0, a |-> NoAnswer]
Idle == [at |-> "idle", f |-> 0]
Acted(f) == \E w \in Verdicts \cup {"late"} : done[<<f, w>>] > 0
Act(f, w) == done' = [done EXCEPT ![<<f, w>>] = IF @ = 2 THEN 2 ELSE @ + 1]

Init ==
  /\ post = "queued" /\ store = Idle /\ pending = [f \in Files |-> "unused"] /\ old = {}
  /\ marker = [f \in Files |-> "none"] /\ asked = {} /\ answers = {} /\ told = [m \in Moderators |-> "nothing"]
  /\ lock = Unlocked /\ done = [x \in Files \X (Verdicts \cup {"late"}) |-> 0] /\ crashes = 0 /\ failures = 0

Killed == crashes < MaxCrashes /\ crashes' = crashes + 1
Fault == failures < MaxFailures /\ failures' = failures + 1

-----------------------------------------------------------------------------
(* ezmlm-store.                                                              *)
StoreOpen ==
  /\ post = "queued" /\ store = Idle /\ lock = Unlocked
  /\ \E f \in Files :
       /\ pending[f] = "unused" /\ pending' = [pending EXCEPT ![f] = "part"]
       /\ store' = [at |-> "write", f |-> f] /\ lock' = [Unlocked EXCEPT !.who = "store", !.f = f]
  /\ UNCHANGED <<post, old, marker, mods, done, faults>>

(* A wrong version: the x bit is forgotten. *)
StoreCloseNoBit ==
  /\ store.at = "write" /\ pending' = [pending EXCEPT ![store.f] = "part"]
  /\ store' = [store EXCEPT !.at = "ask"] /\ lock' = Unlocked
  /\ UNCHANGED <<post, old, marker, mods, done, faults>>

StoreClose ==
  /\ store.at = "write" /\ pending' = [pending EXCEPT ![store.f] = "whole"]
  /\ store' = [store EXCEPT !.at = "ask"] /\ lock' = Unlocked
  /\ UNCHANGED <<post, old, marker, mods, done, faults>>

StoreAsk ==
  /\ store.at = "ask" /\ asked' = asked \cup {store.f} /\ post' = "stored" /\ store' = Idle
  /\ UNCHANGED <<disk, answers, told, lock, done, faults>>

StoreFails ==
  /\ store.at = "ask" /\ Fault /\ store' = Idle
  /\ UNCHANGED <<post, disk, mods, lock, done, crashes>>

-----------------------------------------------------------------------------
(* The moderators, and ezmlm-moderate.                                       *)
Answer(m, f, v) ==
  /\ f \in asked /\ told[m] = "nothing" /\ (\A a \in answers : a.mod # m)
  /\ answers' = answers \cup {[mod |-> m, f |-> f, verdict |-> v]}
  /\ UNCHANGED <<post, store, disk, asked, told, lock, done, faults>>

Reply(a, what) == answers' = answers \ {a} /\ told' = [told EXCEPT ![a.mod] = what]

(* checkfile(): a post that is not there any more was acted on, or is late.   *)
ModerateFinds(a) ==
  /\ lock = Unlocked /\ pending[a.f] # "gone" /\ lock' = [who |-> "moderate", at |-> "mail", f |-> a.f, a |-> a]
  /\ UNCHANGED <<post, store, disk, mods, done, faults>>

(* A wrong version: who comes too late is told that the post was accepted. *)
ModerateMissesAccepts(a) ==
  /\ lock = Unlocked /\ pending[a.f] = "gone" /\ Reply(a, "accept")
  /\ UNCHANGED <<post, store, disk, asked, lock, done, faults>>

ModerateMisses(a) ==
  /\ lock = Unlocked /\ pending[a.f] = "gone" /\ Reply(a, IF marker[a.f] = "none" THEN "late" ELSE marker[a.f])
  /\ UNCHANGED <<post, store, disk, asked, lock, done, faults>>

ModerateActs ==
  /\ lock.who = "moderate" /\ lock.at = "mail" /\ Act(lock.f, lock.a.verdict) /\ lock' = [lock EXCEPT !.at = "mark"]
  /\ UNCHANGED <<post, store, disk, mods, faults>>

(* With an error of ezmlm-send that is permanent the answer is not tried again. *)
ModerateFails ==
  /\ lock.who = "moderate" /\ lock.at = "mail" /\ Fault /\ lock' = Unlocked
  /\ \/ UNCHANGED <<answers, told>>
     \/ lock.a.verdict = "accept" /\ Reply(lock.a, "error")
  /\ UNCHANGED <<post, store, disk, asked, done, crashes>>

(* Errors are ignored from here on: the message is out.                      *)
ModerateMarks ==
  /\ lock.who = "moderate" /\ lock.at = "mark" /\ lock' = [lock EXCEPT !.at = "unlink"]
  /\ \/ marker' = [marker EXCEPT ![lock.f] = lock.a.verdict] /\ UNCHANGED failures
     \/ Fault /\ UNCHANGED marker
  /\ UNCHANGED <<post, store, pending, old, mods, done, crashes>>

(* A wrong version: the post stays where it is. *)
ModerateEndsKeeps ==
  /\ lock.who = "moderate" /\ lock.at = "unlink" /\ lock' = Unlocked /\ Reply(lock.a, lock.a.verdict)
  /\ \/ pending' = [pending EXCEPT ![lock.f] = @] /\ UNCHANGED crashes
     \/ Killed /\ UNCHANGED pending
  /\ UNCHANGED <<post, store, old, marker, asked, done, failures>>

ModerateEnds ==
  /\ lock.who = "moderate" /\ lock.at = "unlink" /\ lock' = Unlocked /\ Reply(lock.a, lock.a.verdict)
  /\ \/ pending' = [pending EXCEPT ![lock.f] = "gone"] /\ UNCHANGED crashes
     \/ Killed /\ UNCHANGED pending
  /\ UNCHANGED <<post, store, old, marker, asked, done, failures>>

-----------------------------------------------------------------------------
(* ezmlm-clean.  A program it waits for is done within the day that modtime    *)
(* is at least.                                                              *)
Age(f) ==
  /\ pending[f] # "unused" /\ f \notin old /\ store.f # f /\ lock.f # f /\ old' = old \cup {f}
  /\ UNCHANGED <<post, store, pending, marker, mods, lock, done, faults>>

CleanStart ==
  /\ lock = Unlocked /\ (\E f \in old : pending[f] # "gone" \/ marker[f] # "none")
  /\ lock' = [Unlocked EXCEPT !.who = "clean", !.at = "look", !.f = 1]
  /\ UNCHANGED <<post, store, disk, mods, done, faults>>

NextFile == lock' = [lock EXCEPT !.at = "look", !.f = @ + 1]
Late(f) == f \in old /\ pending[f] = "whole"
Cleaning == lock.who = "clean" /\ lock.at = "look"

CleanFile ==
  /\ Cleaning /\ lock.f \in Files /\ ~Late(lock.f) /\ NextFile
  /\ pending' = [pending EXCEPT ![lock.f] = IF @ = "part" /\ lock.f \in old THEN "gone" ELSE @]
  /\ UNCHANGED <<post, store, old, marker, mods, done, faults>>

CleanNotice ==
  /\ Cleaning /\ lock.f \in Files \ Refused /\ Late(lock.f) /\ Act(lock.f, "late")
  /\ lock' = [lock EXCEPT !.at = "unlink"]
  /\ UNCHANGED <<post, store, disk, mods, faults>>

(* Whatever the reason, ezmlm-clean exits.                                   *)
CleanFails ==
  /\ Cleaning /\ lock.f \in Files /\ Late(lock.f) /\ lock' = Unlocked
  /\ \/ lock.f \in Refused /\ UNCHANGED failures
     \/ Fault
  /\ UNCHANGED <<post, store, disk, mods, done, crashes>>

(* A wrong version: the poster gets a notice every time. *)
CleanUnlinkNot ==
  /\ lock.who = "clean" /\ lock.at = "unlink" /\ pending' = [pending EXCEPT ![lock.f] = @] /\ NextFile
  /\ UNCHANGED <<post, store, old, marker, mods, done, faults>>

CleanUnlink ==
  /\ lock.who = "clean" /\ lock.at = "unlink" /\ pending' = [pending EXCEPT ![lock.f] = "gone"] /\ NextFile
  /\ UNCHANGED <<post, store, old, marker, mods, done, faults>>

CleanMarkers ==
  /\ Cleaning /\ lock.f = NFiles + 1 /\ lock' = Unlocked
  /\ marker' = [f \in Files |-> IF f \in old THEN "none" ELSE marker[f]]
  /\ UNCHANGED <<post, store, pending, old, mods, done, faults>>

-----------------------------------------------------------------------------
(* Also after qmail-queue has taken the message to the moderators.           *)
KillStore ==
  /\ store # Idle /\ Killed /\ store' = Idle /\ lock' = (IF store.at = "write" THEN Unlocked ELSE lock)
  /\ asked' \in {asked} \cup (IF store.at = "ask" THEN {asked \cup {store.f}} ELSE {})
  /\ UNCHANGED <<post, disk, answers, told, done, failures>>

KillHolder ==
  /\ lock.who \in {"moderate", "clean"} /\ Killed /\ lock' = Unlocked
  /\ UNCHANGED <<post, store, disk, mods, done, failures>>

Moderate == ModerateActs \/ ModerateMarks \/ ModerateEnds
Clean == CleanFile \/ CleanNotice \/ CleanFails \/ CleanUnlink \/ CleanMarkers

Next ==
  \/ StoreOpen \/ StoreClose \/ StoreAsk \/ StoreFails
  \/ \E m \in Moderators, f \in Files, v \in Verdicts : Answer(m, f, v)
  \/ (\E a \in answers : ModerateFinds(a) \/ ModerateMisses(a)) \/ Moderate \/ ModerateFails
  \/ (\E f \in Files : Age(f)) \/ CleanStart \/ Clean
  \/ KillStore \/ KillHolder

(* qmail-local retries, cron starts ezmlm-clean, flock() is fair.             *)
Fairness ==
  /\ SF_vars(StoreOpen) /\ WF_vars(StoreClose) /\ WF_vars(StoreAsk)
  /\ (\A m \in Moderators : SF_vars(\E a \in answers : a.mod = m /\ (ModerateFinds(a) \/ ModerateMisses(a))))
  /\ WF_vars(Moderate) /\ (\A f \in Files : SF_vars(Age(f))) /\ SF_vars(CleanStart) /\ WF_vars(Clean)

Spec == Init /\ [][Next]_vars
FairSpec == Spec /\ Fairness

-----------------------------------------------------------------------------
(* A post that ezmlm-store took is kept, with its moderators asked, until it    *)
(* has gone to the list or back to the poster, whoever is killed.             *)
NothingLost == post = "stored" => \E f \in asked : pending[f] = "whole" \/ Acted(f)

(* One thing happens to a file, once, unless a program is killed, or a file     *)
(* cannot be removed, after that.                                            *)
OneDecision ==
  crashes = 0 => \A f \in Files, v, w \in Verdicts \cup {"late"} :
                   done[<<f, v>>] <= 1 /\ (done[<<f, v>>] > 0 /\ done[<<f, w>>] > 0 => v = w)

TellsTheTruth ==
  \A m \in Moderators : told'[m] \in Verdicts /\ told'[m] # told[m] => \E f \in asked : done[<<f, told'[m]>>] > 0

(* A moderator who is told that a post was accepted, or rejected, is told what  *)
(* happened.                                                                 *)
ToldTheTruth == [][TellsTheTruth]_vars

(* Every post that was kept is gone from mod/pending in the end.              *)
CleanedUp == \A f \in Files : pending[f] = "whole" ~> pending[f] = "gone"

(* A poster who hears that the moderators have not acted on a post hears it of  *)
(* a post that they have not acted on.                                       *)
LateIsUndecided == [][\A f \in Files : done'[<<f, "late">>] > done[<<f, "late">>] => \A g \in Files : done[<<g, "accept">>] = 0]_vars
=============================================================================
