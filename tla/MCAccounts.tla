------------------------------ MODULE MCAccounts ------------------------------
(* Small instances of the programs that keep the users and domains of         *)
(* vpopmail and the lists of ezmlm. They share no state: a behaviour is one   *)
(* of the part that runs.                                                     *)
EXTENDS Integers, FiniteSets, Sequences

CONSTANTS
  UserPrograms, Names, UserOps, PerLevel,   \* the programs of a domain, its users, what they do
  UserDeletions, UserKills,                 \* bounds
  Hosts,                                    \* the instances of VDomains: records of a part and its constants
  Quotas,                                   \* the mailboxes: records of a part and the constants of Quota
  Addresses, Moderations, Lists,            \* the instances of EzmlmBounce, EzmlmModerate and EzmlmArchive
  f1, f2, f3

VARIABLES
  part,        \* the part that runs
  vpasswd, vp_cdb, vp_lock, vp_dirs, ctl, free, vp_pc, vp_job, deletions, vp_kills, alone, crowd,
  hurt, sure,
  vd_file, vd_cdb, vd_dirs, vd_pc, vd_job, vd_kills, vd_hurt, said,
  new, cur, stamp, files, here, quota_warned, clock, deleted, quota_pc, quota_job, full,
  warnings, twice,
  subscribed, times, bounce_file, h, mail, bounce_pc, it, bounce_crashes, since, bounce_warned,
  post, store, pending, old, marker, asked, answers, told, mod_lock, done, mod_crashes,
  failures,
  waiting, num, dignum, archive, index, archive_lock, digest, sent, digested, get, sendFailures,
  digestFailures, archive_crashes

vpVars == <<vpasswd, vp_cdb, vp_lock, vp_dirs, ctl, free, vp_pc, vp_job, deletions, vp_kills,
    alone, crowd, hurt, sure>>
vdVars == <<vd_file, vd_cdb, vd_dirs, vd_pc, vd_job, vd_kills, vd_hurt,
    said>>
quotaVars == <<new, cur, stamp, files, here, quota_warned, clock, deleted, quota_pc, quota_job,
    full, warnings, twice>>
bounceVars == <<subscribed, times, bounce_file, h, mail, bounce_pc, it, bounce_crashes, since,
    bounce_warned>>
modVars == <<post, store, pending, old, marker, asked, answers, told, mod_lock, done,
    mod_crashes, failures>>
archiveVars == <<waiting, num, dignum, archive, index, archive_lock, digest, sent, digested,
    get, sendFailures, digestFailures, archive_crashes>>
vars == <<part, vpVars, vdVars, quotaVars, bounceVars, modVars, archiveVars>>

Users == INSTANCE Vpasswd WITH Procs <- UserPrograms, Users <- Names, Ops <- UserOps,
    Per <- PerLevel, Deleters <- UserDeletions, Killed <- UserKills, FullDisk <- FALSE,
    cdb <- vp_cdb, lock <- vp_lock, dirs <- vp_dirs, pc <- vp_pc,
    job <- vp_job, kills <- vp_kills

MCHosts ==
  {[part |-> "vdomains", programs |-> {"p1", "p2", "p3"}, domains |-> {"a", "b"}, aliases |-> {},
    full |-> 1, killed |-> 1, impatient |-> FALSE],
   [part |-> "vdomains with an alias", programs |-> {"p1", "p2", "p3"}, domains |-> {"a", "b"},
    aliases |-> {"b"}, full |-> 1, killed |-> 1, impatient |-> FALSE],
   [part |-> "impatient vdomains", programs |-> {"p1", "p2"}, domains |-> {"a", "b"}, aliases |-> {},
    full |-> 1, killed |-> 0, impatient |-> TRUE]}
Host(k) == INSTANCE VDomains WITH Procs <- k.programs, Domains <- k.domains, Aliases <- k.aliases,
    Full <- k.full, Killed <- k.killed, Impatient <- k.impatient, Together <- FALSE,
    file <- vd_file, cdb <- vd_cdb, dirs <- vd_dirs, pc <- vd_pc, job <- vd_job,
    kills <- vd_kills, hurt <- vd_hurt

MCQuotas ==
  {[part |-> "quota", programs |-> {"p1", "p2"}, quota |-> 2, window |-> 1,
    ops |-> {"deliver", "setquota"}, alone |-> FALSE, maxtime |-> 2, deletes |-> 1],
   [part |-> "quota alone", programs |-> {"p1", "p2", "p3"}, quota |-> 2, window |-> 1,
    ops |-> {"deliver", "setquota"}, alone |-> TRUE, maxtime |-> 2, deletes |-> 1],
   [part |-> "quota of one", programs |-> {"p1", "p2", "p3"}, quota |-> 1, window |-> 1,
    ops |-> {"deliver", "setquota"}, alone |-> TRUE, maxtime |-> 2, deletes |-> 1]}
Mailbox(k) == INSTANCE Quota WITH Procs <- k.programs, Quota <- k.quota, Window <- k.window,
    Ops <- k.ops, Alone <- k.alone, Moves <- FALSE, MaxTime <- k.maxtime, Deletes <- k.deletes,
    warned <- quota_warned, pc <- quota_pc, job <- quota_job

DeadAddress == [part |-> "dead address", files |-> {f1, f2}, dead |-> TRUE, prompt |-> TRUE, mail |-> 1,
  subscriptions |-> 1, crashes |-> 1]
MCAddresses ==
  {[part |-> "bounces", files |-> {f1, f2}, dead |-> FALSE, prompt |-> FALSE, mail |-> 1,
    subscriptions |-> 2, crashes |-> 1],
   [part |-> "many bounces", files |-> {f1, f2, f3}, dead |-> FALSE, prompt |-> FALSE, mail |-> 1,
    subscriptions |-> 1, crashes |-> 0],
   DeadAddress}
Address(k) == INSTANCE EzmlmBounce WITH Files <- k.files, Dead <- k.dead, Prompt <- k.prompt,
    MaxMail <- k.mail, MaxSubscriptions <- k.subscriptions, MaxCrashes <- k.crashes,
    file <- bounce_file, pc <- bounce_pc, crashes <- bounce_crashes, warned <- bounce_warned

OneModerator == [part |-> "one moderator", files |-> 2, moderators |-> {"m1"}, refused |-> {}, crashes |-> 1,
  failures |-> 1]
MCModerations ==
  {[part |-> "moderation", files |-> 2, moderators |-> {"m1", "m2"}, refused |-> {}, crashes |-> 1,
    failures |-> 1],
   OneModerator}
Moderation(k) == INSTANCE EzmlmModerate WITH NFiles <- k.files, Moderators <- k.moderators,
    Refused <- k.refused, MaxCrashes <- k.crashes, MaxFailures <- k.failures, lock <- mod_lock,
    crashes <- mod_crashes

Digests == [part |-> "digests", posts |-> {"p1", "p2"}, numbers |-> 3, sendfailures |-> 0,
  digestfailures |-> 1, crashes |-> 1]
MCLists ==
  {[part |-> "archive", posts |-> {"p1", "p2"}, numbers |-> 3, sendfailures |-> 1, digestfailures |-> 1,
    crashes |-> 1],
   Digests}
List(k) == INSTANCE EzmlmArchive WITH Posts <- k.posts, MaxNum <- k.numbers,
    SendFailures <- k.sendfailures, DigestFailures <- k.digestfailures, MaxCrashes <- k.crashes,
    lock <- archive_lock, crashes <- archive_crashes

ASSUME InstancesAssumption ==
  /\ Users!VpasswdAssumption
  /\ \A k \in Hosts : Host(k)!VDomainsAssumption
  /\ Hosts # {} /\ \A j, k \in Hosts : j.part = k.part => j = k
  /\ \A k \in Quotas : Mailbox(k)!QuotaAssumption
  /\ Quotas # {} /\ \A j, k \in Quotas : j.part = k.part => j = k
  /\ \A k \in Addresses : Address(k)!BounceAssumption
  /\ Addresses # {} /\ \A j, k \in Addresses : j.part = k.part => j = k
  /\ \A k \in Moderations : Moderation(k)!ModerateAssumption
  /\ Moderations # {} /\ \A j, k \in Moderations : j.part = k.part => j = k
  /\ \A k \in Lists : List(k)!ArchiveAssumption
  /\ Lists # {} /\ \A j, k \in Lists : j.part = k.part => j = k

PartsOf(S) == {k.part : k \in S}

(* The instance of a part that runs, or any one.                              *)
May(k, S) == k.part = part \/ (part \notin PartsOf(S) /\ k = CHOOSE j \in S : TRUE)

Init ==
  /\ part \in {"vpasswd"} \cup PartsOf(Hosts) \cup PartsOf(Quotas) \cup PartsOf(Addresses) \cup
        PartsOf(Moderations) \cup PartsOf(Lists)
  /\ Users!Init
  /\ \E k \in Hosts : May(k, Hosts) /\ Host(k)!Init
  /\ part \in PartsOf(Hosts) \/ vd_file["locals"] = {}
  /\ \E k \in Quotas : May(k, Quotas) /\ Mailbox(k)!Init
  /\ \E k \in Addresses : May(k, Addresses) /\ Address(k)!Init
  /\ \E k \in Moderations : May(k, Moderations) /\ Moderation(k)!Init
  /\ \E k \in Lists : May(k, Lists) /\ List(k)!Init

ChangesUsers ==
  /\ part = "vpasswd" /\ Users!Next
  /\ UNCHANGED <<part, vdVars, quotaVars, bounceVars, modVars, archiveVars>>

ChangesDomains ==
  /\ \E k \in Hosts : part = k.part /\ Host(k)!Next
  /\ UNCHANGED <<part, vpVars, quotaVars, bounceVars, modVars, archiveVars>>

CountsMail ==
  /\ \E k \in Quotas : part = k.part /\ Mailbox(k)!Next
  /\ UNCHANGED <<part, vpVars, vdVars, bounceVars, modVars, archiveVars>>

Bounces ==
  /\ \E k \in Addresses : part = k.part /\ Address(k)!Next
  /\ UNCHANGED <<part, vpVars, vdVars, quotaVars, modVars, archiveVars>>

Moderates ==
  /\ \E k \in Moderations : part = k.part /\ Moderation(k)!Next
  /\ UNCHANGED <<part, vpVars, vdVars, quotaVars, bounceVars, archiveVars>>

Archives ==
  /\ \E k \in Lists : part = k.part /\ List(k)!Next
  /\ UNCHANGED <<part, vpVars, vdVars, quotaVars, bounceVars, modVars>>

Next == ChangesUsers \/ ChangesDomains \/ CountsMail \/ Bounces \/ Moderates \/ Archives

Spec == Init /\ [][Next]_vars

-----------------------------------------------------------------------------
(* What a program said of a user holds, in vpasswd, for every look-up and of  *)
(* the directory, until another works on that user; vpasswd.cdb is fresh      *)
(* whenever nobody holds the lock.                                            *)
UsersAsSaid == part = "vpasswd" => Users!SaidIsSo /\ Users!CdbFresh /\ Users!DirOfRecord

(* A domain whose mail is accepted is in users/assign; one that was said to   *)
(* be added is in every file that leads mail to it, and one that was said to  *)
(* be deleted has left no trace: wherever programs are killed, but while they *)
(* compile, and unless a file was not looked at.                             *)
DomainsAsSaid ==
  \A k \in Hosts : part = k.part =>
    LET sound == Host(k)!Sound
    IN /\ Host(k)!AcceptedIsAssigned(sound) /\ Host(k)!AddedIsServed(sound)
       /\ Host(k)!DeletedIsGone(sound) /\ Host(k)!HurtForCause

(* A message is refused only if there was no room since the count began that  *)
(* the refusal rests on; programs one after the other never exceed the quota, *)
(* forget no message and warn once a day.                                     *)
QuotaHolds ==
  \A k \in Quotas : part = k.part =>
    /\ Mailbox(k)!RefusedIfFull
    /\ k.alone => Mailbox(k)!NeverOver /\ Mailbox(k)!NoneForgotten /\ Mailbox(k)!OneWarning

(* While a file of bounce/h keeps bounces back there is a file of bounce/d    *)
(* that leads to a warning; bounces lead to one warning; and nobody is        *)
(* removed earlier than two timeouts after the first bounce.                  *)
BouncesCounted ==
  /\ [](\A k \in Addresses : part = k.part =>
         Address(k)!HasBounce /\ Address(k)!OneWarning)
  /\ [][\A k \in Addresses : part = k.part => Address(k)!RemovedInPatience]_vars

(* A post that was taken is kept until it has gone to the list or back,       *)
(* whoever is killed; one thing happens to a file, and a moderator who is     *)
(* told of it is told the truth.                                              *)
ModerationDecides ==
  /\ [](\A k \in Moderations : part = k.part => Moderation(k)!NothingLost /\ Moderation(k)!OneDecision)
  /\ [][\A k \in Moderations : part = k.part => Moderation(k)!TellsTheTruth]_vars

(* The number of a message tells its file and its line of the index from when *)
(* subscribers can know it; a post is distributed once and is in one digest;  *)
(* and who asks for a message gets all of it.                                 *)
ArchiveWhole ==
  /\ [](\A k \in Lists : part = k.part =>
         /\ List(k)!ArchiveTells /\ List(k)!IndexTells /\ List(k)!SentOnce
         /\ k.sendfailures = 0 => List(k)!InOneDigest)
  /\ [][\A k \in Lists : part = k.part /\ k.sendfailures = 0 => List(k)!ReadsWhole]_vars

(* An address that always bounces leaves the list; a post that was kept       *)
(* leaves mod/pending; a message that was distributed gets into a digest.     *)
ListsFollow ==
  /\ (part = "dead address" /\ Address(DeadAddress)!Fairness => Address(DeadAddress)!DeadIsRemoved)
  /\ (part = "one moderator" /\ Moderation(OneModerator)!Fairness => Moderation(OneModerator)!CleanedUp)
  /\ (part = "digests" /\ List(Digests)!Fairness => List(Digests)!GetsDigested)

=============================================================================
