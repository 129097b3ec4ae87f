-------------------------------- MODULE Vpasswd ---------------------------------
(***************************************************************************)
(* The users of one vpopmail domain: the records in vpasswd, the copy in     *)
(* vpasswd.cdb that every look-up reads, the directories of the users and    *)
(* the counters that choose them.  Programs add, delete and change users at  *)
(* the same time; each reads the old state without a lock, rewrites vpasswd  *)
(* under one, renames it into place and compiles it.  A program may give up  *)
(* on the lock, fail to compile, or be killed anywhere.                      *)
(***************************************************************************)
EXTENDS Integers, FiniteSets

CONSTANTS
  Procs, Users, Ops,    \* programs; users; Ops \subseteq {"add", "del", "passwd", "quota"}
  Per,                  \* MAX_USERS_PER_LEVEL
  Deleters, Killed,     \* bounds: deletions, programs killed
  FullDisk              \* may writes of files be cut short

VpasswdAssumption ==
  /\ Ops \subseteq {"add", "del", "passwd", "quota"} /\ Per \in Nat \ {0} /\ {Deleters, Killed} \subseteq Nat /\ FullDisk \in BOOLEAN

VARIABLES
  vpasswd, cdb,         \* sets of records [user, pw, dir]
  lock,                 \* who has vpasswd.lock: a set of at most one program
  dirs,                 \* user directories: <<hash, user>>
  ctl, free,            \* .dir-control: [n, dir]; lines of .dir_control_free
  pc, job,              \* per program; job: [op, user, rec, dir, ctl]
  deletions, kills,
  alone,                \* ghost: programs that no other on the same user has overlapped
  crowd,                \* ghost: users that several have worked on at once since they were last deleted
  hurt,                 \* ghost: users that a killed program worked on
  sure                  \* ghost: per user, is it known what the last program said; then the password, if any

files == <<vpasswd, cdb, lock>>
places == <<dirs, ctl, free>>
ghosts == <<alone, crowd, hurt, sure>>
vars == <<files, places, pc, job, deletions, kills, ghosts>>

NoRec == [user |-> "none", pw |-> "none", dir |-> -1]
NoJob == [op |-> "none", user |-> "none", rec |-> NoRec, dir |-> -1, ctl |-> [n |-> 0, dir |-> 0]]

Init ==
  /\ vpasswd = {} /\ cdb = {} /\ lock = {} /\ dirs = {} /\ ctl = [n |-> 0, dir |-> 0] /\ free = {}
  /\ pc = [p \in Procs |-> "idle"] /\ job = [p \in Procs |-> NoJob] /\ deletions = 0 /\ kills = 0
  /\ alone = {} /\ crowd = {} /\ hurt = {} /\ sure = [u \in Users |-> [known |-> TRUE, pws |-> {}]]

Go(p, to) == pc' = [pc EXCEPT ![p] = to]
Unsaid == Procs \cup {"nobody"}
On(u) == {p \in Procs : pc[p] \notin {"idle", "end"} /\ job[p].user = u}

(* A program ends: what it has done is sure if nobody else worked on the user. *)
End(p, result) ==
  /\ Go(p, "end")
  /\ sure' = [sure EXCEPT ![job[p].user] = [known |-> p \in alone /\ result # Unsaid, pws |-> result]]
  /\ UNCHANGED <<alone, hurt>>
Fails(p) == End(p, Unsaid) /\ UNCHANGED crowd
Done(p) ==
  /\ End(p, IF job[p].op = "del" THEN {} ELSE {job[p].rec.pw})
  /\ crowd' = IF job[p].op = "del" /\ p \in alone THEN crowd \ {job[p].user} ELSE crowd

-----------------------------------------------------------------------------
(* vauth_getpw(): any record of that user in vpasswd.cdb.                    *)
Start(p) ==
  /\ pc[p] = "idle"
  /\ \E op \in Ops, u \in Users :
       /\ op = "del" => deletions < Deleters
       /\ deletions' = IF op = "del" THEN deletions + 1 ELSE deletions
       /\ alone' = IF On(u) = {} THEN alone \cup {p} ELSE alone \ On(u)
       /\ crowd' = IF On(u) = {} THEN crowd ELSE crowd \cup {u}
       /\ sure' = [sure EXCEPT ![u].known = FALSE]
       /\ \E rec \in {r \in cdb : r.user = u} \cup {NoRec} :
            /\ rec = NoRec => {r \in cdb : r.user = u} = {}
            /\ job' = [job EXCEPT ![p] = [NoJob EXCEPT !.op = op, !.user = u,
                                           !.rec = IF op = "passwd" THEN [rec EXCEPT !.pw = p] ELSE rec]]
            /\ CASE op = "add" /\ rec = NoRec -> Go(p, "hash")
                 [] op # "add" /\ rec # NoRec -> Go(p, "lock")
                 [] OTHER -> Go(p, "refuse")
  /\ UNCHANGED <<files, places, kills, hurt>>

Refuse(p) == pc[p] = "refuse" /\ Fails(p) /\ UNCHANGED <<files, places, job, deletions, kills>>

(* backfill(): a line of .dir_control_free is read without the lock; if       *)
(* another program removes it first, .dir-control is used.                   *)
Backfill(p) ==
  /\ pc[p] = "hash"
  /\ \E h \in free : /\ free' = free \ {h} /\ ctl' = (IF ctl.n > 0 THEN [ctl EXCEPT !.n = @ + 1] ELSE ctl)
                     /\ job' = [job EXCEPT ![p].dir = h]
  /\ Go(p, "mkdir")
  /\ UNCHANGED <<files, dirs, deletions, kills, ghosts>>

(* open_big_dir() and next_big_dir(); then close_big_dir().                  *)
OpenBigDir(p) ==
  /\ pc[p] = "hash"
  /\ LET n == ctl.n + 1
         c == [n |-> n, dir |-> IF n % Per = 0 THEN ctl.dir + 1 ELSE ctl.dir]
     IN job' = [job EXCEPT ![p].ctl = c, ![p].dir = c.dir]
  /\ Go(p, "close")
  /\ UNCHANGED <<files, places, deletions, kills, ghosts>>

CloseBigDir(p) ==
  /\ pc[p] = "close" /\ ctl' = job[p].ctl /\ Go(p, "mkdir")
  /\ UNCHANGED <<files, dirs, free, job, deletions, kills, ghosts>>

Place(p) == <<job[p].dir, job[p].user>>
MakeUserDir(p) ==
  /\ pc[p] = "mkdir"
  /\ IF Place(p) \in dirs
     THEN Fails(p) /\ UNCHANGED <<dirs, job>>
     ELSE /\ dirs' = dirs \cup {Place(p)} /\ Go(p, "lock") /\ UNCHANGED ghosts
          /\ job' = [job EXCEPT ![p].rec = [user |-> job[p].user, pw |-> p, dir |-> job[p].dir]]
  /\ UNCHANGED <<files, ctl, free, deletions, kills>>

-----------------------------------------------------------------------------
(* get_write_lock(), or it is busy for too long; vadduser() then removes     *)
(* the directory that it made.                                               *)
Lock(p) ==
  /\ pc[p] = "lock" /\ lock = {} /\ lock' = {p} /\ Go(p, "write")
  /\ UNCHANGED <<vpasswd, cdb, places, job, deletions, kills, ghosts>>

(* A wrong version: the clean-up is done for the default quota as well. *)
BusyRemoves(p) ==
  /\ pc[p] = "lock" /\ lock # {}
  /\ dirs' = (IF job[p].op \in {"add", "quota"} THEN dirs \ {Place(p)} ELSE dirs)
  /\ IF job[p].op = "quota" /\ job[p].user \notin crowd THEN Done(p) ELSE Fails(p)
  /\ UNCHANGED <<files, ctl, free, job, deletions, kills>>

Busy(p) ==
  /\ pc[p] = "lock" /\ lock # {}
  /\ dirs' = (IF job[p].op = "add" THEN dirs \ {Place(p)} ELSE dirs)
  /\ IF job[p].op = "quota" /\ job[p].user \notin crowd THEN Done(p) ELSE Fails(p)
  /\ UNCHANGED <<files, ctl, free, job, deletions, kills>>

(* A wrong version: the line of a new user takes the place of the others. *)
RewrittenLess(p) ==
  LET u == job[p].user
      others == {r \in vpasswd : r.user # u}
  IN CASE job[p].op = "add" -> {job[p].rec}
       [] job[p].op = "del" -> others
       [] OTHER -> IF others = vpasswd THEN vpasswd ELSE others \cup {job[p].rec}

(* vauth_adduser(), vauth_deluser() and vauth_setpw(): the lines as they are *)
(* now, one added, left out or replaced; then rename().  Nobody checks that   *)
(* the new file was written to its end.                                      *)
Rewritten(p) ==
  LET u == job[p].user
      others == {r \in vpasswd : r.user # u}
  IN CASE job[p].op = "add" -> vpasswd \cup {job[p].rec}
       [] job[p].op = "del" -> others
       [] OTHER -> IF others = vpasswd THEN vpasswd ELSE others \cup {job[p].rec}

(* A wrong version: the lock is given up after the rename, before the cdb is made. *)
RewriteUnlocked(p) ==
  /\ pc[p] = "write"
  /\ \E lost \in IF FullDisk THEN SUBSET Rewritten(p) ELSE {{}} : vpasswd' = Rewritten(p) \ lost
  /\ lock' = {} /\ Go(p, "cdb")
  /\ UNCHANGED <<cdb, places, job, deletions, kills, ghosts>>

Rewrite(p) ==
  /\ pc[p] = "write"
  /\ \E lost \in IF FullDisk THEN SUBSET Rewritten(p) ELSE {{}} : vpasswd' = Rewritten(p) \ lost
  /\ Go(p, "cdb")
  /\ UNCHANGED <<cdb, lock, places, job, deletions, kills, ghosts>>

(* make_vpasswd_cdb() reads vpasswd again; a short write is seen here, and   *)
(* the callers ignore it.                                                    *)
MakeCdb(p) ==
  /\ pc[p] = "cdb"
  /\ cdb' \in IF FullDisk THEN {vpasswd, cdb} ELSE {vpasswd}
  /\ Go(p, "unlock")
  /\ UNCHANGED <<vpasswd, lock, places, job, deletions, kills, ghosts>>

Unlock(p) ==
  /\ pc[p] = "unlock" /\ lock' = {}
  /\ CASE job[p].op = "del" -> Go(p, "backfill") /\ UNCHANGED ghosts
       [] job[p].op = "add" -> Go(p, "default") /\ UNCHANGED ghosts
       [] OTHER -> Done(p)
  /\ UNCHANGED <<vpasswd, cdb, places, job, deletions, kills>>

(* vadduser() sets the default quota: it reads the record that it has added  *)
(* and writes it once more; it does not care if this fails.                  *)
DefaultQuota(p) ==
  /\ pc[p] = "default"
  /\ LET found == {r \in cdb : r.user = job[p].user}
     IN IF found = {}
        THEN Done(p) /\ UNCHANGED job
        ELSE /\ Go(p, "lock") /\ UNCHANGED ghosts
             /\ \E r \in found : job' = [job EXCEPT ![p].op = "quota", ![p].rec = r]
  /\ UNCHANGED <<files, places, deletions, kills>>

(* vdeluser(): the place in the hash is free again, then dec_dir_control()   *)
(* and vdelfiles() on the directory of the record it read at first.          *)
FreePlace(p) ==
  /\ pc[p] = "backfill" /\ Go(p, "remove")
  /\ free' = (IF job[p].rec.dir > 0 THEN free \cup {job[p].rec.dir} ELSE free)
  /\ ctl' = [ctl EXCEPT !.n = @ - 1]
  /\ UNCHANGED <<files, dirs, job, deletions, kills, ghosts>>

RemoveDir(p) ==
  /\ pc[p] = "remove" /\ Done(p)
  /\ dirs' = dirs \ {<<job[p].rec.dir, job[p].user>>}
  /\ UNCHANGED <<files, ctl, free, job, deletions, kills>>

(* A program is killed; its lock goes with it.                               *)
Kill(p) ==
  /\ pc[p] \notin {"idle", "end"} /\ kills < Killed /\ kills' = kills + 1
  /\ lock' = lock \ {p} /\ Go(p, "end") /\ hurt' = hurt \cup {job[p].user}
  /\ UNCHANGED <<vpasswd, cdb, places, job, deletions, alone, crowd, sure>>

Next ==
  \E p \in Procs :
    \/ Start(p) \/ Refuse(p) \/ Backfill(p) \/ OpenBigDir(p) \/ CloseBigDir(p) \/ MakeUserDir(p)
    \/ Lock(p) \/ Busy(p) \/ Rewrite(p) \/ MakeCdb(p) \/ Unlock(p) \/ DefaultQuota(p)
    \/ FreePlace(p) \/ RemoveDir(p) \/ Kill(p)
Spec == Init /\ [][Next]_vars

-----------------------------------------------------------------------------
(* What a program said of a user holds, in vpasswd and for every look-up,    *)
(* until another works on that user, whatever happens to other users, unless *)
(* a program that worked on that user was killed.                            *)
SaidIsSo ==
  \A u \in Users \ hurt, f \in {vpasswd, cdb} :
    sure[u].known => {r.pw : r \in {x \in f : x.user = u}} = sure[u].pws

(* Look-ups see the records as they are whenever nobody holds the lock, if   *)
(* nobody was killed.                                                        *)
CdbFresh == lock = {} /\ kills = 0 => cdb = vpasswd

(* A record names a directory that is there, unless several programs worked *)
(* on the user at once or one was killed.                                    *)
DirOfRecord ==
  \A u \in Users \ (hurt \cup crowd), r \in cdb : r.user = u => <<r.dir, u>> \in dirs

(* A user has one record.                                                    *)
OneRecordEach == \A r, s \in vpasswd : r.user = s.user => r = s
=============================================================================
