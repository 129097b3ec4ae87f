----------------------------- MODULE AccountsSafety -----------------------------
(***************************************************************************)
(* What MCAccounts promises of the users and the domains of vpopmail, of the   *)
(* quota of mailboxes and of the lists of ezmlm, for any programs, users,      *)
(* levels, deletions and kills, for any domains and aliases, for any mailboxes *)
(* with any quota, window, operations, clock and deletions, and for any        *)
(* bounces, moderators, posts, failures and kills of a list.                  *)
(***************************************************************************)
EXTENDS MCAccounts, SequenceTheorems, FiniteSetTheorems, TLAPS

-----------------------------------------------------------------------------
(* Users of vpopmail *)

Idle == {"idle", "end"}
Locked == {"write", "cdb", "unlock"}
Of(f, u) == {r \in f : r.user = u}
Busy(p) == vp_pc[p] \notin Idle

Record == [user : Names, pw : UserPrograms, dir : Int]
Job == [op : UserOps \cup {"none", "add", "quota"}, user : Names \cup {"none"},
        rec : [user : Names \cup {"none"}, pw : UserPrograms \cup {"none"}, dir : Int], dir : Int, ctl : [n : Int, dir : Int]]
UserTypes ==
  /\ vpasswd \subseteq Record /\ vp_cdb \subseteq Record /\ vp_lock \subseteq UserPrograms
  /\ vp_pc \in [UserPrograms -> Idle \cup Locked \cup
       {"refuse", "hash", "close", "mkdir", "lock", "default", "backfill", "remove"}]
  /\ vp_job \in [UserPrograms -> Job] /\ ctl \in [n : Int, dir : Int] /\ free \subseteq Int
  /\ sure \in [Names -> [known : BOOLEAN, pws : SUBSET (UserPrograms \cup {"none", "nobody"})]]
  /\ alone \subseteq UserPrograms /\ vp_kills \in Nat
  /\ \A p \in UserPrograms :
       /\ Busy(p) => vp_job[p].user \in Names
       /\ vp_pc[p] \in {"hash", "close", "mkdir", "default"} => vp_job[p].op = "add"
       /\ vp_pc[p] \in {"backfill", "remove"} => vp_job[p].op = "del"
       /\ vp_pc[p] \in {"lock"} \cup Locked => vp_job[p].op # "none"
       /\ vp_pc[p] \in {"lock", "write"} => vp_job[p].rec \in Record /\ vp_job[p].rec.user = vp_job[p].user

(* The lock is with the one that rewrites and compiles. *)
OneWriter == \A p \in UserPrograms : vp_pc[p] \in Locked => vp_lock = {p}

(* The compiled records of a user are those of vpasswd, but between the      *)
(* rename and the compilation.                                               *)
Compiled ==
  /\ vp_kills = 0 /\ (\A p \in UserPrograms : vp_pc[p] # "cdb") => vp_cdb = vpasswd
  /\ \A u \in Names \ hurt :
       (\A p \in UserPrograms : vp_pc[p] = "cdb" => vp_job[p].user # u) => Of(vp_cdb, u) = Of(vpasswd, u)

(* Who works alone on a user, and who does not.                              *)
Overlaps ==
  /\ \A p \in alone : vp_pc[p] # "idle"
  /\ \A p, q \in UserPrograms : p # q /\ p \in alone /\ Busy(p) /\ Busy(q) => vp_job[p].user # vp_job[q].user
  /\ \A p \in UserPrograms : Busy(p) => p \in alone \/ vp_job[p].user \in crowd

(* What a program that works alone has made of the records of its user.      *)
Progress(p) ==
  LET u == vp_job[p].user
      rec == vp_job[p].rec
      at == vp_pc[p]
      op == vp_job[p].op
      now == Of(vpasswd, u)
  IN /\ op = "add" /\ at \in {"hash", "close", "mkdir", "lock", "write"} => now = {}
     /\ op = "del" /\ at \in {"cdb", "unlock", "backfill", "remove"} => now = {}
     /\ op # "del" /\ at \in {"cdb", "unlock", "default"} => now = {rec}
     /\ op \in {"passwd", "quota"} /\ at \in {"lock", "write"} => now # {}
     /\ op = "quota" /\ at \in {"lock", "write"} => rec \in now
     /\ u \notin crowd /\ at \in {"lock", "write"} => <<rec.dir, u>> \in vp_dirs
     /\ op = "add" /\ at \in {"lock", "write"} => rec.dir = vp_job[p].dir
Working == \A p \in alone : Busy(p) /\ vp_job[p].user \notin hurt => Progress(p)

(* Users on whom no two programs worked at once have one record and the       *)
(* directory it names; what is sure of a user is in vpasswd.                 *)
Tidy ==
  \A u \in Names \ (hurt \cup crowd) :
    /\ \A r, s \in Of(vpasswd, u) : r = s
    /\ \A r \in Of(vpasswd, u) \cup Of(vp_cdb, u) : <<r.dir, u>> \in vp_dirs
Sure ==
  \A u \in Names \ hurt : sure[u].known =>
    /\ \A p \in UserPrograms : Busy(p) => vp_job[p].user # u
    /\ {r.pw : r \in Of(vpasswd, u)} = sure[u].pws

VpInv == UserTypes /\ OneWriter /\ Compiled /\ Overlaps /\ Working /\ Tidy /\ Sure

LEMMA JobType ==
  ASSUME UserTypes, NEW p \in UserPrograms
  PROVE  /\ vp_job[p] \in Job
         /\ vp_job[p].op \in UserOps \cup {"none", "add", "quota"} /\ vp_job[p].user \in Names \cup {"none"}
         /\ vp_job[p].rec \in [user : Names \cup {"none"}, pw : UserPrograms \cup {"none"}, dir : Int]
         /\ vp_job[p].dir \in Int /\ vp_job[p].ctl \in [n : Int, dir : Int]
BY DEF UserTypes, Job

LEMMA JobOf ==
  ASSUME NEW op \in UserOps \cup {"none", "add", "quota"}, NEW u \in Names \cup {"none"},
         NEW rec \in [user : Names \cup {"none"}, pw : UserPrograms \cup {"none"}, dir : Int],
         NEW d \in Int, NEW c \in [n : Int, dir : Int]
  PROVE  [op |-> op, user |-> u, rec |-> rec, dir |-> d, ctl |-> c] \in Job
BY DEF Job

LEMMA JobWith ==
  ASSUME NEW j \in Job, NEW op \in UserOps \cup {"none", "add", "quota"}, NEW u \in Names \cup {"none"},
         NEW rec \in [user : Names \cup {"none"}, pw : UserPrograms \cup {"none"}, dir : Int]
  PROVE  /\ [j EXCEPT !.op = op, !.rec = rec] \in Job
         /\ [j EXCEPT !.op = op, !.user = u, !.rec = rec] \in Job
         /\ [j EXCEPT !.op = op, !.user = u, !.rec = rec].op = op
         /\ [j EXCEPT !.op = op, !.user = u, !.rec = rec].user = u
         /\ [j EXCEPT !.op = op, !.user = u, !.rec = rec].rec = rec
BY DEF Job

LEMMA NoJobType == Users!NoJob \in Job
BY DEF Users!NoJob, Users!NoRec, Job

LEMMA JobSet ==
  ASSUME UserTypes, NEW p \in UserPrograms, NEW j \in Job, vp_job' = [vp_job EXCEPT ![p] = j]
  PROVE  vp_job' \in [UserPrograms -> Job]
BY DEF UserTypes

Sures == [known : BOOLEAN, pws : SUBSET (UserPrograms \cup {"none", "nobody"})]

(* What the end of a program does, with what it said.                        *)
Ending(p, R) ==
  /\ vp_pc' = [vp_pc EXCEPT ![p] = "end"] /\ alone' = alone /\ hurt' = hurt
  /\ sure' \in [Names -> Sures]
  /\ \A u \in Names : u # vp_job[p].user => sure'[u] = sure[u]
  /\ sure'[vp_job[p].user].known => p \in alone /\ sure'[vp_job[p].user].pws = R

LEMMA Ends ==
  ASSUME UserTypes, NEW p \in UserPrograms, Busy(p),
         NEW R, R \subseteq UserPrograms \cup {"none", "nobody"}, Users!End(p, R)
  PROVE  Ending(p, R) /\ (sure'[vp_job[p].user].known => R # Users!Unsaid)
<1> DEFINE known == p \in alone /\ R # Users!Unsaid
<1>1. known \in BOOLEAN
  OBVIOUS
<1>2. sure' = [sure EXCEPT ![vp_job[p].user] = [known |-> known, pws |-> R]]
  BY DEF Users!End
<1>3. known => p \in alone /\ R # Users!Unsaid
  OBVIOUS
<1> HIDE DEF known
<1>4. vp_job[p].user \in Names
  BY DEF UserTypes
<1>5. sure \in [Names -> Sures]
  BY DEF UserTypes, Sures
<1>6. [known |-> known, pws |-> R] \in Sures
  BY <1>1 DEF Sures
<1>7. sure' \in [Names -> Sures]
  BY <1>2, <1>4, <1>5, <1>6
<1>8. sure'[vp_job[p].user] = [known |-> known, pws |-> R]
  BY <1>2, <1>4, <1>5
<1>9. \A u \in Names : u # vp_job[p].user => sure'[u] = sure[u]
  BY <1>2, <1>4, <1>5
<1>10. sure'[vp_job[p].user].known = known /\ sure'[vp_job[p].user].pws = R
  BY <1>8
<1>11. vp_pc' = [vp_pc EXCEPT ![p] = "end"] /\ alone' = alone /\ hurt' = hurt
  BY DEF Users!End, Users!Go
<1> QED BY <1>1, <1>3, <1>7, <1>9, <1>10, <1>11 DEF Ending

LEMMA FailsEnds ==
  ASSUME UserTypes, NEW p \in UserPrograms, Busy(p), Users!Fails(p)
  PROVE  Ending(p, {}) /\ crowd' = crowd /\ ~sure'[vp_job[p].user].known
<1>1. Users!End(p, Users!Unsaid) /\ crowd' = crowd
  BY DEF Users!Fails
<1>2. Users!Unsaid \subseteq UserPrograms \cup {"none", "nobody"}
  BY DEF Users!Unsaid
<1>3. Ending(p, Users!Unsaid) /\ ~sure'[vp_job[p].user].known
  BY <1>1, <1>2, Ends
<1> QED BY <1>1, <1>3 DEF Ending

LEMMA DoneEnds ==
  ASSUME UserTypes, NEW p \in UserPrograms, Busy(p), Users!Done(p)
  PROVE  /\ Ending(p, IF vp_job[p].op = "del" THEN {} ELSE {vp_job[p].rec.pw})
         /\ crowd' = (IF vp_job[p].op = "del" /\ p \in alone THEN crowd \ {vp_job[p].user} ELSE crowd)
<1>1. vp_job[p].rec.pw \in UserPrograms \cup {"none"}
  BY JobType
<1>2. (IF vp_job[p].op = "del" THEN {} ELSE {vp_job[p].rec.pw}) \subseteq UserPrograms \cup {"none", "nobody"}
  BY <1>1
<1>3. Users!End(p, IF vp_job[p].op = "del" THEN {} ELSE {vp_job[p].rec.pw})
  BY DEF Users!Done
<1> QED BY <1>2, <1>3, Ends DEF Users!Done

LEMMA EndTypes ==
  ASSUME UserTypes, NEW p \in UserPrograms, Busy(p), NEW R, Ending(p, R), vp_job' = vp_job,
         UNCHANGED <<vpasswd, vp_cdb, vp_kills>>, vp_lock' \subseteq UserPrograms,
         ctl' \in [n : Int, dir : Int], free' \subseteq Int
  PROVE  UserTypes'
BY DEF UserTypes, Ending, Busy, Idle, Locked, Sures

LEMMA EndOverlaps ==
  ASSUME UserTypes, Overlaps, NEW p \in UserPrograms, Busy(p), NEW R, Ending(p, R), vp_job' = vp_job,
         crowd' = crowd \/ (p \in alone /\ crowd' = crowd \ {vp_job[p].user})
  PROVE  Overlaps'
<1> USE DEF Overlaps, Ending, Busy, Idle, UserTypes
<1>1. \A q \in UserPrograms : Busy(q)' => q # p /\ Busy(q)
  OBVIOUS
<1>2. \A q \in alone' : vp_pc'[q] # "idle"
  OBVIOUS
<1>3. ASSUME NEW q \in UserPrograms, Busy(q)' PROVE q \in alone' \/ vp_job'[q].user \in crowd'
  BY <1>1, <1>3
<1> QED BY <1>1, <1>2, <1>3

LEMMA EndSure ==
  ASSUME UserTypes, Overlaps, Sure, NEW p \in UserPrograms, Busy(p), NEW R, Ending(p, R), vp_job' = vp_job,
         vpasswd' = vpasswd,
         vp_job[p].user \notin hurt /\ sure'[vp_job[p].user].known =>
           {r.pw : r \in Of(vpasswd, vp_job[p].user)} = R
  PROVE  Sure'
<1> USE DEF Ending, Busy, Idle, UserTypes
<1> SUFFICES ASSUME NEW u \in Names \ hurt, sure'[u].known
             PROVE  /\ \A q \in UserPrograms : Busy(q)' => vp_job[q].user # u
                    /\ {r.pw : r \in Of(vpasswd, u)} = sure'[u].pws
  BY DEF Sure, Of
<1>1. \A q \in UserPrograms : Busy(q)' => q # p /\ Busy(q)
  OBVIOUS
<1>2. CASE u = vp_job[p].user
  BY <1>1, <1>2 DEF Overlaps
<1>3. CASE u # vp_job[p].user
  BY <1>1, <1>3 DEF Sure
<1> QED BY <1>2, <1>3

(* Whose compiled records are those of vpasswd. *)
LEMMA SameForHer ==
  ASSUME UserTypes, Overlaps, Compiled, NEW p \in alone, Busy(p), vp_job[p].user \notin hurt, vp_pc[p] # "cdb"
  PROVE  Of(vp_cdb, vp_job[p].user) = Of(vpasswd, vp_job[p].user)
BY DEF UserTypes, Overlaps, Compiled, Busy, Idle

(* An end that changes nothing. *)
LEMMA EndingKeeps ==
  ASSUME VpInv, NEW p \in UserPrograms, Busy(p), vp_pc[p] \notin Locked, NEW R, Ending(p, R),
         ~sure'[vp_job[p].user].known,
         UNCHANGED <<vpasswd, vp_cdb, vp_lock, vp_dirs, ctl, free, vp_job, vp_kills, crowd>>
  PROVE  VpInv'
<1>1. UserTypes'
  BY EndTypes DEF VpInv, UserTypes
<1>2. OneWriter'
  BY DEF VpInv, OneWriter, Ending, UserTypes, Locked
<1>3. Compiled'
  BY DEF VpInv, Compiled, Ending, UserTypes, Of, Locked
<1>4. Overlaps'
  BY EndOverlaps DEF VpInv
<1>5. Working'
  <2> SUFFICES ASSUME NEW q \in alone, Busy(q)', vp_job[q].user \notin hurt PROVE Progress(q)'
    BY DEF Working, Ending
  <2>1. Busy(q) /\ vp_pc'[q] = vp_pc[q]
    BY DEF Busy, Idle, Ending, VpInv, UserTypes
  <2> QED BY <2>1 DEF VpInv, Working, Progress, Of
<1>6. Tidy'
  BY DEF VpInv, Tidy, Ending, Of
<1>7. Sure'
  BY EndSure DEF VpInv
<1> QED BY <1>1, <1>2, <1>3, <1>4, <1>5, <1>6, <1>7 DEF VpInv

LEMMA StepStart ==
  ASSUME Users!VpasswdAssumption, VpInv, NEW p \in UserPrograms, Users!Start(p)
  PROVE  VpInv'
<1>1. PICK op \in UserOps, u \in Names :
        /\ alone' = IF Users!On(u) = {} THEN alone \cup {p} ELSE alone \ Users!On(u)
        /\ crowd' = IF Users!On(u) = {} THEN crowd ELSE crowd \cup {u}
        /\ sure' = [sure EXCEPT ![u].known = FALSE]
        /\ \E rec \in Of(vp_cdb, u) \cup {Users!NoRec} :
             /\ rec = Users!NoRec => Of(vp_cdb, u) = {}
             /\ vp_job' = [vp_job EXCEPT ![p] = [Users!NoJob EXCEPT !.op = op, !.user = u,
                              !.rec = IF op = "passwd" THEN [rec EXCEPT !.pw = p] ELSE rec]]
             /\ CASE op = "add" /\ rec = Users!NoRec -> Users!Go(p, "hash")
                  [] op # "add" /\ rec # Users!NoRec -> Users!Go(p, "lock")
                  [] OTHER -> Users!Go(p, "refuse")
  BY DEF Users!Start, Of
<1>2. PICK rec \in Of(vp_cdb, u) \cup {Users!NoRec} :
        /\ rec = Users!NoRec => Of(vp_cdb, u) = {}
        /\ vp_job' = [vp_job EXCEPT ![p] = [Users!NoJob EXCEPT !.op = op, !.user = u,
                         !.rec = IF op = "passwd" THEN [rec EXCEPT !.pw = p] ELSE rec]]
        /\ CASE op = "add" /\ rec = Users!NoRec -> Users!Go(p, "hash")
             [] op # "add" /\ rec # Users!NoRec -> Users!Go(p, "lock")
             [] OTHER -> Users!Go(p, "refuse")
  BY <1>1
<1>3. /\ vp_pc[p] = "idle" /\ UNCHANGED <<vpasswd, vp_cdb, vp_lock, vp_dirs, ctl, free, vp_kills, hurt>>
  BY DEF Users!Start, Users!files, Users!places
<1>4. PICK to \in {"hash", "lock", "refuse"} :
        /\ vp_pc' = [vp_pc EXCEPT ![p] = to]
        /\ to = "hash" => op = "add" /\ rec = Users!NoRec
        /\ to = "lock" => op # "add" /\ rec # Users!NoRec
  BY <1>2 DEF Users!Go
<1>5. /\ UserTypes /\ UserOps \subseteq {"add", "del", "passwd", "quota"}
  BY DEF VpInv, Users!VpasswdAssumption
<1> DEFINE rec2 == IF op = "passwd" THEN [rec EXCEPT !.pw = p] ELSE rec
           j == [Users!NoJob EXCEPT !.op = op, !.user = u, !.rec = rec2]
<1>6. /\ rec \in [user : Names \cup {"none"}, pw : UserPrograms \cup {"none"}, dir : Int]
      /\ rec # Users!NoRec => rec \in Of(vp_cdb, u)
  BY <1>5 DEF UserTypes, Record, Users!NoRec, Of
<1>7. /\ rec2 \in [user : Names \cup {"none"}, pw : UserPrograms \cup {"none"}, dir : Int]
      /\ rec2.dir = rec.dir /\ rec2.user = rec.user
      /\ op # "passwd" => rec2 = rec
  BY <1>6
<1>8. rec # Users!NoRec => rec2 \in Record /\ rec2.user = u
  BY <1>5, <1>6 DEF Of, Record, UserTypes
<1>9. vp_job' = [vp_job EXCEPT ![p] = j]
  BY <1>2
<1> HIDE DEF rec2
<1>10. j \in Job /\ j.op = op /\ j.user = u /\ j.rec = rec2
  <2>1. Users!NoJob \in Job
    BY NoJobType
  <2>2. op \in UserOps \cup {"none", "add", "quota"} /\ u \in Names \cup {"none"}
    OBVIOUS
  <2>3. rec2 \in [user : Names \cup {"none"}, pw : UserPrograms \cup {"none"}, dir : Int]
    BY <1>7
  <2> DEFINE none == Users!NoJob
  <2> HIDE DEF none
  <2>4. none \in Job
    BY <2>1 DEF none
  <2>5. j = [none EXCEPT !.op = op, !.user = u, !.rec = rec2]
    BY DEF none
  <2> HIDE DEF j
  <2> QED BY <2>2, <2>3, <2>4, <2>5 DEF Job
<1>11. /\ vp_job'[p] = j /\ vp_job' \in [UserPrograms -> Job]
       /\ \A q \in UserPrograms : q # p => vp_job'[q] = vp_job[q]
  BY <1>5, <1>9, <1>10 DEF UserTypes
<1>12. j.op = op /\ j.user = u /\ j.rec = rec2
  BY <1>10
<1> HIDE DEF j
<1>13. \A v \in Names : IF v = u THEN ~sure'[v].known ELSE sure'[v] = sure[v]
  BY <1>1, <1>5 DEF UserTypes
<1>14. sure' \in [Names -> Sures]
  <2>1. sure \in [Names -> Sures]
    BY <1>5 DEF UserTypes, Sures
  <2>2. [sure[u] EXCEPT !.known = FALSE] \in Sures
    BY <2>1 DEF Sures
  <2> QED BY <1>1, <2>1, <2>2
<1>15. /\ alone' \subseteq UserPrograms /\ crowd \subseteq crowd'
  BY <1>1, <1>5 DEF UserTypes
<1>16. Users!On(u) = {q \in UserPrograms : Busy(q) /\ vp_job[q].user = u} /\ ~Busy(p)
  BY <1>3 DEF Users!On, Busy, Idle
<1>17. \A q \in UserPrograms : vp_pc'[q] = IF q = p THEN to ELSE vp_pc[q]
  BY <1>4, <1>5 DEF UserTypes
<1>18. p \notin alone
  BY <1>3 DEF VpInv, Overlaps
<1>19. UserTypes'
  BY <1>3, <1>4, <1>5, <1>8, <1>11, <1>12, <1>14, <1>15, <1>17 DEF UserTypes, Busy, Idle, Locked, Sures
<1>20. OneWriter'
  BY <1>3, <1>17 DEF VpInv, OneWriter, Locked
<1>21. Compiled'
  <2>1. \A q \in UserPrograms : vp_pc'[q] = "cdb" <=> vp_pc[q] = "cdb"
    BY <1>3, <1>17
  <2>2. \A q \in UserPrograms : vp_pc[q] = "cdb" => vp_job'[q] = vp_job[q]
    BY <1>3, <1>11
  <2> QED BY <1>3, <2>1, <2>2 DEF VpInv, Compiled, Of
<1>22. Overlaps'
  <2>1. \A q \in UserPrograms : Busy(q)' <=> q = p \/ Busy(q)
    BY <1>17 DEF Busy, Idle
  <2>2. \A q \in alone' : vp_pc'[q] # "idle"
    BY <1>1, <1>15, <1>17 DEF VpInv, Overlaps
  <2>3. ASSUME NEW q \in UserPrograms, NEW s \in UserPrograms, q # s, q \in alone', Busy(q)', Busy(s)'
        PROVE  vp_job'[q].user # vp_job'[s].user
    <3>1. CASE q = p
      <4>1. Users!On(u) = {}
        BY <1>1, <1>18, <2>3, <3>1
      <4> QED BY <1>11, <1>12, <1>16, <2>1, <2>3, <3>1, <4>1
    <3>2. CASE q # p /\ s = p
      BY <1>1, <1>11, <1>12, <1>16, <2>1, <2>3, <3>2
    <3>3. CASE q # p /\ s # p
      BY <1>1, <1>11, <2>1, <2>3, <3>3 DEF VpInv, Overlaps
    <3> QED BY <3>1, <3>2, <3>3
  <2>4. ASSUME NEW q \in UserPrograms, Busy(q)'
        PROVE  q \in alone' \/ vp_job'[q].user \in crowd'
    <3>1. CASE q = p
      BY <1>1, <1>11, <1>12, <3>1
    <3>2. CASE q # p
      BY <1>1, <1>11, <1>16, <2>1, <2>4, <3>2 DEF VpInv, Overlaps
    <3> QED BY <3>1, <3>2
  <2> QED BY <2>2, <2>3, <2>4 DEF Overlaps
<1>23. Working'
  <2> SUFFICES ASSUME NEW q \in alone', Busy(q)', vp_job'[q].user \notin hurt PROVE Progress(q)'
    BY <1>3 DEF Working
  <2>1. q \in UserPrograms
    BY <1>15
  <2>2. CASE q = p
    <3>1. Users!On(u) = {}
      BY <1>1, <1>18, <2>2
    <3>2. u \notin hurt
      BY <1>11, <1>12, <2>2
    <3>3. \A s \in UserPrograms : vp_pc[s] = "cdb" => vp_job[s].user # u
      BY <1>16, <3>1 DEF Busy, Idle
    <3>4. Of(vp_cdb, u) = Of(vpasswd, u)
      BY <3>2, <3>3 DEF VpInv, Compiled
    <3>5. to = "hash" => Of(vpasswd, u) = {}
      BY <1>2, <1>4, <3>4
    <3>6. to = "lock" => rec \in Of(vpasswd, u)
      BY <1>4, <1>6, <3>4
    <3>7. u \notin crowd /\ to = "lock" => <<rec.dir, u>> \in vp_dirs
      BY <3>2, <3>6 DEF VpInv, Tidy
    <3>8. vp_pc'[p] = to /\ vp_job'[p].op = op /\ vp_job'[p].user = u /\ vp_job'[p].rec = rec2
      BY <1>11, <1>12, <1>17
    <3>9. op = "quota" /\ to = "lock" => rec2 = rec
      BY <1>7
    <3> QED BY <1>3, <1>4, <1>7, <1>15, <2>2, <3>5, <3>6, <3>7, <3>8, <3>9 DEF Progress, Of
  <2>3. CASE q # p
    <3>1. q \in alone
      BY <1>1, <2>3
    <3>2. vp_pc'[q] = vp_pc[q] /\ vp_job'[q] = vp_job[q]
      BY <1>11, <1>17, <2>1, <2>3
    <3>3. Progress(q)
      BY <3>1, <3>2 DEF VpInv, Working, Busy
    <3> QED BY <1>3, <1>15, <3>2, <3>3 DEF Progress, Of
  <2> QED BY <2>2, <2>3
<1>24. Tidy'
  BY <1>3, <1>15 DEF VpInv, Tidy, Of
<1>25. Sure'
  BY <1>3, <1>11, <1>12, <1>13, <1>17 DEF VpInv, Sure, Of, Busy, Idle
<1> QED BY <1>19, <1>20, <1>21, <1>22, <1>23, <1>24, <1>25 DEF VpInv

LEMMA StepRefuse ==
  ASSUME Users!VpasswdAssumption, VpInv, NEW p \in UserPrograms, Users!Refuse(p)
  PROVE  VpInv'
<1> USE DEF Users!Refuse, Users!Go, Users!files, Users!places, Users!ghosts, Users!Fails, Users!Done, Users!End, Users!Unsaid, VpInv
<1>1. UserTypes'
  BY DEF UserTypes, Busy, Idle, Locked, Job
<1>2. OneWriter'
  BY DEF OneWriter, UserTypes, Locked, Idle, Busy
<1>3. Compiled'
  BY DEF Compiled, UserTypes, Idle, Of, Locked, Busy
<1>4. Overlaps'
  BY DEF Overlaps, UserTypes, Busy, Idle, Locked, Users!On
<1>5. Working'
  BY DEF Working, Progress, UserTypes, Busy, Idle, Locked, Overlaps, Of, Users!Place
<1>6. Tidy'
  BY DEF Tidy, Working, Progress, Overlaps, Busy, Idle, UserTypes, Of, Users!Place
<1>7. Sure'
  BY DEF Sure, Working, Progress, Overlaps, Busy, Idle, UserTypes, Of
<1> QED BY <1>1, <1>2, <1>3, <1>4, <1>5, <1>6, <1>7

LEMMA StepBackfill ==
  ASSUME Users!VpasswdAssumption, VpInv, NEW p \in UserPrograms, Users!Backfill(p)
  PROVE  VpInv'
<1> USE DEF Users!Backfill, Users!Go, Users!files, Users!places, Users!ghosts, Users!Fails, Users!Done, Users!End, Users!Unsaid, VpInv
<1>1. UserTypes'
  <2>1. vp_job' \in [UserPrograms -> Job]
    <3>1. PICK place \in free : vp_job' = [vp_job EXCEPT ![p].dir = place]
      OBVIOUS
    <3>2. place \in Int
      BY DEF UserTypes
    <3>3. [vp_job[p] EXCEPT !.dir = place] \in Job
      BY <3>2, JobType DEF Job
    <3> QED BY <3>1, <3>3 DEF UserTypes
  <2>2. ctl' \in [n : Int, dir : Int]
    BY DEF UserTypes
  <2> QED BY <2>1, <2>2 DEF UserTypes, Busy, Idle, Locked
<1>2. OneWriter'
  BY DEF OneWriter, UserTypes, Locked, Idle, Busy
<1>3. Compiled'
  BY DEF Compiled, UserTypes, Idle, Of, Locked, Busy
<1>4. Overlaps'
  BY DEF Overlaps, UserTypes, Busy, Idle, Locked, Users!On
<1>5. Working'
  BY DEF Working, Progress, UserTypes, Busy, Idle, Locked, Overlaps, Of, Users!Place
<1>6. Tidy'
  BY DEF Tidy, Working, Progress, Overlaps, Busy, Idle, UserTypes, Of, Users!Place
<1>7. Sure'
  BY DEF Sure, Working, Progress, Overlaps, Busy, Idle, UserTypes, Of
<1> QED BY <1>1, <1>2, <1>3, <1>4, <1>5, <1>6, <1>7

LEMMA StepOpenBigDir ==
  ASSUME Users!VpasswdAssumption, VpInv, NEW p \in UserPrograms, Users!OpenBigDir(p)
  PROVE  VpInv'
<1> USE DEF Users!OpenBigDir, Users!Go, Users!files, Users!places, Users!ghosts, Users!Fails, Users!Done, Users!End, Users!Unsaid, VpInv
<1>1. UserTypes'
  <2>1. vp_job' \in [UserPrograms -> Job]
    <3> DEFINE c == [n |-> ctl.n + 1, dir |-> IF (ctl.n + 1) % PerLevel = 0 THEN ctl.dir + 1 ELSE ctl.dir]
    <3>1. vp_job' = [vp_job EXCEPT ![p].ctl = c, ![p].dir = c.dir]
      OBVIOUS
    <3>2. c \in [n : Int, dir : Int] /\ c.dir \in Int
      BY DEF UserTypes
    <3> HIDE DEF c
    <3> DEFINE j == [vp_job[p] EXCEPT !.ctl = c, !.dir = c.dir]
    <3>3. j \in Job
      BY <3>2, JobType DEF Job
    <3>4. vp_job' = [vp_job EXCEPT ![p] = j]
      BY <3>1 DEF UserTypes
    <3> HIDE DEF j
    <3> QED BY <3>3, <3>4, JobSet
  <2> QED BY <2>1 DEF UserTypes, Busy, Idle, Locked
<1>2. OneWriter'
  BY DEF OneWriter, UserTypes, Locked, Idle, Busy
<1>3. Compiled'
  BY DEF Compiled, UserTypes, Idle, Of, Locked, Busy
<1>4. Overlaps'
  BY DEF Overlaps, UserTypes, Busy, Idle, Locked, Users!On
<1>5. Working'
  BY DEF Working, Progress, UserTypes, Busy, Idle, Locked, Overlaps, Of, Users!Place
<1>6. Tidy'
  BY DEF Tidy, Working, Progress, Overlaps, Busy, Idle, UserTypes, Of, Users!Place
<1>7. Sure'
  BY DEF Sure, Working, Progress, Overlaps, Busy, Idle, UserTypes, Of
<1> QED BY <1>1, <1>2, <1>3, <1>4, <1>5, <1>6, <1>7

LEMMA StepCloseBigDir ==
  ASSUME Users!VpasswdAssumption, VpInv, NEW p \in UserPrograms, Users!CloseBigDir(p)
  PROVE  VpInv'
<1> USE DEF Users!CloseBigDir, Users!Go, Users!files, Users!places, Users!ghosts, Users!Fails, Users!Done, Users!End, Users!Unsaid, VpInv
<1>1. UserTypes'
  BY DEF UserTypes, Busy, Idle, Locked, Job
<1>2. OneWriter'
  BY DEF OneWriter, UserTypes, Locked, Idle, Busy
<1>3. Compiled'
  BY DEF Compiled, UserTypes, Idle, Of, Locked, Busy
<1>4. Overlaps'
  BY DEF Overlaps, UserTypes, Busy, Idle, Locked, Users!On
<1>5. Working'
  BY DEF Working, Progress, UserTypes, Busy, Idle, Locked, Overlaps, Of, Users!Place
<1>6. Tidy'
  BY DEF Tidy, Working, Progress, Overlaps, Busy, Idle, UserTypes, Of, Users!Place
<1>7. Sure'
  BY DEF Sure, Working, Progress, Overlaps, Busy, Idle, UserTypes, Of
<1> QED BY <1>1, <1>2, <1>3, <1>4, <1>5, <1>6, <1>7

LEMMA StepMakeUserDir ==
  ASSUME Users!VpasswdAssumption, VpInv, NEW p \in UserPrograms, Users!MakeUserDir(p)
  PROVE  VpInv'
<1> USE DEF Users!MakeUserDir, Users!Place, Users!files
<1>1. Busy(p) /\ vp_job[p].user \in Names
  BY DEF Busy, Idle, VpInv, UserTypes
<1>2. UserTypes /\ Overlaps
  BY DEF VpInv
<1>3. CASE Users!Place(p) \in vp_dirs
  <2>1. Users!Fails(p) /\ UNCHANGED <<vp_dirs, vp_job>>
    BY <1>3
  <2>2. Ending(p, {}) /\ crowd' = crowd /\ ~sure'[vp_job[p].user].known
    BY <1>1, <1>2, <2>1, FailsEnds
  <2>3. vp_pc[p] \notin Locked /\ UNCHANGED <<vpasswd, vp_cdb, vp_lock, vp_dirs, ctl, free, vp_job, vp_kills, crowd>>
    BY <2>1, <2>2 DEF Locked
  <2> QED BY <1>1, <2>2, <2>3, EndingKeeps
<1>4. CASE Users!Place(p) \notin vp_dirs
  <2> DEFINE rec == [user |-> vp_job[p].user, pw |-> p, dir |-> vp_job[p].dir]
  <2>1. /\ vp_dirs' = vp_dirs \cup {<<vp_job[p].dir, vp_job[p].user>>}
        /\ vp_pc' = [vp_pc EXCEPT ![p] = "lock"] /\ UNCHANGED Users!ghosts
        /\ vp_job' = [vp_job EXCEPT ![p].rec = rec]
    BY <1>4 DEF Users!Go
  <2>2. rec \in Record /\ rec \in [user : Names \cup {"none"}, pw : UserPrograms \cup {"none"}, dir : Int]
    BY <1>1, JobType DEF VpInv, Record
  <2>3. vp_job' \in [UserPrograms -> Job]
    <3>1. [vp_job[p] EXCEPT !.rec = rec] \in Job
      BY <2>2, JobType DEF Job, VpInv
    <3> QED BY <2>1, <3>1 DEF VpInv, UserTypes
  <2>4. /\ vp_job'[p].user = vp_job[p].user /\ vp_job'[p].op = vp_job[p].op /\ vp_job'[p].rec = rec
        /\ vp_job'[p].dir = vp_job[p].dir /\ \A q \in UserPrograms : q # p => vp_job'[q] = vp_job[q]
    <3>1. vp_job[p] \in Job
      BY JobType DEF VpInv
    <3> QED BY <2>1, <3>1 DEF VpInv, UserTypes, Job
  <2> HIDE DEF rec
  <2>5. UserTypes'
    BY <2>1, <2>2, <2>3, <2>4, <1>1 DEF VpInv, UserTypes, Busy, Idle, Locked, rec, Users!ghosts
  <2>6. OneWriter'
    BY <2>1 DEF VpInv, OneWriter, UserTypes, Locked
  <2>7. Compiled'
    BY <2>1, <2>4 DEF VpInv, Compiled, UserTypes, Of, Users!ghosts
  <2>8. Overlaps'
    BY <2>1, <2>4 DEF VpInv, Overlaps, UserTypes, Busy, Idle, Users!ghosts
  <2>9. Working'
    <3> SUFFICES ASSUME NEW q \in alone, Busy(q)', vp_job'[q].user \notin hurt PROVE Progress(q)'
      BY <2>1 DEF Working, Users!ghosts
    <3>1. q \in UserPrograms
      BY DEF VpInv, UserTypes
    <3>2. CASE q = p
      <4>1. Progress(p)
        BY <1>1, <2>4, <3>2 DEF VpInv, Working
      <4>2. vp_job[p].op = "add"
        BY DEF VpInv, UserTypes
      <4> QED BY <2>1, <2>4, <3>2, <4>1, <4>2 DEF Progress, Of, rec, VpInv, UserTypes
    <3>3. CASE q # p
      <4>1. Busy(q) /\ vp_pc'[q] = vp_pc[q] /\ vp_job'[q] = vp_job[q]
        BY <2>1, <2>4, <3>1, <3>3 DEF Busy, VpInv, UserTypes
      <4>2. Progress(q)
        BY <4>1 DEF VpInv, Working
      <4> QED BY <2>1, <4>1, <4>2 DEF Progress, Of, Users!ghosts
    <3> QED BY <3>2, <3>3
  <2>10. Tidy'
    BY <2>1 DEF VpInv, Tidy, Of, Users!ghosts
  <2>11. Sure'
    BY <2>1, <2>4, <1>1 DEF VpInv, Sure, Of, Users!ghosts, Busy, Idle, UserTypes
  <2> QED BY <2>5, <2>6, <2>7, <2>8, <2>9, <2>10, <2>11 DEF VpInv
<1> QED BY <1>3, <1>4

LEMMA StepLock ==
  ASSUME Users!VpasswdAssumption, VpInv, NEW p \in UserPrograms, Users!Lock(p)
  PROVE  VpInv'
<1> USE DEF Users!Lock, Users!Go, Users!files, Users!places, Users!ghosts, Users!Fails, Users!Done, Users!End, Users!Unsaid, VpInv
<1>1. UserTypes'
  BY DEF UserTypes, Busy, Idle, Locked, Job
<1>2. OneWriter'
  BY DEF OneWriter, UserTypes, Locked, Idle, Busy
<1>3. Compiled'
  BY DEF Compiled, UserTypes, Idle, Of, Locked, Busy
<1>4. Overlaps'
  BY DEF Overlaps, UserTypes, Busy, Idle, Locked, Users!On
<1>5. Working'
  BY DEF Working, Progress, UserTypes, Busy, Idle, Locked, Overlaps, Of, Users!Place
<1>6. Tidy'
  BY DEF Tidy, Working, Progress, Overlaps, Busy, Idle, UserTypes, Of, Users!Place
<1>7. Sure'
  BY DEF Sure, Working, Progress, Overlaps, Busy, Idle, UserTypes, Of
<1> QED BY <1>1, <1>2, <1>3, <1>4, <1>5, <1>6, <1>7

LEMMA StepBusy ==
  ASSUME Users!VpasswdAssumption, VpInv, NEW p \in UserPrograms, Users!Busy(p)
  PROVE  VpInv'
<1> USE DEF Users!Busy, Users!Place, Users!files
<1>1. Busy(p) /\ vp_job[p].user \in Names
  BY DEF Busy, Idle, VpInv, UserTypes
<1>2. UserTypes /\ Overlaps
  BY DEF VpInv
<1>3. PICK R : /\ Ending(p, R) /\ crowd' = crowd
               /\ sure'[vp_job[p].user].known =>
                    vp_job[p].op = "quota" /\ vp_job[p].user \notin crowd /\ R = {vp_job[p].rec.pw}
  <2>1. CASE vp_job[p].op = "quota" /\ vp_job[p].user \notin crowd
    <3>1. Users!Done(p)
      BY <2>1
    <3> QED BY <2>1, <3>1, <1>1, <1>2, DoneEnds
  <2>2. CASE ~(vp_job[p].op = "quota" /\ vp_job[p].user \notin crowd)
    <3>1. Users!Fails(p)
      BY <2>2
    <3> QED BY <3>1, <1>1, <1>2, FailsEnds
  <2> QED BY <2>1, <2>2
<1>4. UserTypes'
  BY <1>1, <1>2, <1>3, EndTypes DEF UserTypes
<1>5. OneWriter'
  BY <1>3 DEF Ending, VpInv, OneWriter, UserTypes, Locked
<1>6. Compiled'
  BY <1>3 DEF Ending, VpInv, Compiled, UserTypes, Of
<1>7. Overlaps'
  BY <1>1, <1>2, <1>3, EndOverlaps
<1>8. vp_dirs' \subseteq vp_dirs /\ \A u \in Names : u # vp_job[p].user \/ vp_job[p].op # "add" =>
        \A d : <<d, u>> \in vp_dirs => <<d, u>> \in vp_dirs'
  OBVIOUS
<1>9. Working'
  <2> SUFFICES ASSUME NEW q \in alone, Busy(q)', vp_job[q].user \notin hurt PROVE Progress(q)'
    BY <1>3 DEF Working, Ending
  <2>1. q # p /\ Busy(q) /\ vp_pc'[q] = vp_pc[q] /\ q \in UserPrograms
    BY <1>3 DEF Busy, Idle, Ending, VpInv, UserTypes
  <2>2. Progress(q)
    BY <2>1 DEF VpInv, Working
  <2>3. vp_job[q].user # vp_job[p].user /\ vp_job[q].user \in Names
    BY <1>1, <1>2, <2>1 DEF Overlaps, UserTypes
  <2> QED BY <1>3, <1>8, <2>1, <2>2, <2>3 DEF Progress, Of
<1>10. Tidy'
  <2> SUFFICES ASSUME NEW u \in Names \ (hurt \cup crowd)
               PROVE  /\ \A r, s \in Of(vpasswd, u) : r = s
                      /\ \A r \in Of(vpasswd, u) \cup Of(vp_cdb, u) : <<r.dir, u>> \in vp_dirs'
    BY <1>3 DEF Tidy, Ending, Of
  <2>1. CASE u = vp_job[p].user /\ vp_job[p].op = "add"
    <3>1. p \in alone
      BY <1>1, <1>2, <2>1 DEF Overlaps
    <3>2. Of(vpasswd, u) = {}
      BY <1>1, <2>1, <3>1 DEF VpInv, Working, Progress
    <3>3. Of(vp_cdb, u) = {}
      BY <1>1, <2>1, <3>1, <3>2, SameForHer DEF VpInv
    <3> QED BY <3>2, <3>3
  <2>2. CASE ~(u = vp_job[p].user /\ vp_job[p].op = "add")
    BY <1>8, <2>2 DEF VpInv, Tidy
  <2> QED BY <2>1, <2>2
<1>11. Sure'
  <2>1. ASSUME vp_job[p].user \notin hurt, sure'[vp_job[p].user].known
        PROVE  {r.pw : r \in Of(vpasswd, vp_job[p].user)} = R
    <3>1. p \in alone /\ vp_job[p].op = "quota" /\ vp_job[p].user \notin crowd /\ R = {vp_job[p].rec.pw}
      BY <1>3, <2>1 DEF Ending
    <3>2. vp_job[p].rec \in Of(vpasswd, vp_job[p].user)
      BY <1>1, <2>1, <3>1 DEF VpInv, Working, Progress
    <3>3. \A r \in Of(vpasswd, vp_job[p].user) : r = vp_job[p].rec
      BY <1>1, <2>1, <3>1, <3>2 DEF VpInv, Tidy
    <3> QED BY <3>1, <3>2, <3>3
  <2> QED BY <1>1, <1>2, <1>3, <2>1, EndSure DEF VpInv
<1> QED BY <1>4, <1>5, <1>6, <1>7, <1>9, <1>10, <1>11 DEF VpInv

LEMMA StepRewrite ==
  ASSUME Users!VpasswdAssumption, VpInv, NEW p \in UserPrograms, Users!Rewrite(p)
  PROVE  VpInv'
<1> USE DEF Users!Rewrite
<1> DEFINE u == vp_job[p].user
           rec == vp_job[p].rec
           others == {r \in vpasswd : r.user # u}
<1>1. /\ vp_pc[p] = "write" /\ vp_pc' = [vp_pc EXCEPT ![p] = "cdb"]
      /\ UNCHANGED <<vp_cdb, vp_lock, vp_dirs, ctl, free, vp_job, vp_kills, alone, crowd, hurt, sure>>
  BY DEF Users!Go, Users!places, Users!ghosts
<1>2. vpasswd' = Users!Rewritten(p)
  OBVIOUS
<1>3. Busy(p) /\ u \in Names /\ rec \in Record /\ rec.user = u
  BY <1>1 DEF Busy, Idle, VpInv, UserTypes, Locked
<1>4. /\ vp_job[p].op = "add" => vpasswd' = vpasswd \cup {rec}
      /\ vp_job[p].op = "del" => vpasswd' = others
      /\ vp_job[p].op \notin {"add", "del"} => vpasswd' = IF others = vpasswd THEN vpasswd ELSE others \cup {rec}
  BY <1>2 DEF Users!Rewritten
<1> HIDE DEF u, rec, Users!Rewrite
<1>5. vpasswd' \subseteq vpasswd \cup {rec} /\ \A v \in Names : v # u => Of(vpasswd', v) = Of(vpasswd, v)
  BY <1>3, <1>4 DEF Of
<1>6. ASSUME p \in alone, u \notin hurt
      PROVE  Of(vpasswd', u) = IF vp_job[p].op = "del" THEN {} ELSE {rec}
  <2>1. Progress(p)
    BY <1>3, <1>6 DEF VpInv, Working, u
  <2>2. vp_job[p].op = "add" => Of(vpasswd, u) = {}
    BY <1>1, <2>1 DEF Progress, u
  <2>3. vp_job[p].op \in {"passwd", "quota"} => Of(vpasswd, u) # {}
    BY <1>1, <2>1 DEF Progress, u
  <2>4. vp_job[p].op \in {"add", "del", "passwd", "quota"}
    BY <1>1, JobType DEF VpInv, UserTypes, Locked, Users!VpasswdAssumption
  <2>5. CASE vp_job[p].op = "add"
    BY <1>3, <1>4, <2>2, <2>5 DEF Of
  <2>6. CASE vp_job[p].op = "del"
    BY <1>3, <1>4, <2>6 DEF Of
  <2>7. CASE vp_job[p].op \in {"passwd", "quota"}
    <3>1. others # vpasswd
      BY <2>3, <2>7 DEF Of
    <3>2. vpasswd' = others \cup {rec}
      BY <1>4, <2>7, <3>1
    <3> QED BY <1>3, <2>7, <3>2 DEF Of
  <2> QED BY <2>4, <2>5, <2>6, <2>7
<1>7. UserTypes'
  BY <1>1, <1>3, <1>5 DEF VpInv, UserTypes, Busy, Idle, Locked
<1>8. OneWriter'
  BY <1>1 DEF VpInv, OneWriter, UserTypes, Locked
<1>9. Compiled'
  <2>1. vp_pc'[p] = "cdb"
    BY <1>1 DEF VpInv, UserTypes
  <2>2. ASSUME NEW v \in Names \ hurt, \A q \in UserPrograms : vp_pc'[q] = "cdb" => vp_job[q].user # v
        PROVE  Of(vp_cdb, v) = Of(vpasswd', v)
    <3>1. v # u
      BY <2>1, <2>2 DEF u
    <3>2. \A q \in UserPrograms : vp_pc[q] = "cdb" => vp_job[q].user # v
      BY <1>1, <2>2 DEF VpInv, UserTypes
    <3> QED BY <1>5, <2>2, <3>1, <3>2 DEF VpInv, Compiled
  <2> QED BY <1>1, <2>1, <2>2 DEF Compiled, Of
<1>10. Overlaps'
  BY <1>1 DEF VpInv, Overlaps, UserTypes, Busy, Idle
<1>11. Working'
  <2> SUFFICES ASSUME NEW q \in alone, Busy(q)', vp_job[q].user \notin hurt PROVE Progress(q)'
    BY <1>1 DEF Working
  <2>1. Busy(q) /\ q \in UserPrograms
    BY <1>1, <1>3 DEF Busy, Idle, VpInv, UserTypes
  <2>2. Progress(q)
    BY <2>1 DEF VpInv, Working
  <2>3. CASE q = p
    BY <1>1, <1>6, <2>2, <2>3 DEF Progress, Of, u, rec, VpInv, UserTypes
  <2>4. CASE q # p
    <3>1. vp_pc'[q] = vp_pc[q] /\ vp_job[q].user # u /\ vp_job[q].user \in Names
      BY <1>1, <1>3, <2>1, <2>4 DEF VpInv, UserTypes, Overlaps, u
    <3> QED BY <1>1, <1>5, <2>2, <3>1 DEF Progress, Of
  <2> QED BY <2>3, <2>4
<1>12. Tidy'
  <2> SUFFICES ASSUME NEW v \in Names \ (hurt \cup crowd)
               PROVE  /\ \A r, s \in Of(vpasswd', v) : r = s
                      /\ \A r \in Of(vpasswd', v) \cup Of(vp_cdb, v) : <<r.dir, v>> \in vp_dirs
    BY <1>1 DEF Tidy, Of
  <2>1. CASE v # u
    BY <1>5, <2>1 DEF VpInv, Tidy
  <2>2. CASE v = u
    <3>1. p \in alone
      BY <1>3, <2>2 DEF VpInv, Overlaps, u
    <3>2. Of(vpasswd', u) \subseteq {rec}
      BY <1>6, <2>2, <3>1
    <3>3. <<rec.dir, u>> \in vp_dirs
      BY <1>1, <1>3, <2>2, <3>1 DEF VpInv, Working, Progress, u, rec
    <3> QED BY <2>2, <3>2, <3>3 DEF VpInv, Tidy
  <2> QED BY <2>1, <2>2
<1>13. Sure'
  <2> SUFFICES ASSUME NEW v \in Names \ hurt, sure[v].known
               PROVE  /\ \A q \in UserPrograms : Busy(q)' => vp_job[q].user # v
                      /\ {r.pw : r \in Of(vpasswd', v)} = sure[v].pws
    BY <1>1 DEF Sure, Of
  <2>1. \A q \in UserPrograms : Busy(q) => vp_job[q].user # v
    BY DEF VpInv, Sure
  <2>2. v # u
    BY <1>3, <2>1 DEF u
  <2>3. \A q \in UserPrograms : Busy(q)' => Busy(q)
    BY <1>1, <1>3 DEF Busy, Idle, VpInv, UserTypes
  <2> QED BY <1>5, <2>1, <2>2, <2>3 DEF VpInv, Sure
<1> QED BY <1>7, <1>8, <1>9, <1>10, <1>11, <1>12, <1>13 DEF VpInv

LEMMA StepMakeCdb ==
  ASSUME Users!VpasswdAssumption, VpInv, NEW p \in UserPrograms, Users!MakeCdb(p)
  PROVE  VpInv'
<1> USE DEF Users!MakeCdb, Users!Go, Users!files, Users!places, Users!ghosts, Users!Fails, Users!Done, Users!End, Users!Unsaid, VpInv
<1>1. UserTypes'
  BY DEF UserTypes, Busy, Idle, Locked, Job
<1>2. OneWriter'
  BY DEF OneWriter, UserTypes, Locked, Idle, Busy
<1>3. Compiled'
  BY DEF Compiled, UserTypes, Idle, Of, Locked, Busy
<1>4. Overlaps'
  BY DEF Overlaps, UserTypes, Busy, Idle, Locked, Users!On
<1>5. Working'
  BY DEF Working, Progress, UserTypes, Busy, Idle, Locked, Overlaps, Of, Users!Place
<1>6. Tidy'
  BY DEF Tidy, Working, Progress, Overlaps, Busy, Idle, UserTypes, Of, Users!Place
<1>7. Sure'
  BY DEF Sure, Working, Progress, Overlaps, Busy, Idle, UserTypes, Of
<1> QED BY <1>1, <1>2, <1>3, <1>4, <1>5, <1>6, <1>7

LEMMA StepUnlock ==
  ASSUME Users!VpasswdAssumption, VpInv, NEW p \in UserPrograms, Users!Unlock(p)
  PROVE  VpInv'
<1>1. /\ vp_pc[p] = "unlock" /\ vp_lock' = {}
      /\ UNCHANGED <<vpasswd, vp_cdb, vp_dirs, ctl, free, vp_job, vp_kills>>
  BY DEF Users!Unlock, Users!places
<1>2. Busy(p) /\ vp_job[p].user \in Names /\ vp_job[p].op # "none"
  BY <1>1 DEF Busy, Idle, Locked, VpInv, UserTypes
<1>3. UserTypes /\ Overlaps
  BY DEF VpInv
<1>4. \A q \in UserPrograms : q # p => vp_pc[q] \notin Locked
  BY <1>1 DEF VpInv, OneWriter, Locked
<1>5. p \in alone /\ vp_job[p].user \notin hurt => Progress(p)
  BY <1>2 DEF VpInv, Working
<1>6. ASSUME NEW to \in {"backfill", "default"}, vp_pc' = [vp_pc EXCEPT ![p] = to], UNCHANGED <<alone, crowd, hurt, sure>>,
             vp_job[p].op = IF to = "backfill" THEN "del" ELSE "add"
      PROVE  VpInv'
  <2>1. \A q \in UserPrograms : vp_pc'[q] = IF q = p THEN to ELSE vp_pc[q]
    BY <1>3, <1>6 DEF UserTypes
  <2>2. UserTypes'
    BY <1>1, <1>2, <1>3, <1>6, <2>1 DEF UserTypes, Busy, Idle, Locked
  <2>3. OneWriter'
    BY <1>4, <2>1 DEF OneWriter, Locked
  <2>4. Compiled'
    BY <1>1, <1>6, <2>1 DEF VpInv, Compiled, Of
  <2>5. Overlaps'
    BY <1>1, <1>2, <1>3, <1>6, <2>1 DEF VpInv, Overlaps, UserTypes, Busy, Idle
  <2>6. Working'
    <3> SUFFICES ASSUME NEW q \in alone, Busy(q)', vp_job[q].user \notin hurt PROVE Progress(q)'
      BY <1>1, <1>6 DEF Working
    <3>1. q \in UserPrograms /\ Busy(q)
      BY <1>2, <1>3, <2>1 DEF Busy, UserTypes
    <3>2. Progress(q)
      BY <3>1 DEF VpInv, Working
    <3> QED BY <1>1, <1>6, <2>1, <3>1, <3>2 DEF Progress, Of
  <2>7. Tidy'
    BY <1>1, <1>6 DEF VpInv, Tidy, Of
  <2>8. Sure'
    BY <1>1, <1>2, <1>6, <2>1 DEF VpInv, Sure, Of, Busy
  <2> QED BY <2>2, <2>3, <2>4, <2>5, <2>6, <2>7, <2>8 DEF VpInv
<1>7. CASE vp_job[p].op = "del"
  <2>1. Users!Go(p, "backfill") /\ UNCHANGED Users!ghosts
    BY <1>7 DEF Users!Unlock
  <2> QED BY <1>6, <1>7, <2>1 DEF Users!Go, Users!ghosts
<1>8. CASE vp_job[p].op = "add"
  <2>1. Users!Go(p, "default") /\ UNCHANGED Users!ghosts
    BY <1>8 DEF Users!Unlock
  <2> QED BY <1>6, <1>8, <2>1 DEF Users!Go, Users!ghosts
<1>9. CASE vp_job[p].op \notin {"add", "del"}
  <2>1. Users!Done(p)
    BY <1>9 DEF Users!Unlock
  <2>2. Ending(p, {vp_job[p].rec.pw}) /\ crowd' = crowd
    BY <1>2, <1>3, <1>9, <2>1, DoneEnds
  <2>3. \A q \in UserPrograms : vp_pc'[q] = IF q = p THEN "end" ELSE vp_pc[q]
    BY <1>3, <2>2 DEF UserTypes, Ending
  <2>4. UserTypes'
    BY <1>1, <1>2, <1>3, <2>2, EndTypes DEF UserTypes
  <2>5. OneWriter'
    BY <1>4, <2>3 DEF OneWriter, Locked
  <2>6. Compiled'
    BY <1>1, <2>2, <2>3 DEF VpInv, Compiled, Of, Ending
  <2>7. Overlaps'
    BY <1>1, <1>2, <1>3, <2>2, EndOverlaps
  <2>8. Working'
    <3> SUFFICES ASSUME NEW q \in alone, Busy(q)', vp_job[q].user \notin hurt PROVE Progress(q)'
      BY <1>1, <2>2 DEF Working, Ending
    <3>1. q \in UserPrograms /\ Busy(q) /\ vp_pc'[q] = vp_pc[q]
      BY <1>3, <2>3 DEF Busy, Idle, UserTypes
    <3>2. Progress(q)
      BY <3>1 DEF VpInv, Working
    <3> QED BY <1>1, <2>2, <3>1, <3>2 DEF Progress, Of
  <2>9. Tidy'
    BY <1>1, <2>2 DEF VpInv, Tidy, Of, Ending
  <2>10. Sure'
    <3>1. ASSUME vp_job[p].user \notin hurt, sure'[vp_job[p].user].known
          PROVE  {r.pw : r \in Of(vpasswd, vp_job[p].user)} = {vp_job[p].rec.pw}
      <4>1. Of(vpasswd, vp_job[p].user) = {vp_job[p].rec}
        BY <1>1, <1>5, <1>9, <2>2, <3>1 DEF Ending, Progress
      <4> QED BY <4>1
    <3> QED BY <1>1, <1>2, <1>3, <2>2, <3>1, EndSure DEF VpInv
  <2> QED BY <2>4, <2>5, <2>6, <2>7, <2>8, <2>9, <2>10 DEF VpInv
<1> QED BY <1>7, <1>8, <1>9

LEMMA StepDefaultQuota ==
  ASSUME Users!VpasswdAssumption, VpInv, NEW p \in UserPrograms, Users!DefaultQuota(p)
  PROVE  VpInv'
<1>1. /\ vp_pc[p] = "default" /\ UNCHANGED <<vpasswd, vp_cdb, vp_lock, vp_dirs, ctl, free, vp_kills>>
  BY DEF Users!DefaultQuota, Users!files, Users!places
<1>2. Busy(p) /\ vp_job[p].user \in Names /\ vp_job[p].op = "add"
  BY <1>1 DEF Busy, Idle, VpInv, UserTypes
<1>3. UserTypes /\ Overlaps
  BY DEF VpInv
<1>4. p \in alone /\ vp_job[p].user \notin hurt => Progress(p)
  BY <1>2 DEF VpInv, Working
<1>5. CASE Of(vp_cdb, vp_job[p].user) = {}
  <2>1. Users!Done(p) /\ vp_job' = vp_job
    BY <1>5 DEF Users!DefaultQuota, Of
  <2>2. Ending(p, {vp_job[p].rec.pw}) /\ crowd' = crowd
    BY <1>2, <1>3, <2>1, DoneEnds
  <2>3. \A q \in UserPrograms : vp_pc'[q] = IF q = p THEN "end" ELSE vp_pc[q]
    BY <1>3, <2>2 DEF UserTypes, Ending
  <2>4. UserTypes'
    BY <1>1, <1>2, <1>3, <2>1, <2>2, EndTypes DEF UserTypes
  <2>5. OneWriter'
    BY <1>1, <2>3 DEF VpInv, OneWriter, Locked
  <2>6. Compiled'
    BY <1>1, <2>1, <2>2, <2>3 DEF VpInv, Compiled, Of, Ending
  <2>7. Overlaps'
    BY <1>1, <1>2, <1>3, <2>1, <2>2, EndOverlaps
  <2>8. Working'
    <3> SUFFICES ASSUME NEW q \in alone, Busy(q)', vp_job[q].user \notin hurt PROVE Progress(q)'
      BY <2>1, <2>2 DEF Working, Ending
    <3>1. q \in UserPrograms /\ Busy(q) /\ vp_pc'[q] = vp_pc[q]
      BY <1>3, <2>3 DEF Busy, Idle, UserTypes
    <3>2. Progress(q)
      BY <3>1 DEF VpInv, Working
    <3> QED BY <1>1, <2>1, <2>2, <3>1, <3>2 DEF Progress, Of
  <2>9. Tidy'
    BY <1>1, <2>2 DEF VpInv, Tidy, Of, Ending
  <2>10. Sure'
    <3>1. ASSUME vp_job[p].user \notin hurt, sure'[vp_job[p].user].known
          PROVE  {r.pw : r \in Of(vpasswd, vp_job[p].user)} = {vp_job[p].rec.pw}
      <4>1. Of(vpasswd, vp_job[p].user) = {vp_job[p].rec}
        BY <1>1, <1>2, <1>4, <2>2, <3>1 DEF Ending, Progress
      <4> QED BY <4>1
    <3> QED BY <1>1, <1>2, <1>3, <2>1, <2>2, <3>1, EndSure DEF VpInv
  <2> QED BY <2>4, <2>5, <2>6, <2>7, <2>8, <2>9, <2>10 DEF VpInv
<1>6. CASE Of(vp_cdb, vp_job[p].user) # {}
  <2>1. PICK r \in Of(vp_cdb, vp_job[p].user) : vp_job' = [vp_job EXCEPT ![p].op = "quota", ![p].rec = r]
    BY <1>6 DEF Users!DefaultQuota, Of
  <2>2. vp_pc' = [vp_pc EXCEPT ![p] = "lock"] /\ UNCHANGED <<alone, crowd, hurt, sure>>
    BY <1>6 DEF Users!DefaultQuota, Of, Users!Go, Users!ghosts
  <2>3. /\ r \in Record /\ r.user = vp_job[p].user
        /\ r \in [user : Names \cup {"none"}, pw : UserPrograms \cup {"none"}, dir : Int]
    BY <1>3 DEF UserTypes, Record, Of
  <2> DEFINE j == [vp_job[p] EXCEPT !.op = "quota", !.rec = r]
  <2>4. vp_job' = [vp_job EXCEPT ![p] = j]
    BY <2>1, <1>3 DEF UserTypes
  <2>5. j \in Job
    <3>1. vp_job[p] \in Job
      BY <1>3, JobType
    <3> QED BY <2>3, <3>1, JobWith
  <2>6. j.op = "quota" /\ j.rec = r /\ j.user = vp_job[p].user
    BY <1>3, JobType DEF Job
  <2> HIDE DEF j
  <2>7. /\ vp_job'[p] = j /\ vp_job' \in [UserPrograms -> Job]
        /\ \A q \in UserPrograms : q # p => vp_job'[q] = vp_job[q]
    BY <1>3, <2>4, <2>5 DEF UserTypes
  <2>8. \A q \in UserPrograms : vp_pc'[q] = IF q = p THEN "lock" ELSE vp_pc[q]
    BY <1>3, <2>2 DEF UserTypes
  <2>9. \A q \in UserPrograms : (Busy(q)' <=> Busy(q)) /\ vp_job'[q].user = vp_job[q].user
    BY <1>2, <2>6, <2>7, <2>8 DEF Busy, Idle
  <2>10. UserTypes'
    <3>1. ASSUME NEW q \in UserPrograms
          PROVE  /\ Busy(q)' => vp_job'[q].user \in Names
                 /\ vp_pc'[q] \in {"hash", "close", "mkdir", "default"} => vp_job'[q].op = "add"
                 /\ vp_pc'[q] \in {"backfill", "remove"} => vp_job'[q].op = "del"
                 /\ vp_pc'[q] \in {"lock"} \cup Locked => vp_job'[q].op # "none"
                 /\ vp_pc'[q] \in {"lock", "write"} =>
                      vp_job'[q].rec \in Record /\ vp_job'[q].rec.user = vp_job'[q].user
      <4>1. CASE q = p
        BY <1>2, <2>3, <2>6, <2>7, <2>8, <4>1 DEF Locked
      <4>2. CASE q # p
        BY <1>3, <2>7, <2>8, <2>9, <4>2 DEF UserTypes
      <4> QED BY <4>1, <4>2
    <3>2. vp_pc' \in [UserPrograms -> Idle \cup Locked \cup
              {"refuse", "hash", "close", "mkdir", "lock", "default", "backfill", "remove"}]
      BY <1>3, <2>2 DEF UserTypes
    <3> QED BY <1>1, <1>3, <2>2, <2>7, <3>1, <3>2 DEF UserTypes, Locked
  <2>11. OneWriter'
    BY <1>1, <2>8 DEF VpInv, OneWriter, Locked
  <2>12. Compiled'
    BY <1>1, <2>2, <2>8, <2>9 DEF VpInv, Compiled, Of
  <2>13. Overlaps'
    BY <2>2, <2>8, <2>9 DEF VpInv, Overlaps
  <2>14. Working'
    <3> SUFFICES ASSUME NEW q \in alone, Busy(q)', vp_job'[q].user \notin hurt PROVE Progress(q)'
      BY <2>2 DEF Working
    <3>1. q \in UserPrograms
      BY <1>3 DEF UserTypes
    <3>2. Busy(q) /\ vp_job[q].user \notin hurt
      BY <2>9, <3>1
    <3>3. Progress(q)
      BY <3>2 DEF VpInv, Working
    <3>4. CASE q = p
      <4>1. r \in Of(vpasswd, vp_job[p].user)
        BY <1>1, <1>3, <2>1, <3>2, <3>4, SameForHer DEF VpInv
      <4>2. vp_job[p].user \notin crowd => <<r.dir, vp_job[p].user>> \in vp_dirs
        BY <1>2, <3>2, <3>4, <4>1 DEF VpInv, Tidy
      <4> QED BY <1>1, <2>2, <2>6, <2>7, <2>8, <3>1, <3>4, <4>1, <4>2 DEF Progress, Of
    <3>5. CASE q # p
      BY <1>1, <2>2, <2>7, <2>8, <3>1, <3>3, <3>5 DEF Progress, Of
    <3> QED BY <3>4, <3>5
  <2>15. Tidy'
    BY <1>1, <2>2 DEF VpInv, Tidy, Of
  <2>16. Sure'
    BY <1>1, <2>2, <2>9 DEF VpInv, Sure, Of
  <2> QED BY <2>10, <2>11, <2>12, <2>13, <2>14, <2>15, <2>16 DEF VpInv
<1> QED BY <1>5, <1>6

LEMMA StepFreePlace ==
  ASSUME Users!VpasswdAssumption, VpInv, NEW p \in UserPrograms, Users!FreePlace(p)
  PROVE  VpInv'
<1> USE DEF Users!FreePlace, Users!Go, Users!files, Users!places, Users!ghosts, Users!Fails, Users!Done, Users!End, Users!Unsaid, VpInv
<1>1. UserTypes'
  BY DEF UserTypes, Busy, Idle, Locked, Job
<1>2. OneWriter'
  BY DEF OneWriter, UserTypes, Locked, Idle, Busy
<1>3. Compiled'
  BY DEF Compiled, UserTypes, Idle, Of, Locked, Busy
<1>4. Overlaps'
  BY DEF Overlaps, UserTypes, Busy, Idle, Locked, Users!On
<1>5. Working'
  BY DEF Working, Progress, UserTypes, Busy, Idle, Locked, Overlaps, Of, Users!Place
<1>6. Tidy'
  BY DEF Tidy, Working, Progress, Overlaps, Busy, Idle, UserTypes, Of, Users!Place
<1>7. Sure'
  BY DEF Sure, Working, Progress, Overlaps, Busy, Idle, UserTypes, Of
<1> QED BY <1>1, <1>2, <1>3, <1>4, <1>5, <1>6, <1>7

LEMMA StepRemoveDir ==
  ASSUME Users!VpasswdAssumption, VpInv, NEW p \in UserPrograms, Users!RemoveDir(p)
  PROVE  VpInv'
<1>1. /\ vp_pc[p] = "remove" /\ Users!Done(p) /\ UNCHANGED <<vpasswd, vp_cdb, vp_lock, ctl, free, vp_job, vp_kills>>
      /\ vp_dirs' = vp_dirs \ {<<vp_job[p].rec.dir, vp_job[p].user>>}
  BY DEF Users!RemoveDir, Users!files
<1>2. Busy(p) /\ vp_job[p].user \in Names /\ vp_job[p].op = "del"
  BY <1>1 DEF Busy, Idle, VpInv, UserTypes
<1>3. UserTypes /\ Overlaps
  BY DEF VpInv
<1>4. /\ Ending(p, {})
      /\ crowd' = IF p \in alone THEN crowd \ {vp_job[p].user} ELSE crowd
  BY <1>1, <1>2, <1>3, DoneEnds
<1>5. \A q \in UserPrograms : vp_pc'[q] = IF q = p THEN "end" ELSE vp_pc[q]
  BY <1>3, <1>4 DEF UserTypes, Ending
<1>6. p \in alone /\ vp_job[p].user \notin hurt =>
        Of(vpasswd, vp_job[p].user) = {} /\ Of(vp_cdb, vp_job[p].user) = {}
  <2> HAVE p \in alone /\ vp_job[p].user \notin hurt
  <2>1. Of(vpasswd, vp_job[p].user) = {}
    BY <1>1, <1>2 DEF VpInv, Working, Progress
  <2> QED BY <1>1, <1>2, <1>3, <2>1, SameForHer DEF VpInv
<1>7. UserTypes'
  BY <1>1, <1>2, <1>3, <1>4, EndTypes DEF UserTypes
<1>8. OneWriter'
  BY <1>1, <1>5 DEF VpInv, OneWriter, Locked
<1>9. Compiled'
  BY <1>1, <1>4, <1>5 DEF VpInv, Compiled, Of, Ending
<1>10. Overlaps'
  BY <1>1, <1>2, <1>3, <1>4, EndOverlaps
<1>11. Working'
  <2> SUFFICES ASSUME NEW q \in alone, Busy(q)', vp_job[q].user \notin hurt PROVE Progress(q)'
    BY <1>1, <1>4 DEF Working, Ending
  <2>1. q \in UserPrograms /\ Busy(q) /\ q # p /\ vp_pc'[q] = vp_pc[q]
    BY <1>3, <1>5 DEF Busy, Idle, UserTypes
  <2>2. Progress(q)
    BY <2>1 DEF VpInv, Working
  <2>3. vp_job[q].user # vp_job[p].user
    BY <1>2, <1>3, <2>1 DEF Overlaps
  <2>4. vp_job[q].user \in crowd' <=> vp_job[q].user \in crowd
    BY <1>4, <2>3
  <2>5. \A d : <<d, vp_job[q].user>> \in vp_dirs => <<d, vp_job[q].user>> \in vp_dirs'
    BY <1>1, <2>3
  <2> QED BY <1>1, <2>1, <2>2, <2>4, <2>5 DEF Progress, Of
<1>12. Tidy'
  <2> SUFFICES ASSUME NEW u \in Names \ (hurt \cup crowd')
               PROVE  /\ \A r, s \in Of(vpasswd, u) : r = s
                      /\ \A r \in Of(vpasswd, u) \cup Of(vp_cdb, u) : <<r.dir, u>> \in vp_dirs'
    BY <1>1, <1>4 DEF Tidy, Ending, Of
  <2>1. CASE u = vp_job[p].user
    <3>1. p \in alone
      BY <1>2, <1>3, <1>4, <2>1 DEF Overlaps
    <3> QED BY <1>6, <2>1, <3>1
  <2>2. CASE u # vp_job[p].user
    <3>1. u \notin crowd
      BY <1>4, <2>2
    <3> QED BY <1>1, <2>2, <3>1 DEF VpInv, Tidy
  <2> QED BY <2>1, <2>2
<1>13. Sure'
  <2>1. ASSUME vp_job[p].user \notin hurt, sure'[vp_job[p].user].known
        PROVE  {r.pw : r \in Of(vpasswd, vp_job[p].user)} = {}
    BY <1>4, <1>6, <2>1 DEF Ending
  <2> QED BY <1>1, <1>2, <1>3, <1>4, <2>1, EndSure DEF VpInv
<1> QED BY <1>7, <1>8, <1>9, <1>10, <1>11, <1>12, <1>13 DEF VpInv

LEMMA StepKill ==
  ASSUME Users!VpasswdAssumption, VpInv, NEW p \in UserPrograms, Users!Kill(p)
  PROVE  VpInv'
<1> USE DEF Users!Kill, Users!Go, Users!files, Users!places, Users!ghosts, Users!Fails, Users!Done, Users!End, Users!Unsaid, VpInv
<1>1. UserTypes'
  BY DEF UserTypes, Busy, Idle, Locked, Job
<1>2. OneWriter'
  BY DEF OneWriter, UserTypes, Locked, Idle, Busy
<1>3. Compiled'
  BY DEF Compiled, UserTypes, Idle, Of, Locked, Busy
<1>4. Overlaps'
  BY DEF Overlaps, UserTypes, Busy, Idle, Locked, Users!On
<1>5. Working'
  BY DEF Working, Progress, UserTypes, Busy, Idle, Locked, Overlaps, Of, Users!Place
<1>6. Tidy'
  BY DEF Tidy, Working, Progress, Overlaps, Busy, Idle, UserTypes, Of, Users!Place
<1>7. Sure'
  BY DEF Sure, Working, Progress, Overlaps, Busy, Idle, UserTypes, Of
<1> QED BY <1>1, <1>2, <1>3, <1>4, <1>5, <1>6, <1>7

LEMMA VpInit ==
  ASSUME Users!VpasswdAssumption, Users!Init
  PROVE  VpInv
<1> USE DEF Users!Init
<1>1. Users!NoJob \in Job /\ 0 \in Int
  BY NoJobType
<1>2. UserTypes
  BY <1>1 DEF UserTypes, Busy, Idle, Locked
<1>3. OneWriter /\ Compiled /\ Overlaps /\ Working /\ Tidy
  BY DEF OneWriter, Compiled, Overlaps, Working, Tidy, Of, Busy, Idle, Locked
<1>4. Sure
  BY DEF Sure, Of, Busy, Idle
<1> QED BY <1>2, <1>3, <1>4 DEF VpInv

LEMMA VpNext ==
  ASSUME Users!VpasswdAssumption, VpInv, Users!Next \/ UNCHANGED vpVars
  PROVE  VpInv'
<1>1. CASE UNCHANGED vpVars
  BY <1>1 DEF vpVars, VpInv, UserTypes, OneWriter, Compiled, Overlaps, Working, Progress, Tidy, Sure, Of, Busy, Idle, Locked
<1>2. CASE Users!Next
  <2> SUFFICES ASSUME NEW p \in UserPrograms,
        \/ Users!Start(p) \/ Users!Refuse(p) \/ Users!Backfill(p) \/ Users!OpenBigDir(p) \/ Users!CloseBigDir(p)
        \/ Users!MakeUserDir(p) \/ Users!Lock(p) \/ Users!Busy(p) \/ Users!Rewrite(p) \/ Users!MakeCdb(p)
        \/ Users!Unlock(p) \/ Users!DefaultQuota(p) \/ Users!FreePlace(p) \/ Users!RemoveDir(p) \/ Users!Kill(p)
               PROVE  VpInv'
    BY <1>2 DEF Users!Next
  <2> QED BY StepStart, StepRefuse, StepBackfill, StepOpenBigDir, StepCloseBigDir, StepMakeUserDir, StepLock,
             StepBusy, StepRewrite, StepMakeCdb, StepUnlock, StepDefaultQuota, StepFreePlace, StepRemoveDir, StepKill
<1> QED BY <1>1, <1>2

LEMMA VpSays ==
  ASSUME VpInv
  PROVE  Users!SaidIsSo /\ Users!CdbFresh /\ Users!DirOfRecord
<1>1. ASSUME NEW u \in Names \ hurt, sure[u].known PROVE Of(vp_cdb, u) = Of(vpasswd, u)
  BY <1>1 DEF VpInv, Sure, Compiled, Busy, Idle
<1>2. Users!SaidIsSo
  BY <1>1 DEF Users!SaidIsSo, VpInv, Sure, Of
<1>3. Users!CdbFresh
  BY DEF Users!CdbFresh, VpInv, Compiled, OneWriter, Locked
<1>4. Users!DirOfRecord
  BY DEF Users!DirOfRecord, VpInv, Tidy, Of
<1> QED BY <1>2, <1>3, <1>4

-----------------------------------------------------------------------------
(* The quota of a mailbox *)

Counting == {"count_cur", "rename", "look_again"}
Checking == {"check", "count_new"} \cup Counting
Accounting == {"account", "account_warning"}
Sending == {"stamp", "send_warning", "account_warning"}
Still == {"idle", "end", "refused"}
Active(p) == quota_pc[p] \notin Still

CountFile == [sum : Nat, lines : Nat \ {0}, time : Nat, since : Int]
CountJob == [extra : {0, 1}, then : {"end", "add", "percent", "deliver", "refused"}, n : Nat, max : Nat,
             fd : Nat, since : Int]
Points == Still \cup Checking \cup Accounting \cup Sending \cup {"add", "warn", "refuse", "deliver"}

(* When there is no room now, and that a file of one line that finds none is  *)
(* right since its count began.                                              *)
MailboxIs(k) ==
  /\ new \in Nat /\ cur = 0 /\ stamp \in [new : Nat, cur : {0}]
  /\ files \in Seq(CountFile) /\ here \in 0..Len(files)
  /\ clock \in Nat /\ full \in Int /\ full <= clock /\ warnings \in Nat
  /\ quota_warned \in BOOLEAN /\ twice \in BOOLEAN
  /\ k.quota < new + 1 => full = clock
  /\ \A i \in 1..Len(files) : files[i].lines = 1 /\ k.quota < files[i].sum + 1 => full >= files[i].since

(* Where a program is and what it holds: a count that finds no room is right  *)
(* since it began.                                                           *)
Fits(k, at, j) ==
  /\ j.fd <= Len(files)
  /\ at \in {"add", "look_again"} => j.fd # 0
  /\ at \in Checking => j.then \in {"end", "add", "percent"} /\ (j.then = "add" <=> j.extra = 1)
  /\ at \in Sending => j.then \in {"deliver", "refused"}
  /\ at \in Counting /\ k.quota < j.n + 1 => full >= j.since
  /\ at \in Accounting /\ k.quota < 2 => full >= j.since
  /\ at = "refuse" => full >= j.since

(* One program alone: there is room for the message that it brings, the sum  *)
(* is not too small, and a warning is kept in mind before it is sent.        *)
Brings(at, then) ==
  \/ at \in {"add", "warn", "deliver"}
  \/ at \in Checking /\ then = "percent"
  \/ at \in Sending /\ then = "deliver"
HasRoom(k, at, j) ==
  /\ Brings(at, j.then) => new - warnings < k.quota
  /\ at \in Counting => j.n >= new /\ (stamp.new # j.max => new - warnings < k.quota)
  /\ at \notin Still /\ (at \notin Checking \/ at = "look_again" \/ j.then = "percent") => here # 0
  /\ here # 0 => files[here].sum + (IF at \in Accounting THEN 1 ELSE 0) >= new
  /\ at = "stamp" => ~quota_warned
  /\ at = "send_warning" => quota_warned /\ warnings = 0
OneByOne(k) ==
  /\ \A p, q \in k.programs : Active(p) /\ Active(q) => p = q
  /\ new - warnings <= k.quota
  /\ (\A p \in k.programs : ~Active(p)) /\ here # 0 => files[here].sum >= new
  /\ \A p \in k.programs : Active(p) => HasRoom(k, quota_pc[p], quota_job[p])
  /\ ~quota_warned => warnings = 0
  /\ ~twice

MailboxInv(k) ==
  /\ MailboxIs(k) /\ quota_pc \in [k.programs -> Points] /\ quota_job \in [k.programs -> CountJob]
  /\ \A p \in k.programs : Fits(k, quota_pc[p], quota_job[p])
  /\ k.alone => OneByOne(k)

LEMMA QuotaConstants ==
  ASSUME NEW k, Mailbox(k)!QuotaAssumption
  PROVE  k.quota \in Nat /\ k.window \in Nat
BY DEF Mailbox!QuotaAssumption

LEMMA AFile ==
  ASSUME NEW S \in Seq(CountFile), NEW i \in 0..Len(S), i # 0
  PROVE  /\ i \in 1..Len(S) /\ S[i] \in CountFile /\ S[i].sum \in Nat /\ S[i].lines \in Nat \ {0}
         /\ S[i].time \in Nat /\ S[i].since \in Int
<1>1. i \in 1..Len(S)
  OBVIOUS
<1>2. S[i] \in CountFile
  BY <1>1
<1> QED BY <1>1, <1>2 DEF CountFile

LEMMA ACountJob ==
  ASSUME NEW j \in CountJob
  PROVE  /\ j.extra \in {0, 1} /\ j.n \in Nat /\ j.max \in Nat /\ j.fd \in Nat /\ j.since \in Int
         /\ j.then \in {"end", "add", "percent", "deliver", "refused"}
BY DEF CountJob

LEMMA AMailbox ==
  ASSUME NEW k, MailboxInv(k)
  PROVE  /\ MailboxIs(k) /\ new \in Nat /\ warnings \in Nat /\ clock \in Nat /\ full \in Int /\ full <= clock
         /\ Len(files) \in Nat /\ files \in Seq(CountFile) /\ here \in 0..Len(files) /\ cur = 0
         /\ stamp \in [new : Nat, cur : {0}] /\ stamp.new \in Nat /\ stamp.cur = 0
         /\ Len(files) >= Len(files) /\ full >= full
         /\ quota_pc \in [k.programs -> Points] /\ quota_job \in [k.programs -> CountJob]
         /\ k.quota < new + 1 => full = clock
         /\ quota_warned \in BOOLEAN /\ twice \in BOOLEAN
         /\ \A i \in 1..Len(files) : files[i].lines = 1 /\ k.quota < files[i].sum + 1 => full >= files[i].since
<1>1. MailboxIs(k)
  BY DEF MailboxInv
<1>2. Len(files) \in Nat
  BY <1>1 DEF MailboxIs
<1> QED BY <1>1, <1>2 DEF MailboxInv, MailboxIs

LEMMA MailboxHas ==
  ASSUME NEW k, MailboxInv(k), NEW p \in k.programs
  PROVE  /\ quota_pc[p] \in Points /\ quota_job[p] \in CountJob /\ Fits(k, quota_pc[p], quota_job[p])
         /\ k.alone => /\ new - warnings <= k.quota /\ (~quota_warned => warnings = 0) /\ ~twice
         /\ k.alone /\ Active(p) => /\ \A q \in k.programs : q # p => ~Active(q)
                                    /\ HasRoom(k, quota_pc[p], quota_job[p])
BY DEF MailboxInv, OneByOne

(* A step of one program: its own part, and the mailbox, are what matters. *)
LEMMA MailboxStep ==
  ASSUME NEW k, MailboxInv(k), NEW p \in k.programs, NEW next \in Points, NEW j \in CountJob,
         quota_pc' = [quota_pc EXCEPT ![p] = next], quota_job' = [quota_job EXCEPT ![p] = j],
         k.alone => \A q \in k.programs : q # p => ~Active(q),
         MailboxIs(k)', Len(files') >= Len(files), full' >= full, Fits(k, next, j)',
         k.alone => /\ new' - warnings' <= k.quota /\ (~quota_warned' => warnings' = 0) /\ ~twice'
                    /\ HasRoom(k, next, j)'
  PROVE  MailboxInv(k)'
<1>1. /\ quota_pc' \in [k.programs -> Points] /\ quota_job' \in [k.programs -> CountJob]
      /\ quota_pc'[p] = next /\ quota_job'[p] = j
      /\ \A q \in k.programs : q # p => quota_pc'[q] = quota_pc[q] /\ quota_job'[q] = quota_job[q]
  BY DEF MailboxInv
<1>2. ASSUME NEW q \in k.programs PROVE Fits(k, quota_pc[q], quota_job[q])'
  <2>1. CASE q = p
    BY <1>1, <2>1 DEF Fits
  <2>2. CASE q # p
    <3>1. /\ Fits(k, quota_pc[q], quota_job[q])
          /\ quota_job[q].fd \in Nat /\ quota_job[q].since \in Int
      BY ACountJob DEF MailboxInv
    <3>2. Len(files) \in Nat /\ full \in Int
      BY AMailbox
    <3>3. Len(files') \in Nat /\ full' \in Int
      BY DEF MailboxIs
    <3>4. quota_pc'[q] = quota_pc[q] /\ quota_job'[q] = quota_job[q]
      BY <1>1, <2>2
    <3>5. /\ quota_job[q].fd <= Len(files')
          /\ full >= quota_job[q].since => full' >= quota_job[q].since
      <4>1. quota_job[q].fd <= Len(files)
        BY <3>1 DEF Fits
      <4> QED BY <3>1, <3>2, <3>3, <4>1
    <3> QED BY <3>1, <3>4, <3>5 DEF Fits
  <2> QED BY <2>1, <2>2
<1>3. ASSUME k.alone PROVE OneByOne(k)'
  <2>1. \A q \in k.programs : q # p => ~Active(q)'
    BY <1>1, <1>3 DEF Active
  <2>2. ~Active(p)' /\ here' # 0 => files'[here'].sum >= new'
    <3> SUFFICES ASSUME next \in Still, here' # 0 PROVE files'[here'].sum >= new'
      BY <1>1 DEF Active
    <3>1. files'[here'].sum + 0 >= new'
      BY <1>3 DEF HasRoom, Accounting, Still
    <3>2. files'[here'].sum \in Nat
      <4>1. files' \in Seq(CountFile) /\ here' \in 0..Len(files') /\ here' # 0
        BY DEF MailboxIs
      <4> QED BY <4>1, AFile
    <3> QED BY <3>1, <3>2
  <2>3. \A q \in k.programs : Active(q)' => HasRoom(k, quota_pc[q], quota_job[q])'
    BY <1>1, <1>3, <2>1 DEF HasRoom
  <2> QED BY <1>3, <2>1, <2>2, <2>3 DEF OneByOne
<1> QED BY <1>1, <1>2, <1>3 DEF MailboxInv

LEMMA QuotaInit ==
  ASSUME NEW k, Mailbox(k)!QuotaAssumption, Mailbox(k)!Init
  PROVE  MailboxInv(k)
<1> USE QuotaConstants DEF Mailbox!Init
<1>1. Mailbox(k)!NoJob \in CountJob /\ Mailbox(k)!NoJob.fd = 0
  BY DEF Mailbox!NoJob, CountJob
<1>2. MailboxIs(k)
  <2>1. files = <<>> /\ files \in Seq(CountFile) /\ Len(files) = 0
    OBVIOUS
  <2>2. stamp \in [new : Nat, cur : {0}] /\ full \in Int /\ full <= clock /\ (k.quota < new + 1 => full = clock)
    OBVIOUS
  <2>3. \A i \in 1..Len(files) : files[i].lines = 1 /\ k.quota < files[i].sum + 1 => full >= files[i].since
    BY <2>1
  <2>4. /\ new \in Nat /\ cur = 0 /\ here \in 0..Len(files) /\ clock \in Nat /\ warnings \in Nat
        /\ quota_warned \in BOOLEAN /\ twice \in BOOLEAN
    <3>1. quota_warned = FALSE /\ twice = FALSE
      OBVIOUS
    <3>2. quota_warned \in BOOLEAN /\ twice \in BOOLEAN
      BY <3>1, Zenon
    <3> QED BY <2>1, <3>2
  <2> HIDE DEF Mailbox!Init
  <2> QED BY <2>1, <2>2, <2>3, <2>4 DEF MailboxIs
<1>3. quota_pc \in [k.programs -> Points] /\ quota_job \in [k.programs -> CountJob]
  BY <1>1 DEF Points, Still
<1>4. \A p \in k.programs : Fits(k, quota_pc[p], quota_job[p])
  <2> SUFFICES ASSUME NEW p \in k.programs PROVE Fits(k, quota_pc[p], quota_job[p])
    OBVIOUS
  <2>1. quota_pc[p] = "idle" /\ quota_job[p].fd = 0 /\ Len(files) = 0
    BY <1>1
  <2> HIDE DEF Mailbox!Init
  <2> QED BY <2>1 DEF Fits, Checking, Counting, Accounting, Sending
<1>5. OneByOne(k)
  BY DEF OneByOne, Active, Still
<1> QED BY <1>2, <1>3, <1>4, <1>5 DEF MailboxInv

LEMMA QuotaStart ==
  ASSUME NEW k, Mailbox(k)!QuotaAssumption, MailboxInv(k), NEW p \in k.programs, Mailbox(k)!Start(p)
  PROVE  MailboxInv(k)'
<1>1. /\ quota_pc[p] = "idle"
      /\ k.alone => \A q \in k.programs : ~Active(q)
      /\ quota_pc' = [quota_pc EXCEPT ![p] = "check"]
      /\ UNCHANGED <<new, cur, stamp, files, quota_warned, clock, full, warnings, twice>> /\ here' \in {0, here}
  BY DEF Mailbox!Start, Mailbox!Go, Mailbox!box, Mailbox!ghosts, Active, Still
<1>2. PICK j \in CountJob : /\ quota_job' = [quota_job EXCEPT ![p] = j] /\ j.fd = 0
                            /\ j.then \in {"end", "add"} /\ (j.then = "add" <=> j.extra = 1)
  <2>1. /\ Mailbox(k)!NoJob \in CountJob /\ Mailbox(k)!NoJob.fd = 0
        /\ Mailbox(k)!NoJob.then = "end" /\ Mailbox(k)!NoJob.extra = 0
    BY DEF Mailbox!NoJob, CountJob
  <2>2. \/ quota_job' = [quota_job EXCEPT ![p] = Mailbox(k)!NoJob]
        \/ quota_job' = [quota_job EXCEPT ![p] = [Mailbox(k)!NoJob EXCEPT !.extra = 1, !.then = "add"]]
    BY DEF Mailbox!Start
  <2> DEFINE none == Mailbox(k)!NoJob
  <2> HIDE DEF none
  <2> DEFINE j == [none EXCEPT !.extra = 1, !.then = "add"]
  <2>3. j \in CountJob /\ j.fd = 0 /\ j.then = "add" /\ j.extra = 1
    <3>1. none \in CountJob /\ none.fd = 0
      BY <2>1 DEF none
    <3> QED BY <3>1 DEF CountJob
  <2>4. quota_job' = [quota_job EXCEPT ![p] = none] \/ quota_job' = [quota_job EXCEPT ![p] = j]
    BY <2>2 DEF none
  <2>5. none \in CountJob /\ none.fd = 0 /\ none.then = "end" /\ none.extra = 0
    BY <2>1 DEF none
  <2> HIDE DEF j
  <2> QED BY <2>3, <2>4, <2>5
<1>3. MailboxIs(k)'
  BY <1>1 DEF MailboxInv, MailboxIs
<1>4. Fits(k, "check", j)'
  BY <1>1, <1>2, <1>3 DEF Fits, Checking, Counting, Accounting, Sending, MailboxIs
<1>5. k.alone => HasRoom(k, "check", j)'
  <2> SUFFICES ASSUME k.alone PROVE HasRoom(k, "check", j)'
    OBVIOUS
  <2>1. here # 0 => files[here].sum \in Nat
    BY AMailbox, AFile
  <2>2. here # 0 => files[here].sum >= new
    BY <1>1 DEF MailboxInv, OneByOne
  <2>3. new \in Nat
    BY AMailbox
  <2> QED BY <1>1, <1>2, <2>1, <2>2, <2>3 DEF HasRoom, Brings, Checking, Counting, Accounting, Sending, Still
<1>6. Len(files') >= Len(files) /\ full' >= full
  BY <1>1, AMailbox
<1>7. k.alone => new' - warnings' <= k.quota /\ (~quota_warned' => warnings' = 0) /\ ~twice'
  BY <1>1, MailboxHas
<1>8. "check" \in Points
  BY DEF Points, Checking
<1> QED BY <1>1, <1>2, <1>3, <1>4, <1>5, <1>6, <1>7, <1>8, MailboxStep

(* What a program decides after it has looked at a sum. *)
LEMMA Decides ==
  ASSUME NEW k, NEW p \in k.programs, quota_job[p].then \in {"end", "add", "percent"}, NEW over \in BOOLEAN, NEW n,
         Mailbox(k)!Decide(p, over, n)
  PROVE  \E next \in {"end", "refuse", "add", "warn", "deliver"} :
           /\ quota_pc' = [quota_pc EXCEPT ![p] = next]
           /\ next = "end" <=> quota_job[p].then = "end"
           /\ next \in {"add", "refuse"} <=> quota_job[p].then = "add"
           /\ next = "refuse" => over
           /\ next = "add" => ~over
           /\ next \in {"warn", "deliver"} <=> quota_job[p].then = "percent"
<1>1. CASE quota_job[p].then = "end"
  BY <1>1 DEF Mailbox!Decide, Mailbox!Go
<1>2. CASE quota_job[p].then = "add"
  BY <1>2 DEF Mailbox!Decide, Mailbox!Go
<1>3. CASE quota_job[p].then = "percent"
  BY <1>3 DEF Mailbox!Decide, Mailbox!Go
<1> QED BY <1>1, <1>2, <1>3

LEMMA QuotaCheck ==
  ASSUME NEW k, Mailbox(k)!QuotaAssumption, MailboxInv(k), NEW p \in k.programs, Mailbox(k)!Check(p)
  PROVE  MailboxInv(k)'
<1> DEFINE f == files[here]
           over == f.sum + quota_job[p].extra > k.quota
           begun == f.since + (IF 0 > clock - k.window - f.time THEN 0 ELSE clock - k.window - f.time)
<1>1. /\ quota_pc[p] = "check"
      /\ UNCHANGED <<new, cur, stamp, files, here, quota_warned, clock, full, warnings, twice>>
  BY DEF Mailbox!Check, Mailbox!box, Mailbox!size, Mailbox!ghosts
<1>2. IF here # 0 /\ (~over \/ (f.lines = 1 /\ clock < f.time + k.window))
      THEN /\ Mailbox(k)!Decide(p, over, f.sum)
           /\ quota_job' = [quota_job EXCEPT ![p].fd = IF over THEN 0 ELSE here, ![p].since = begun]
      ELSE /\ quota_pc' = [quota_pc EXCEPT ![p] = "count_new"]
           /\ quota_job' = [quota_job EXCEPT ![p].n = 0, ![p].max = 0]
  BY DEF Mailbox!Check, Mailbox!Over, Mailbox!Later, Mailbox!Go
<1>3. /\ quota_job[p] \in CountJob /\ Fits(k, "check", quota_job[p])
      /\ quota_job[p].then \in {"end", "add", "percent"} /\ (quota_job[p].then = "add" <=> quota_job[p].extra = 1)
      /\ k.alone => HasRoom(k, "check", quota_job[p])
      /\ k.alone => new - warnings <= k.quota /\ (~quota_warned => warnings = 0) /\ ~twice
      /\ k.alone => \A q \in k.programs : q # p => ~Active(q)
  BY <1>1, MailboxHas DEF Fits, Checking, Active, Still
<1>4. /\ MailboxIs(k) /\ MailboxIs(k)' /\ Len(files') >= Len(files) /\ full' >= full
      /\ k.alone => new' - warnings' <= k.quota /\ (~quota_warned' => warnings' = 0) /\ ~twice'
  BY <1>1, <1>3, AMailbox DEF MailboxIs
<1>5. /\ k.quota \in Nat /\ k.window \in Nat /\ clock \in Nat /\ Len(files) \in Nat /\ new \in Nat /\ warnings \in Nat
      /\ full \in Int /\ quota_job[p].extra \in {0, 1} /\ quota_job[p].fd \in Nat
  BY <1>3, AMailbox, ACountJob, QuotaConstants
<1>20. here # 0 => /\ here \in 1..Len(files) /\ f.sum \in Nat /\ f.time \in Nat /\ f.since \in Int
                   /\ f.lines = 1 /\ k.quota < f.sum + 1 => full >= f.since
  BY AMailbox, AFile
<1>6. CASE here # 0 /\ (~over \/ (f.lines = 1 /\ clock < f.time + k.window))
  <2>1. PICK next \in {"end", "refuse", "add", "warn", "deliver"} :
           /\ quota_pc' = [quota_pc EXCEPT ![p] = next]
           /\ next = "end" <=> quota_job[p].then = "end"
           /\ next \in {"add", "refuse"} <=> quota_job[p].then = "add"
           /\ next = "refuse" => over
           /\ next = "add" => ~over
           /\ next \in {"warn", "deliver"} <=> quota_job[p].then = "percent"
    <3>1. over \in BOOLEAN
      OBVIOUS
    <3> HIDE DEF over
    <3>2. Mailbox(k)!Decide(p, over, f.sum)
      BY <1>2, <1>6
    <3> QED BY <1>3, <3>1, <3>2, Decides
  <2>2. begun \in Int /\ (over => begun = f.since)
    BY <1>5, <1>6, <1>20
  <2>3. PICK j \in CountJob :
           /\ quota_job' = [quota_job EXCEPT ![p] = j] /\ j.fd = (IF over THEN 0 ELSE here) /\ j.since = begun
           /\ j.then = quota_job[p].then /\ j.extra = quota_job[p].extra /\ j.n = quota_job[p].n /\ j.max = quota_job[p].max
    <3> DEFINE fd == IF over THEN 0 ELSE here
               j == [quota_job[p] EXCEPT !.fd = fd, !.since = begun]
    <3>1. fd \in Nat
      BY <1>5, <1>6, <1>20
    <3>2. quota_job' = [quota_job EXCEPT ![p].fd = fd, ![p].since = begun]
      BY <1>2, <1>6
    <3> HIDE DEF fd, begun, over, f
    <3>3. quota_job' = [quota_job EXCEPT ![p] = j]
      BY <3>2 DEF MailboxInv
    <3>4. /\ j \in CountJob /\ j.fd = fd /\ j.since = begun
          /\ j.then = quota_job[p].then /\ j.extra = quota_job[p].extra /\ j.n = quota_job[p].n /\ j.max = quota_job[p].max
      BY <1>3, <2>2, <3>1 DEF CountJob
    <3> QED BY <3>3, <3>4 DEF fd
  <2>4. over => f.lines = 1 /\ full >= f.since
    <3> HAVE over
    <3>1. f.lines = 1 /\ k.quota < f.sum + 1
      BY <1>5, <1>6, <1>20
    <3> QED BY <1>6, <1>20, <3>1
  <2>5. Fits(k, next, j)'
    <3>1. j.fd <= Len(files) /\ (next = "add" => j.fd # 0)
      BY <1>5, <1>6, <1>20, <2>1, <2>3
    <3>2. next = "refuse" => full >= j.since
      BY <2>1, <2>2, <2>3, <2>4
    <3> QED BY <1>1, <3>1, <3>2 DEF Fits, Checking, Counting, Accounting, Sending
  <2>6. k.alone => HasRoom(k, next, j)'
    <3> SUFFICES ASSUME k.alone PROVE HasRoom(k, next, j)'
      OBVIOUS
    <3>1. f.sum \in Nat /\ f.sum >= new
      BY <1>3, <1>5, <1>6, <1>20 DEF HasRoom, Accounting
    <3>2. next = "add" => new - warnings < k.quota
      BY <1>3, <1>5, <2>1, <3>1
    <3>3. next \in {"warn", "deliver"} => new - warnings < k.quota
      BY <1>3, <2>1 DEF HasRoom, Brings, Checking
    <3>4. Brings(next, j.then) => new - warnings < k.quota
      BY <2>1, <3>2, <3>3 DEF Brings, Checking, Counting, Sending
    <3>5. next \notin Counting \cup Accounting \cup {"stamp", "send_warning"}
      BY DEF Counting, Accounting
    <3>6. f.sum + (IF next \in Accounting THEN 1 ELSE 0) >= new
      <4>1. f.sum + 0 >= new
        BY <3>1, <1>5
      <4>2. next \notin Accounting
        BY <3>5
      <4> HIDE DEF f
      <4> QED BY <4>1, <4>2
    <3> HIDE DEF f
    <3> QED BY <1>1, <1>6, <3>4, <3>5, <3>6 DEF HasRoom, f
  <2>7. next \in Points
    BY DEF Points, Still
  <2> QED BY <1>3, <1>4, <2>1, <2>3, <2>5, <2>6, <2>7, MailboxStep
<1>7. CASE ~(here # 0 /\ (~over \/ (f.lines = 1 /\ clock < f.time + k.window)))
  <2>1. PICK j \in CountJob :
           /\ quota_job' = [quota_job EXCEPT ![p] = j] /\ j.fd = quota_job[p].fd
           /\ j.then = quota_job[p].then /\ j.extra = quota_job[p].extra
    <3> DEFINE j == [quota_job[p] EXCEPT !.n = 0, !.max = 0]
    <3>1. quota_job' = [quota_job EXCEPT ![p] = j]
      BY <1>2, <1>7 DEF MailboxInv
    <3>2. j \in CountJob /\ j.fd = quota_job[p].fd /\ j.then = quota_job[p].then /\ j.extra = quota_job[p].extra
      BY <1>3 DEF CountJob
    <3> QED BY <3>1, <3>2
  <2>2. quota_pc' = [quota_pc EXCEPT ![p] = "count_new"]
    BY <1>2, <1>7
  <2>3. Fits(k, "count_new", j)'
    BY <1>1, <1>3, <2>1 DEF Fits, Checking, Counting, Accounting, Sending
  <2>4. k.alone => HasRoom(k, "count_new", j)'
    BY <1>1, <1>3, <2>1 DEF HasRoom, Brings, Checking, Counting, Accounting, Sending, Still
  <2>5. "count_new" \in Points
    BY DEF Points, Checking
  <2> QED BY <1>3, <1>4, <2>1, <2>2, <2>3, <2>4, <2>5, MailboxStep
<1> QED BY <1>6, <1>7

LEMMA QuotaCountNew ==
  ASSUME NEW k, Mailbox(k)!QuotaAssumption, MailboxInv(k), NEW p \in k.programs, Mailbox(k)!CountNew(p)
  PROVE  MailboxInv(k)'
<1>1. /\ quota_pc[p] = "count_new" /\ quota_pc' = [quota_pc EXCEPT ![p] = "count_cur"]
      /\ quota_job' = [quota_job EXCEPT ![p].n = new, ![p].max = stamp.new, ![p].since = clock]
      /\ UNCHANGED <<new, cur, stamp, files, here, quota_warned, clock, full, warnings, twice>>
  BY DEF Mailbox!CountNew, Mailbox!Go, Mailbox!box, Mailbox!size, Mailbox!ghosts
<1>2. /\ quota_job[p] \in CountJob /\ Fits(k, "count_new", quota_job[p])
      /\ k.alone => HasRoom(k, "count_new", quota_job[p])
      /\ k.alone => new - warnings <= k.quota /\ (~quota_warned => warnings = 0) /\ ~twice
      /\ k.alone => \A q \in k.programs : q # p => ~Active(q)
  BY <1>1, MailboxHas DEF Active, Still
<1>3. /\ new \in Nat /\ stamp.new \in Nat /\ clock \in Int /\ (k.quota < new + 1 => full = clock) /\ full \in Int
  BY AMailbox
<1>4. PICK j \in CountJob :
        /\ quota_job' = [quota_job EXCEPT ![p] = j]
        /\ j.n = new /\ j.max = stamp.new /\ j.since = clock
        /\ j.fd = quota_job[p].fd /\ j.then = quota_job[p].then /\ j.extra = quota_job[p].extra
  <2> DEFINE max == stamp.new
             j == [quota_job[p] EXCEPT !.n = new, !.max = max, !.since = clock]
  <2> HIDE DEF max
  <2>1. quota_job' = [quota_job EXCEPT ![p] = j]
    BY <1>1 DEF MailboxInv, max
  <2>2. max \in Nat
    BY <1>3 DEF max
  <2>3. /\ j \in CountJob /\ j.n = new /\ j.max = max /\ j.since = clock
        /\ j.fd = quota_job[p].fd /\ j.then = quota_job[p].then /\ j.extra = quota_job[p].extra
    BY <1>2, <1>3, <2>2 DEF CountJob
  <2> QED BY <2>1, <2>3 DEF max
<1>5. Fits(k, "count_cur", j)'
  <2>1. /\ j.fd <= Len(files) /\ j.then \in {"end", "add", "percent"} /\ (j.then = "add" <=> j.extra = 1)
        /\ k.quota < j.n + 1 => full >= j.since
    <3>1. quota_job[p].fd <= Len(files) /\ quota_job[p].then \in {"end", "add", "percent"}
          /\ (quota_job[p].then = "add" <=> quota_job[p].extra = 1)
      BY <1>2 DEF Fits, Checking
    <3>2. k.quota < j.n + 1 => full >= j.since
      BY <1>3, <1>4
    <3> QED BY <1>4, <3>1, <3>2
  <2> QED BY <1>1, <2>1 DEF Fits, Accounting, Sending
<1>6. k.alone => HasRoom(k, "count_cur", j)'
  <2> SUFFICES ASSUME k.alone PROVE HasRoom(k, "count_cur", j)'
    OBVIOUS
  <2>1. /\ here # 0 => files[here].sum + 0 >= new
        /\ j.then = "percent" => here # 0 /\ new - warnings < k.quota
    BY <1>2, <1>4 DEF HasRoom, Brings, Checking, Accounting, Still
  <2>2. j.n >= new /\ stamp.new = j.max
    BY <1>3, <1>4
  <2> QED BY <1>1, <2>1, <2>2 DEF HasRoom, Brings, Checking, Counting, Accounting, Sending, Still
<1>7. MailboxIs(k)' /\ Len(files') >= Len(files) /\ full' >= full
  BY <1>1, AMailbox DEF MailboxIs
<1>8. "count_cur" \in Points
  BY DEF Points, Checking, Counting
<1> QED BY <1>1, <1>2, <1>4, <1>5, <1>6, <1>7, <1>8, MailboxStep

LEMMA QuotaCountCur ==
  ASSUME NEW k, Mailbox(k)!QuotaAssumption, MailboxInv(k), NEW p \in k.programs, Mailbox(k)!CountCur(p)
  PROVE  MailboxInv(k)'
<1> DEFINE n == quota_job[p].n + cur
           max == IF quota_job[p].max > stamp.cur THEN quota_job[p].max ELSE stamp.cur
<1>1. /\ quota_pc[p] = "count_cur" /\ quota_pc' = [quota_pc EXCEPT ![p] = "rename"]
      /\ quota_job' = [quota_job EXCEPT ![p].n = n, ![p].max = max]
      /\ UNCHANGED <<new, cur, stamp, files, here, quota_warned, clock, full, warnings, twice>>
  BY DEF Mailbox!CountCur, Mailbox!Go, Mailbox!box, Mailbox!size, Mailbox!ghosts, Mailbox!Later
<1>2. /\ quota_job[p] \in CountJob /\ Fits(k, "count_cur", quota_job[p])
      /\ k.alone => HasRoom(k, "count_cur", quota_job[p])
      /\ k.alone => new - warnings <= k.quota /\ (~quota_warned => warnings = 0) /\ ~twice
      /\ k.alone => \A q \in k.programs : q # p => ~Active(q)
  BY <1>1, MailboxHas DEF Active, Still
<1>3. n = quota_job[p].n /\ max = quota_job[p].max /\ n \in Nat /\ max \in Nat
  <2>1. quota_job[p].n \in Nat /\ quota_job[p].max \in Nat
    BY <1>2, ACountJob
  <2>2. cur = 0 /\ stamp.cur = 0
    BY AMailbox
  <2> QED BY <2>1, <2>2
<1> HIDE DEF n, max
<1>4. PICK j \in CountJob :
        /\ quota_job' = [quota_job EXCEPT ![p] = j]
        /\ j.n = quota_job[p].n /\ j.max = quota_job[p].max /\ j.since = quota_job[p].since
        /\ j.fd = quota_job[p].fd /\ j.then = quota_job[p].then /\ j.extra = quota_job[p].extra
  <2> DEFINE j == [quota_job[p] EXCEPT !.n = n, !.max = max]
  <2>1. quota_job' = [quota_job EXCEPT ![p] = j]
    BY <1>1 DEF MailboxInv
  <2>2. /\ j \in CountJob /\ j.n = n /\ j.max = max /\ j.since = quota_job[p].since
        /\ j.fd = quota_job[p].fd /\ j.then = quota_job[p].then /\ j.extra = quota_job[p].extra
    BY <1>2, <1>3 DEF CountJob
  <2> QED BY <1>3, <2>1, <2>2
<1>5. Fits(k, "rename", j)'
  BY <1>1, <1>2, <1>4 DEF Fits, Checking, Counting, Accounting, Sending
<1>6. k.alone => HasRoom(k, "rename", j)'
  BY <1>1, <1>2, <1>4 DEF HasRoom, Brings, Checking, Counting, Accounting, Sending, Still
<1>7. MailboxIs(k)' /\ Len(files') >= Len(files) /\ full' >= full
  BY <1>1, AMailbox DEF MailboxIs
<1>8. "rename" \in Points
  BY DEF Points, Checking, Counting
<1> QED BY <1>1, <1>2, <1>4, <1>5, <1>6, <1>7, <1>8, MailboxStep

(* A new file of one line. *)
LEMMA MadeFile ==
  ASSUME NEW k, MailboxInv(k), NEW n \in Nat, NEW begun \in Int, k.quota < n + 1 => full >= begun,
         Mailbox(k)!NewFile(n, begun), UNCHANGED <<new, cur, stamp, clock, full, warnings, quota_warned, twice>>
  PROVE  MailboxIs(k)' /\ Len(files') = Len(files) + 1 /\ here' = Len(files) + 1 /\ files'[here'].sum = n
<1>1. /\ files' = Append(files, [sum |-> n, lines |-> 1, time |-> clock, since |-> begun])
      /\ here' = Len(files) + 1
  BY DEF Mailbox!NewFile
<1> DEFINE f == [sum |-> n, lines |-> 1, time |-> clock, since |-> begun]
<1>2. /\ files \in Seq(CountFile) /\ Len(files) \in Nat /\ clock \in Nat /\ MailboxIs(k)
      /\ \A i \in 1..Len(files) : files[i].lines = 1 /\ k.quota < files[i].sum + 1 => full >= files[i].since
  BY AMailbox
<1>3. f \in CountFile /\ f.sum = n /\ f.since = begun
  BY <1>2 DEF CountFile
<1>4. files' = Append(files, f)
  BY <1>1
<1> HIDE DEF f
<1>5. /\ files' \in Seq(CountFile) /\ Len(files') = Len(files) + 1 /\ files'[Len(files) + 1] = f
      /\ \A i \in 1..Len(files) : files'[i] = files[i]
  BY <1>2, <1>3, <1>4
<1>6. \A i \in 1..Len(files') : files'[i].lines = 1 /\ k.quota < files'[i].sum + 1 => full' >= files'[i].since
  <2> SUFFICES ASSUME NEW i \in 1..Len(files'), files'[i].lines = 1, k.quota < files'[i].sum + 1
               PROVE  full' >= files'[i].since
    OBVIOUS
  <2>1. CASE i = Len(files) + 1
    BY <1>3, <1>5, <2>1
  <2>2. CASE i # Len(files) + 1
    <3>1. i \in 1..Len(files)
      BY <1>2, <1>5, <2>2
    <3> QED BY <1>2, <1>5, <3>1
  <2> QED BY <2>1, <2>2
<1>7. here' \in 0..Len(files')
  BY <1>1, <1>2, <1>5
<1> QED BY <1>1, <1>2, <1>3, <1>5, <1>6, <1>7 DEF MailboxIs

(* One more line in a file. *)
LEMMA AddedLine ==
  ASSUME NEW k, MailboxInv(k), NEW fd \in 1..Len(files),
         files' = [files EXCEPT ![fd].sum = @ + 1, ![fd].lines = @ + 1, ![fd].time = clock],
         UNCHANGED <<new, cur, stamp, here, clock, full, warnings, quota_warned, twice>>
  PROVE  /\ MailboxIs(k)' /\ Len(files') = Len(files)
         /\ here # 0 => files[here].sum \in Nat /\ files'[here].sum = files[here].sum + (IF here = fd THEN 1 ELSE 0)
<1>1. /\ files \in Seq(CountFile) /\ Len(files) \in Nat /\ clock \in Nat /\ MailboxIs(k)
      /\ \A i \in 1..Len(files) : files[i].lines = 1 /\ k.quota < files[i].sum + 1 => full >= files[i].since
  BY AMailbox
<1> DEFINE f == [files[fd] EXCEPT !.sum = @ + 1, !.lines = @ + 1, !.time = clock]
<1>2. files' = [files EXCEPT ![fd] = f]
  OBVIOUS
<1>3. files[fd] \in CountFile /\ files[fd].sum \in Nat /\ files[fd].lines \in Nat \ {0}
  BY <1>1, AFile
<1>4. f \in CountFile /\ f.sum = files[fd].sum + 1 /\ f.lines # 1
  <2> DEFINE was == files[fd]
             sum == was.sum + 1
             lines == was.lines + 1
  <2>1. sum \in Nat /\ lines \in Nat \ {0} /\ lines # 1
    BY <1>3
  <2>2. f = [was EXCEPT !.sum = sum, !.lines = lines, !.time = clock] /\ was \in CountFile
    BY <1>3
  <2> HIDE DEF f, was, sum, lines
  <2>3. f \in CountFile /\ f.sum = sum /\ f.lines = lines
    BY <1>1, <2>1, <2>2 DEF CountFile
  <2> QED BY <2>1, <2>3 DEF sum, was
<1> HIDE DEF f
<1>5. /\ files' \in Seq(CountFile) /\ Len(files') = Len(files) /\ files'[fd] = f
      /\ \A i \in 1..Len(files) : i # fd => files'[i] = files[i]
  <2>1. /\ [files EXCEPT ![fd] = f] \in Seq(CountFile) /\ Len([files EXCEPT ![fd] = f]) = Len(files)
        /\ \A i \in 1..Len(files) : [files EXCEPT ![fd] = f][i] = IF i = fd THEN f ELSE files[i]
    BY <1>1, <1>4, ExceptSeq
  <2> QED BY <1>2, <2>1
<1>6. \A i \in 1..Len(files') : files'[i].lines = 1 /\ k.quota < files'[i].sum + 1 => full' >= files'[i].since
  BY <1>1, <1>4, <1>5
<1>7. here # 0 => files[here].sum \in Nat /\ here \in 1..Len(files)
  BY <1>1, AMailbox, AFile
<1>8. MailboxIs(k)'
  BY <1>1, <1>5, <1>6 DEF MailboxIs
<1>9. here # 0 => files'[here].sum = files[here].sum + (IF here = fd THEN 1 ELSE 0)
  BY <1>3, <1>4, <1>5, <1>7
<1> QED BY <1>5, <1>7, <1>8, <1>9

LEMMA QuotaRename ==
  ASSUME NEW k, Mailbox(k)!QuotaAssumption, MailboxInv(k), NEW p \in k.programs, Mailbox(k)!Rename(p)
  PROVE  MailboxInv(k)'
<1>1. /\ quota_pc[p] = "rename" /\ quota_pc' = [quota_pc EXCEPT ![p] = "look_again"]
      /\ quota_job' = [quota_job EXCEPT ![p].fd = Len(files) + 1]
      /\ Mailbox(k)!NewFile(quota_job[p].n, quota_job[p].since)
      /\ UNCHANGED <<new, cur, stamp, quota_warned, clock, full, warnings, twice>>
  BY DEF Mailbox!Rename, Mailbox!Go, Mailbox!box, Mailbox!ghosts
<1>2. /\ quota_job[p] \in CountJob /\ Fits(k, "rename", quota_job[p])
      /\ k.alone => HasRoom(k, "rename", quota_job[p])
      /\ k.alone => new - warnings <= k.quota /\ (~quota_warned => warnings = 0) /\ ~twice
      /\ k.alone => \A q \in k.programs : q # p => ~Active(q)
  BY <1>1, MailboxHas DEF Active, Still
<1>3. /\ quota_job[p].n \in Nat /\ quota_job[p].since \in Int
      /\ k.quota < quota_job[p].n + 1 => full >= quota_job[p].since
  BY <1>2, ACountJob DEF Fits, Counting
<1>4. MailboxIs(k)' /\ Len(files') = Len(files) + 1 /\ here' = Len(files) + 1 /\ files'[here'].sum = quota_job[p].n
  BY <1>1, <1>3, MadeFile
<1>5. Len(files) \in Nat /\ full \in Int /\ full' >= full /\ new \in Nat
  BY <1>1, AMailbox
<1>6. PICK j \in CountJob :
        /\ quota_job' = [quota_job EXCEPT ![p] = j] /\ j.fd = Len(files) + 1
        /\ j.n = quota_job[p].n /\ j.max = quota_job[p].max /\ j.since = quota_job[p].since
        /\ j.then = quota_job[p].then /\ j.extra = quota_job[p].extra
  <2> DEFINE fd == Len(files) + 1
             j == [quota_job[p] EXCEPT !.fd = fd]
  <2>1. fd \in Nat
    BY <1>5
  <2> HIDE DEF fd
  <2>2. quota_job' = [quota_job EXCEPT ![p] = j]
    BY <1>1 DEF MailboxInv, fd
  <2>3. /\ j \in CountJob /\ j.fd = fd
        /\ j.n = quota_job[p].n /\ j.max = quota_job[p].max /\ j.since = quota_job[p].since
        /\ j.then = quota_job[p].then /\ j.extra = quota_job[p].extra
    BY <1>2, <2>1 DEF CountJob
  <2> QED BY <2>2, <2>3 DEF fd
<1>7. Fits(k, "look_again", j)'
  <2>1. j.fd <= Len(files') /\ j.fd # 0
    BY <1>4, <1>5, <1>6
  <2> QED BY <1>1, <1>2, <1>6, <2>1 DEF Fits, Checking, Counting, Accounting, Sending
<1>8. k.alone => HasRoom(k, "look_again", j)'
  <2>1. here' # 0 /\ (k.alone => files'[here'].sum + 0 >= new')
    <3>1. k.alone => quota_job[p].n >= new
      BY <1>2 DEF HasRoom, Counting
    <3>2. here' # 0
      BY <1>4, <1>5
    <3>3. files'[here'].sum + 0 = quota_job[p].n
      BY <1>3, <1>4
    <3> QED BY <1>1, <3>1, <3>2, <3>3
  <2> QED BY <1>1, <1>2, <1>6, <2>1 DEF HasRoom, Brings, Checking, Counting, Accounting, Sending, Still
<1>9. "look_again" \in Points /\ Len(files') >= Len(files)
  BY <1>4, <1>5 DEF Points, Checking, Counting
<1> QED BY <1>1, <1>2, <1>4, <1>5, <1>6, <1>7, <1>8, <1>9, MailboxStep

LEMMA QuotaLookAgain ==
  ASSUME NEW k, Mailbox(k)!QuotaAssumption, MailboxInv(k), NEW p \in k.programs, Mailbox(k)!LookAgain(p)
  PROVE  MailboxInv(k)'
<1>20. PICK j \in CountJob : j = quota_job[p]
  BY MailboxHas
<1> DEFINE changed == (IF stamp.new > stamp.cur THEN stamp.new ELSE stamp.cur) # j.max
           over == j.n + j.extra > k.quota
<1>1. /\ quota_pc[p] = "look_again"
      /\ UNCHANGED <<new, cur, stamp, files, here, quota_warned, clock, full, warnings, twice, quota_job>>
  BY DEF Mailbox!LookAgain, Mailbox!box, Mailbox!size, Mailbox!ghosts
<1>2. IF changed THEN Mailbox(k)!Decide(p, FALSE, IF quota_job[p].then = "add" THEN 0 ELSE k.quota)
      ELSE Mailbox(k)!Decide(p, over, j.n)
  BY <1>20 DEF Mailbox!LookAgain, Mailbox!Over, Mailbox!Later
<1>3. /\ j \in CountJob /\ Fits(k, "look_again", j)
      /\ k.alone => HasRoom(k, "look_again", j)
      /\ k.alone => new - warnings <= k.quota /\ (~quota_warned => warnings = 0) /\ ~twice
      /\ k.alone => \A q \in k.programs : q # p => ~Active(q)
  BY <1>1, <1>20, MailboxHas DEF Active, Still
<1>4. /\ MailboxIs(k)' /\ Len(files') >= Len(files) /\ full' >= full
      /\ k.alone => new' - warnings' <= k.quota /\ (~quota_warned' => warnings' = 0) /\ ~twice'
  BY <1>1, <1>3, AMailbox DEF MailboxIs
<1>5. /\ k.quota \in Nat /\ new \in Nat /\ warnings \in Nat /\ full \in Int /\ stamp.new \in Nat /\ stamp.cur = 0
      /\ j.extra \in {0, 1} /\ j.fd \in Nat /\ j.n \in Nat /\ j.since \in Int /\ (here # 0 => files[here].sum \in Nat)
  BY <1>3, AMailbox, ACountJob, QuotaConstants, AFile
<1>6. j.then \in {"end", "add", "percent"} /\ (j.then = "add" <=> j.extra = 1) /\ j.fd # 0 /\ j.fd <= Len(files)
  BY <1>3 DEF Fits, Checking, Counting
<1>7. PICK next \in {"end", "refuse", "add", "warn", "deliver"} :
           /\ quota_pc' = [quota_pc EXCEPT ![p] = next]
           /\ next = "end" <=> quota_job[p].then = "end"
           /\ next \in {"add", "refuse"} <=> quota_job[p].then = "add"
           /\ next = "refuse" => ~changed /\ over
           /\ next = "add" => changed \/ ~over
           /\ next \in {"warn", "deliver"} <=> quota_job[p].then = "percent"
  <2>1. CASE changed
    <3>1. FALSE \in BOOLEAN
      OBVIOUS
    <3>2. Mailbox(k)!Decide(p, FALSE, IF quota_job[p].then = "add" THEN 0 ELSE k.quota)
      BY <1>2, <2>1
    <3> DEFINE n == IF quota_job[p].then = "add" THEN 0 ELSE k.quota
    <3> HIDE DEF n
    <3>3. Mailbox(k)!Decide(p, FALSE, n)
      BY <3>2 DEF n
    <3> QED BY <1>6, <1>20, <2>1, <3>1, <3>3, Decides
  <2>2. CASE ~changed
    <3>1. over \in BOOLEAN
      OBVIOUS
    <3> HIDE DEF over
    <3>2. Mailbox(k)!Decide(p, over, j.n)
      BY <1>2, <2>2
    <3> QED BY <1>6, <1>20, <2>2, <3>1, <3>2, Decides
  <2> QED BY <2>1, <2>2
<1>8. quota_job' = [quota_job EXCEPT ![p] = j]
  BY <1>1, <1>20, AMailbox
<1>9. Fits(k, next, j)'
  <2>1. next = "refuse" => full >= j.since
    <3> HAVE next = "refuse"
    <3>1. k.quota < j.n + 1
      BY <1>5, <1>6, <1>7, <1>20
    <3> QED BY <1>3, <3>1 DEF Fits, Counting
  <2> QED BY <1>1, <1>6, <2>1 DEF Fits, Checking, Counting, Accounting, Sending
<1>10. k.alone => HasRoom(k, next, j)'
  <2> SUFFICES ASSUME k.alone PROVE HasRoom(k, next, j)'
    OBVIOUS
  <2>1. /\ here # 0 /\ files[here].sum + 0 >= new /\ j.n >= new /\ (stamp.new # j.max => new - warnings < k.quota)
        /\ j.then = "percent" => new - warnings < k.quota
    BY <1>3 DEF HasRoom, Brings, Checking, Counting, Accounting, Still
  <2>2. changed => new - warnings < k.quota
    BY <1>5, <2>1
  <2>3. next = "add" => new - warnings < k.quota
    BY <1>5, <1>6, <1>7, <1>20, <2>1, <2>2
  <2>4. Brings(next, j.then) => new - warnings < k.quota
    BY <1>7, <1>20, <2>1, <2>3 DEF Brings, Checking, Counting, Sending
  <2>5. next \notin Counting /\ next \notin Accounting /\ next \notin {"stamp", "send_warning"}
    BY DEF Counting, Accounting
  <2>6. files[here].sum + (IF next \in Accounting THEN 1 ELSE 0) >= new
    BY <2>1, <2>5
  <2> QED BY <1>1, <2>1, <2>4, <2>5, <2>6 DEF HasRoom
<1>11. next \in Points
  BY DEF Points, Still
<1> QED BY <1>3, <1>4, <1>7, <1>8, <1>9, <1>10, <1>11, MailboxStep

LEMMA QuotaAddBefore ==
  ASSUME NEW k, Mailbox(k)!QuotaAssumption, MailboxInv(k), NEW p \in k.programs, Mailbox(k)!AddBefore(p)
  PROVE  MailboxInv(k)'
<1> DEFINE fd == quota_job[p].fd
<1>1. /\ quota_pc[p] = "add" /\ quota_pc' = [quota_pc EXCEPT ![p] = "check"]
      /\ quota_job' = [quota_job EXCEPT ![p].extra = 0, ![p].then = "percent"]
      /\ Mailbox(k)!AddLine(fd, quota_job[p].since)
      /\ UNCHANGED <<new, cur, stamp, quota_warned, clock, full, warnings, twice>>
  BY DEF Mailbox!AddBefore, Mailbox!Go, Mailbox!box, Mailbox!ghosts
<1>2. /\ quota_job[p] \in CountJob /\ Fits(k, "add", quota_job[p])
      /\ k.alone => HasRoom(k, "add", quota_job[p])
      /\ k.alone => new - warnings <= k.quota /\ (~quota_warned => warnings = 0) /\ ~twice
      /\ k.alone => \A q \in k.programs : q # p => ~Active(q)
  BY <1>1, MailboxHas DEF Active, Still
<1>3. fd \in 1..Len(files) /\ Len(files) \in Nat /\ full \in Int /\ new \in Nat
  <2>1. fd \in Nat /\ fd # 0 /\ fd <= Len(files)
    BY <1>2, ACountJob DEF Fits
  <2> QED BY <2>1, AMailbox
<1>4. /\ MailboxIs(k)' /\ Len(files') = Len(files) /\ here' = here
      /\ here # 0 => files[here].sum \in Nat /\ files'[here].sum = files[here].sum + (IF here = fd THEN 1 ELSE 0)
  <2>1. /\ files' = [files EXCEPT ![fd].sum = @ + 1, ![fd].lines = @ + 1, ![fd].time = clock] /\ here' = here
    BY <1>1, <1>3 DEF Mailbox!AddLine
  <2> HIDE DEF fd
  <2> QED BY <1>1, <1>3, <2>1, AddedLine
<1> HIDE DEF fd
<1>5. PICK j \in CountJob :
        /\ quota_job' = [quota_job EXCEPT ![p] = j]
        /\ j.extra = 0 /\ j.then = "percent" /\ j.fd = quota_job[p].fd
  <2> DEFINE j == [quota_job[p] EXCEPT !.extra = 0, !.then = "percent"]
  <2>1. quota_job' = [quota_job EXCEPT ![p] = j]
    BY <1>1 DEF MailboxInv
  <2>2. j \in CountJob /\ j.extra = 0 /\ j.then = "percent" /\ j.fd = quota_job[p].fd
    BY <1>2 DEF CountJob
  <2> QED BY <2>1, <2>2
<1>6. Fits(k, "check", j)'
  BY <1>3, <1>4, <1>5 DEF Fits, Checking, Counting, Accounting, Sending, fd
<1>7. k.alone => HasRoom(k, "check", j)'
  <2> SUFFICES ASSUME k.alone PROVE HasRoom(k, "check", j)'
    OBVIOUS
  <2>1. /\ new - warnings < k.quota /\ here # 0 /\ files[here].sum + 0 >= new
    BY <1>2 DEF HasRoom, Brings, Checking, Counting, Accounting, Still
  <2>2. files'[here'].sum + 0 >= new'
    BY <1>1, <1>3, <1>4, <2>1
  <2> QED BY <1>1, <1>4, <1>5, <2>1, <2>2 DEF HasRoom, Checking, Counting, Accounting, Still
<1>8. "check" \in Points /\ Len(files') >= Len(files) /\ full' >= full
  BY <1>1, <1>3, <1>4 DEF Points, Checking
<1> QED BY <1>1, <1>2, <1>4, <1>5, <1>6, <1>7, <1>8, MailboxStep

LEMMA QuotaWarn ==
  ASSUME NEW k, Mailbox(k)!QuotaAssumption, MailboxInv(k), NEW p \in k.programs, Mailbox(k)!Warn(p)
  PROVE  MailboxInv(k)'
<1>1. PICK after \in {"deliver", "refused"}, next \in {"deliver", "refused", "stamp"} :
        /\ next \in {after, "stamp"}
        /\ quota_pc[p] = IF after = "deliver" THEN "warn" ELSE "refuse"
        /\ quota_job' = [quota_job EXCEPT ![p].then = after]
        /\ quota_pc' = [quota_pc EXCEPT ![p] = next]
        /\ next = "stamp" => ~quota_warned
        /\ UNCHANGED <<new, cur, stamp, files, here, quota_warned, clock, full, warnings, twice>>
  BY DEF Mailbox!Warn, Mailbox!Go, Mailbox!box, Mailbox!size, Mailbox!ghosts
<1>2. /\ quota_job[p] \in CountJob /\ Fits(k, quota_pc[p], quota_job[p])
      /\ k.alone => HasRoom(k, quota_pc[p], quota_job[p])
      /\ k.alone => new - warnings <= k.quota /\ (~quota_warned => warnings = 0) /\ ~twice
      /\ k.alone => \A q \in k.programs : q # p => ~Active(q)
  BY <1>1, MailboxHas DEF Active, Still
<1>3. PICK j \in CountJob :
        quota_job' = [quota_job EXCEPT ![p] = j] /\ j.then = after /\ j.fd = quota_job[p].fd
  <2> DEFINE j == [quota_job[p] EXCEPT !.then = after]
  <2>1. quota_job' = [quota_job EXCEPT ![p] = j]
    BY <1>1 DEF MailboxInv
  <2>2. j \in CountJob /\ j.then = after /\ j.fd = quota_job[p].fd
    BY <1>2 DEF CountJob
  <2> QED BY <2>1, <2>2
<1>4. Fits(k, next, j)'
  <2>1. j.fd <= Len(files')
    BY <1>1, <1>2, <1>3 DEF Fits
  <2> QED BY <1>1, <1>3, <2>1 DEF Fits, Checking, Counting, Accounting, Sending
<1>5. k.alone => HasRoom(k, next, j)'
  <2> SUFFICES ASSUME k.alone PROVE HasRoom(k, next, j)'
    OBVIOUS
  <2>1. here # 0 /\ files[here].sum + 0 >= new /\ (after = "deliver" => new - warnings < k.quota)
    BY <1>1, <1>2 DEF HasRoom, Brings, Checking, Counting, Accounting, Still
  <2>2. next \notin Counting /\ next \notin Accounting /\ next # "send_warning"
    BY <1>1 DEF Counting, Accounting
  <2>3. Brings(next, j.then) => new - warnings < k.quota
    BY <1>1, <1>3, <2>1 DEF Brings, Checking, Counting, Sending
  <2> QED BY <1>1, <2>1, <2>2, <2>3 DEF HasRoom
<1>6. MailboxIs(k)' /\ Len(files') >= Len(files) /\ full' >= full /\ next \in Points
  BY <1>1, AMailbox DEF MailboxIs, Points, Sending, Still
<1> QED BY <1>1, <1>2, <1>3, <1>4, <1>5, <1>6, MailboxStep

LEMMA QuotaStamp ==
  ASSUME NEW k, Mailbox(k)!QuotaAssumption, MailboxInv(k), NEW p \in k.programs, Mailbox(k)!Stamp(p)
  PROVE  MailboxInv(k)'
<1>1. /\ quota_pc[p] = "stamp" /\ quota_warned' = TRUE /\ quota_pc' = [quota_pc EXCEPT ![p] = "send_warning"]
      /\ UNCHANGED <<new, cur, stamp, files, here, clock, full, warnings, twice, quota_job>>
  BY DEF Mailbox!Stamp, Mailbox!Go, Mailbox!box, Mailbox!size, Mailbox!ghosts
<1>2. /\ quota_job[p] \in CountJob /\ Fits(k, "stamp", quota_job[p])
      /\ k.alone => HasRoom(k, "stamp", quota_job[p])
      /\ k.alone => new - warnings <= k.quota /\ (~quota_warned => warnings = 0) /\ ~twice
      /\ k.alone => \A q \in k.programs : q # p => ~Active(q)
  BY <1>1, MailboxHas DEF Active, Still
<1>3. PICK j \in CountJob : j = quota_job[p]
  BY <1>2
<1>4. quota_job' = [quota_job EXCEPT ![p] = j]
  BY <1>1, <1>3, AMailbox
<1>5. Fits(k, "send_warning", j)'
  BY <1>1, <1>2, <1>3 DEF Fits, Checking, Counting, Accounting, Sending
<1>6. k.alone => HasRoom(k, "send_warning", j)'
  BY <1>1, <1>2, <1>3 DEF HasRoom, Brings, Checking, Counting, Accounting, Sending, Still
<1>7. MailboxIs(k)' /\ Len(files') >= Len(files) /\ full' >= full /\ "send_warning" \in Points
  <2>1. quota_warned' \in BOOLEAN
    BY <1>1
  <2> QED BY <1>1, <2>1, AMailbox DEF MailboxIs, Points, Sending
<1> QED BY <1>1, <1>2, <1>4, <1>5, <1>6, <1>7, MailboxStep

LEMMA QuotaDeliver ==
  ASSUME NEW k, Mailbox(k)!QuotaAssumption, MailboxInv(k), NEW p \in k.programs, Mailbox(k)!Deliver(p)
  PROVE  MailboxInv(k)'
<1>1. PICK next \in {"account", "account_warning"} :
        /\ quota_pc[p] = IF next = "account" THEN "deliver" ELSE "send_warning"
        /\ quota_pc' = [quota_pc EXCEPT ![p] = next]
        /\ warnings' = (IF next = "account" THEN warnings ELSE warnings + 1)
        /\ twice' = (twice \/ (next # "account" /\ warnings > 0))
  <2>1. CASE quota_pc[p] = "deliver"
    BY <2>1 DEF Mailbox!Deliver, Mailbox!Go
  <2>2. CASE quota_pc[p] = "send_warning"
    BY <2>2 DEF Mailbox!Deliver, Mailbox!Go
  <2> QED BY <2>1, <2>2 DEF Mailbox!Deliver
<1>2. /\ new' = new + 1 /\ stamp' = [stamp EXCEPT !.new = clock]
      /\ full' = (IF k.quota < (new + cur + 1) + 1 \/ k.quota < (new + cur) + 1 THEN clock ELSE full)
      /\ quota_job' = [quota_job EXCEPT ![p].since = clock]
      /\ UNCHANGED <<cur, files, here, quota_warned, clock>>
  <2>1. k.quota \in Nat /\ new \in Nat /\ cur = 0
    BY AMailbox, QuotaConstants
  <2>2. /\ new' = new + 1 /\ stamp' = [stamp EXCEPT !.new = clock] /\ Mailbox(k)!Seen(new + cur + 1)
        /\ quota_job' = [quota_job EXCEPT ![p].since = clock]
        /\ UNCHANGED <<cur, files, here, quota_warned, clock>>
    BY DEF Mailbox!Deliver, Mailbox!size
  <2> QED BY <2>1, <2>2 DEF Mailbox!Seen, Mailbox!IsFull
<1>3. /\ quota_job[p] \in CountJob /\ Fits(k, quota_pc[p], quota_job[p])
      /\ k.alone => HasRoom(k, quota_pc[p], quota_job[p])
      /\ k.alone => new - warnings <= k.quota /\ (~quota_warned => warnings = 0) /\ ~twice
      /\ k.alone => \A q \in k.programs : q # p => ~Active(q)
  BY <1>1, MailboxHas DEF Active, Still
<1>4. /\ k.quota \in Nat /\ new \in Nat /\ cur = 0 /\ clock \in Nat /\ full \in Int /\ full <= clock /\ warnings \in Nat
      /\ Len(files) \in Nat /\ (here # 0 => files[here].sum \in Nat) /\ stamp \in [new : Nat, cur : {0}]
  BY AMailbox, QuotaConstants, AFile
<1>0. twice \in BOOLEAN
  BY AMailbox
<1>5. PICK j \in CountJob :
        /\ quota_job' = [quota_job EXCEPT ![p] = j]
        /\ j.since = clock /\ j.then = quota_job[p].then /\ j.fd = quota_job[p].fd
  <2> DEFINE j == [quota_job[p] EXCEPT !.since = clock]
  <2>1. quota_job' = [quota_job EXCEPT ![p] = j]
    BY <1>2 DEF MailboxInv
  <2>2. j \in CountJob /\ j.since = clock /\ j.then = quota_job[p].then /\ j.fd = quota_job[p].fd
    BY <1>3, <1>4 DEF CountJob
  <2> QED BY <2>1, <2>2
<1>6. full' \in Int /\ full' >= full /\ full' <= clock /\ (k.quota < new' + 1 => full' = clock) /\ new' \in Nat
  BY <1>2, <1>4
<1>7. MailboxIs(k)'
  <2>1. stamp' \in [new : Nat, cur : {0}]
    BY <1>2, <1>4
  <2>2. twice' \in BOOLEAN
    BY <1>0, <1>1, Zenon
  <2>3. warnings' \in Nat
    BY <1>1, <1>4
  <2>4. /\ files \in Seq(CountFile) /\ here \in 0..Len(files) /\ quota_warned \in BOOLEAN
        /\ \A i \in 1..Len(files) : files[i].since \in Int
        /\ \A i \in 1..Len(files) : files[i].lines = 1 /\ k.quota < files[i].sum + 1 => full >= files[i].since
    BY AMailbox, AFile
  <2>5. \A i \in 1..Len(files) : files[i].lines = 1 /\ k.quota < files[i].sum + 1 => full' >= files[i].since
    BY <1>4, <1>6, <2>4
  <2> QED BY <1>2, <1>4, <1>6, <2>1, <2>2, <2>3, <2>4, <2>5 DEF MailboxIs
<1>8. Fits(k, next, j)'
  <2>1. j.fd <= Len(files)
    BY <1>3, <1>5 DEF Fits
  <2>2. next = "account_warning" => j.then \in {"deliver", "refused"}
    BY <1>1, <1>3, <1>5 DEF Fits, Sending
  <2>3. k.quota < 2 => full' >= j.since
    BY <1>2, <1>4, <1>5
  <2> QED BY <1>1, <1>2, <2>1, <2>2, <2>3 DEF Fits, Checking, Counting, Accounting, Sending
<1>9. ASSUME k.alone
      PROVE  /\ new' - warnings' <= k.quota /\ (~quota_warned' => warnings' = 0) /\ ~twice'
             /\ HasRoom(k, next, j)'
  <2>1. /\ here # 0 /\ files[here].sum + 0 >= new
        /\ next = "account" => new - warnings < k.quota
        /\ next = "account_warning" => quota_warned /\ warnings = 0 /\ (j.then = "deliver" => new - warnings < k.quota)
    BY <1>1, <1>3, <1>5, <1>9 DEF HasRoom, Brings, Checking, Counting, Accounting, Sending, Still
  <2>2. new' - warnings' <= k.quota
    BY <1>1, <1>2, <1>3, <1>4, <1>9, <2>1
  <2>3. ~quota_warned' => warnings' = 0
    BY <1>1, <1>2, <1>3, <1>9, <2>1
  <2>4. ~twice'
    <3>1. ~(next # "account" /\ warnings > 0)
      BY <1>4, <2>1
    <3>2. ~twice
      BY <1>3, <1>9
    <3> QED BY <1>1, <3>1, <3>2, Zenon
  <2>5. Brings(next, j.then) => new' - warnings' < k.quota
    BY <1>1, <1>2, <1>4, <2>1 DEF Brings, Checking, Counting, Sending
  <2>6. files[here].sum + 1 >= new'
    BY <1>2, <1>4, <2>1
  <2>7. next \in Accounting /\ next \notin Counting /\ next \notin {"stamp", "send_warning"}
    BY DEF Accounting, Counting
  <2> QED BY <1>2, <2>1, <2>2, <2>3, <2>4, <2>5, <2>6, <2>7 DEF HasRoom
<1>10. next \in Points /\ Len(files') >= Len(files)
  BY <1>2, <1>4 DEF Points, Accounting
<1> QED BY <1>1, <1>3, <1>5, <1>6, <1>7, <1>8, <1>9, <1>10, MailboxStep

LEMMA QuotaAddAfter ==
  ASSUME NEW k, Mailbox(k)!QuotaAssumption, MailboxInv(k), NEW p \in k.programs, Mailbox(k)!AddAfter(p)
  PROVE  MailboxInv(k)'
<1>1. /\ quota_pc[p] \in {"account", "account_warning"} /\ Mailbox(k)!AddLine(here, quota_job[p].since)
      /\ UNCHANGED <<new, cur, stamp, quota_warned, clock, full, warnings, twice>>
  BY DEF Mailbox!AddAfter, Mailbox!box, Mailbox!ghosts
<1>2. /\ quota_job[p] \in CountJob /\ Fits(k, quota_pc[p], quota_job[p])
      /\ k.alone => HasRoom(k, quota_pc[p], quota_job[p])
      /\ k.alone => new - warnings <= k.quota /\ (~quota_warned => warnings = 0) /\ ~twice
      /\ k.alone => \A q \in k.programs : q # p => ~Active(q)
  BY <1>1, MailboxHas DEF Active, Still
<1>3. /\ quota_pc[p] \in Accounting
      /\ quota_pc[p] = "account_warning" => quota_job[p].then \in {"deliver", "refused"}
  BY <1>1, <1>2 DEF Fits, Accounting, Sending
<1>4. PICK next \in {"end", "deliver", "refused"} :
        /\ quota_pc' = [quota_pc EXCEPT ![p] = next]
        /\ next = "deliver" => quota_pc[p] = "account_warning" /\ quota_job[p].then = "deliver"
  BY <1>1, <1>3 DEF Mailbox!AddAfter, Mailbox!Go
<1>5. PICK j \in CountJob : quota_job' = [quota_job EXCEPT ![p] = j] /\ j.fd <= Len(files)
  <2>1. /\ Mailbox(k)!NoJob \in CountJob /\ Mailbox(k)!NoJob.fd = 0
    BY DEF Mailbox!NoJob, CountJob
  <2>2. quota_job[p].fd <= Len(files) /\ Len(files) \in Nat /\ quota_job \in [k.programs -> CountJob]
    BY <1>2, AMailbox DEF Fits
  <2>3. \/ quota_job' = [quota_job EXCEPT ![p] = Mailbox(k)!NoJob]
        \/ quota_job' = quota_job
    BY DEF Mailbox!AddAfter
  <2>4. CASE quota_job' = quota_job
    <3>1. quota_job' = [quota_job EXCEPT ![p] = quota_job[p]]
      BY <2>2, <2>4
    <3> QED BY <1>2, <2>2, <3>1
  <2>5. CASE quota_job' = [quota_job EXCEPT ![p] = Mailbox(k)!NoJob]
    <3> DEFINE none == Mailbox(k)!NoJob
    <3>1. quota_job' = [quota_job EXCEPT ![p] = none] /\ none \in CountJob /\ none.fd = 0
      BY <2>1, <2>5
    <3> HIDE DEF none
    <3>2. none.fd <= Len(files)
      BY <2>2, <3>1
    <3> QED BY <3>1, <3>2
  <2> QED BY <2>3, <2>4, <2>5
<1>6. /\ Len(files) \in Nat /\ full \in Int /\ new \in Nat /\ here \in 0..Len(files)
      /\ here # 0 => files[here].sum \in Nat
  BY AMailbox, AFile
<1>7. /\ MailboxIs(k)' /\ Len(files') >= Len(files)
      /\ here # 0 => here' = here /\ files'[here].sum = files[here].sum + 1
  <2>1. CASE here = 0
    <3>1. Mailbox(k)!NewFile(1, quota_job[p].since)
      BY <1>1, <2>1 DEF Mailbox!AddLine
    <3>2. 1 \in Nat /\ quota_job[p].since \in Int
      BY <1>2, ACountJob
    <3>3. k.quota < 1 + 1 => full >= quota_job[p].since
      BY <1>2, <1>3 DEF Fits
    <3>4. MailboxIs(k)' /\ Len(files') = Len(files) + 1
      BY <1>1, <3>1, <3>2, <3>3, MadeFile
    <3> QED BY <1>6, <2>1, <3>4
  <2>2. CASE here # 0
    <3>1. /\ files' = [files EXCEPT ![here].sum = @ + 1, ![here].lines = @ + 1, ![here].time = clock] /\ here' = here
      BY <1>1, <2>2 DEF Mailbox!AddLine
    <3>2. PICK fd \in 1..Len(files) : fd = here
      BY <1>6, <2>2
    <3>3. files' = [files EXCEPT ![fd].sum = @ + 1, ![fd].lines = @ + 1, ![fd].time = clock]
      BY <3>1, <3>2
    <3>4. /\ MailboxIs(k)' /\ Len(files') = Len(files)
          /\ here # 0 => files[here].sum \in Nat /\ files'[here].sum = files[here].sum + (IF here = fd THEN 1 ELSE 0)
      BY <1>1, <3>1, <3>3, AddedLine
    <3> QED BY <1>6, <2>2, <3>1, <3>2, <3>4
  <2> QED BY <2>1, <2>2
<1>8. Fits(k, next, j)'
  <2>1. j.fd <= Len(files')
    <3>1. j.fd \in Nat /\ Len(files') \in Nat
      BY <1>7, ACountJob DEF MailboxIs
    <3> QED BY <1>5, <1>6, <1>7, <3>1
  <2> QED BY <2>1 DEF Fits, Checking, Counting, Accounting, Sending
<1>9. k.alone => HasRoom(k, next, j)'
  <2> SUFFICES ASSUME k.alone PROVE HasRoom(k, next, j)'
    OBVIOUS
  <2>1. here # 0 /\ files[here].sum + 1 >= new /\ (next = "deliver" => new - warnings < k.quota)
    BY <1>2, <1>3, <1>4 DEF HasRoom, Brings, Checking, Counting, Accounting, Sending, Still
  <2>2. files'[here'].sum + 0 >= new' /\ here' # 0
    BY <1>1, <1>6, <1>7, <2>1
  <2>3. next \notin Counting /\ next \notin Accounting /\ next \notin {"stamp", "send_warning"}
    BY DEF Counting, Accounting
  <2>4. Brings(next, j.then) => new' - warnings' < k.quota
    BY <1>1, <2>1 DEF Brings, Checking, Counting, Sending
  <2> QED BY <2>2, <2>3, <2>4 DEF HasRoom
<1>10. next \in Points /\ full' >= full
  BY <1>1, <1>6 DEF Points, Still
<1> QED BY <1>1, <1>2, <1>4, <1>5, <1>7, <1>8, <1>9, <1>10, MailboxStep

(* A step of no program: the mailbox has no more messages than before. *)
LEMMA MailboxLess ==
  ASSUME NEW k, Mailbox(k)!QuotaAssumption, MailboxInv(k),
         UNCHANGED <<cur, files, here, quota_warned, warnings, twice, quota_pc, quota_job>>,
         new' \in Nat, stamp' \in [new : Nat, cur : {0}], clock' \in Nat, full' \in Int, full' >= full, full' <= clock',
         k.quota < new' + 1 => full' = clock',
         new' = new - 1 \/ (new' = new /\ stamp' = stamp)
  PROVE  MailboxInv(k)'
<1>1. /\ new \in Nat /\ full \in Int /\ warnings \in Nat /\ k.quota \in Nat /\ Len(files) \in Nat
  BY AMailbox, QuotaConstants
<1>2. MailboxIs(k)'
  <2>1. /\ files \in Seq(CountFile) /\ here \in 0..Len(files) /\ quota_warned \in BOOLEAN /\ twice \in BOOLEAN
        /\ warnings \in Nat /\ cur = 0
    BY AMailbox
  <2>2. \A i \in 1..Len(files) : files[i].since \in Int
    BY <2>1, AFile
  <2>3. \A i \in 1..Len(files) : files[i].lines = 1 /\ k.quota < files[i].sum + 1 => full >= files[i].since
    BY AMailbox
  <2>4. \A i \in 1..Len(files) : files[i].lines = 1 /\ k.quota < files[i].sum + 1 => full' >= files[i].since
    BY <1>1, <2>2, <2>3
  <2> QED BY <2>1, <2>4 DEF MailboxIs
<1>3. ASSUME NEW q \in k.programs PROVE Fits(k, quota_pc[q], quota_job[q])'
  <2>1. Fits(k, quota_pc[q], quota_job[q]) /\ quota_job[q].since \in Int
    BY ACountJob DEF MailboxInv
  <2>2. full >= quota_job[q].since => full' >= quota_job[q].since
    BY <1>1, <2>1
  <2> QED BY <2>1, <2>2 DEF Fits
<1>4. ASSUME k.alone PROVE OneByOne(k)'
  <2>1. OneByOne(k)
    BY <1>4 DEF MailboxInv
  <2>2. here # 0 => files[here].sum \in Nat
    BY AMailbox, AFile
  <2>3. /\ new' - warnings <= k.quota
        /\ (\A p \in k.programs : ~Active(p)) /\ here # 0 => files[here].sum >= new'
    BY <1>1, <2>1, <2>2 DEF OneByOne
  <2>4. ASSUME NEW q \in k.programs, Active(q) PROVE HasRoom(k, quota_pc[q], quota_job[q])'
    <3>1. HasRoom(k, quota_pc[q], quota_job[q]) /\ new - warnings <= k.quota
      BY <2>1, <2>4 DEF OneByOne
    <3>2. quota_job[q].n \in Nat
      BY ACountJob DEF MailboxInv
    <3>3. /\ new - warnings < k.quota => new' - warnings < k.quota
          /\ quota_job[q].n >= new => quota_job[q].n >= new'
          /\ stamp' # stamp => new' - warnings < k.quota
      BY <1>1, <3>1, <3>2
    <3>4. here # 0 => files[here].sum + (IF quota_pc[q] \in Accounting THEN 1 ELSE 0) >= new'
      BY <1>1, <2>2, <3>1 DEF HasRoom
    <3>5. Brings(quota_pc[q], quota_job[q].then) => new' - warnings < k.quota
      BY <3>1, <3>3 DEF HasRoom
    <3>6. quota_pc[q] \in Counting =>
            quota_job[q].n >= new' /\ (stamp'.new # quota_job[q].max => new' - warnings < k.quota)
      BY <3>1, <3>3 DEF HasRoom
    <3> QED BY <3>1, <3>4, <3>5, <3>6 DEF HasRoom
  <2>5. \A p \in k.programs : Active(p)' <=> Active(p)
    BY DEF Active
  <2> QED BY <2>1, <2>3, <2>4, <2>5 DEF OneByOne
<1> QED BY <1>2, <1>3, <1>4 DEF MailboxInv

LEMMA QuotaDelete ==
  ASSUME NEW k, Mailbox(k)!QuotaAssumption, MailboxInv(k), Mailbox(k)!Delete
  PROVE  MailboxInv(k)'
<1>1. /\ new \in Nat /\ full \in Int /\ clock \in Nat /\ full <= clock /\ k.quota \in Nat /\ cur = 0
      /\ (k.quota < new + 1 => full = clock)
  BY AMailbox, QuotaConstants
<1>2. /\ new > 0 /\ new' = new - 1 /\ stamp' = [stamp EXCEPT !.new = clock] /\ cur' = cur
      /\ Mailbox(k)!Seen(new + cur)
      /\ UNCHANGED <<files, here, quota_warned, clock, quota_pc, quota_job, warnings, twice>>
  <2>1. ~(cur > 0)
    BY <1>1
  <2> QED BY <2>1 DEF Mailbox!Delete, Mailbox!size
<1>3. full' = full
  BY <1>1, <1>2 DEF Mailbox!Seen, Mailbox!IsFull
<1>4. stamp' \in [new : Nat, cur : {0}]
  <2>1. stamp \in [new : Nat, cur : {0}]
    BY AMailbox
  <2> QED BY <1>1, <1>2, <2>1
<1>5. new' \in Nat /\ (k.quota < new' + 1 => full' = clock')
  BY <1>1, <1>2, <1>3
<1> QED BY <1>1, <1>2, <1>3, <1>4, <1>5, MailboxLess

LEMMA QuotaTick ==
  ASSUME NEW k, Mailbox(k)!QuotaAssumption, MailboxInv(k), Mailbox(k)!Tick
  PROVE  MailboxInv(k)'
<1>1. /\ new \in Nat /\ full \in Int /\ clock \in Nat /\ full <= clock /\ k.quota \in Nat /\ cur = 0
      /\ stamp \in [new : Nat, cur : {0}]
  BY AMailbox, QuotaConstants
<1>2. /\ clock' = clock + 1 /\ full' = (IF k.quota < (new + cur) + 1 THEN clock' ELSE full)
      /\ UNCHANGED <<new, cur, stamp, files, here, quota_warned, quota_pc, quota_job, warnings, twice>>
  BY <1>1 DEF Mailbox!Tick, Mailbox!IsFull, Mailbox!box, Mailbox!size
<1>3. clock' \in Nat /\ full' \in Int /\ full' >= full /\ full' <= clock' /\ (k.quota < new' + 1 => full' = clock')
  BY <1>1, <1>2
<1> QED BY <1>1, <1>2, <1>3, MailboxLess

LEMMA QuotaNext ==
  ASSUME NEW k, Mailbox(k)!QuotaAssumption, MailboxInv(k), Mailbox(k)!Next
  PROVE  MailboxInv(k)'
<1>1. ~Mailbox(k)!Move
  BY DEF Mailbox!Move
<1>2. ASSUME NEW p \in k.programs,
             \/ Mailbox(k)!Start(p) \/ Mailbox(k)!Check(p) \/ Mailbox(k)!CountNew(p) \/ Mailbox(k)!CountCur(p)
             \/ Mailbox(k)!Rename(p) \/ Mailbox(k)!LookAgain(p) \/ Mailbox(k)!AddBefore(p)
             \/ Mailbox(k)!Warn(p) \/ Mailbox(k)!Stamp(p) \/ Mailbox(k)!Deliver(p) \/ Mailbox(k)!AddAfter(p)
      PROVE  MailboxInv(k)'
  BY <1>2, QuotaStart, QuotaCheck, QuotaCountNew, QuotaCountCur, QuotaRename, QuotaLookAgain, QuotaAddBefore,
     QuotaWarn, QuotaStamp, QuotaDeliver, QuotaAddAfter
<1> QED BY <1>1, <1>2, QuotaDelete, QuotaTick DEF Mailbox!Next

LEMMA QuotaStutter ==
  ASSUME NEW k, MailboxInv(k), UNCHANGED quotaVars
  PROVE  MailboxInv(k)'
BY DEF quotaVars, MailboxInv, MailboxIs, Fits, OneByOne, HasRoom, Active

LEMMA MailboxKeeps ==
  ASSUME NEW k, MailboxInv(k)
  PROVE  /\ Mailbox(k)!RefusedIfFull
         /\ k.alone => Mailbox(k)!NeverOver /\ Mailbox(k)!NoneForgotten /\ Mailbox(k)!OneWarning
<1>1. Mailbox(k)!RefusedIfFull
  BY DEF Mailbox!RefusedIfFull, MailboxInv, Fits
<1>2. ASSUME k.alone PROVE Mailbox(k)!NeverOver /\ Mailbox(k)!NoneForgotten /\ Mailbox(k)!OneWarning
  <2>1. OneByOne(k) /\ cur = 0 /\ new \in Nat
    BY <1>2, AMailbox DEF MailboxInv
  <2>2. Mailbox(k)!NeverOver
    <3>1. new - warnings <= k.quota
      BY <2>1 DEF OneByOne
    <3>2. new + cur - warnings = new - warnings
      BY <2>1, AMailbox
    <3> QED BY <3>1, <3>2, Zenon DEF Mailbox!NeverOver
  <2>3. Mailbox(k)!NoneForgotten
    BY <2>1 DEF OneByOne, Mailbox!NoneForgotten, Mailbox!Idle, Active, Still
  <2>4. Mailbox(k)!OneWarning
    BY <2>1 DEF OneByOne, Mailbox!OneWarning
  <2> QED BY <2>2, <2>3, <2>4
<1> QED BY <1>1, <1>2

-----------------------------------------------------------------------------
(* The part that runs *)

-----------------------------------------------------------------------------
(* Domains of vpopmail *)

Texts == {"assign", "rcpthosts", "morercpthosts", "virtualdomains", "locals"}
CdbFiles == {"assign", "morercpthosts"}
Compiling == [assign |-> "compile_assign", morercpthosts |-> "compile_morercpthosts"]
Renaming == [assign |-> "rename_assign", morercpthosts |-> "rename_morercpthosts"]
Stages ==
  {"idle", "end", "mkdir", "assign", "count", "rcpthosts", "morercpthosts", "virtualdomains",
   "no_locals", "rmdir", "no_rcpthosts", "no_morercpthosts", "no_virtualdomains", "no_assign",
   "compile_assign", "rename_assign", "compile_morercpthosts", "rename_morercpthosts"}
AtWork(p) == vd_pc[p] \notin {"idle", "end"}

(* Only an alias has the name of another domain.                              *)
HostLine(k) ==
  {l \in [dom : k.domains, real : k.domains, by : k.programs \cup {"admin"}] :
     l.dom \notin k.aliases => l.real = l.dom}
HostJob(k) ==
  [op : {"none", "add", "alias", "del", "warned"}, dom : k.domains \cup {"none"},
   real : k.domains \cup {"none"}, doms : SUBSET k.domains, snap : SUBSET HostLine(k)]
HostIs(k) ==
  /\ vd_file \in [Texts -> SUBSET HostLine(k)] /\ vd_cdb \in [CdbFiles -> SUBSET HostLine(k)]
  /\ vd_dirs \subseteq k.domains \ k.aliases /\ vd_hurt \subseteq k.domains /\ vd_kills \in Nat
  /\ vd_pc \in [k.programs -> Stages] /\ vd_job \in [k.programs -> HostJob(k)]
  /\ said \in [k.domains -> {"there", "gone", "unknown"}]

(* The lines of a domain, in the files and as compiled.                      *)
HostLines(f, d) == {l \in vd_file[f] : l.dom = d}
CdbLines(f, d) == {l \in vd_cdb[f] : l.dom = d}

(* Who is where, and with which domains.                                     *)
Placed(k, at, j) ==
  /\ at = "idle" => j.doms = {}
  /\ at \in {"mkdir", "assign", "count", "rcpthosts", "morercpthosts", "virtualdomains", "no_locals"} =>
       j.op \in {"add", "alias"}
  /\ at \in {"no_rcpthosts", "no_morercpthosts", "no_virtualdomains", "no_assign"} => j.op \in {"del", "warned"}
  /\ at = "mkdir" => j.op = "add"
  /\ at = "rmdir" => j.op = "del"
  /\ at \notin {"idle", "end"} =>
       /\ j.op # "none" /\ j.dom \in k.domains /\ j.real \in k.domains
       /\ j.op \in {"add", "alias"} => j.doms = {j.dom}
       /\ j.op = "add" => j.dom \notin k.aliases
       /\ j.op = "alias" => j.dom \in k.aliases
       /\ j.dom \notin k.aliases => j.real = j.dom
       /\ \A d \in j.doms : d \notin k.aliases => d = j.dom

(* What a program has made of a domain.                                      *)
Made(at, j, d) ==
  /\ said[d] = "unknown"
  /\ j.op \in {"add", "alias"} =>
       /\ at \in {"mkdir", "assign"} => HostLines("assign", d) = {}
       /\ at \notin {"mkdir", "assign"} => HostLines("assign", d) # {}
       /\ at \in {"mkdir", "assign", "compile_assign", "rename_assign", "count", "rcpthosts", "morercpthosts"} =>
            HostLines("rcpthosts", d) = {} /\ HostLines("morercpthosts", d) = {}
       /\ at \in {"compile_morercpthosts", "rename_morercpthosts", "virtualdomains", "no_locals"} =>
            HostLines("rcpthosts", d) # {} \/ HostLines("morercpthosts", d) # {}
       /\ at = "no_locals" => HostLines("virtualdomains", d) # {}
       /\ j.op = "add" /\ at # "mkdir" => d \in vd_dirs
  /\ j.op \in {"del", "warned"} =>
       /\ at \notin {"compile_assign", "rename_assign"} =>
            HostLines("assign", d) # {} /\ \A l \in HostLines("assign", d) : l.real = j.real
       /\ at \in {"compile_assign", "rename_assign"} => HostLines("assign", d) = {}
       /\ at \notin {"rmdir", "no_rcpthosts"} => HostLines("rcpthosts", d) = {}
       /\ at \notin {"rmdir", "no_rcpthosts", "no_morercpthosts"} => HostLines("morercpthosts", d) = {}
       /\ j.op = "del" /\ at \in {"no_assign", "compile_assign", "rename_assign"} => HostLines("virtualdomains", d) = {}
       /\ at # "rmdir" => d \notin vd_dirs

(* What holds of a domain whatever is made of it: the cdb has its lines but   *)
(* while a program compiles, and it has one line for one mailbox.            *)
Settled(k, d) ==
  /\ \A f \in CdbFiles :
       (\A p \in k.programs : d \in vd_job[p].doms => vd_pc[p] \notin {Compiling[f], Renaming[f]}) =>
         CdbLines(f, d) = HostLines(f, d)
  /\ HostLines("rcpthosts", d) # {} \/ HostLines("morercpthosts", d) # {} \/ CdbLines("morercpthosts", d) # {} => HostLines("assign", d) # {}
  /\ \A l, m \in HostLines("rcpthosts", d) : l = m
  /\ \A l, m \in HostLines("morercpthosts", d) : l = m
  /\ HostLines("rcpthosts", d) = {} \/ HostLines("morercpthosts", d) = {}
  /\ \A l, m \in HostLines("assign", d) : l.real = m.real
  /\ said[d] = "there" =>
       /\ HostLines("rcpthosts", d) # {} \/ HostLines("morercpthosts", d) # {}
       /\ HostLines("assign", d) # {} /\ HostLines("virtualdomains", d) # {} /\ HostLines("locals", d) = {}
       /\ d \notin k.aliases => d \in vd_dirs
  /\ said[d] = "gone" =>
       /\ HostLines("rcpthosts", d) = {} /\ HostLines("morercpthosts", d) = {}
       /\ HostLines("assign", d) = {} /\ HostLines("virtualdomains", d) = {}
       /\ d \notin vd_dirs

(* What a program has read is the file, but for those who compile after it.   *)
Read(k, p, f) ==
  vd_pc[p] = Renaming[f] =>
    /\ \A q \in k.programs : q # p => vd_pc[q] # Renaming[f]
    /\ \A d \in k.domains \ vd_hurt :
         (\A q \in k.programs : d \in vd_job[q].doms => vd_pc[q] # Compiling[f]) =>
           {l \in vd_job[p].snap : l.dom = d} = HostLines(f, d)

Touches(j) == j.doms \cup {j.dom, j.real}
HostInv(k) ==
  /\ HostIs(k)
  /\ \A p, q \in k.programs : p # q /\ AtWork(p) /\ AtWork(q) => Touches(vd_job[p]) \cap Touches(vd_job[q]) = {}
  /\ \A p \in k.programs : Placed(k, vd_pc[p], vd_job[p])
  /\ \A p \in k.programs : vd_pc[p] = "rmdir" => vd_job[p].dom \in vd_job[p].doms \cup vd_hurt
  /\ \A p \in k.programs, d \in k.domains \ vd_hurt :
       AtWork(p) /\ d \in vd_job[p].doms => Made(vd_pc[p], vd_job[p], d)
  /\ \A d \in k.domains \ vd_hurt : Settled(k, d)
  /\ \A p \in k.programs, f \in CdbFiles : Read(k, p, f)
  /\ Host(k)!HurtForCause

(* What a step of p leaves of the domains that p does not work on: all lines, *)
(* and a cdb that is as it was, or the file, or will be compiled again.       *)
Others(k, p, d) ==
  /\ \A f \in Texts : HostLines(f, d)' = HostLines(f, d)
  /\ said'[d] = said[d]
  /\ d \notin vd_hurt' => (d \in vd_dirs' <=> d \in vd_dirs)
  /\ d \notin vd_hurt' => \A f \in CdbFiles :
       \/ CdbLines(f, d)' = CdbLines(f, d) \/ CdbLines(f, d)' = HostLines(f, d)
       \/ \E q \in k.programs : q # p /\ AtWork(q) /\ d \in vd_job[q].doms /\ vd_pc[q] = Compiling[f]

(* No other program has read lines that this step makes old, but p compiles.  *)
Unread(k, p, d) ==
  \A f \in CdbFiles, q \in k.programs :
    q # p /\ vd_pc[q] = Renaming[f] /\ vd_pc'[p] # Compiling[f] =>
      vd_pc[p] # Compiling[f] /\ HostLines(f, d)' = HostLines(f, d)

LEMMA HostStep ==
  ASSUME NEW k, HostInv(k), NEW p \in k.programs, HostIs(k)',
         \A q \in k.programs : q # p => vd_pc'[q] = vd_pc[q] /\ vd_job'[q] = vd_job[q],
         vd_job[p].doms \subseteq vd_job'[p].doms, vd_hurt \subseteq vd_hurt',
         \A d \in k.domains \ vd_job'[p].doms : Others(k, p, d),
         Placed(k, vd_pc'[p], vd_job'[p]),
         vd_pc'[p] = "rmdir" => vd_job'[p].dom \in vd_job'[p].doms \cup vd_hurt',
         \A q \in k.programs : q # p /\ AtWork(q) => Touches(vd_job'[p]) \cap Touches(vd_job[q]) = {},
         \A d \in vd_job'[p].doms \ vd_hurt' :
            Settled(k, d)' /\ (AtWork(p)' => Made(vd_pc[p], vd_job[p], d)'),
         \A d \in vd_job'[p].doms \ vd_hurt' : Unread(k, p, d),
         \A f \in CdbFiles : Read(k, p, f)',
         Host(k)!HurtForCause'
  PROVE  HostInv(k)'
<1>1. \A q, r \in k.programs : q # r /\ AtWork(q)' /\ AtWork(r)' => Touches(vd_job'[q]) \cap Touches(vd_job'[r]) = {}
  <2> SUFFICES ASSUME NEW q \in k.programs, NEW r \in k.programs, q # r, AtWork(q)', AtWork(r)'
               PROVE  Touches(vd_job'[q]) \cap Touches(vd_job'[r]) = {}
    OBVIOUS
  <2>1. CASE q = p
    <3>1. AtWork(r) /\ vd_job'[r] = vd_job[r] /\ r # p
      BY <2>1 DEF AtWork
    <3> QED BY <2>1, <3>1
  <2>2. CASE r = p
    <3>1. AtWork(q) /\ vd_job'[q] = vd_job[q] /\ q # p
      BY <2>2 DEF AtWork
    <3>2. Touches(vd_job'[p]) \cap Touches(vd_job[q]) = {}
      BY <2>2, <3>1
    <3> QED BY <2>2, <3>1, <3>2
  <2>3. CASE q # p /\ r # p
    BY <2>3 DEF HostInv, AtWork
  <2> QED BY <2>1, <2>2, <2>3
<1>2. \A q \in k.programs : Placed(k, vd_pc'[q], vd_job'[q])
  BY DEF HostInv
<1>8. \A q \in k.programs : vd_pc'[q] = "rmdir" => vd_job'[q].dom \in vd_job'[q].doms \cup vd_hurt'
  BY DEF HostInv
<1>3. ASSUME NEW q \in k.programs, q # p, NEW d, AtWork(q), d \in vd_job[q].doms
      PROVE  d \notin vd_job'[p].doms
  BY <1>3 DEF Touches
<1>4. ASSUME NEW d \in k.domains \ vd_job'[p].doms
      PROVE  /\ said'[d] = said[d]
             /\ HostLines("assign", d)' = HostLines("assign", d) /\ HostLines("rcpthosts", d)' = HostLines("rcpthosts", d)
             /\ HostLines("morercpthosts", d)' = HostLines("morercpthosts", d) /\ HostLines("virtualdomains", d)' = HostLines("virtualdomains", d)
             /\ HostLines("locals", d)' = HostLines("locals", d)
             /\ d \notin vd_hurt' => (d \in vd_dirs' <=> d \in vd_dirs)
  <2>1. Others(k, p, d)
    BY <1>4
  <2> HIDE DEF HostLines
  <2> QED BY <2>1 DEF Others, Texts
<1>5. ASSUME NEW q \in k.programs, NEW d \in k.domains \ vd_hurt', AtWork(q)', d \in vd_job'[q].doms
      PROVE  Made(vd_pc[q], vd_job[q], d)'
  <2>1. CASE q = p
    BY <1>5, <2>1
  <2>2. CASE q # p
    <3>1. vd_pc'[q] = vd_pc[q] /\ vd_job'[q] = vd_job[q] /\ AtWork(q)
      BY <1>5, <2>2 DEF AtWork
    <3>2. Made(vd_pc[q], vd_job[q], d)
      BY <1>5, <3>1 DEF HostInv
    <3>3. d \notin vd_job'[p].doms
      BY <1>3, <1>5, <2>2, <3>1
    <3> HIDE DEF HostLines
    <3> QED BY <1>4, <1>5, <3>1, <3>2, <3>3 DEF Made
  <2> QED BY <2>1, <2>2
<1>6. ASSUME NEW d \in k.domains \ vd_hurt' PROVE Settled(k, d)'
  <2>1. CASE d \in vd_job'[p].doms
    BY <1>6, <2>1
  <2>2. CASE d \notin vd_job'[p].doms
    <3> HIDE DEF HostLines, CdbLines
    <3>1. Settled(k, d) /\ Others(k, p, d)
      BY <1>6, <2>2 DEF HostInv
    <3>2. ASSUME NEW f \in CdbFiles,
                 \A q \in k.programs : d \in vd_job'[q].doms => vd_pc'[q] \notin {Compiling[f], Renaming[f]}
          PROVE  CdbLines(f, d)' = HostLines(f, d)'
      <4>1. \A q \in k.programs : d \in vd_job[q].doms => vd_pc[q] \notin {Compiling[f], Renaming[f]}
        BY <2>2, <3>2
      <4>2. CdbLines(f, d) = HostLines(f, d)
        BY <3>1, <4>1 DEF Settled
      <4>3. HostLines(f, d)' = HostLines(f, d)
        BY <3>1 DEF Others, CdbFiles, Texts
      <4>4. CdbLines(f, d)' = CdbLines(f, d) \/ CdbLines(f, d)' = HostLines(f, d)
        BY <1>6, <3>1, <4>1 DEF Others
      <4> QED BY <4>2, <4>3, <4>4
    <3>3. CdbLines("morercpthosts", d)' # {} => HostLines("assign", d) # {}
      <4>1. ASSUME NEW q \in k.programs, q # p, AtWork(q), d \in vd_job[q].doms, vd_pc[q] = Compiling["morercpthosts"]
            PROVE  HostLines("assign", d) # {}
        <5>1. Made(vd_pc[q], vd_job[q], d) /\ Placed(k, vd_pc[q], vd_job[q]) /\ vd_job[q] \in HostJob(k)
          BY <1>6, <4>1 DEF HostInv, HostIs
        <5> QED BY <4>1, <5>1 DEF Made, Placed, Compiling, HostJob
      <4>2. \/ CdbLines("morercpthosts", d)' = CdbLines("morercpthosts", d)
            \/ CdbLines("morercpthosts", d)' = HostLines("morercpthosts", d)
            \/ HostLines("assign", d) # {}
        BY <1>6, <3>1, <4>1 DEF Others, CdbFiles
      <4> QED BY <3>1, <4>2 DEF Settled
    <3> QED BY <1>4, <1>6, <2>2, <3>1, <3>2, <3>3 DEF Settled
  <2> QED BY <2>1, <2>2
<1>7. ASSUME NEW q \in k.programs, NEW f \in CdbFiles PROVE Read(k, q, f)'
  <2>1. CASE q = p
    BY <2>1
  <2>2. CASE q # p
    <3> SUFFICES ASSUME vd_pc'[q] = Renaming[f] PROVE Read(k, q, f)'
      BY DEF Read
    <3>1. vd_pc[q] = Renaming[f] /\ vd_job'[q] = vd_job[q] /\ Read(k, q, f) /\ Read(k, p, f)'
      BY <2>2 DEF HostInv
    <3>2. \A r \in k.programs : r # q => vd_pc'[r] # Renaming[f]
      BY <2>2, <3>1 DEF Read
    <3>3. ASSUME NEW d \in k.domains \ vd_hurt', \A r \in k.programs : d \in vd_job'[r].doms => vd_pc'[r] # Compiling[f]
          PROVE  {l \in vd_job'[q].snap : l.dom = d} = HostLines(f, d)'
      <4>1. HostLines(f, d)' = HostLines(f, d) /\ (d \in vd_job[p].doms => vd_pc[p] # Compiling[f])
        <5>1. CASE d \in vd_job'[p].doms
          BY <2>2, <3>1, <3>3, <5>1 DEF Unread
        <5>2. CASE d \notin vd_job'[p].doms
          BY <5>2 DEF Others, CdbFiles, Texts
        <5> QED BY <5>1, <5>2
      <4>2. \A r \in k.programs : d \in vd_job[r].doms => vd_pc[r] # Compiling[f]
        BY <3>3, <4>1
      <4>3. {l \in vd_job[q].snap : l.dom = d} = HostLines(f, d)
        BY <3>1, <3>3, <4>2 DEF Read
      <4> QED BY <3>1, <4>1, <4>3
    <3> QED BY <3>2, <3>3 DEF Read
  <2> QED BY <2>1, <2>2
<1> QED BY <1>1, <1>2, <1>5, <1>6, <1>7, <1>8 DEF HostInv

(* A step of a program that goes on with its domains, or ends.                *)
LEMMA HostWork ==
  ASSUME NEW k, HostInv(k), NEW p \in k.programs, AtWork(p),
         NEW to \in Stages, to # "idle", to # "rmdir", vd_pc' = [vd_pc EXCEPT ![p] = to],
         NEW j \in HostJob(k), vd_job' = [vd_job EXCEPT ![p] = j],
         j.doms = vd_job[p].doms, j.dom = vd_job[p].dom, j.real = vd_job[p].real,
         vd_file' \in [Texts -> SUBSET HostLine(k)], vd_cdb' \in [CdbFiles -> SUBSET HostLine(k)],
         vd_dirs' \subseteq k.domains \ k.aliases, vd_hurt' \subseteq k.domains, vd_hurt \subseteq vd_hurt',
         vd_kills' \in Nat, said' \in [k.domains -> {"there", "gone", "unknown"}],
         \A d \in k.domains \ j.doms : Others(k, p, d),
         Placed(k, to, j),
         \A d \in j.doms \ vd_hurt' :
            Settled(k, d)' /\ Unread(k, p, d) /\ (to # "end" => Made(vd_pc[p], vd_job[p], d)'),
         \A f \in CdbFiles : Read(k, p, f)',
         Host(k)!HurtForCause'
  PROVE  HostInv(k)'
<1>1. /\ vd_pc \in [k.programs -> Stages] /\ vd_job \in [k.programs -> HostJob(k)]
      /\ vd_pc'[p] = to /\ vd_job'[p] = j
      /\ \A q \in k.programs : q # p => vd_pc'[q] = vd_pc[q] /\ vd_job'[q] = vd_job[q]
  BY DEF HostInv, HostIs
<1>2. HostIs(k)'
  BY <1>1 DEF HostIs
<1>3. \A q \in k.programs : q # p /\ AtWork(q) => Touches(vd_job'[p]) \cap Touches(vd_job[q]) = {}
  <2>1. Touches(vd_job'[p]) = Touches(vd_job[p])
    BY <1>1 DEF Touches
  <2> QED BY <2>1 DEF HostInv
<1>4. AtWork(p)' => to # "end"
  BY <1>1 DEF AtWork
<1> QED BY <1>1, <1>2, <1>3, <1>4, HostStep

(* What is known of a program at work and its domains.                        *)
LEMMA AtTheHost ==
  ASSUME NEW k, HostInv(k), NEW p \in k.programs, AtWork(p)
  PROVE  /\ vd_job[p] \in HostJob(k) /\ vd_pc[p] \in Stages /\ Placed(k, vd_pc[p], vd_job[p])
         /\ vd_job[p].doms \subseteq k.domains /\ vd_job[p].snap \subseteq HostLine(k)
         /\ vd_job[p].dom \in k.domains /\ vd_job[p].real \in k.domains
         /\ \A d \in vd_job[p].doms \ vd_hurt : Made(vd_pc[p], vd_job[p], d) /\ Settled(k, d)
         /\ \A d \in vd_job[p].doms \ vd_hurt, f \in CdbFiles :
              vd_pc[p] \notin {Compiling[f], Renaming[f]} => CdbLines(f, d) = HostLines(f, d)
         /\ \A q \in k.programs, d \in vd_job[p].doms : q # p /\ AtWork(q) => d \notin vd_job[q].doms
         /\ vd_pc[p] = "rmdir" => vd_job[p].dom \in vd_job[p].doms \cup vd_hurt
         /\ vd_job' = vd_job => vd_job' = [vd_job EXCEPT ![p] = vd_job[p]]
<1>1. vd_job[p] \in HostJob(k) /\ vd_pc[p] \in Stages /\ Placed(k, vd_pc[p], vd_job[p])
  BY DEF HostInv, HostIs
<1>2. vd_job[p].doms \subseteq k.domains /\ vd_job[p].snap \subseteq HostLine(k)
  BY <1>1 DEF HostJob
<1>3. vd_job[p].dom \in k.domains /\ vd_job[p].real \in k.domains
  BY <1>1 DEF Placed, AtWork
<1>4. \A d \in vd_job[p].doms \ vd_hurt : Made(vd_pc[p], vd_job[p], d) /\ Settled(k, d)
  BY <1>2 DEF HostInv
<1>5. \A q \in k.programs, d \in vd_job[p].doms : q # p /\ AtWork(q) => d \notin vd_job[q].doms
  BY DEF HostInv, Touches
<1>6. vd_job' = vd_job => vd_job' = [vd_job EXCEPT ![p] = vd_job[p]]
  BY DEF HostInv, HostIs
<1>7. ASSUME NEW d \in vd_job[p].doms \ vd_hurt, NEW f \in CdbFiles, vd_pc[p] \notin {Compiling[f], Renaming[f]}
      PROVE  CdbLines(f, d) = HostLines(f, d)
  <2>1. \A q \in k.programs : d \in vd_job[q].doms => q = p \/ ~AtWork(q)
    BY <1>5
  <2>2. \A q \in k.programs : ~AtWork(q) => vd_pc[q] \notin {Compiling[f], Renaming[f]}
    BY DEF AtWork, CdbFiles, Compiling, Renaming
  <2> QED BY <1>4, <1>7, <2>1, <2>2 DEF Settled
<1>8. vd_pc[p] = "rmdir" => vd_job[p].dom \in vd_job[p].doms \cup vd_hurt
  BY DEF HostInv
<1> QED BY <1>1, <1>2, <1>3, <1>4, <1>5, <1>6, <1>7, <1>8

(* The lines of the files after a line was added, or lines were removed.      *)
LEMMA AddedHostLine ==
  ASSUME NEW k, HostInv(k), NEW f \in Texts, NEW l \in HostLine(k),
         vd_file' = [vd_file EXCEPT ![f] = @ \cup {l}]
  PROVE  /\ vd_file' \in [Texts -> SUBSET HostLine(k)]
         /\ \A d, g : d # l.dom \/ g # f => (g \in Texts => HostLines(g, d)' = HostLines(g, d))
         /\ HostLines(f, l.dom)' = HostLines(f, l.dom) \cup {l}
<1>1. vd_file \in [Texts -> SUBSET HostLine(k)]
  BY DEF HostInv, HostIs
<1>2. \A g \in Texts : vd_file'[g] = IF g = f THEN vd_file[f] \cup {l} ELSE vd_file[g]
  BY <1>1
<1> QED BY <1>1, <1>2 DEF HostLines

LEMMA RemovedLines ==
  ASSUME NEW k, HostInv(k), NEW p \in k.programs, NEW f \in Texts,
         vd_file' = [vd_file EXCEPT ![f] = @ \ Host(k)!Matching(p, f)]
  PROVE  /\ vd_file' \in [Texts -> SUBSET HostLine(k)]
         /\ \A d, g : d \notin vd_job[p].doms \/ g # f => (g \in Texts => HostLines(g, d)' = HostLines(g, d))
         /\ f # "assign" => \A d \in vd_job[p].doms : HostLines(f, d)' = {}
         /\ f = "assign" => \A d \in vd_job[p].doms : HostLines(f, d)' = {l \in HostLines(f, d) : l.real # vd_job[p].real}
<1>1. vd_file \in [Texts -> SUBSET HostLine(k)]
  BY DEF HostInv, HostIs
<1>2. \A g \in Texts : vd_file'[g] = IF g = f THEN vd_file[f] \ Host(k)!Matching(p, f) ELSE vd_file[g]
  BY <1>1
<1> QED BY <1>1, <1>2 DEF HostLines, Host!Matching

LEMMA SameFiles ==
  ASSUME vd_file' = vd_file
  PROVE  \A f, d : HostLines(f, d)' = HostLines(f, d)
BY DEF HostLines

LEMMA SameCdb ==
  ASSUME vd_cdb' = vd_cdb
  PROVE  \A f, d : CdbLines(f, d)' = CdbLines(f, d)
BY DEF CdbLines

Quiet == Stages \ {"idle", "end", "compile_assign", "rename_assign", "compile_morercpthosts", "rename_morercpthosts"}

LEMMA NotCompiling ==
  ASSUME NEW at \in Quiet \cup {"end"}, NEW f \in CdbFiles
  PROVE  at # Compiling[f] /\ at # Renaming[f] /\ Compiling[f] # Renaming[f]
BY DEF Quiet, CdbFiles, Compiling, Renaming

(* A domain at work after a step between compilations.                       *)
LEMMA StaysSettled ==
  ASSUME NEW k, HostInv(k), NEW p \in k.programs, NEW d \in vd_job'[p].doms,
         \A f \in CdbFiles : vd_pc'[p] \notin {Compiling[f], Renaming[f]} => CdbLines(f, d)' = HostLines(f, d)',
         HostLines("rcpthosts", d)' # {} \/ HostLines("morercpthosts", d)' # {} \/ CdbLines("morercpthosts", d)' # {} => HostLines("assign", d)' # {},
         \A l, m \in HostLines("rcpthosts", d)' : l = m, \A l, m \in HostLines("morercpthosts", d)' : l = m,
         HostLines("rcpthosts", d)' = {} \/ HostLines("morercpthosts", d)' = {},
         \A l, m \in HostLines("assign", d)' : l.real = m.real,
         said'[d] = "unknown"
  PROVE  Settled(k, d)'
BY DEF Settled

LEMMA HostQuiet ==
  ASSUME NEW k, HostInv(k), NEW p \in k.programs, vd_pc[p] \in Quiet,
         NEW to \in Quiet, to # "rmdir", vd_pc' = [vd_pc EXCEPT ![p] = to],
         UNCHANGED <<vd_file, vd_cdb, vd_job, vd_kills, said, vd_hurt>>,
         vd_dirs' \subseteq k.domains \ k.aliases,
         \A d \in k.domains \ (vd_job[p].doms \cup vd_hurt) : d \in vd_dirs' <=> d \in vd_dirs,
         Placed(k, to, vd_job[p]),
         \A d \in vd_job[p].doms \ vd_hurt : Made(vd_pc[p], vd_job[p], d)'
  PROVE  HostInv(k)'
<1>1. AtWork(p) /\ to \in Stages /\ to # "idle"
  BY DEF Quiet, AtWork
<1>2. vd_pc'[p] = to /\ HostIs(k)
  BY DEF HostInv, HostIs
<1>3. \A f, d : HostLines(f, d)' = HostLines(f, d) /\ CdbLines(f, d)' = CdbLines(f, d)
  BY SameFiles, SameCdb
<1>4. \A d \in k.domains \ vd_job[p].doms : Others(k, p, d)
  BY <1>3 DEF Others
<1>5. ASSUME NEW d \in vd_job[p].doms \ vd_hurt PROVE Settled(k, d)' /\ Unread(k, p, d)
  <2>1. Settled(k, d) /\ Made(vd_pc[p], vd_job[p], d) /\ \A f \in CdbFiles : CdbLines(f, d) = HostLines(f, d)
    BY <1>1, AtTheHost, NotCompiling
  <2>2. Unread(k, p, d)
    BY <1>3, NotCompiling DEF Unread
  <2>3. said'[d] = "unknown"
    BY <2>1 DEF Made
  <2>4. Settled(k, d)'
    BY <1>3, <2>1, <2>3, StaysSettled DEF Settled
  <2> QED BY <2>2, <2>4
<1>6. \A f \in CdbFiles : Read(k, p, f)'
  BY <1>2, NotCompiling DEF Read
<1>7. Host(k)!HurtForCause'
  BY DEF HostInv, Host!HurtForCause
<1>8. vd_job[p] \in HostJob(k) /\ vd_job' = [vd_job EXCEPT ![p] = vd_job[p]]
  BY <1>1, AtTheHost
<1> QED BY <1>1, <1>2, <1>4, <1>5, <1>6, <1>7, <1>8, HostWork DEF HostIs

LEMMA HostMakeDir ==
  ASSUME NEW k, HostInv(k), NEW p \in k.programs, Host(k)!MakeDir(p)
  PROVE  HostInv(k)'
<1> USE DEF Host!MakeDir, Host!Go
<1>1. vd_pc[p] \in Quiet /\ "assign" \in Quiet /\ AtWork(p)
  BY DEF Quiet, Stages, AtWork
<1>2. /\ Placed(k, vd_pc[p], vd_job[p]) /\ vd_job[p].doms = {vd_job[p].dom} /\ vd_job[p].dom \in k.domains
      /\ vd_job[p].op = "add" /\ vd_job[p].dom \notin k.aliases
      /\ \A d \in vd_job[p].doms \ vd_hurt : Made(vd_pc[p], vd_job[p], d)
  BY <1>1, AtTheHost DEF Placed
<1>3. Placed(k, "assign", vd_job[p])
  BY <1>2 DEF Placed
<1>4. vd_pc'[p] = "assign" /\ vd_dirs \subseteq k.domains \ k.aliases
  BY DEF HostInv, HostIs
<1>5. \A f, d : HostLines(f, d)' = HostLines(f, d)
  BY SameFiles
<1>6. \A d \in vd_job[p].doms \ vd_hurt : Made(vd_pc[p], vd_job[p], d)'
  BY <1>2, <1>4, <1>5 DEF Made
<1> QED BY <1>1, <1>2, <1>3, <1>4, <1>6, HostQuiet

LEMMA HostRemoveDir ==
  ASSUME NEW k, HostInv(k), NEW p \in k.programs, Host(k)!RemoveDir(p)
  PROVE  HostInv(k)'
<1> USE DEF Host!RemoveDir, Host!Go
<1>1. vd_pc[p] \in Quiet /\ "no_rcpthosts" \in Quiet /\ AtWork(p)
  BY DEF Quiet, Stages, AtWork
<1>2. /\ Placed(k, vd_pc[p], vd_job[p]) /\ vd_job[p].op = "del" /\ vd_job[p].dom \in k.domains
      /\ \A d \in vd_job[p].doms \ vd_hurt : Made(vd_pc[p], vd_job[p], d)
  BY <1>1, AtTheHost DEF Placed
<1>3. Placed(k, "no_rcpthosts", vd_job[p])
  BY <1>2 DEF Placed
<1>4. vd_pc'[p] = "no_rcpthosts" /\ vd_dirs \subseteq k.domains \ k.aliases
  BY DEF HostInv, HostIs
<1>5. \A f, d : HostLines(f, d)' = HostLines(f, d)
  BY SameFiles
<1>6. \A d \in vd_job[p].doms \ vd_hurt : d \notin vd_dirs'
  BY <1>2, <1>4 DEF Placed
<1>7. \A d \in vd_job[p].doms \ vd_hurt : Made(vd_pc[p], vd_job[p], d)'
  BY <1>2, <1>4, <1>5, <1>6 DEF Made
<1>8. vd_job[p].dom \in vd_job[p].doms \cup vd_hurt
  BY <1>1, AtTheHost
<1> QED BY <1>1, <1>2, <1>3, <1>4, <1>7, <1>8, HostQuiet

LEMMA HostCount ==
  ASSUME NEW k, HostInv(k), NEW p \in k.programs, Host(k)!Count(p)
  PROVE  HostInv(k)'
<1> USE DEF Host!Count, Host!Go
<1>1. vd_pc[p] = "count" /\ vd_pc[p] \in Quiet /\ AtWork(p)
  BY DEF Quiet, Stages, AtWork
<1>2. PICK to \in {"rcpthosts", "morercpthosts"} : vd_pc' = [vd_pc EXCEPT ![p] = to]
  OBVIOUS
<1>3. /\ Placed(k, vd_pc[p], vd_job[p]) /\ vd_job[p].op \in {"add", "alias"}
      /\ \A d \in vd_job[p].doms \ vd_hurt : Made(vd_pc[p], vd_job[p], d)
  BY <1>1, AtTheHost DEF Placed
<1>4. Placed(k, to, vd_job[p]) /\ to \in Quiet
  BY <1>2, <1>3, <1>1 DEF Placed, Quiet, Stages
<1>5. vd_pc'[p] = to /\ vd_dirs \subseteq k.domains \ k.aliases
  BY <1>2 DEF HostInv, HostIs
<1>6. \A f, d : HostLines(f, d)' = HostLines(f, d)
  BY SameFiles
<1>7. \A d \in vd_job[p].doms \ vd_hurt : Made(vd_pc[p], vd_job[p], d)'
  BY <1>1, <1>2, <1>3, <1>5, <1>6 DEF Made
<1> QED BY <1>1, <1>2, <1>4, <1>5, <1>7, HostQuiet

(* A domain that nobody works on.                                             *)
LEMMA Unworked ==
  ASSUME NEW k, HostInv(k), NEW S, \A q \in Host(k)!Active : Host(k)!Touched(q) \cap S = {},
         NEW e \in k.domains \ vd_hurt, e \in S
  PROVE  Settled(k, e) /\ \A f \in CdbFiles : CdbLines(f, e) = HostLines(f, e)
<1>1. Settled(k, e)
  BY DEF HostInv
<1>2. ASSUME NEW q \in k.programs, e \in vd_job[q].doms PROVE vd_pc[q] \in {"idle", "end"}
  BY <1>2 DEF Host!Active, Host!Touched
<1>3. ASSUME NEW f \in CdbFiles PROVE CdbLines(f, e) = HostLines(f, e)
  <2>1. \A q \in k.programs : e \in vd_job[q].doms => vd_pc[q] \notin {Compiling[f], Renaming[f]}
    BY <1>2 DEF CdbFiles, Compiling, Renaming
  <2> QED BY <1>1, <2>1 DEF Settled
<1> QED BY <1>1, <1>3

LEMMA HostStart ==
  ASSUME NEW k, HostInv(k), NEW p \in k.programs, NEW op \in {"add", "alias", "del"},
         NEW d \in k.domains, NEW r \in k.domains, NEW doms \in SUBSET k.domains, NEW to \in Quiet \cup {"end"},
         Host(k)!Start(p, op, d, r, doms, to),
         Placed(k, to, [op |-> op, dom |-> d, real |-> r, doms |-> doms, snap |-> {}]),
         to = "rmdir" => d \in doms \cup vd_hurt,
         \A e \in doms \ vd_hurt : to # "end" =>
            Made(to, [op |-> op, dom |-> d, real |-> r, doms |-> doms, snap |-> {}], e)'
  PROVE  HostInv(k)'
<1> DEFINE j == [op |-> op, dom |-> d, real |-> r, doms |-> doms, snap |-> {}]
<1>1. /\ vd_pc[p] = "idle" /\ vd_job' = [vd_job EXCEPT ![p] = j] /\ vd_pc' = [vd_pc EXCEPT ![p] = to]
      /\ UNCHANGED <<vd_file, vd_cdb, vd_dirs, vd_kills, vd_hurt>>
      /\ said' = [e \in k.domains |-> IF e \in doms THEN "unknown" ELSE said[e]]
      /\ \A q \in Host(k)!Active : Host(k)!Touched(q) \cap (doms \cup {d, r}) = {}
  BY DEF Host!Start, Host!Go
<1>2. HostIs(k) /\ j \in HostJob(k) /\ to \in Stages
  BY DEF HostInv, HostJob, Quiet, Stages
<1>3. /\ vd_pc'[p] = to /\ vd_job'[p] = j
      /\ \A q \in k.programs : q # p => vd_pc'[q] = vd_pc[q] /\ vd_job'[q] = vd_job[q]
  BY <1>1, <1>2 DEF HostIs
<1>4. said' \in [k.domains -> {"there", "gone", "unknown"}]
  BY <1>1, <1>2 DEF HostIs
<1>5. HostIs(k)'
  <2>1. vd_pc' \in [k.programs -> Stages] /\ vd_job' \in [k.programs -> HostJob(k)]
    BY <1>1, <1>2 DEF HostIs
  <2> QED BY <1>1, <1>2, <1>4, <2>1 DEF HostIs
<1>6. vd_job[p].doms = {}
  BY <1>1 DEF HostInv, Placed
<1>7. \A f, e : HostLines(f, e)' = HostLines(f, e) /\ CdbLines(f, e)' = CdbLines(f, e)
  BY <1>1, SameFiles, SameCdb
<1>8. \A e \in k.domains \ vd_job'[p].doms : Others(k, p, e)
  BY <1>1, <1>3, <1>7 DEF Others
<1>9. Placed(k, vd_pc'[p], vd_job'[p])
  BY <1>3
<1>10. \A q \in k.programs : q # p /\ AtWork(q) => Touches(vd_job'[p]) \cap Touches(vd_job[q]) = {}
  BY <1>1, <1>3 DEF Touches, Host!Active, Host!Touched, AtWork
<1>11. ASSUME NEW e \in vd_job'[p].doms \ vd_hurt'
       PROVE  Settled(k, e)' /\ (AtWork(p)' => Made(vd_pc[p], vd_job[p], e)') /\ Unread(k, p, e)
  <2>1. e \in k.domains \ vd_hurt /\ e \in doms /\ said'[e] = "unknown"
    BY <1>1, <1>3, <1>11
  <2>2. Settled(k, e) /\ \A f \in CdbFiles : CdbLines(f, e) = HostLines(f, e)
    BY <1>1, <2>1, Unworked
  <2>3. Settled(k, e)'
    BY <1>7, <2>1, <2>2, <1>11, StaysSettled DEF Settled
  <2>4. AtWork(p)' => Made(vd_pc[p], vd_job[p], e)'
    BY <1>1, <1>3, <2>1 DEF AtWork
  <2>5. Unread(k, p, e)
    BY <1>1, <1>7 DEF Unread, CdbFiles, Compiling
  <2> QED BY <2>3, <2>4, <2>5
<1>12. \A f \in CdbFiles : Read(k, p, f)'
  BY <1>3, NotCompiling DEF Read
<1>13. Host(k)!HurtForCause'
  BY <1>1 DEF HostInv, Host!HurtForCause
<1>14. vd_pc'[p] = "rmdir" => vd_job'[p].dom \in vd_job'[p].doms \cup vd_hurt'
  BY <1>1, <1>3
<1> HIDE DEF j
<1> QED BY <1>1, <1>3, <1>5, <1>6, <1>8, <1>9, <1>10, <1>11, <1>12, <1>13, <1>14, HostStep

LEMMA HostAddDomain ==
  ASSUME NEW k, HostInv(k), NEW p \in k.programs, Host(k)!AddDomain(p)
  PROVE  HostInv(k)'
<1>1. PICK d \in k.domains \ k.aliases : Host(k)!Real(d) = {} /\ Host(k)!Start(p, "add", d, d, {d}, "mkdir")
  BY DEF Host!AddDomain
<1> DEFINE j == [op |-> "add", dom |-> d, real |-> d, doms |-> {d}, snap |-> {}]
<1>2. "mkdir" \in Quiet /\ {d} \in SUBSET k.domains
  BY DEF Quiet, Stages
<1>3. Placed(k, "mkdir", j)
  BY DEF Placed
<1>4. ASSUME NEW e \in {d} \ vd_hurt PROVE Made("mkdir", j, e)'
  <2>1. /\ \A q \in Host(k)!Active : Host(k)!Touched(q) \cap {d} = {}
        /\ said' = [x \in k.domains |-> IF x \in {d} THEN "unknown" ELSE said[x]] /\ vd_file' = vd_file
    BY <1>1 DEF Host!Start
  <2>2. Settled(k, d) /\ CdbLines("assign", d) = HostLines("assign", d)
    BY <1>4, <2>1, Unworked DEF CdbFiles
  <2>3. CdbLines("assign", d) = {}
    BY <1>1 DEF Host!Real, CdbLines
  <2>4. \A f \in Texts : HostLines(f, d)' = HostLines(f, d)
    BY <2>1, SameFiles
  <2>5. said'[e] = "unknown" /\ e = d
    BY <2>1, <1>4
  <2> QED BY <2>2, <2>3, <2>4, <2>5 DEF Made, Settled, Texts
<1> HIDE DEF j
<1> QED BY <1>1, <1>2, <1>3, <1>4, HostStart DEF j

LEMMA HostAddAlias ==
  ASSUME NEW k, HostInv(k), NEW p \in k.programs, k.aliases \subseteq k.domains, Host(k)!AddAlias(p)
  PROVE  HostInv(k)'
<1>1. PICK d \in k.aliases, r \in k.domains \ k.aliases :
        Host(k)!Real(d) = {} /\ Host(k)!Start(p, "alias", d, r, {d}, "assign")
  BY DEF Host!AddAlias
<1> DEFINE j == [op |-> "alias", dom |-> d, real |-> r, doms |-> {d}, snap |-> {}]
<1>2. "assign" \in Quiet /\ {d} \in SUBSET k.domains /\ d \in k.domains
  BY DEF Quiet, Stages
<1>3. Placed(k, "assign", j)
  BY <1>2 DEF Placed
<1>4. ASSUME NEW e \in {d} \ vd_hurt PROVE Made("assign", j, e)'
  <2>1. /\ \A q \in Host(k)!Active : Host(k)!Touched(q) \cap {d} = {}
        /\ said' = [x \in k.domains |-> IF x \in {d} THEN "unknown" ELSE said[x]] /\ vd_file' = vd_file
    BY <1>1 DEF Host!Start
  <2>2. Settled(k, d) /\ CdbLines("assign", d) = HostLines("assign", d)
    BY <1>2, <1>4, <2>1, Unworked DEF CdbFiles
  <2>3. CdbLines("assign", d) = {}
    BY <1>1 DEF Host!Real, CdbLines
  <2>4. \A f \in Texts : HostLines(f, d)' = HostLines(f, d)
    BY <2>1, SameFiles
  <2>5. said'[e] = "unknown" /\ e = d
    BY <1>2, <2>1, <1>4
  <2> QED BY <2>2, <2>3, <2>4, <2>5 DEF Made, Settled, Texts
<1> HIDE DEF j
<1> QED BY <1>1, <1>2, <1>3, <1>4, HostStart DEF j

LEMMA HostDelAlias ==
  ASSUME NEW k, HostInv(k), NEW p \in k.programs, Host(k)!DelAlias(p)
  PROVE  HostInv(k)'
<1>0. PICK d \in k.domains : \E r \in Host(k)!Real(d) \ {d} : Host(k)!Start(p, "del", d, r, {d}, "no_rcpthosts")
  BY DEF Host!DelAlias
<1>1. PICK r \in Host(k)!Real(d) \ {d} : Host(k)!Start(p, "del", d, r, {d}, "no_rcpthosts")
  BY <1>0
<1> DEFINE j == [op |-> "del", dom |-> d, real |-> r, doms |-> {d}, snap |-> {}]
<1>2. PICK l \in CdbLines("assign", d) : l.real = r
  BY <1>1 DEF Host!Real, CdbLines
<1>3. l \in HostLine(k) /\ l.dom = d
  BY <1>2 DEF CdbLines, HostInv, HostIs, CdbFiles
<1>4. r \in k.domains /\ d \in k.aliases
  BY <1>1, <1>2, <1>3 DEF HostLine
<1>5. "no_rcpthosts" \in Quiet /\ {d} \in SUBSET k.domains
  BY DEF Quiet, Stages
<1>6. Placed(k, "no_rcpthosts", j)
  BY <1>4 DEF Placed
<1>7. ASSUME NEW e \in {d} \ vd_hurt PROVE Made("no_rcpthosts", j, e)'
  <2>1. /\ \A q \in Host(k)!Active : Host(k)!Touched(q) \cap {d, r} = {}
        /\ said' = [x \in k.domains |-> IF x \in {d} THEN "unknown" ELSE said[x]] /\ vd_file' = vd_file
        /\ vd_dirs' = vd_dirs
    BY <1>1 DEF Host!Start
  <2>2. Settled(k, d) /\ CdbLines("assign", d) = HostLines("assign", d)
    BY <1>7, <2>1, Unworked DEF CdbFiles
  <2>3. \A f \in Texts : HostLines(f, d)' = HostLines(f, d)
    BY <2>1, SameFiles
  <2>4. said'[e] = "unknown" /\ e = d
    BY <2>1, <1>7
  <2>5. d \notin vd_dirs
    BY <1>4 DEF HostInv, HostIs
  <2>6. HostLines("assign", d) # {} /\ \A m \in HostLines("assign", d) : m.real = r
    BY <1>2, <2>2 DEF Settled
  <2> QED BY <2>1, <2>2, <2>3, <2>4, <2>5, <2>6 DEF Made, Texts
<1> HIDE DEF j
<1> QED BY <1>1, <1>4, <1>5, <1>6, <1>7, HostStart DEF j

LEMMA HostDelDomain ==
  ASSUME NEW k, HostInv(k), NEW p \in k.programs, Host(k)!DelDomain(p)
  PROVE  HostInv(k)'
<1>1. PICK d \in k.domains : d \in Host(k)!Real(d) /\
        Host(k)!Start(p, "del", d, d, {l.dom : l \in {x \in vd_file["assign"] : x.real = d}}, "rmdir")
  BY DEF Host!DelDomain
<1>0. PICK doms : doms = {l.dom : l \in {x \in vd_file["assign"] : x.real = d}}
  OBVIOUS
<1> DEFINE j == [op |-> "del", dom |-> d, real |-> d, doms |-> doms, snap |-> {}]
<1>2. vd_file["assign"] \subseteq HostLine(k)
  BY DEF HostInv, HostIs, Texts
<1>3. doms \in SUBSET k.domains /\ "rmdir" \in Quiet
  BY <1>0, <1>2 DEF HostLine, Quiet, Stages
<1>4. \A e \in doms : e \notin k.aliases => e = d
  BY <1>0, <1>2 DEF HostLine
<1>5. /\ \A q \in Host(k)!Active : Host(k)!Touched(q) \cap (doms \cup {d, d}) = {}
      /\ said' = [x \in k.domains |-> IF x \in doms THEN "unknown" ELSE said[x]] /\ vd_file' = vd_file
  BY <1>0, <1>1 DEF Host!Start
<1>6. \A e \in doms : \E l \in HostLines("assign", e) : l.real = d
  BY <1>0 DEF HostLines
<1>7. d \in doms \cup vd_hurt
  <2> SUFFICES ASSUME d \notin vd_hurt PROVE d \in doms
    OBVIOUS
  <2>1. CdbLines("assign", d) = HostLines("assign", d)
    BY <1>5, Unworked DEF CdbFiles
  <2>2. \E l \in CdbLines("assign", d) : l.real = d
    BY <1>1 DEF Host!Real, CdbLines
  <2> QED BY <1>0, <2>1, <2>2 DEF HostLines
<1>8. Placed(k, "rmdir", j)
  BY <1>4 DEF Placed
<1>9. ASSUME NEW e \in doms \ vd_hurt PROVE Made("rmdir", j, e)'
  <2>1. e \in k.domains \ vd_hurt /\ e \in doms \cup {d, d}
    BY <1>3, <1>9
  <2>2. Settled(k, e)
    BY <1>5, <2>1, Unworked
  <2>3. \A f \in Texts : HostLines(f, e)' = HostLines(f, e)
    BY <1>5, SameFiles
  <2>4. said'[e] = "unknown"
    BY <1>5, <1>9, <2>1
  <2>5. HostLines("assign", e) # {} /\ \A m \in HostLines("assign", e) : m.real = d
    BY <1>6, <1>9, <2>2 DEF Settled
  <2> QED BY <2>3, <2>4, <2>5 DEF Made, Texts
<1> HIDE DEF j
<1> QED BY <1>0, <1>1, <1>3, <1>7, <1>8, <1>9, HostStart DEF j

LEMMA HostDelUnknown ==
  ASSUME NEW k, HostInv(k), NEW p \in k.programs, Host(k)!DelUnknown(p)
  PROVE  HostInv(k)'
<1>1. PICK d \in k.domains : Host(k)!Start(p, "del", d, d, {}, "end")
  BY DEF Host!DelUnknown
<1>2. Placed(k, "end", [op |-> "del", dom |-> d, real |-> d, doms |-> {}, snap |-> {}])
  BY DEF Placed
<1>3. {} \in SUBSET k.domains
  OBVIOUS
<1> QED BY <1>1, <1>2, <1>3, HostStart

(* A line is added for the domain.                                            *)
LEMMA HostUpdate ==
  ASSUME NEW k, HostInv(k), NEW p \in k.programs, NEW f, NEW to,
         \/ vd_pc[p] = "assign" /\ f = "assign" /\ to = "compile_assign"
         \/ vd_pc[p] = "rcpthosts" /\ f = "rcpthosts" /\ to = "virtualdomains"
         \/ vd_pc[p] = "morercpthosts" /\ f = "morercpthosts" /\ to = "compile_morercpthosts"
         \/ vd_pc[p] = "virtualdomains" /\ f = "virtualdomains" /\ to = "no_locals",
         Host(k)!Update(p, f, to)
  PROVE  HostInv(k)'
<1> DEFINE l == Host(k)!Line(vd_job[p].dom, vd_job[p].real, p)
<1>1. /\ vd_file' = [vd_file EXCEPT ![f] = @ \cup {l}] /\ vd_pc' = [vd_pc EXCEPT ![p] = to]
      /\ UNCHANGED <<vd_cdb, vd_dirs, vd_job, vd_kills, said, vd_hurt>>
  BY DEF Host!Update, Host!Go
<1>2. vd_pc[p] \in Quiet /\ AtWork(p) /\ f \in Texts /\ to \in Stages /\ to \notin {"idle", "rmdir", "end"}
  BY DEF Quiet, Stages, AtWork, Texts
<1>3. /\ Placed(k, vd_pc[p], vd_job[p]) /\ vd_job[p].op \in {"add", "alias"} /\ vd_job[p].doms = {vd_job[p].dom}
      /\ vd_job[p].dom \in k.domains /\ vd_job[p].real \in k.domains
      /\ vd_job[p].dom \notin k.aliases => vd_job[p].real = vd_job[p].dom
      /\ vd_job[p] \in HostJob(k) /\ vd_job' = [vd_job EXCEPT ![p] = vd_job[p]]
  <2>1. Placed(k, vd_pc[p], vd_job[p]) /\ vd_job[p] \in HostJob(k) /\ vd_job' = [vd_job EXCEPT ![p] = vd_job[p]]
    BY <1>1, <1>2, AtTheHost
  <2> QED BY <1>2, <2>1 DEF Placed
<1>4. l \in HostLine(k) /\ l.dom = vd_job[p].dom
  BY <1>3 DEF HostLine, Host!Line
<1>5. Placed(k, to, vd_job[p])
  BY <1>3 DEF Placed
<1> HIDE DEF l
<1>6. PICK m : m = l
  OBVIOUS
<1>7. vd_file' = [vd_file EXCEPT ![f] = @ \cup {m}] /\ m \in HostLine(k) /\ m.dom = vd_job[p].dom
  BY <1>1, <1>4, <1>6
<1>8. /\ vd_file' \in [Texts -> SUBSET HostLine(k)]
      /\ \A d, g : d # m.dom \/ g # f => (g \in Texts => HostLines(g, d)' = HostLines(g, d))
      /\ HostLines(f, m.dom)' = HostLines(f, m.dom) \cup {m}
  BY <1>2, <1>7, AddedHostLine
<1>9. \A g, d : CdbLines(g, d)' = CdbLines(g, d)
  BY <1>1, SameCdb
<1>10. \A d \in k.domains \ vd_job[p].doms : Others(k, p, d)
  BY <1>1, <1>3, <1>7, <1>8, <1>9 DEF Others
<1>11. vd_pc'[p] = to
  BY <1>1 DEF HostInv, HostIs
<1>12. ASSUME NEW d \in vd_job[p].doms \ vd_hurt'
       PROVE  Settled(k, d)' /\ Unread(k, p, d) /\ Made(vd_pc[p], vd_job[p], d)'
  <2>1. d \in vd_job[p].doms \ vd_hurt /\ d = m.dom
    BY <1>1, <1>3, <1>7, <1>12
  <2>2. Settled(k, d) /\ Made(vd_pc[p], vd_job[p], d) /\ \A g \in CdbFiles : CdbLines(g, d) = HostLines(g, d)
    BY <1>2, <2>1, AtTheHost, NotCompiling
  <2>3. /\ \A g \in Texts : g # f => HostLines(g, d)' = HostLines(g, d)
        /\ HostLines(f, d)' = HostLines(f, d) \cup {m} /\ said'[d] = said[d]
    BY <1>1, <1>8, <2>1
  <2>4. Unread(k, p, d)
    BY <1>2, <1>11, <2>3, NotCompiling DEF Unread, CdbFiles, Compiling, Texts
  <2> HIDE DEF HostLines, CdbLines
  <2>5. Made(to, vd_job[p], d)'
    <3>1. vd_dirs' = vd_dirs /\ vd_job' = vd_job
      BY <1>1
    <3> QED BY <1>3, <2>2, <2>3, <3>1 DEF Made, Texts
  <2>6. Made(vd_pc[p], vd_job[p], d)'
    BY <1>1, <1>11, <2>5
  <2>7. \A g \in CdbFiles : vd_pc'[p] \notin {Compiling[g], Renaming[g]} => CdbLines(g, d)' = HostLines(g, d)'
    BY <1>9, <1>11, <2>2, <2>3 DEF CdbFiles, Texts, Compiling
  <2>8. HostLines("assign", d)' # {}
    BY <1>3, <2>2, <2>3 DEF Made, Texts
  <2>9. HostLines("rcpthosts", d)' = {} \/ HostLines("morercpthosts", d)' = {}
    BY <1>3, <2>2, <2>3 DEF Made, Texts, Settled
  <2>10. \A x, y \in HostLines("rcpthosts", d)' : x = y
    BY <1>3, <2>2, <2>3 DEF Made, Texts, Settled
  <2>11. \A x, y \in HostLines("morercpthosts", d)' : x = y
    BY <1>3, <2>2, <2>3 DEF Made, Texts, Settled
  <2>12. \A x, y \in HostLines("assign", d)' : x.real = y.real
    BY <1>3, <2>2, <2>3 DEF Made, Texts, Settled
  <2>13. said'[d] = "unknown"
    BY <2>2, <2>3 DEF Made
  <2>14. d \in vd_job'[p].doms
    BY <1>1, <2>1
  <2>15. Settled(k, d)'
    BY <2>7, <2>8, <2>9, <2>10, <2>11, <2>12, <2>13, <2>14, StaysSettled
  <2> QED BY <2>4, <2>6, <2>15
<1>13. \A g \in CdbFiles : Read(k, p, g)'
  BY <1>11 DEF Read, CdbFiles, Renaming
<1>14. Host(k)!HurtForCause'
  BY <1>1 DEF HostInv, Host!HurtForCause
<1>15. HostIs(k)
  BY DEF HostInv
<1>16. /\ vd_cdb' \in [CdbFiles -> SUBSET HostLine(k)] /\ vd_dirs' \subseteq k.domains \ k.aliases
       /\ vd_hurt' \subseteq k.domains /\ vd_hurt \subseteq vd_hurt'
       /\ vd_kills' \in Nat /\ said' \in [k.domains -> {"there", "gone", "unknown"}]
  BY <1>1, <1>15 DEF HostIs
<1> QED BY <1>1, <1>2, <1>3, <1>5, <1>8, <1>10, <1>12, <1>13, <1>14, <1>16, HostWork

LEMMA HostAdd ==
  ASSUME NEW k, HostInv(k), NEW p \in k.programs,
         Host(k)!AddAssign(p) \/ Host(k)!AddRcpthosts(p) \/ Host(k)!AddMore(p) \/ Host(k)!AddVirtual(p)
  PROVE  HostInv(k)'
BY HostUpdate DEF Host!AddAssign, Host!AddRcpthosts, Host!AddMore, Host!AddVirtual

(* Lines are removed for the domains.                                         *)
LEMMA HostRemove ==
  ASSUME NEW k, HostInv(k), NEW p \in k.programs, NEW f, NEW to,
         \/ vd_pc[p] = "no_rcpthosts" /\ f = "rcpthosts" /\ to \in {"no_morercpthosts", "no_virtualdomains"}
         \/ vd_pc[p] = "no_morercpthosts" /\ f = "morercpthosts" /\ to \in {"no_virtualdomains", "compile_morercpthosts"}
         \/ vd_pc[p] = "no_virtualdomains" /\ f = "virtualdomains" /\ to = "no_assign"
         \/ vd_pc[p] = "no_assign" /\ f = "assign" /\ to = "compile_assign",
         vd_file' = [vd_file EXCEPT ![f] = @ \ Host(k)!Matching(p, f)], vd_pc' = [vd_pc EXCEPT ![p] = to],
         UNCHANGED <<vd_dirs, vd_job, vd_kills, said>>, vd_hurt \subseteq vd_hurt', vd_hurt' \subseteq k.domains,
         vd_cdb' \in [CdbFiles -> SUBSET HostLine(k)], Host(k)!HurtForCause',
         \A d \in k.domains \ vd_job[p].doms, g \in CdbFiles : CdbLines(g, d)' = CdbLines(g, d) \/ CdbLines(g, d)' = HostLines(g, d),
         \A d \in vd_job[p].doms \ vd_hurt' :
            /\ CdbLines("assign", d)' = CdbLines("assign", d)
            /\ to = "no_virtualdomains" => HostLines("morercpthosts", d)' = {} /\ CdbLines("morercpthosts", d)' = {}
            /\ to # "no_virtualdomains" => CdbLines("morercpthosts", d)' = CdbLines("morercpthosts", d)
            /\ f = "morercpthosts" /\ to = "no_virtualdomains" =>
                 HostLines(f, d)' = HostLines(f, d) \/ \A q \in k.programs : vd_pc[q] # "rename_morercpthosts"
  PROVE  HostInv(k)'
<1>1. vd_pc[p] \in Quiet /\ AtWork(p) /\ f \in Texts /\ to \in Stages /\ to \notin {"idle", "rmdir", "end"}
  BY DEF Quiet, Stages, AtWork, Texts
<1>2. /\ Placed(k, vd_pc[p], vd_job[p]) /\ vd_job[p].op \in {"del", "warned"}
      /\ vd_job[p] \in HostJob(k) /\ vd_job' = [vd_job EXCEPT ![p] = vd_job[p]]
  <2>1. Placed(k, vd_pc[p], vd_job[p]) /\ vd_job[p] \in HostJob(k) /\ vd_job' = [vd_job EXCEPT ![p] = vd_job[p]]
    BY <1>1, AtTheHost
  <2> QED BY <1>1, <2>1 DEF Placed
<1>3. Placed(k, to, vd_job[p])
  BY <1>2 DEF Placed
<1>4. /\ vd_file' \in [Texts -> SUBSET HostLine(k)]
      /\ \A d, g : d \notin vd_job[p].doms \/ g # f => (g \in Texts => HostLines(g, d)' = HostLines(g, d))
      /\ f # "assign" => \A d \in vd_job[p].doms : HostLines(f, d)' = {}
      /\ f = "assign" => \A d \in vd_job[p].doms : HostLines(f, d)' = {l \in HostLines(f, d) : l.real # vd_job[p].real}
  BY <1>1, RemovedLines
<1>5. \A d \in k.domains \ vd_job[p].doms : Others(k, p, d)
  BY <1>4 DEF Others
<1>6. vd_pc'[p] = to /\ HostIs(k)
  BY DEF HostInv, HostIs
<1>7. ASSUME NEW d \in vd_job[p].doms \ vd_hurt'
      PROVE  Settled(k, d)' /\ Unread(k, p, d) /\ Made(vd_pc[p], vd_job[p], d)'
  <2>1. d \in vd_job[p].doms \ vd_hurt
    BY <1>7
  <2>2. Settled(k, d) /\ Made(vd_pc[p], vd_job[p], d) /\ \A g \in CdbFiles : CdbLines(g, d) = HostLines(g, d)
    BY <1>1, <2>1, AtTheHost, NotCompiling
  <2>3. /\ \A g \in Texts : g # f => HostLines(g, d)' = HostLines(g, d)
        /\ f # "assign" => HostLines(f, d)' = {}
        /\ f = "assign" => HostLines(f, d)' = {l \in HostLines(f, d) : l.real # vd_job[p].real}
    BY <1>4, <2>1
  <2>4. f = "assign" => HostLines(f, d)' = {}
    BY <1>1, <1>2, <2>2, <2>3 DEF Made
  <2> HIDE DEF HostLines, CdbLines
  <2>5. Unread(k, p, d)
    <3> SUFFICES ASSUME NEW g \in CdbFiles, NEW q \in k.programs, q # p, vd_pc[q] = Renaming[g], to # Compiling[g]
                 PROVE  HostLines(g, d)' = HostLines(g, d)
      BY <1>1, <1>6, NotCompiling DEF Unread
    <3>1. CASE g # f
      BY <2>3, <3>1 DEF CdbFiles, Texts
    <3>2. CASE g = f
      BY <1>7, <3>2 DEF CdbFiles, Compiling, Renaming
    <3> QED BY <3>1, <3>2
  <2>6. Made(to, vd_job[p], d)'
    BY <1>1, <1>2, <1>7, <2>2, <2>3, <2>4 DEF Made, Texts
  <2>7. Made(vd_pc[p], vd_job[p], d)'
    BY <1>6, <2>6
  <2>8. \A g \in CdbFiles : vd_pc'[p] \notin {Compiling[g], Renaming[g]} => CdbLines(g, d)' = HostLines(g, d)'
    <3>1. f # "assign" => CdbLines("assign", d)' = HostLines("assign", d)'
      BY <1>7, <2>2, <2>3 DEF CdbFiles, Texts
    <3>2. to # "compile_morercpthosts" => CdbLines("morercpthosts", d)' = HostLines("morercpthosts", d)'
      BY <1>1, <1>7, <2>2, <2>3 DEF CdbFiles, Texts
    <3> QED BY <1>6, <3>1, <3>2 DEF CdbFiles, Compiling
  <2>9. HostLines("rcpthosts", d)' # {} \/ HostLines("morercpthosts", d)' # {} \/ CdbLines("morercpthosts", d)' # {} => HostLines("assign", d)' # {}
    <3>1. CASE f # "assign"
      <4>1. HostLines("assign", d)' = HostLines("assign", d) /\ HostLines("assign", d) # {}
        BY <1>2, <2>2, <2>3, <3>1 DEF Made, Texts
      <4> QED BY <4>1
    <3>2. CASE f = "assign"
      <4>1. HostLines("rcpthosts", d) = {} /\ HostLines("morercpthosts", d) = {} /\ CdbLines("morercpthosts", d) = {}
        BY <1>2, <2>2, <3>2 DEF Made, CdbFiles
      <4>2. HostLines("rcpthosts", d)' = {} /\ HostLines("morercpthosts", d)' = {}
        BY <2>3, <3>2, <4>1 DEF Texts
      <4> QED BY <1>7, <3>2, <4>1, <4>2
    <3> QED BY <3>1, <3>2
  <2>10. /\ HostLines("rcpthosts", d)' = HostLines("rcpthosts", d) \/ HostLines("rcpthosts", d)' = {}
         /\ HostLines("morercpthosts", d)' = HostLines("morercpthosts", d) \/ HostLines("morercpthosts", d)' = {}
         /\ HostLines("assign", d)' = HostLines("assign", d) \/ HostLines("assign", d)' = {}
    BY <2>3, <2>4 DEF Texts
  <2>11. said'[d] = "unknown" /\ d \in vd_job'[p].doms
    BY <2>1, <2>2 DEF Made
  <2>12. Settled(k, d)'
    BY <2>2, <2>8, <2>9, <2>10, <2>11, StaysSettled DEF Settled
  <2> QED BY <2>5, <2>7, <2>12
<1>8. \A g \in CdbFiles : Read(k, p, g)'
  BY <1>6 DEF Read, CdbFiles, Renaming
<1>9. /\ vd_dirs' \subseteq k.domains \ k.aliases
      /\ vd_kills' \in Nat /\ said' \in [k.domains -> {"there", "gone", "unknown"}]
  BY <1>6 DEF HostIs
<1> QED BY <1>1, <1>2, <1>3, <1>4, <1>5, <1>7, <1>8, <1>9, HostWork

LEMMA HostDelVirtual ==
  ASSUME NEW k, HostInv(k), NEW p \in k.programs, Host(k)!DelVirtual(p)
  PROVE  HostInv(k)'
<1>1. \A g, d : CdbLines(g, d)' = CdbLines(g, d)
  BY SameCdb DEF Host!DelVirtual
<1>2. HostIs(k) /\ Host(k)!HurtForCause
  BY DEF HostInv
<1> QED BY <1>1, <1>2, HostRemove DEF Host!DelVirtual, Host!Go, HostIs, Host!HurtForCause

LEMMA HostDelAssign ==
  ASSUME NEW k, HostInv(k), NEW p \in k.programs, Host(k)!DelAssign(p)
  PROVE  HostInv(k)'
<1>1. \A g, d : CdbLines(g, d)' = CdbLines(g, d)
  BY SameCdb DEF Host!DelAssign
<1>2. HostIs(k) /\ Host(k)!HurtForCause
  BY DEF HostInv
<1> QED BY <1>1, <1>2, HostRemove DEF Host!DelAssign, Host!Go, HostIs, Host!HurtForCause

LEMMA HostCounts == ASSUME NEW k, NEW S PROVE Host(k)!Cardinality(S) = Cardinality(S)
BY DEF Host!Cardinality, Cardinality

(* Without a cause the lines of a deletion are one line of one file.          *)
LEMMA NoCause ==
  ASSUME NEW k, HostInv(k), NEW p \in k.programs, AtWork(p),
         vd_kills = 0, ~(vd_hurt # {}), k.aliases = {}
  PROVE  /\ Host(k)!Matching(p, "morercpthosts") = {} \/ Cardinality(Host(k)!Matching(p, "morercpthosts")) = 1
         /\ Host(k)!Matching(p, "rcpthosts") # {} => Host(k)!Matching(p, "morercpthosts") = {}
<1> DEFINE d == vd_job[p].dom
<1>1. vd_job[p].doms \subseteq {d} /\ d \in k.domains /\ Settled(k, d)
  BY AtTheHost DEF HostInv, Placed, AtWork
<1>2. \A f \in {"rcpthosts", "morercpthosts"} : Host(k)!Matching(p, f) \subseteq HostLines(f, d)
  BY <1>1 DEF Host!Matching, HostLines
<1>3. HostLines("rcpthosts", d) = {} \/ HostLines("morercpthosts", d) = {}
  BY <1>1 DEF Settled
<1>4. \A l, m \in Host(k)!Matching(p, "morercpthosts") : l = m
  BY <1>1, <1>2 DEF Settled
<1>5. ASSUME NEW l \in Host(k)!Matching(p, "morercpthosts")
      PROVE  Cardinality(Host(k)!Matching(p, "morercpthosts")) = 1
  <2>1. Host(k)!Matching(p, "morercpthosts") = {l}
    BY <1>4
  <2> QED BY <2>1, FS_Singleton
<1> QED BY <1>2, <1>3, <1>5

LEMMA HostDelRcpthosts ==
  ASSUME NEW k, HostInv(k), NEW p \in k.programs, Host(k)!DelRcpthosts(p)
  PROVE  HostInv(k)'
<1> DEFINE M == Host(k)!Matching(p, "rcpthosts")
           N == Host(k)!Matching(p, "morercpthosts")
<1>1. PICK to \in {"no_morercpthosts", "no_virtualdomains"} :
        /\ vd_pc' = [vd_pc EXCEPT ![p] = to]
        /\ to = "no_morercpthosts" => M = {} /\ vd_hurt' = vd_hurt
        /\ to = "no_virtualdomains" => M # {} /\ vd_hurt' = vd_hurt \cup {l.dom : l \in N}
  BY DEF Host!DelRcpthosts, Host!Go
<1>2. /\ vd_pc[p] = "no_rcpthosts" /\ vd_file' = [vd_file EXCEPT !["rcpthosts"] = @ \ M]
      /\ UNCHANGED <<vd_cdb, vd_dirs, vd_job, vd_kills, said>>
  BY DEF Host!DelRcpthosts
<1>3. HostIs(k) /\ Host(k)!HurtForCause /\ AtWork(p)
  BY <1>2 DEF HostInv, AtWork
<1>4. N \subseteq HostLine(k) /\ N = {l \in vd_file["morercpthosts"] : l.dom \in vd_job[p].doms}
  BY <1>3 DEF HostIs, Texts, Host!Matching
<1>5. vd_hurt \subseteq vd_hurt' /\ vd_hurt' \subseteq k.domains
  BY <1>1, <1>3, <1>4 DEF HostIs, HostLine
<1>6. Host(k)!HurtForCause'
  <2> SUFFICES ASSUME vd_hurt' # {}, vd_kills = 0, ~k.impatient, k.aliases = {} PROVE FALSE
    BY <1>2, <1>3 DEF Host!HurtForCause, HostIs
  <2>1. ~(vd_hurt # {})
    BY <1>3 DEF Host!HurtForCause
  <2>2. M # {} => N = {}
    BY <1>3, <2>1, NoCause
  <2> QED BY <1>1, <2>1, <2>2
<1>7. \A g, d : CdbLines(g, d)' = CdbLines(g, d)
  BY <1>2, SameCdb
<1>8. ASSUME NEW d \in vd_job[p].doms \ vd_hurt', to = "no_virtualdomains"
      PROVE  HostLines("morercpthosts", d)' = {} /\ CdbLines("morercpthosts", d)' = {}
  <2>1. HostLines("morercpthosts", d) = {}
    BY <1>1, <1>4, <1>8 DEF HostLines
  <2>2. HostLines("morercpthosts", d)' = HostLines("morercpthosts", d)
    BY <1>2, <1>3 DEF HostLines, HostIs, Texts
  <2>3. CdbLines("morercpthosts", d) = HostLines("morercpthosts", d)
    <3>1. vd_pc[p] \in Quiet /\ d \in vd_job[p].doms \ vd_hurt
      BY <1>2, <1>5, <1>8 DEF Quiet, Stages
    <3> QED BY <1>3, <3>1, AtTheHost, NotCompiling DEF CdbFiles
  <2> QED BY <1>7, <2>1, <2>2, <2>3
<1> HIDE DEF N
<1> QED BY <1>1, <1>2, <1>3, <1>5, <1>6, <1>7, <1>8, HostRemove DEF HostIs

LEMMA HostDelMore ==
  ASSUME NEW k, HostInv(k), NEW p \in k.programs, Host(k)!DelMore(p)
  PROVE  HostInv(k)'
<1> DEFINE M == Host(k)!Matching(p, "morercpthosts")
           left == vd_file["morercpthosts"] \ M
           one == Host(k)!Cardinality(M) = 1
<1>1. /\ vd_pc[p] = "no_morercpthosts" /\ vd_file' = [vd_file EXCEPT !["morercpthosts"] = left]
      /\ UNCHANGED <<vd_dirs, vd_job, vd_kills, said>>
      /\ one /\ left = {} => \A q \in k.programs : vd_pc[q] # "rename_morercpthosts"
      /\ vd_cdb' = IF one /\ left = {} THEN [vd_cdb EXCEPT !["morercpthosts"] = {}] ELSE vd_cdb
      /\ vd_pc' = [vd_pc EXCEPT ![p] = IF one /\ left # {} THEN "compile_morercpthosts" ELSE "no_virtualdomains"]
      /\ vd_hurt' = IF one THEN vd_hurt ELSE vd_hurt \cup {l.dom : l \in M}
  <2>1. vd_pc[p] = "no_morercpthosts" /\ vd_file' = [vd_file EXCEPT !["morercpthosts"] = left]
    BY DEF Host!DelMore, Host!Go
  <2>2. UNCHANGED <<vd_dirs, vd_job, vd_kills, said>>
    BY DEF Host!DelMore, Host!Go
  <2>3. one /\ left = {} => \A q \in k.programs : vd_pc[q] # "rename_morercpthosts"
    BY DEF Host!DelMore, Host!Go
  <2>4. vd_cdb' = IF one /\ left = {} THEN [vd_cdb EXCEPT !["morercpthosts"] = {}] ELSE vd_cdb
    BY DEF Host!DelMore, Host!Go
  <2>5. vd_pc' = [vd_pc EXCEPT ![p] = IF one /\ left # {} THEN "compile_morercpthosts" ELSE "no_virtualdomains"]
    BY DEF Host!DelMore, Host!Go
  <2>6. vd_hurt' = IF one THEN vd_hurt ELSE vd_hurt \cup {l.dom : l \in M}
    BY DEF Host!DelMore, Host!Go
  <2> HIDE DEF one, left, M
  <2> QED BY <2>1, <2>2, <2>3, <2>4, <2>5, <2>6
<1>2. HostIs(k) /\ Host(k)!HurtForCause /\ AtWork(p)
  BY <1>1 DEF HostInv, AtWork
<1>3. M \subseteq HostLine(k) /\ M = {l \in vd_file["morercpthosts"] : l.dom \in vd_job[p].doms}
  BY <1>2 DEF HostIs, Texts, Host!Matching
<1>4. vd_hurt \subseteq vd_hurt' /\ vd_hurt' \subseteq k.domains
  BY <1>1, <1>2, <1>3 DEF HostIs, HostLine
<1>5. Host(k)!HurtForCause'
  <2> SUFFICES ASSUME vd_hurt' # {}, vd_kills = 0, ~k.impatient, k.aliases = {} PROVE FALSE
    BY <1>1, <1>2 DEF Host!HurtForCause, HostIs
  <2>1. ~(vd_hurt # {})
    BY <1>2 DEF Host!HurtForCause
  <2>2. M = {} \/ one
    BY <1>2, <2>1, NoCause, HostCounts
  <2> QED BY <1>1, <2>1, <2>2
<1>6. vd_cdb' \in [CdbFiles -> SUBSET HostLine(k)]
  BY <1>1, <1>2 DEF HostIs
<1>7. \A d : HostLines("morercpthosts", d)' = {l \in left : l.dom = d}
  BY <1>1, <1>2 DEF HostIs, HostLines, Texts
<1>8. \A d : CdbLines("assign", d)' = CdbLines("assign", d)
  BY <1>1, <1>2 DEF HostIs, CdbLines, CdbFiles
<1>9. ~(one /\ left = {}) => \A d : CdbLines("morercpthosts", d)' = CdbLines("morercpthosts", d)
  BY <1>1 DEF CdbLines
<1>10. one /\ left = {} => \A d : CdbLines("morercpthosts", d)' = {}
  BY <1>1, <1>2 DEF HostIs, CdbLines, CdbFiles
<1>11. ASSUME NEW d \in k.domains \ vd_job[p].doms
       PROVE  CdbLines("morercpthosts", d)' = CdbLines("morercpthosts", d) \/ CdbLines("morercpthosts", d)' = HostLines("morercpthosts", d)
  <2>1. left = {} => HostLines("morercpthosts", d) = {}
    BY <1>3, <1>11 DEF HostLines
  <2> HIDE DEF left, M
  <2> QED BY <1>9, <1>10, <2>1
<1>12. ASSUME NEW d \in vd_job[p].doms \ vd_hurt'
       PROVE  /\ HostLines("morercpthosts", d)' = {}
              /\ ~one => HostLines("morercpthosts", d) = {}
              /\ CdbLines("morercpthosts", d) = HostLines("morercpthosts", d)
  <2>1. HostLines("morercpthosts", d)' = {}
    BY <1>3, <1>7, <1>12
  <2>2. ~one => HostLines("morercpthosts", d) = {}
    BY <1>1, <1>3, <1>12 DEF HostLines
  <2>3. vd_pc[p] \in Quiet /\ d \in vd_job[p].doms \ vd_hurt
    BY <1>1, <1>4, <1>12 DEF Quiet, Stages
  <2> HIDE DEF one, left, M
  <2> QED BY <1>2, <2>1, <2>2, <2>3, AtTheHost, NotCompiling DEF CdbFiles
<1>13. PICK to \in {"no_virtualdomains", "compile_morercpthosts"} :
         /\ vd_pc' = [vd_pc EXCEPT ![p] = to]
         /\ to = "compile_morercpthosts" <=> one /\ left # {}
  BY <1>1
<1>14. vd_file' = [vd_file EXCEPT !["morercpthosts"] = @ \ M]
  BY <1>1
<1> HIDE DEF one, left, M
<1>15. \A d \in k.domains \ vd_job[p].doms, g \in CdbFiles : CdbLines(g, d)' = CdbLines(g, d) \/ CdbLines(g, d)' = HostLines(g, d)
  BY <1>8, <1>11 DEF CdbFiles
<1>16. ASSUME NEW d \in vd_job[p].doms \ vd_hurt'
       PROVE  /\ CdbLines("assign", d)' = CdbLines("assign", d)
              /\ to = "no_virtualdomains" => HostLines("morercpthosts", d)' = {} /\ CdbLines("morercpthosts", d)' = {}
              /\ to # "no_virtualdomains" => CdbLines("morercpthosts", d)' = CdbLines("morercpthosts", d)
              /\ to = "no_virtualdomains" =>
                   HostLines("morercpthosts", d)' = HostLines("morercpthosts", d) \/ \A q \in k.programs : vd_pc[q] # "rename_morercpthosts"
  <2> HIDE DEF HostLines, CdbLines
  <2>1. CASE one /\ left # {}
    <3>1. to = "compile_morercpthosts"
      BY <1>13, <2>1
    <3> QED BY <1>8, <1>9, <2>1, <3>1
  <2>2. CASE one /\ left = {}
    <3>1. \A q \in k.programs : vd_pc[q] # "rename_morercpthosts"
      BY <1>1, <2>2
    <3>2. to = "no_virtualdomains"
      BY <1>13, <2>2
    <3> QED BY <1>8, <1>10, <1>12, <1>16, <2>2, <3>1, <3>2
  <2>3. CASE ~one
    <3>1. to = "no_virtualdomains"
      BY <1>13, <2>3
    <3> QED BY <1>8, <1>9, <1>12, <1>16, <2>3, <3>1
  <2> QED BY <2>1, <2>2, <2>3
<1>17. vd_file' = [vd_file EXCEPT !["morercpthosts"] = @ \ Host(k)!Matching(p, "morercpthosts")]
  BY <1>14 DEF M
<1>18. vd_pc[p] = "no_morercpthosts" /\ UNCHANGED <<vd_dirs, vd_job, vd_kills, said>>
  BY <1>1
<1>19. vd_pc' = [vd_pc EXCEPT ![p] = to]
  BY <1>13
<1> HIDE DEF HostLines, CdbLines
<1> QED BY <1>4, <1>5, <1>6, <1>15, <1>16, <1>17, <1>18, <1>19, HostRemove

LEMMA HostNoLocals ==
  ASSUME NEW k, HostInv(k), NEW p \in k.programs, Host(k)!NoLocals(p)
  PROVE  HostInv(k)'
<1>1. /\ vd_pc[p] = "no_locals" /\ vd_pc' = [vd_pc EXCEPT ![p] = "end"]
      /\ vd_file' = [vd_file EXCEPT !["locals"] = @ \ Host(k)!Matching(p, "locals")]
      /\ said' = [d \in k.domains |-> IF d \in vd_job[p].doms THEN "there" ELSE said[d]]
      /\ UNCHANGED <<vd_cdb, vd_dirs, vd_job, vd_kills, vd_hurt>>
  BY DEF Host!NoLocals, Host!End, Host!Go
<1>2. vd_pc[p] \in Quiet /\ AtWork(p) /\ "locals" \in Texts /\ "end" \in Stages
  BY <1>1 DEF Quiet, Stages, AtWork, Texts
<1>3. /\ Placed(k, vd_pc[p], vd_job[p]) /\ vd_job[p].op \in {"add", "alias"} /\ vd_job[p].doms = {vd_job[p].dom}
      /\ vd_job[p].op = "alias" => vd_job[p].dom \in k.aliases
      /\ vd_job[p] \in HostJob(k) /\ vd_job' = [vd_job EXCEPT ![p] = vd_job[p]] /\ vd_job[p].dom \in k.domains
  <2>1. Placed(k, vd_pc[p], vd_job[p]) /\ vd_job[p] \in HostJob(k) /\ vd_job' = [vd_job EXCEPT ![p] = vd_job[p]]
    BY <1>1, <1>2, AtTheHost
  <2> QED BY <1>1, <2>1 DEF Placed
<1>4. /\ vd_file' \in [Texts -> SUBSET HostLine(k)]
      /\ \A d, g : d \notin vd_job[p].doms \/ g # "locals" => (g \in Texts => HostLines(g, d)' = HostLines(g, d))
      /\ \A d \in vd_job[p].doms : HostLines("locals", d)' = {}
  <2>1. PICK f \in Texts : f = "locals"
    BY <1>2
  <2>2. vd_file' = [vd_file EXCEPT ![f] = @ \ Host(k)!Matching(p, f)] /\ f # "assign"
    BY <1>1, <2>1
  <2>3. /\ vd_file' \in [Texts -> SUBSET HostLine(k)]
        /\ \A d, g : d \notin vd_job[p].doms \/ g # f => (g \in Texts => HostLines(g, d)' = HostLines(g, d))
        /\ f # "assign" => \A d \in vd_job[p].doms : HostLines(f, d)' = {}
        /\ f = "assign" => \A d \in vd_job[p].doms : HostLines(f, d)' = {l \in HostLines(f, d) : l.real # vd_job[p].real}
    BY <2>2, RemovedLines
  <2> QED BY <2>1, <2>2, <2>3
<1>5. \A g, d : CdbLines(g, d)' = CdbLines(g, d)
  BY <1>1, SameCdb
<1>6. HostIs(k) /\ vd_pc'[p] = "end"
  BY <1>1 DEF HostInv, HostIs
<1>7. \A d \in k.domains \ vd_job[p].doms : Others(k, p, d)
  BY <1>1, <1>4, <1>5 DEF Others
<1>8. ASSUME NEW d \in vd_job[p].doms \ vd_hurt' PROVE Settled(k, d)' /\ Unread(k, p, d)
  <2>1. Settled(k, d) /\ Made(vd_pc[p], vd_job[p], d) /\ \A g \in CdbFiles : CdbLines(g, d) = HostLines(g, d)
    BY <1>1, <1>2, <1>8, AtTheHost, NotCompiling
  <2>2. /\ HostLines("assign", d)' = HostLines("assign", d) /\ HostLines("rcpthosts", d)' = HostLines("rcpthosts", d)
        /\ HostLines("morercpthosts", d)' = HostLines("morercpthosts", d) /\ HostLines("virtualdomains", d)' = HostLines("virtualdomains", d)
        /\ HostLines("locals", d)' = {} /\ said'[d] = "there" /\ vd_dirs' = vd_dirs
    BY <1>1, <1>3, <1>4, <1>8 DEF Texts
  <2> HIDE DEF HostLines, CdbLines
  <2>3. Unread(k, p, d)
    BY <1>1, <1>2, <2>2, NotCompiling DEF Unread, CdbFiles
  <2>4. /\ HostLines("rcpthosts", d) # {} \/ HostLines("morercpthosts", d) # {}
        /\ HostLines("assign", d) # {} /\ HostLines("virtualdomains", d) # {}
        /\ d \notin k.aliases => d \in vd_dirs
    BY <1>1, <1>3, <1>8, <2>1 DEF Made
  <2>5. \A g \in CdbFiles : CdbLines(g, d)' = HostLines(g, d)'
    BY <1>5, <2>1, <2>2 DEF CdbFiles
  <2>6. Settled(k, d)'
    BY <1>1, <2>1, <2>2, <2>4, <2>5 DEF Settled
  <2> QED BY <2>3, <2>6
<1>9. \A g \in CdbFiles : Read(k, p, g)'
  BY <1>6 DEF Read, CdbFiles, Renaming
<1>10. Host(k)!HurtForCause'
  BY <1>1 DEF HostInv, Host!HurtForCause
<1>11. /\ vd_cdb' \in [CdbFiles -> SUBSET HostLine(k)] /\ vd_dirs' \subseteq k.domains \ k.aliases
       /\ vd_hurt' \subseteq k.domains /\ vd_hurt \subseteq vd_hurt'
       /\ vd_kills' \in Nat /\ said' \in [k.domains -> {"there", "gone", "unknown"}]
  BY <1>1, <1>6 DEF HostIs
<1>12. Placed(k, "end", vd_job[p])
  BY DEF Placed
<1> QED BY <1>1, <1>2, <1>3, <1>4, <1>7, <1>8, <1>9, <1>10, <1>11, <1>12, HostWork

(* A program goes on, or ends, with no file changed.                          *)
LEMMA HostGoes ==
  ASSUME NEW k, HostInv(k), NEW p \in k.programs, AtWork(p),
         NEW to \in Quiet \cup {"end"}, to # "rmdir", vd_pc' = [vd_pc EXCEPT ![p] = to],
         NEW j \in HostJob(k), vd_job' = [vd_job EXCEPT ![p] = j],
         j.doms = vd_job[p].doms, j.dom = vd_job[p].dom, j.real = vd_job[p].real, Placed(k, to, j),
         UNCHANGED <<vd_file, vd_cdb>>, vd_kills' \in Nat, vd_kills <= vd_kills',
         vd_dirs' \subseteq k.domains \ k.aliases, \A d \in k.domains \ j.doms : d \in vd_dirs' <=> d \in vd_dirs,
         vd_hurt \subseteq vd_hurt', vd_hurt' \subseteq k.domains, Host(k)!HurtForCause',
         said' \in [k.domains -> {"there", "gone", "unknown"}], \A d \in k.domains \ j.doms : said'[d] = said[d],
         \A d \in j.doms \ vd_hurt' :
            vd_pc[p] \in Quiet /\ said'[d] = "unknown" /\ (to # "end" => Made(to, j, d)')
  PROVE  HostInv(k)'
<1>1. to \in Stages /\ to # "idle"
  BY DEF Quiet, Stages
<1>2. \A g, d : CdbLines(g, d)' = CdbLines(g, d) /\ HostLines(g, d)' = HostLines(g, d)
  BY SameCdb, SameFiles
<1>3. HostIs(k) /\ vd_pc'[p] = to /\ vd_job'[p] = j
  BY DEF HostInv, HostIs
<1>4. \A d \in k.domains \ j.doms : Others(k, p, d)
  BY <1>2 DEF Others
<1>5. ASSUME NEW d \in j.doms \ vd_hurt'
      PROVE  Settled(k, d)' /\ Unread(k, p, d) /\ (to # "end" => Made(vd_pc[p], vd_job[p], d)')
  <2>1. vd_pc[p] \in Quiet /\ said'[d] = "unknown" /\ (to # "end" => Made(to, j, d)') /\ d \in vd_job'[p].doms
    BY <1>3, <1>5
  <2>7. d \in vd_job[p].doms \ vd_hurt
    BY <1>5
  <2>2. Settled(k, d) /\ \A g \in CdbFiles : CdbLines(g, d) = HostLines(g, d)
    BY ONLY HostInv(k), p \in k.programs, AtWork(p), <2>1, <2>7, AtTheHost, NotCompiling
  <2> HIDE DEF HostLines, CdbLines
  <2>3. Unread(k, p, d)
    BY <1>2, <2>1, NotCompiling DEF Unread
  <2>4. \A g \in CdbFiles : CdbLines(g, d)' = HostLines(g, d)'
    BY <1>2, <2>2
  <2>5. Settled(k, d)'
    BY <1>2, <2>1, <2>2, <2>4, StaysSettled DEF Settled
  <2>6. to # "end" => Made(vd_pc[p], vd_job[p], d)'
    BY <1>3, <2>1
  <2> QED BY <2>3, <2>5, <2>6
<1>6. \A g \in CdbFiles : Read(k, p, g)'
  BY <1>3, NotCompiling DEF Read
<1>7. vd_file' \in [Texts -> SUBSET HostLine(k)] /\ vd_cdb' \in [CdbFiles -> SUBSET HostLine(k)]
  BY <1>3 DEF HostIs
<1> QED BY <1>1, <1>4, <1>5, <1>6, <1>7, HostWork

LEMMA HostAddBusy ==
  ASSUME NEW k, HostInv(k), NEW p \in k.programs, Host(k)!AddBusy(p)
  PROVE  HostInv(k)'
<1>1. /\ vd_pc[p] \in {"assign", "rcpthosts", "morercpthosts", "virtualdomains", "no_locals"}
      /\ vd_pc' = [vd_pc EXCEPT ![p] = "end"] /\ UNCHANGED <<vd_file, vd_cdb, vd_job, vd_kills>> /\ k.impatient
  BY DEF Host!AddBusy, Host!End, Host!Go
<1>2. vd_pc[p] \in Quiet /\ AtWork(p)
  BY <1>1 DEF Quiet, Stages, AtWork
<1>3. vd_job[p] \in HostJob(k) /\ vd_job' = [vd_job EXCEPT ![p] = vd_job[p]] /\ vd_job[p].doms = {vd_job[p].dom}
  <2>1. Placed(k, vd_pc[p], vd_job[p]) /\ vd_job[p] \in HostJob(k) /\ vd_job' = [vd_job EXCEPT ![p] = vd_job[p]]
    BY <1>1, <1>2, AtTheHost
  <2> QED BY <1>1, <2>1 DEF Placed
<1>4. HostIs(k)
  BY DEF HostInv
<1>5. Placed(k, "end", vd_job[p])
  BY DEF Placed
<1>6. Host(k)!HurtForCause'
  BY <1>1 DEF Host!HurtForCause
<1>7. vd_kills' \in Nat /\ vd_kills <= vd_kills' /\ vd_job[p].doms \subseteq k.domains
  BY <1>1, <1>3, <1>4 DEF HostIs, HostJob
<1>8. CASE vd_job[p].op = "add"
  <2>1. /\ vd_dirs' = vd_dirs \ {vd_job[p].dom} /\ vd_hurt' = vd_hurt
        /\ said' = [d \in k.domains |-> IF d \in vd_job[p].doms THEN "unknown" ELSE said[d]]
    BY <1>8 DEF Host!AddBusy, Host!End
  <2>2. said' \in [k.domains -> {"there", "gone", "unknown"}]
    BY <1>4, <2>1 DEF HostIs
  <2>3. vd_dirs' \subseteq k.domains \ k.aliases /\ vd_hurt' \subseteq k.domains
    BY <1>4, <2>1 DEF HostIs
  <2> QED BY <1>1, <1>2, <1>3, <1>5, <1>6, <1>7, <2>1, <2>2, <2>3, HostGoes
<1>9. CASE vd_job[p].op # "add"
  <2>1. /\ vd_dirs' = vd_dirs /\ vd_hurt' = vd_hurt \cup vd_job[p].doms
        /\ said' = [d \in k.domains |-> IF d \in vd_job[p].doms THEN "there" ELSE said[d]]
    BY <1>9 DEF Host!AddBusy, Host!End
  <2>2. said' \in [k.domains -> {"there", "gone", "unknown"}]
    BY <1>4, <2>1 DEF HostIs
  <2>3. vd_dirs' \subseteq k.domains \ k.aliases /\ vd_hurt' \subseteq k.domains
    BY <1>4, <1>7, <2>1 DEF HostIs
  <2> QED BY <1>1, <1>2, <1>3, <1>5, <1>6, <1>7, <2>1, <2>2, <2>3, HostGoes
<1> QED BY <1>8, <1>9

LEMMA HostDelBusy ==
  ASSUME NEW k, HostInv(k), NEW p \in k.programs, Host(k)!DelBusy(p)
  PROVE  HostInv(k)'
<1> DEFINE j == [vd_job[p] EXCEPT !.op = "warned"]
<1>1. /\ vd_pc[p] \in {"no_rcpthosts", "no_morercpthosts", "no_virtualdomains", "no_assign"}
      /\ UNCHANGED <<vd_file, vd_cdb, vd_dirs, vd_kills>> /\ k.impatient
      /\ vd_job' = [vd_job EXCEPT ![p].op = "warned"]
  BY DEF Host!DelBusy
<1>2. vd_pc[p] \in Quiet /\ AtWork(p)
  BY <1>1 DEF Quiet, Stages, AtWork
<1>3. /\ vd_job[p] \in HostJob(k) /\ Placed(k, vd_pc[p], vd_job[p])
      /\ \A d \in vd_job[p].doms \ vd_hurt : Made(vd_pc[p], vd_job[p], d)
  BY <1>2, AtTheHost
<1>4. HostIs(k)
  BY DEF HostInv
<1>5. j \in HostJob(k) /\ j.op = "warned" /\ j.doms = vd_job[p].doms /\ j.dom = vd_job[p].dom /\ j.real = vd_job[p].real
  BY <1>3 DEF HostJob
<1>6. vd_job' = [vd_job EXCEPT ![p] = j]
  BY <1>1, <1>4 DEF HostIs
<1>7. vd_job[p].doms \subseteq k.domains
  BY <1>3 DEF HostJob
<1>8. Host(k)!HurtForCause'
  BY <1>1 DEF Host!HurtForCause
<1>9. vd_kills' \in Nat /\ vd_kills <= vd_kills' /\ vd_dirs' \subseteq k.domains \ k.aliases
  BY <1>1, <1>4 DEF HostIs
<1>10. PICK i : i = j
  OBVIOUS
<1> HIDE DEF j
<1>11. Placed(k, "no_virtualdomains", i) /\ Placed(k, "no_assign", i) /\ Placed(k, "end", i)
  BY <1>1, <1>3, <1>5, <1>10 DEF Placed
<1>12. /\ i \in HostJob(k) /\ i.doms = vd_job[p].doms /\ i.dom = vd_job[p].dom /\ i.real = vd_job[p].real
       /\ vd_job' = [vd_job EXCEPT ![p] = i]
  BY <1>5, <1>6, <1>10
<1>13. \A f, d : HostLines(f, d)' = HostLines(f, d)
  BY <1>1, SameFiles
<1>14. CASE vd_pc[p] = "no_assign"
  <2>1. /\ vd_pc' = [vd_pc EXCEPT ![p] = "end"] /\ vd_hurt' = vd_hurt
        /\ said' = [d \in k.domains |-> IF d \in vd_job[p].doms THEN "unknown" ELSE said[d]]
    BY <1>14 DEF Host!DelBusy, Host!End, Host!Go
  <2>2. said' \in [k.domains -> {"there", "gone", "unknown"}] /\ vd_hurt' \subseteq k.domains
    BY <1>4, <2>1 DEF HostIs
  <2> QED BY <1>1, <1>2, <1>7, <1>8, <1>9, <1>11, <1>12, <2>1, <2>2, HostGoes
<1>15. CASE vd_pc[p] # "no_assign"
  <2>1. PICK to \in {"no_virtualdomains", "no_assign"} :
          /\ vd_pc' = [vd_pc EXCEPT ![p] = to]
          /\ vd_pc[p] = "no_virtualdomains" <=> to = "no_assign"
    BY <1>1, <1>15 DEF Host!DelBusy, Host!Following, Host!Go
  <2>2. /\ vd_hurt' = IF vd_pc[p] \in {"no_rcpthosts", "no_morercpthosts"} THEN vd_hurt \cup vd_job[p].doms ELSE vd_hurt
        /\ said' = said
    BY <1>15 DEF Host!DelBusy
  <2>3. said' \in [k.domains -> {"there", "gone", "unknown"}] /\ vd_hurt' \subseteq k.domains /\ vd_hurt \subseteq vd_hurt'
    BY <1>4, <1>7, <2>2 DEF HostIs
  <2>4. to \in Quiet /\ to # "rmdir" /\ Placed(k, to, i)
    BY <1>11, <2>1 DEF Quiet, Stages
  <2>5. ASSUME NEW d \in i.doms \ vd_hurt' PROVE said'[d] = "unknown" /\ Made(to, i, d)'
    <3>1. vd_pc[p] = "no_virtualdomains" /\ d \in vd_job[p].doms \ vd_hurt /\ to = "no_assign"
      BY <1>1, <1>12, <1>15, <2>1, <2>2, <2>5
    <3>2. Made(vd_pc[p], vd_job[p], d) /\ vd_job[p].op \in {"del", "warned"}
      BY <1>3, <3>1 DEF Placed
    <3> HIDE DEF HostLines
    <3> QED BY <1>1, <1>5, <1>10, <1>13, <2>2, <3>1, <3>2 DEF Made
  <2> QED BY <1>1, <1>2, <1>7, <1>8, <1>9, <1>12, <2>1, <2>2, <2>3, <2>4, <2>5, HostGoes
<1> QED BY <1>14, <1>15

LEMMA HostKill ==
  ASSUME NEW k, HostInv(k), NEW p \in k.programs, Host(k)!Kill(p)
  PROVE  HostInv(k)'
<1>1. /\ AtWork(p) /\ vd_kills' = vd_kills + 1 /\ vd_pc' = [vd_pc EXCEPT ![p] = "end"]
      /\ UNCHANGED <<vd_file, vd_cdb, vd_dirs, vd_job, said>>
  BY DEF Host!Kill, Host!Go, Host!Active, AtWork
<1>2. PICK bad \in BOOLEAN :
        /\ bad <=> \E f \in CdbFiles : vd_pc[p] \in {Compiling[f], Renaming[f]}
        /\ vd_hurt' = IF bad THEN vd_hurt \cup vd_job[p].doms ELSE vd_hurt
  BY DEF Host!Kill, Host!Compiled, Host!CompileAt, Host!RenameAt, CdbFiles, Compiling, Renaming
<1>3. /\ vd_job[p] \in HostJob(k) /\ vd_pc[p] \in Stages /\ vd_job' = [vd_job EXCEPT ![p] = vd_job[p]]
      /\ \A d \in vd_job[p].doms \ vd_hurt : Made(vd_pc[p], vd_job[p], d)
  BY <1>1, AtTheHost
<1>4. HostIs(k) /\ vd_job[p].doms \subseteq k.domains
  BY <1>3 DEF HostInv, HostJob
<1>5. Placed(k, "end", vd_job[p])
  BY DEF Placed
<1>6. vd_kills' \in Nat /\ vd_kills <= vd_kills' /\ vd_kills' > 0
  BY <1>1, <1>4 DEF HostIs
<1>7. Host(k)!HurtForCause'
  BY <1>6 DEF Host!HurtForCause
<1>8. /\ vd_dirs' \subseteq k.domains \ k.aliases /\ vd_hurt' \subseteq k.domains /\ vd_hurt \subseteq vd_hurt'
      /\ said' \in [k.domains -> {"there", "gone", "unknown"}]
  BY <1>1, <1>2, <1>4 DEF HostIs
<1>9. ASSUME NEW d \in vd_job[p].doms \ vd_hurt' PROVE vd_pc[p] \in Quiet /\ said'[d] = "unknown"
  <2>1. ~bad /\ d \in vd_job[p].doms \ vd_hurt
    BY <1>2, <1>9
  <2>2. vd_pc[p] \in Quiet
    BY <1>1, <1>2, <1>3, <2>1 DEF Quiet, Stages, CdbFiles, Compiling, Renaming, AtWork
  <2> QED BY <1>1, <1>3, <2>1, <2>2 DEF Made
<1> QED BY <1>1, <1>3, <1>5, <1>6, <1>7, <1>8, <1>9, HostGoes

LEMMA HostCompileRead ==
  ASSUME NEW k, HostInv(k), NEW p \in k.programs, NEW f \in CdbFiles, Host(k)!CompileRead(p, f)
  PROVE  HostInv(k)'
<1> DEFINE j == [vd_job[p] EXCEPT !.snap = vd_file[f]]
<1>1. /\ vd_pc[p] = Compiling[f] /\ vd_pc' = [vd_pc EXCEPT ![p] = Renaming[f]]
      /\ \A q \in k.programs : vd_pc[q] # Renaming[f]
      /\ vd_job' = [vd_job EXCEPT ![p].snap = vd_file[f]]
      /\ UNCHANGED <<vd_file, vd_cdb, vd_dirs, vd_kills, said, vd_hurt>>
  BY DEF Host!CompileRead, Host!Go, Host!CompileAt, Host!RenameAt, Compiling, Renaming
<1>2. AtWork(p) /\ Renaming[f] \in Stages /\ Renaming[f] \notin {"idle", "rmdir", "end"}
  BY <1>1 DEF AtWork, CdbFiles, Compiling, Renaming, Stages
<1>3. HostIs(k)
  BY DEF HostInv
<1>4. /\ vd_job[p] \in HostJob(k) /\ Placed(k, vd_pc[p], vd_job[p])
      /\ \A d \in vd_job[p].doms \ vd_hurt : Made(vd_pc[p], vd_job[p], d) /\ Settled(k, d)
      /\ \A d \in vd_job[p].doms \ vd_hurt, g \in CdbFiles :
           vd_pc[p] \notin {Compiling[g], Renaming[g]} => CdbLines(g, d) = HostLines(g, d)
  BY <1>2, AtTheHost
<1>5. vd_file[f] \in SUBSET HostLine(k)
  BY <1>3 DEF HostIs, CdbFiles, Texts
<1>6. /\ j \in HostJob(k) /\ j.snap = vd_file[f] /\ j.op = vd_job[p].op
      /\ j.doms = vd_job[p].doms /\ j.dom = vd_job[p].dom /\ j.real = vd_job[p].real
  BY <1>4, <1>5 DEF HostJob
<1>7. vd_job' = [vd_job EXCEPT ![p] = j]
  BY <1>1, <1>3 DEF HostIs
<1>8. PICK i : i = j
  OBVIOUS
<1> HIDE DEF j
<1>9. /\ i \in HostJob(k) /\ vd_job' = [vd_job EXCEPT ![p] = i] /\ i.snap = vd_file[f]
      /\ i.doms = vd_job[p].doms /\ i.dom = vd_job[p].dom /\ i.real = vd_job[p].real /\ i.op = vd_job[p].op
  BY <1>6, <1>7, <1>8
<1>10. Placed(k, Renaming[f], i)
  BY <1>1, <1>4, <1>9 DEF Placed, CdbFiles, Compiling, Renaming
<1>11. \A g, d : CdbLines(g, d)' = CdbLines(g, d) /\ HostLines(g, d)' = HostLines(g, d)
  BY <1>1, SameCdb, SameFiles
<1>12. vd_pc'[p] = Renaming[f] /\ vd_job'[p] = i /\ \A q \in k.programs : q # p => vd_pc'[q] = vd_pc[q]
  BY <1>1, <1>3, <1>9 DEF HostIs
<1>13. \A d \in k.domains \ i.doms : Others(k, p, d)
  BY <1>1, <1>11 DEF Others
<1>14. \A g \in CdbFiles : (Renaming[g] = Renaming[f] => g = f) /\ (Compiling[g] = Compiling[f] => g = f)
          /\ Compiling[g] # Renaming[f]
  BY DEF CdbFiles, Compiling, Renaming
<1>15. \A g \in CdbFiles : Read(k, p, g)'
  <2> SUFFICES ASSUME NEW g \in CdbFiles, vd_pc'[p] = Renaming[g] PROVE Read(k, p, g)'
    BY DEF Read
  <2>1. g = f
    BY <1>12, <1>14
  <2>2. \A q \in k.programs : q # p => vd_pc'[q] # Renaming[f]
    BY <1>1, <1>12
  <2>3. \A d : {l \in vd_job'[p].snap : l.dom = d} = HostLines(f, d)'
    BY <1>9, <1>11, <1>12 DEF HostLines
  <2> QED BY <2>1, <2>2, <2>3 DEF Read
<1>16. ASSUME NEW d \in i.doms \ vd_hurt'
       PROVE  Settled(k, d)' /\ Unread(k, p, d) /\ Made(vd_pc[p], vd_job[p], d)'
  <2>1. d \in vd_job[p].doms \ vd_hurt /\ d \in vd_job'[p].doms
    BY <1>1, <1>9, <1>12, <1>16
  <2>2. /\ Settled(k, d) /\ Made(vd_pc[p], vd_job[p], d)
        /\ \A g \in CdbFiles : g # f => CdbLines(g, d) = HostLines(g, d)
    <3>1. \A g \in CdbFiles : g # f => vd_pc[p] \notin {Compiling[g], Renaming[g]}
      BY <1>1 DEF CdbFiles, Compiling, Renaming
    <3> QED BY <1>4, <2>1, <3>1
  <2> HIDE DEF HostLines, CdbLines
  <2>3. Unread(k, p, d)
    BY <1>1, <1>11, <1>12, <1>14 DEF Unread
  <2>4. Made(Renaming[f], i, d)'
    BY <1>1, <1>9, <1>11, <2>2 DEF Made, CdbFiles, Compiling, Renaming
  <2>5. Made(vd_pc[p], vd_job[p], d)'
    BY <1>12, <2>4
  <2>6. \A g \in CdbFiles : vd_pc'[p] \notin {Compiling[g], Renaming[g]} => CdbLines(g, d)' = HostLines(g, d)'
    BY <1>11, <1>12, <2>2
  <2>7. said'[d] = "unknown"
    BY <1>1, <2>2 DEF Made
  <2>8. Settled(k, d)'
    BY <1>11, <2>1, <2>2, <2>6, <2>7, StaysSettled DEF Settled
  <2> QED BY <2>3, <2>5, <2>8
<1>17. Host(k)!HurtForCause'
  BY <1>1 DEF HostInv, Host!HurtForCause
<1>18. /\ vd_file' \in [Texts -> SUBSET HostLine(k)] /\ vd_cdb' \in [CdbFiles -> SUBSET HostLine(k)]
       /\ vd_dirs' \subseteq k.domains \ k.aliases /\ vd_hurt' \subseteq k.domains /\ vd_hurt \subseteq vd_hurt'
       /\ vd_kills' \in Nat /\ said' \in [k.domains -> {"there", "gone", "unknown"}]
  BY <1>1, <1>3 DEF HostIs
<1>19. PICK to \in Stages : to = Renaming[f]
  BY <1>2
<1> QED BY <1>1, <1>2, <1>9, <1>10, <1>13, <1>15, <1>16, <1>17, <1>18, <1>19, HostWork

LEMMA HostCompileEnd ==
  ASSUME NEW k, HostInv(k), NEW p \in k.programs, NEW f \in CdbFiles, Host(k)!CompileEnd(p, f)
  PROVE  HostInv(k)'
<1>1. HostIs(k) /\ Read(k, p, f)
  BY DEF HostInv
<1>2. /\ vd_pc[p] = Renaming[f] /\ vd_cdb' = [vd_cdb EXCEPT ![f] = vd_job[p].snap]
      /\ UNCHANGED <<vd_file, vd_dirs, vd_job, vd_kills, vd_hurt>>
  <2>1. vd_pc[p] = Renaming[f] /\ UNCHANGED <<vd_file, vd_dirs, vd_job, vd_kills, vd_hurt>>
    BY DEF Host!CompileEnd, Host!RenameAt, Renaming
  <2>2. PICK q \in k.programs : vd_pc[q] = Renaming[f] /\ vd_cdb' = [vd_cdb EXCEPT ![f] = vd_job[q].snap]
    BY DEF Host!CompileEnd, Host!RenameAt, Renaming
  <2>3. q = p
    BY <1>1, <2>1, <2>2 DEF Read
  <2> QED BY <2>1, <2>2, <2>3
<1>3. AtWork(p)
  BY <1>2 DEF AtWork, CdbFiles, Renaming
<1>4. /\ vd_job[p] \in HostJob(k) /\ Placed(k, vd_pc[p], vd_job[p]) /\ vd_job' = [vd_job EXCEPT ![p] = vd_job[p]]
      /\ \A d \in vd_job[p].doms \ vd_hurt : Made(vd_pc[p], vd_job[p], d) /\ Settled(k, d)
      /\ \A d \in vd_job[p].doms \ vd_hurt, g \in CdbFiles :
           vd_pc[p] \notin {Compiling[g], Renaming[g]} => CdbLines(g, d) = HostLines(g, d)
      /\ \A q \in k.programs, d \in vd_job[p].doms : q # p /\ AtWork(q) => d \notin vd_job[q].doms
  BY <1>2, <1>3, AtTheHost
<1>5. vd_job[p].op \in {"add", "alias", "del", "warned"}
  BY <1>3, <1>4 DEF Placed, HostJob, AtWork
<1>6. PICK to \in {"end", "no_virtualdomains", "count", "virtualdomains"}, word \in {"gone", "unknown"} :
        /\ vd_pc' = [vd_pc EXCEPT ![p] = to]
        /\ to = "end" => /\ said' = [d \in k.domains |-> IF d \in vd_job[p].doms THEN word ELSE said[d]]
                         /\ word = "gone" => vd_job[p].op = "del"
        /\ to # "end" => said' = said
        /\ to = "end" => vd_job[p].op \in {"del", "warned"} /\ f = "assign"
        /\ to = "no_virtualdomains" => vd_job[p].op \in {"del", "warned"} /\ f = "morercpthosts"
        /\ to = "count" => vd_job[p].op \in {"add", "alias"} /\ f = "assign"
        /\ to = "virtualdomains" => vd_job[p].op \in {"add", "alias"} /\ f = "morercpthosts"
  <2> DEFINE word == IF vd_job[p].op = "del" THEN "gone" ELSE "unknown"
             to == Host(k)!After(p, f)
  <2>1. IF to = "end"
        THEN /\ vd_pc' = [vd_pc EXCEPT ![p] = "end"]
             /\ said' = [d \in k.domains |-> IF d \in vd_job[p].doms THEN word ELSE said[d]]
        ELSE vd_pc' = [vd_pc EXCEPT ![p] = to] /\ said' = said
    BY DEF Host!CompileEnd, Host!End, Host!Go
  <2>2. \/ to = "end" /\ vd_job[p].op \in {"del", "warned"} /\ f = "assign"
        \/ to = "no_virtualdomains" /\ vd_job[p].op \in {"del", "warned"} /\ f = "morercpthosts"
        \/ to = "count" /\ vd_job[p].op \in {"add", "alias"} /\ f = "assign"
        \/ to = "virtualdomains" /\ vd_job[p].op \in {"add", "alias"} /\ f = "morercpthosts"
    <3>1. f = "assign" \/ f = "morercpthosts"
      BY DEF CdbFiles
    <3>2. Host(k)!Deleting(p) <=> vd_job[p].op \in {"del", "warned"}
      BY DEF Host!Deleting
    <3>3. CASE vd_job[p].op \in {"del", "warned"} /\ f = "assign"
      <4>1. to = "end"
        BY <3>2, <3>3 DEF Host!After
      <4> QED BY <3>3, <4>1
    <3>4. CASE vd_job[p].op \in {"del", "warned"} /\ f # "assign"
      <4>1. to = "no_virtualdomains"
        BY <3>2, <3>4 DEF Host!After
      <4> QED BY <3>1, <3>4, <4>1
    <3>5. CASE ~(vd_job[p].op \in {"del", "warned"}) /\ f = "assign"
      <4>1. to = "count"
        BY <3>2, <3>5 DEF Host!After
      <4> QED BY <1>5, <3>5, <4>1
    <3>6. CASE ~(vd_job[p].op \in {"del", "warned"}) /\ f # "assign"
      <4>1. to = "virtualdomains"
        BY <3>2, <3>6 DEF Host!After
      <4> QED BY <1>5, <3>1, <3>6, <4>1
    <3> QED BY <3>3, <3>4, <3>5, <3>6
  <2>3. word \in {"gone", "unknown"} /\ (word = "gone" => vd_job[p].op = "del")
    OBVIOUS
  <2>4. \E t : t = to
    OBVIOUS
  <2>5. \E w : w = word
    OBVIOUS
  <2> HIDE DEF word, to
  <2> QED BY <2>1, <2>2, <2>3, <2>4, <2>5
<1>7. /\ vd_job[p].snap \in SUBSET HostLine(k)
      /\ said' \in [k.domains -> {"there", "gone", "unknown"}]
  BY <1>1, <1>4, <1>6 DEF HostJob, HostIs
<1>8. /\ vd_file' \in [Texts -> SUBSET HostLine(k)] /\ vd_cdb' \in [CdbFiles -> SUBSET HostLine(k)]
      /\ vd_dirs' \subseteq k.domains \ k.aliases /\ vd_hurt' \subseteq k.domains /\ vd_hurt \subseteq vd_hurt'
      /\ vd_kills' \in Nat
  BY <1>1, <1>2, <1>7 DEF HostIs
<1>9. /\ \A g, d : HostLines(g, d)' = HostLines(g, d)
      /\ \A g \in CdbFiles : g # f => \A d : CdbLines(g, d)' = CdbLines(g, d)
      /\ \A d : CdbLines(f, d)' = {l \in vd_job[p].snap : l.dom = d}
  <2>1. \A g, d : HostLines(g, d)' = HostLines(g, d)
    BY <1>2, SameFiles
  <2>2. \A g \in CdbFiles : vd_cdb'[g] = IF g = f THEN vd_job[p].snap ELSE vd_cdb[g]
    BY <1>1, <1>2 DEF HostIs
  <2> QED BY <2>1, <2>2 DEF CdbLines
<1>10. vd_pc'[p] = to /\ Placed(k, to, vd_job[p]) /\ to \in Stages /\ to \notin {"idle", "rmdir"}
  BY <1>1, <1>2, <1>4, <1>6 DEF HostIs, Placed, CdbFiles, Renaming, Stages
<1>11. ASSUME NEW d \in k.domains \ vd_hurt,
              \A q \in k.programs : d \in vd_job[q].doms => vd_pc[q] # Compiling[f]
       PROVE  CdbLines(f, d)' = HostLines(f, d)
  BY <1>1, <1>2, <1>9, <1>11 DEF Read
<1>12. ASSUME NEW d \in k.domains \ vd_job[p].doms PROVE Others(k, p, d)
  <2> HIDE DEF HostLines, CdbLines
  <2>1. said'[d] = said[d]
    BY <1>6, <1>12
  <2>2. ASSUME d \notin vd_hurt, NEW g \in CdbFiles,
               ~\E q \in k.programs : q # p /\ AtWork(q) /\ d \in vd_job[q].doms /\ vd_pc[q] = Compiling[g]
        PROVE  CdbLines(g, d)' = CdbLines(g, d) \/ CdbLines(g, d)' = HostLines(g, d)
    <3>1. CASE g # f
      BY <1>9, <3>1
    <3>2. CASE g = f
      <4>1. \A q \in k.programs : d \in vd_job[q].doms => vd_pc[q] # Compiling[f]
        BY <1>12, <2>2, <3>2 DEF AtWork, CdbFiles, Compiling
      <4> QED BY <1>11, <2>2, <3>2, <4>1
    <3> QED BY <3>1, <3>2
  <2> QED BY <1>2, <1>9, <2>1, <2>2 DEF Others
<1>13. ASSUME NEW d \in vd_job[p].doms \ vd_hurt'
       PROVE  Settled(k, d)' /\ Unread(k, p, d) /\ (to # "end" => Made(vd_pc[p], vd_job[p], d)')
  <2>1. d \in vd_job[p].doms \ vd_hurt /\ d \in k.domains /\ d \in vd_job'[p].doms
    BY <1>2, <1>4, <1>13 DEF HostJob
  <2>2. /\ Settled(k, d) /\ Made(vd_pc[p], vd_job[p], d)
        /\ \A g \in CdbFiles : g # f => CdbLines(g, d) = HostLines(g, d)
    <3>1. \A g \in CdbFiles : g # f => vd_pc[p] \notin {Compiling[g], Renaming[g]}
      BY <1>2 DEF CdbFiles, Compiling, Renaming
    <3> QED BY <1>4, <2>1, <3>1
  <2>3. CdbLines(f, d)' = HostLines(f, d)
    <3>1. \A q \in k.programs : d \in vd_job[q].doms => vd_pc[q] # Compiling[f]
      BY <1>2, <1>4, <2>1 DEF AtWork, CdbFiles, Compiling, Renaming
    <3> QED BY <1>11, <2>1, <3>1
  <2> HIDE DEF HostLines, CdbLines
  <2>4. \A g \in CdbFiles : CdbLines(g, d)' = HostLines(g, d)'
    BY <1>9, <2>2, <2>3
  <2>5. Unread(k, p, d)
    BY <1>2, <1>9 DEF Unread, CdbFiles, Compiling, Renaming
  <2>6. to # "end" => Made(to, vd_job[p], d)'
    <3>1. vd_dirs' = vd_dirs /\ vd_job' = vd_job
      BY <1>2
    <3>2. to # "end" => said'[d] = said[d]
      BY <1>6
    <3> QED BY <1>2, <1>6, <1>9, <2>2, <3>1, <3>2 DEF Made, Renaming
  <2>7. to # "end" => Made(vd_pc[p], vd_job[p], d)'
    BY <1>10, <2>6
  <2>8. Settled(k, d)'
    <3>1. CASE to = "end" /\ word = "gone"
      <4>1. said'[d] = "gone" /\ vd_job[p].op = "del" /\ vd_pc[p] = "rename_assign"
        BY <1>2, <1>6, <2>1, <3>1 DEF Renaming
      <4>2. /\ HostLines("rcpthosts", d) = {} /\ HostLines("morercpthosts", d) = {}
            /\ HostLines("assign", d) = {} /\ HostLines("virtualdomains", d) = {} /\ d \notin vd_dirs
        BY <2>2, <4>1 DEF Made
      <4>3. CdbLines("morercpthosts", d)' = {} /\ d \notin vd_dirs'
        BY <1>2, <1>9, <2>4, <4>2 DEF CdbFiles
      <4> QED BY <1>9, <2>4, <4>1, <4>2, <4>3 DEF Settled
    <3>2. CASE ~(to = "end" /\ word = "gone")
      <4>1. said'[d] = "unknown"
        BY <1>6, <2>1, <2>2, <3>2 DEF Made
      <4>2. HostLines("rcpthosts", d)' # {} \/ HostLines("morercpthosts", d)' # {} \/ CdbLines("morercpthosts", d)' # {} => HostLines("assign", d)' # {}
        BY <1>9, <2>2, <2>4 DEF Settled, CdbFiles
      <4> QED BY <1>9, <2>1, <2>2, <2>4, <4>1, <4>2, StaysSettled DEF Settled
    <3> QED BY <3>1, <3>2
  <2> QED BY <2>5, <2>7, <2>8
<1>14. \A g \in CdbFiles : Read(k, p, g)'
  BY <1>10, <1>6 DEF Read, CdbFiles, Renaming
<1>15. Host(k)!HurtForCause'
  BY <1>2 DEF HostInv, Host!HurtForCause
<1> QED BY <1>3, <1>4, <1>6, <1>7, <1>8, <1>10, <1>12, <1>13, <1>14, <1>15, HostWork

LEMMA HostInit ==
  ASSUME NEW k, Host(k)!Init
  PROVE  HostInv(k)
<1>1. PICK locals \in SUBSET k.domains :
        vd_file = [f \in Texts |-> IF f = "locals" THEN {Host(k)!Line(d, d, "admin") : d \in locals} ELSE {}]
  BY DEF Host!Init, Host!Texts, Texts
<1>2. /\ vd_cdb = [f \in CdbFiles |-> {}] /\ vd_dirs = {} /\ vd_hurt = {} /\ vd_kills = 0
      /\ vd_pc = [p \in k.programs |-> "idle"] /\ vd_job = [p \in k.programs |-> Host(k)!NoJob]
      /\ said = [d \in k.domains |-> "gone"]
  BY DEF Host!Init, Host!Compiled, CdbFiles
<1>3. /\ Host(k)!NoJob.doms = {} /\ Host(k)!NoJob \in HostJob(k)
  BY DEF Host!NoJob, HostJob
<1>4. {Host(k)!Line(d, d, "admin") : d \in locals} \subseteq HostLine(k)
  BY <1>1 DEF HostLine, Host!Line
<1>5. \A f \in Texts : f # "locals" => \A d : HostLines(f, d) = {}
  BY <1>1 DEF HostLines
<1>6. \A f \in CdbFiles : \A d : CdbLines(f, d) = {}
  BY <1>2 DEF CdbLines
<1>7. HostIs(k)
  <2>1. vd_file \in [Texts -> SUBSET HostLine(k)]
    BY <1>1, <1>4
  <2>2. vd_cdb \in [CdbFiles -> SUBSET HostLine(k)]
    BY <1>2
  <2>3. vd_pc \in [k.programs -> Stages] /\ vd_job \in [k.programs -> HostJob(k)]
    BY <1>2, <1>3 DEF Stages
  <2>4. said \in [k.domains -> {"there", "gone", "unknown"}]
    BY <1>2
  <2> QED BY <1>2, <2>1, <2>2, <2>3, <2>4 DEF HostIs
<1>8. \A p \in k.programs : vd_pc[p] = "idle" /\ vd_job[p].doms = {} /\ ~AtWork(p)
  BY <1>2, <1>3 DEF AtWork
<1>9. \A p \in k.programs : Placed(k, vd_pc[p], vd_job[p])
  BY <1>8 DEF Placed
<1>10. ASSUME NEW d \in k.domains PROVE Settled(k, d)
  <2>1. said[d] = "gone" /\ d \notin vd_dirs
    BY <1>2
  <2> HIDE DEF HostLines, CdbLines
  <2> QED BY <1>5, <1>6, <2>1 DEF Settled, Texts, CdbFiles
<1>11. \A p \in k.programs, f \in CdbFiles : Read(k, p, f)
  BY <1>8 DEF Read, CdbFiles, Renaming
<1>12. Host(k)!HurtForCause
  BY <1>2 DEF Host!HurtForCause
<1> QED BY <1>7, <1>8, <1>9, <1>10, <1>11, <1>12 DEF HostInv

LEMMA HostNext ==
  ASSUME NEW k, HostInv(k), Host(k)!VDomainsAssumption, Host(k)!Next
  PROVE  HostInv(k)'
<1>1. k.aliases \subseteq k.domains
  BY DEF Host!VDomainsAssumption
<1>2. PICK p \in k.programs :
        \/ Host(k)!AddDomain(p) \/ Host(k)!AddAlias(p) \/ Host(k)!DelAlias(p) \/ Host(k)!DelDomain(p)
        \/ Host(k)!DelUnknown(p) \/ Host(k)!MakeDir(p) \/ Host(k)!RemoveDir(p) \/ Host(k)!Count(p)
        \/ Host(k)!AddAssign(p) \/ Host(k)!AddRcpthosts(p) \/ Host(k)!AddMore(p) \/ Host(k)!AddVirtual(p)
        \/ Host(k)!NoLocals(p) \/ Host(k)!AddBusy(p) \/ Host(k)!DelRcpthosts(p) \/ Host(k)!DelMore(p)
        \/ Host(k)!DelVirtual(p) \/ Host(k)!DelAssign(p) \/ Host(k)!DelBusy(p) \/ Host(k)!Kill(p)
        \/ \E f \in CdbFiles : Host(k)!CompileRead(p, f) \/ Host(k)!CompileEnd(p, f)
  BY DEF Host!Next, Host!Compiled, CdbFiles
<1>3. CASE \/ Host(k)!AddDomain(p) \/ Host(k)!AddAlias(p) \/ Host(k)!DelAlias(p) \/ Host(k)!DelDomain(p)
           \/ Host(k)!DelUnknown(p)
  BY <1>1, <1>3, HostAddDomain, HostAddAlias, HostDelAlias, HostDelDomain, HostDelUnknown
<1>4. CASE \/ Host(k)!MakeDir(p) \/ Host(k)!RemoveDir(p) \/ Host(k)!Count(p)
  BY <1>4, HostMakeDir, HostRemoveDir, HostCount
<1>5. CASE Host(k)!AddAssign(p) \/ Host(k)!AddRcpthosts(p) \/ Host(k)!AddMore(p) \/ Host(k)!AddVirtual(p)
  BY <1>5, HostAdd
<1>6. CASE \/ Host(k)!NoLocals(p) \/ Host(k)!AddBusy(p) \/ Host(k)!DelRcpthosts(p) \/ Host(k)!DelMore(p)
           \/ Host(k)!DelVirtual(p) \/ Host(k)!DelAssign(p) \/ Host(k)!DelBusy(p) \/ Host(k)!Kill(p)
  BY <1>6, HostNoLocals, HostAddBusy, HostDelRcpthosts, HostDelMore, HostDelVirtual, HostDelAssign, HostDelBusy,
     HostKill
<1>7. CASE \E f \in CdbFiles : Host(k)!CompileRead(p, f) \/ Host(k)!CompileEnd(p, f)
  BY <1>7, HostCompileRead, HostCompileEnd
<1> QED BY <1>2, <1>3, <1>4, <1>5, <1>6, <1>7

LEMMA HostStutter == ASSUME NEW k, HostInv(k), UNCHANGED vdVars PROVE HostInv(k)'
<1>1. /\ vd_file' = vd_file /\ vd_cdb' = vd_cdb /\ vd_dirs' = vd_dirs /\ vd_pc' = vd_pc /\ vd_job' = vd_job
      /\ vd_kills' = vd_kills /\ vd_hurt' = vd_hurt /\ said' = said
  BY DEF vdVars
<1>2. \A f, d : HostLines(f, d)' = HostLines(f, d) /\ CdbLines(f, d)' = CdbLines(f, d)
  BY <1>1, SameFiles, SameCdb
<1>3. (\A p \in k.programs : AtWork(p)' <=> AtWork(p)) /\ HostIs(k)' /\ Host(k)!HurtForCause'
  BY <1>1 DEF AtWork, HostInv, HostIs, Host!HurtForCause
<1>4. \A p \in k.programs, d \in k.domains : Made(vd_pc[p], vd_job[p], d) => Made(vd_pc[p], vd_job[p], d)'
  BY <1>1, <1>2 DEF Made
<1>5. \A d \in k.domains : Settled(k, d) => Settled(k, d)'
  BY <1>1, <1>2 DEF Settled
<1>6. \A p \in k.programs, f \in CdbFiles : Read(k, p, f) => Read(k, p, f)'
  BY <1>1, <1>2 DEF Read
<1> QED BY <1>1, <1>3, <1>4, <1>5, <1>6 DEF HostInv

LEMMA HostKeeps ==
  ASSUME NEW k, HostInv(k)
  PROVE  /\ Host(k)!AcceptedIsAssigned(Host(k)!Sound) /\ Host(k)!AddedIsServed(Host(k)!Sound)
         /\ Host(k)!DeletedIsGone(Host(k)!Sound) /\ Host(k)!HurtForCause
<1>1. \A d \in Host(k)!Sound : d \in k.domains \ vd_hurt /\ Settled(k, d)
  BY DEF HostInv, Host!Sound
<1>2. \A f, d : /\ Host(k)!In(d, vd_file[f]) <=> HostLines(f, d) # {}
                /\ Host(k)!In(d, vd_cdb[f]) <=> CdbLines(f, d) # {}
  BY DEF Host!In, HostLines, CdbLines
<1>3. ASSUME NEW d \in Host(k)!Sound PROVE Host(k)!Accepted(d) => HostLines("assign", d) # {}
  <2>1. Settled(k, d)
    BY <1>1
  <2>2. Host(k)!Accepted(d) => HostLines("rcpthosts", d) # {} \/ CdbLines("morercpthosts", d) # {}
    BY <1>2 DEF Host!Accepted
  <2> QED BY <2>1, <2>2 DEF Settled
<1>4. ASSUME NEW d \in Host(k)!Sound, said[d] # "unknown" PROVE \A f \in CdbFiles : CdbLines(f, d) = HostLines(f, d)
  <2>1. \A p \in k.programs : d \in vd_job[p].doms => ~AtWork(p)
    BY <1>1, <1>4 DEF HostInv, Made
  <2>2. \A p \in k.programs, f \in CdbFiles : d \in vd_job[p].doms => vd_pc[p] \notin {Compiling[f], Renaming[f]}
    BY <2>1 DEF AtWork, CdbFiles, Compiling, Renaming
  <2> QED BY <1>1, <2>2 DEF Settled
<1>5. ASSUME NEW d \in Host(k)!Sound, said[d] = "there" PROVE Host(k)!Served(d)
  <2> HIDE DEF HostLines, CdbLines
  <2>1. CdbLines("assign", d) = HostLines("assign", d) /\ CdbLines("morercpthosts", d) = HostLines("morercpthosts", d)
    BY <1>4, <1>5 DEF CdbFiles
  <2>2. Settled(k, d)
    BY <1>1
  <2> QED BY <1>2, <1>5, <2>1, <2>2 DEF Settled, Host!Served, Host!Accepted
<1>6. ASSUME NEW d \in Host(k)!Sound, said[d] = "gone" PROVE Host(k)!Gone(d)
  <2> HIDE DEF HostLines, CdbLines
  <2>1. CdbLines("assign", d) = HostLines("assign", d) /\ CdbLines("morercpthosts", d) = HostLines("morercpthosts", d)
    BY <1>4, <1>6 DEF CdbFiles
  <2>2. /\ HostLines("rcpthosts", d) = {} /\ HostLines("morercpthosts", d) = {}
        /\ HostLines("assign", d) = {} /\ HostLines("virtualdomains", d) = {} /\ d \notin vd_dirs
    BY <1>1, <1>6 DEF Settled
  <2> QED BY <1>2, <2>1, <2>2 DEF Host!Gone, Host!Texts, Host!Compiled
<1>7. Host(k)!HurtForCause
  BY DEF HostInv
<1> QED BY <1>2, <1>3, <1>5, <1>6, <1>7 DEF Host!AcceptedIsAssigned, Host!AddedIsServed, Host!DeletedIsGone

-----------------------------------------------------------------------------
(* Bounces of ezmlm *)

Letters == [kind : {"post", "warn", "probe"}, back : BOOLEAN, age : 0 .. 3]
Kind(f) == bounce_file[f].kind
Age(f) == bounce_file[f].age

BounceTypes(k) ==
  /\ subscribed \in BOOLEAN /\ times \in Nat /\ times > 0
  /\ bounce_file \in [k.files -> [kind : {"none", "d", "w"}, age : 0 .. 1]]
  /\ h \in -1 .. 4 /\ mail \subseteq Letters /\ since \in -1 .. 2 /\ bounce_crashes \in Nat
  /\ bounce_pc \in {"free", "read_h", "rename_h", "unlink_h", "unlink_d"}
  /\ bounce_pc \in {"unlink_h", "unlink_d"} => it \in k.files
  /\ bounce_pc = "unlink_d" /\ Kind(it) = "d" => h = -1

(* What keeps bounces back has, or is about to have, a file that warns.       *)
Warns(k) ==
  times = 1 /\ subscribed /\ (h # -1 \/ bounce_pc = "rename_h") => \E f \in k.files : Kind(f) = "d"

(* Without kills one file warns, there is none before the bounces are kept    *)
(* back but while they get to be, or no longer are, and it is older than      *)
(* what keeps them back.                                                     *)
WarnsOnce(k) ==
  bounce_crashes = 0 =>
    /\ \A f, g \in k.files : Kind(f) = "d" /\ Kind(g) = "d" => f = g
    /\ h = -1 =>
         \A f \in k.files : Kind(f) = "d" => bounce_pc = "rename_h" \/ (bounce_pc = "unlink_d" /\ it = f)
    /\ h >= 1 => \A f \in k.files : Kind(f) = "d" => Age(f) = 1

(* How long it took to get there.                                            *)
Waited(k) ==
  /\ \A m \in mail : m.back => since >= 0
  /\ bounce_pc \in {"read_h", "rename_h"} => since >= 0
  /\ \A f \in k.files : Kind(f) = "d" => since >= 0 /\ (Age(f) = 1 => since >= 1)
  /\ \A m \in mail : m.kind = "warn" => since >= 1
  /\ \A f \in k.files : Kind(f) = "w" => since >= 1 /\ (Age(f) = 1 => since = 2)
  /\ \A m \in mail : m.kind = "probe" => since = 2

BounceInv(k) == BounceTypes(k) /\ Warns(k) /\ WarnsOnce(k) /\ Waited(k)

LEMMA SameFile ==
  ASSUME bounce_file' = bounce_file
  PROVE  \A f : Kind(f)' = Kind(f) /\ Age(f)' = Age(f)
BY DEF Kind, Age

LEMMA KindIs ==
  ASSUME NEW k, BounceTypes(k)
  PROVE  \A f \in k.files : Kind(f) \in {"none", "d", "w"} /\ Age(f) \in 0 .. 1 /\
           bounce_file[f] = [kind |-> Kind(f), age |-> Age(f)]
BY DEF BounceTypes, Kind, Age

LEMMA ChangedFile ==
  ASSUME NEW k, BounceTypes(k), NEW g \in k.files, NEW kind \in {"none", "d", "w"},
         bounce_file' = [bounce_file EXCEPT ![g] = [kind |-> kind, age |-> 0]]
  PROVE  /\ bounce_file' \in [k.files -> [kind : {"none", "d", "w"}, age : 0 .. 1]]
         /\ Kind(g)' = kind /\ Age(g)' = 0
         /\ \A f \in k.files : f # g => Kind(f)' = Kind(f) /\ Age(f)' = Age(f)
<1>1. bounce_file'[g] = [kind |-> kind, age |-> 0] /\ \A f \in k.files : f # g => bounce_file'[f] = bounce_file[f]
  BY DEF BounceTypes
<1>2. Kind(g)' = kind /\ Age(g)' = 0
  BY <1>1 DEF Kind, Age
<1>3. [kind |-> kind, age |-> 0] \in [kind : {"none", "d", "w"}, age : 0 .. 1]
  OBVIOUS
<1>4. bounce_file' \in [k.files -> [kind : {"none", "d", "w"}, age : 0 .. 1]]
  BY <1>3 DEF BounceTypes
<1> QED BY <1>1, <1>2, <1>4 DEF Kind, Age

LEMMA BounceInit == ASSUME NEW k, Address(k)!Init PROVE BounceInv(k)
<1>1. /\ subscribed = TRUE /\ times = 1 /\ bounce_file = [f \in k.files |-> [kind |-> "none", age |-> 0]] /\ h = -1
      /\ mail = {} /\ bounce_pc = "free" /\ bounce_crashes = 0 /\ since = -1
  BY DEF Address!Init, Address!Absent, Address!NoFile
<1>2. \A f \in k.files : Kind(f) = "none"
  BY <1>1 DEF Kind
<1>3. bounce_file \in [k.files -> [kind : {"none", "d", "w"}, age : 0 .. 1]]
  BY <1>1
<1>4. BounceTypes(k)
  BY <1>1, <1>3 DEF BounceTypes
<1>5. Warns(k) /\ WarnsOnce(k) /\ Waited(k)
  BY <1>1, <1>2 DEF Warns, WarnsOnce, Waited
<1> QED BY <1>4, <1>5 DEF BounceInv

LEMMA BouncePost == ASSUME NEW k, BounceInv(k), Address(k)!Post PROVE BounceInv(k)'
<1>0. /\ BounceTypes(k) /\ Warns(k) /\ WarnsOnce(k) /\ Waited(k)
      /\ \A f \in k.files : Kind(f) \in {"none", "d", "w"} /\ Age(f) \in 0 .. 1
  BY KindIs DEF BounceInv
<1>1. /\ mail' = mail \cup {[kind |-> "post", back |-> FALSE, age |-> 0]}
      /\ subscribed' = subscribed /\ times' = times /\ bounce_file' = bounce_file /\ h' = h
      /\ bounce_pc' = bounce_pc /\ it' = it /\ bounce_crashes' = bounce_crashes /\ since' = since
  BY DEF Address!Post, Address!Send, Address!bounce, Address!list, Address!ghosts
<1>2. \A f : Kind(f)' = Kind(f) /\ Age(f)' = Age(f)
  BY <1>1, SameFile
<1>3. BounceTypes(k)'
  <2>1. [kind |-> "post", back |-> FALSE, age |-> 0] \in Letters
    BY DEF Letters
  <2> QED BY <1>0, <1>1, <1>2, <2>1 DEF BounceTypes
<1>4. Warns(k)'
  BY <1>0, <1>1, <1>2 DEF BounceTypes, Warns
<1>5. WarnsOnce(k)'
  BY <1>0, <1>1, <1>2 DEF BounceTypes, WarnsOnce
<1>6. Waited(k)'
  BY <1>0, <1>1, <1>2 DEF BounceTypes, Waited, Letters
<1> QED BY <1>3, <1>4, <1>5, <1>6 DEF BounceInv

LEMMA BounceUnsubscribe == ASSUME NEW k, BounceInv(k), Address(k)!Unsubscribe PROVE BounceInv(k)'
<1>0. /\ BounceTypes(k) /\ Warns(k) /\ WarnsOnce(k) /\ Waited(k)
      /\ \A f \in k.files : Kind(f) \in {"none", "d", "w"} /\ Age(f) \in 0 .. 1
  BY KindIs DEF BounceInv
<1>1. /\ subscribed' = FALSE
      /\ times' = times /\ bounce_file' = bounce_file /\ h' = h /\ mail' = mail /\ bounce_pc' = bounce_pc
      /\ it' = it /\ bounce_crashes' = bounce_crashes /\ since' = since
  BY DEF Address!Unsubscribe, Address!bounce, Address!ghosts
<1>2. \A f : Kind(f)' = Kind(f) /\ Age(f)' = Age(f)
  BY <1>1, SameFile
<1>3. BounceTypes(k)'
  BY <1>0, <1>1, <1>2 DEF BounceTypes, Letters
<1>4. Warns(k)'
  BY <1>0, <1>1, <1>2 DEF BounceTypes, Warns
<1>5. WarnsOnce(k)'
  BY <1>0, <1>1, <1>2 DEF BounceTypes, WarnsOnce
<1>6. Waited(k)'
  BY <1>0, <1>1, <1>2 DEF BounceTypes, Waited, Letters
<1> QED BY <1>3, <1>4, <1>5, <1>6 DEF BounceInv

LEMMA BounceSubscribe == ASSUME NEW k, BounceInv(k), Address(k)!Subscribe PROVE BounceInv(k)'
<1>0. /\ BounceTypes(k) /\ Warns(k) /\ WarnsOnce(k) /\ Waited(k)
      /\ \A f \in k.files : Kind(f) \in {"none", "d", "w"} /\ Age(f) \in 0 .. 1
  BY KindIs DEF BounceInv
<1>1. /\ ~subscribed /\ subscribed' = TRUE /\ times' = times + 1
      /\ bounce_file' = bounce_file /\ h' = h /\ mail' = mail /\ bounce_pc' = bounce_pc /\ it' = it
      /\ bounce_crashes' = bounce_crashes /\ since' = since
  BY DEF Address!Subscribe, Address!bounce
<1>2. \A f : Kind(f)' = Kind(f) /\ Age(f)' = Age(f)
  BY <1>1, SameFile
<1>3. BounceTypes(k)'
  BY <1>0, <1>1, <1>2 DEF BounceTypes, Letters
<1>4. Warns(k)'
  BY <1>0, <1>1, <1>2 DEF BounceTypes, Warns
<1>5. WarnsOnce(k)'
  BY <1>0, <1>1, <1>2 DEF BounceTypes, WarnsOnce
<1>6. Waited(k)'
  BY <1>0, <1>1, <1>2 DEF BounceTypes, Waited, Letters
<1> QED BY <1>3, <1>4, <1>5, <1>6 DEF BounceInv

LEMMA BounceTick == ASSUME NEW k, BounceInv(k), Address(k)!Tick PROVE BounceInv(k)'
<1>0. /\ BounceTypes(k) /\ Warns(k) /\ WarnsOnce(k) /\ Waited(k)
      /\ \A f \in k.files : Kind(f) \in {"none", "d", "w"} /\ Age(f) \in 0 .. 1
  BY KindIs DEF BounceInv
<1>1. /\ bounce_file' = [f \in k.files |-> IF bounce_file[f] = [kind |-> "none", age |-> 0] THEN [kind |-> "none", age |-> 0]
                                      ELSE [bounce_file[f] EXCEPT !.age = Address(k)!Older(bounce_file[f].age, 1)]]
      /\ h' = Address(k)!Older(h, 4) /\ mail' = {Address(k)!OlderMail(m) : m \in mail} /\ since' = Address(k)!Older(since, 2)
      /\ subscribed' = subscribed /\ times' = times /\ bounce_pc' = bounce_pc /\ it' = it
      /\ bounce_crashes' = bounce_crashes
  BY DEF Address!Tick, Address!list, Address!Timeout, Address!Expiry, Address!bounce, Address!NoFile
<1>2. ASSUME NEW f \in k.files
      PROVE  /\ bounce_file'[f] \in [kind : {"none", "d", "w"}, age : 0 .. 1]
             /\ Kind(f)' = Kind(f) /\ (Kind(f) # "none" => Age(f)' = 1)
  <2>1. PICK kind \in {"none", "d", "w"}, age \in 0 .. 1 :
          kind = Kind(f) /\ age = Age(f) /\ bounce_file[f] = [kind |-> kind, age |-> age]
    BY <1>0, KindIs
  <2>2. Address(k)!Older(age, 1) = 1
    BY DEF Address!Older, Address!Absent
  <2>3. bounce_file'[f] = IF kind = "none" /\ age = 0 THEN [kind |-> "none", age |-> 0] ELSE [kind |-> kind, age |-> 1]
    BY <1>1, <2>1, <2>2
  <2>4. bounce_file'[f].kind = kind /\ (kind # "none" => bounce_file'[f].age = 1)
    BY <2>3
  <2>5. bounce_file'[f] \in [kind : {"none", "d", "w"}, age : 0 .. 1]
    BY <2>3
  <2> QED BY <2>1, <2>4, <2>5 DEF Kind, Age
<1>3. bounce_file' \in [k.files -> [kind : {"none", "d", "w"}, age : 0 .. 1]]
  <2>1. \E F : bounce_file' = [f \in k.files |-> F[f]]
    <3>1. bounce_file' = [f \in k.files |-> bounce_file'[f]]
      BY <1>1
    <3> QED BY <3>1
  <2> QED BY <1>2, <2>1
<1>4. /\ h' \in -1 .. 4 /\ (h = -1 <=> h' = -1) /\ since' \in -1 .. 2 /\ (since >= 0 => since' >= 1)
      /\ (since >= 1 => since' = 2) /\ since' >= since
  BY <1>0, <1>1 DEF BounceTypes, Address!Older, Address!Absent
<1>5. ASSUME NEW m \in mail
      PROVE  Address(k)!OlderMail(m) \in Letters /\ Address(k)!OlderMail(m).kind = m.kind /\ Address(k)!OlderMail(m).back = m.back
  <2>1. m \in Letters
    BY <1>0 DEF BounceTypes
  <2>2. PICK a : a = Address(k)!Older(m.age, 3)
    OBVIOUS
  <2>3. a \in 0 .. 3
    BY <2>1, <2>2 DEF Letters, Address!Older, Address!Absent
  <2>4. Address(k)!OlderMail(m) = IF m.kind = "post" THEN m ELSE [m EXCEPT !.age = a]
    BY <2>2 DEF Address!OlderMail, Address!Expiry
  <2>5. [m EXCEPT !.age = a] \in Letters /\ [m EXCEPT !.age = a].kind = m.kind /\ [m EXCEPT !.age = a].back = m.back
    BY <2>1, <2>3 DEF Letters
  <2> QED BY <2>1, <2>4, <2>5
<1>6. \A n \in mail' : n \in Letters /\ \E m \in mail : n.kind = m.kind /\ n.back = m.back
  BY <1>1, <1>5
<1>7. BounceTypes(k)'
  <2>0. PICK g : g = it
    OBVIOUS
  <2>1. bounce_pc = "unlink_d" => Kind(g)' = Kind(g)
    BY <1>0, <1>2, <2>0 DEF BounceTypes
  <2>2. bounce_pc' = "unlink_d" /\ Kind(it)' = "d" => h' = -1
    <3>1. Kind(it)' = Kind(g)' /\ Kind(it) = Kind(g)
      BY <1>1, <2>0 DEF Kind
    <3> QED BY <1>0, <1>1, <1>4, <2>1, <3>1 DEF BounceTypes
  <2> QED BY <1>0, <1>1, <1>3, <1>4, <1>6, <2>2 DEF BounceTypes
<1>8. Warns(k)'
  BY <1>0, <1>1, <1>2, <1>4 DEF Warns
<1>9. WarnsOnce(k)'
  BY <1>0, <1>1, <1>2, <1>4 DEF WarnsOnce
<1>10. Waited(k)'
  <2>1. since \in -1 .. 2
    BY <1>0 DEF BounceTypes
  <2>2. \A m \in mail' : (m.back => since' >= 0) /\ (m.kind = "warn" => since' >= 1) /\ (m.kind = "probe" => since' = 2)
    BY <1>0, <1>4, <1>6, <2>1 DEF Waited
  <2>3. \A f \in k.files : (Kind(f) = "d" => since' >= 1) /\ (Kind(f) = "w" => since' = 2)
    BY <1>0, <1>4, <2>1 DEF Waited
  <2>4. bounce_pc \in {"read_h", "rename_h"} => since' >= 0
    BY <1>0, <1>4, <2>1 DEF Waited
  <2>5. ASSUME NEW f \in k.files
        PROVE  /\ (Kind(f) = "d")' => since' >= 0 /\ ((Age(f) = 1)' => since' >= 1)
               /\ (Kind(f) = "w")' => since' >= 1 /\ ((Age(f) = 1)' => since' = 2)
    <3>1. since' \in -1 .. 2 /\ Kind(f)' = Kind(f)
      BY <1>2, <1>4
    <3> QED BY <2>3, <3>1
  <2> QED BY <1>1, <2>2, <2>4, <2>5 DEF Waited
<1> QED BY <1>7, <1>8, <1>9, <1>10 DEF BounceInv

LEMMA BounceArrive == ASSUME NEW k, BounceInv(k), NEW m \in mail, Address(k)!Arrive(m) PROVE BounceInv(k)'
<1>0. /\ BounceTypes(k) /\ Warns(k) /\ WarnsOnce(k) /\ Waited(k)
      /\ \A f \in k.files : Kind(f) \in {"none", "d", "w"} /\ Age(f) \in 0 .. 1
  BY KindIs DEF BounceInv
<1>1. /\ mail' = mail \ {m}
      /\ subscribed' = subscribed /\ times' = times /\ bounce_file' = bounce_file /\ h' = h
      /\ bounce_pc' = bounce_pc /\ it' = it /\ bounce_crashes' = bounce_crashes /\ since' = since
  BY DEF Address!Arrive, Address!bounce, Address!list, Address!ghosts
<1>2. \A f : Kind(f)' = Kind(f) /\ Age(f)' = Age(f)
  BY <1>1, SameFile
<1>3. BounceTypes(k)'
  BY <1>0, <1>1, <1>2 DEF BounceTypes, Letters
<1>4. Warns(k)'
  BY <1>0, <1>1, <1>2 DEF BounceTypes, Warns
<1>5. WarnsOnce(k)'
  BY <1>0, <1>1, <1>2 DEF BounceTypes, WarnsOnce
<1>6. Waited(k)'
  BY <1>0, <1>1, <1>2 DEF BounceTypes, Waited, Letters
<1> QED BY <1>3, <1>4, <1>5, <1>6 DEF BounceInv

LEMMA BounceBounce == ASSUME NEW k, BounceInv(k), NEW m \in mail, Address(k)!Bounce(m) PROVE BounceInv(k)'
<1>0. /\ BounceTypes(k) /\ Warns(k) /\ WarnsOnce(k) /\ Waited(k)
      /\ \A f \in k.files : Kind(f) \in {"none", "d", "w"} /\ Age(f) \in 0 .. 1
  BY KindIs DEF BounceInv
<1>1. /\ mail' = (mail \ {m}) \cup {[m EXCEPT !.back = TRUE]} /\ since' = IF since = -1 THEN 0 ELSE since
      /\ subscribed' = subscribed /\ times' = times /\ bounce_file' = bounce_file /\ h' = h
      /\ bounce_pc' = bounce_pc /\ it' = it /\ bounce_crashes' = bounce_crashes
  BY DEF Address!Bounce, Address!bounce, Address!list, Address!Absent
<1>2. \A f : Kind(f)' = Kind(f) /\ Age(f)' = Age(f)
  BY <1>1, SameFile
<1>3. BounceTypes(k)'
  <2>1. m \in Letters
    BY <1>0 DEF BounceTypes
  <2>2. [m EXCEPT !.back = TRUE] \in Letters
    BY <2>1 DEF Letters
  <2>3. mail' \subseteq Letters
    BY <1>0, <1>1, <2>2 DEF BounceTypes
  <2>4. since' \in -1 .. 2
    BY <1>0, <1>1 DEF BounceTypes
  <2>5. bounce_pc' = "unlink_d" /\ Kind(it)' = "d" => h' = -1
    <3>1. Kind(it)' = Kind(it)
      BY <1>1 DEF Kind
    <3> QED BY <1>0, <1>1, <3>1 DEF BounceTypes
  <2> QED BY <1>0, <1>1, <2>3, <2>4, <2>5 DEF BounceTypes
<1>4. Warns(k)'
  BY <1>0, <1>1, <1>2 DEF BounceTypes, Warns
<1>5. WarnsOnce(k)'
  BY <1>0, <1>1, <1>2 DEF BounceTypes, WarnsOnce
<1>6. Waited(k)'
  BY <1>0, <1>1, <1>2 DEF BounceTypes, Waited, Letters
<1> QED BY <1>3, <1>4, <1>5, <1>6 DEF BounceInv

LEMMA BounceTakePost == ASSUME NEW k, BounceInv(k), NEW m \in mail, Address(k)!TakePost(m) PROVE BounceInv(k)'
<1>0. /\ BounceTypes(k) /\ Warns(k) /\ WarnsOnce(k) /\ Waited(k)
      /\ \A f \in k.files : Kind(f) \in {"none", "d", "w"} /\ Age(f) \in 0 .. 1
  BY KindIs DEF BounceInv
<1>1. /\ m.back /\ bounce_pc = "free"
      /\ \/ bounce_pc' = "read_h" /\ it' = m /\ mail' = mail
         \/ mail' = mail \ {m} /\ bounce_pc' = bounce_pc /\ it' = it
      /\ subscribed' = subscribed /\ times' = times /\ bounce_file' = bounce_file /\ h' = h
      /\ bounce_crashes' = bounce_crashes /\ since' = since
  BY DEF Address!TakePost, Address!bounce, Address!list, Address!ghosts, Address!Drop, Address!Of
<1>2. \A f : Kind(f)' = Kind(f) /\ Age(f)' = Age(f)
  BY <1>1, SameFile
<1>3. BounceTypes(k)'
  BY <1>0, <1>1, <1>2 DEF BounceTypes, Letters
<1>4. Warns(k)'
  BY <1>0, <1>1, <1>2 DEF BounceTypes, Warns
<1>5. WarnsOnce(k)'
  BY <1>0, <1>1, <1>2 DEF BounceTypes, WarnsOnce
<1>6. Waited(k)'
  BY <1>0, <1>1, <1>2 DEF BounceTypes, Waited, Letters
<1> QED BY <1>3, <1>4, <1>5, <1>6 DEF BounceInv

LEMMA BounceTakeWarning == ASSUME NEW k, BounceInv(k), NEW m \in mail, Address(k)!TakeWarning(m) PROVE BounceInv(k)'
<1>0. /\ BounceTypes(k) /\ Warns(k) /\ WarnsOnce(k) /\ Waited(k)
      /\ \A f \in k.files : Kind(f) \in {"none", "d", "w"} /\ Age(f) \in 0 .. 1
  BY KindIs DEF BounceInv
<1>1. /\ m.back /\ m.kind = "warn" /\ bounce_pc = "free" /\ mail' = mail \ {m}
      /\ \/ \E f \in k.files : Kind(f) = "none" /\ bounce_file' = [bounce_file EXCEPT ![f] = [kind |-> "w", age |-> 0]]
         \/ bounce_file' = bounce_file
      /\ subscribed' = subscribed /\ times' = times /\ h' = h /\ bounce_pc' = bounce_pc /\ it' = it
      /\ bounce_crashes' = bounce_crashes /\ since' = since
  BY DEF Address!TakeWarning, Address!list, Address!ghosts, Address!Drop, Address!Of, Address!Expiry,
    Address!bounce, Kind
<1>2. CASE bounce_file' = bounce_file
  <2>1. \A f : Kind(f)' = Kind(f) /\ Age(f)' = Age(f)
    BY <1>2, SameFile
  <2>2. BounceTypes(k)' /\ Warns(k)'
    BY <1>0, <1>1, <1>2, <2>1 DEF BounceTypes, Warns
  <2>3. WarnsOnce(k)' /\ Waited(k)'
    BY <1>0, <1>1, <2>1 DEF WarnsOnce, Waited
  <2> QED BY <2>2, <2>3 DEF BounceInv
<1>3. ASSUME NEW g \in k.files, Kind(g) = "none", bounce_file' = [bounce_file EXCEPT ![g] = [kind |-> "w", age |-> 0]]
      PROVE  BounceInv(k)'
  <2>1. /\ bounce_file' \in [k.files -> [kind : {"none", "d", "w"}, age : 0 .. 1]] /\ Kind(g)' = "w" /\ Age(g)' = 0
        /\ \A f \in k.files : f # g => Kind(f)' = Kind(f) /\ Age(f)' = Age(f)
    BY <1>0, <1>3, ChangedFile
  <2>2. BounceTypes(k)'
    BY <1>0, <1>1, <2>1 DEF BounceTypes
  <2>3. Warns(k)'
    BY <1>0, <1>1, <1>3, <2>1 DEF Warns
  <2>4. \A f \in k.files : Kind(f)' = "d" => Kind(f) = "d" /\ Age(f)' = Age(f)
    BY <2>1
  <2>5. WarnsOnce(k)'
    BY <1>0, <1>1, <2>4 DEF WarnsOnce
  <2>6. since >= 1 /\ since' = since
    BY <1>0, <1>1 DEF Waited
  <2>7. \A f \in k.files : Kind(f)' = "w" => since >= 1 /\ (Age(f)' = 1 => since = 2)
    BY <1>0, <2>1, <2>6 DEF Waited
  <2>8. Waited(k)'
    BY <1>0, <1>1, <2>4, <2>7 DEF Waited
  <2> QED BY <2>2, <2>3, <2>5, <2>8 DEF BounceInv
<1> QED BY <1>1, <1>2, <1>3

LEMMA BounceTakeProbe == ASSUME NEW k, BounceInv(k), NEW m \in mail, Address(k)!TakeProbe(m) PROVE BounceInv(k)'
<1>0. /\ BounceTypes(k) /\ Warns(k) /\ WarnsOnce(k) /\ Waited(k)
      /\ \A f \in k.files : Kind(f) \in {"none", "d", "w"} /\ Age(f) \in 0 .. 1
  BY KindIs DEF BounceInv
<1>1. /\ mail' = mail \ {m} /\ subscribed' \in BOOLEAN /\ (subscribed' => subscribed)
      /\ times' = times /\ bounce_file' = bounce_file /\ h' = h /\ bounce_pc' = bounce_pc /\ it' = it
      /\ bounce_crashes' = bounce_crashes /\ since' = since
  BY DEF Address!TakeProbe, Address!bounce, Address!ghosts, Address!Drop, Address!Expiry
<1>2. \A f : Kind(f)' = Kind(f) /\ Age(f)' = Age(f)
  BY <1>1, SameFile
<1>3. BounceTypes(k)'
  BY <1>0, <1>1, <1>2 DEF BounceTypes, Letters
<1>4. Warns(k)'
  BY <1>0, <1>1, <1>2 DEF BounceTypes, Warns
<1>5. WarnsOnce(k)'
  BY <1>0, <1>1, <1>2 DEF BounceTypes, WarnsOnce
<1>6. Waited(k)'
  BY <1>0, <1>1, <1>2 DEF BounceTypes, Waited, Letters
<1> QED BY <1>3, <1>4, <1>5, <1>6 DEF BounceInv

LEMMA BounceKeepBounce == ASSUME NEW k, BounceInv(k), Address(k)!KeepBounce PROVE BounceInv(k)'
<1>0. /\ BounceTypes(k) /\ Warns(k) /\ WarnsOnce(k) /\ Waited(k)
      /\ \A f \in k.files : Kind(f) \in {"none", "d", "w"} /\ Age(f) \in 0 .. 1
  BY KindIs DEF BounceInv
<1>1. /\ bounce_pc = "read_h" /\ bounce_pc' = "rename_h"
      /\ \/ /\ h = -1
            /\ \E f \in k.files : Kind(f) = "none" /\ bounce_file' = [bounce_file EXCEPT ![f] = [kind |-> "d", age |-> 0]]
         \/ h # -1 /\ bounce_file' = bounce_file
      /\ subscribed' = subscribed /\ times' = times /\ h' = h /\ mail' = mail /\ it' = it
      /\ bounce_crashes' = bounce_crashes /\ since' = since
  BY DEF Address!KeepBounce, Address!list, Address!ghosts, Address!Of, Address!Absent, Kind
<1>2. CASE h # -1 /\ bounce_file' = bounce_file
  <2>1. \A f : Kind(f)' = Kind(f) /\ Age(f)' = Age(f)
    BY <1>2, SameFile
  <2>2. BounceTypes(k)' /\ Warns(k)'
    BY <1>0, <1>1, <1>2, <2>1 DEF BounceTypes, Warns
  <2>3. WarnsOnce(k)' /\ Waited(k)'
    BY <1>0, <1>1, <1>2, <2>1 DEF WarnsOnce, Waited
  <2> QED BY <2>2, <2>3 DEF BounceInv
<1>3. ASSUME h = -1, NEW g \in k.files, Kind(g) = "none",
             bounce_file' = [bounce_file EXCEPT ![g] = [kind |-> "d", age |-> 0]]
      PROVE  BounceInv(k)'
  <2>1. /\ bounce_file' \in [k.files -> [kind : {"none", "d", "w"}, age : 0 .. 1]] /\ Kind(g)' = "d" /\ Age(g)' = 0
        /\ \A f \in k.files : f # g => Kind(f)' = Kind(f) /\ Age(f)' = Age(f)
    BY <1>0, <1>3, ChangedFile
  <2>2. BounceTypes(k)'
    BY <1>0, <1>1, <2>1 DEF BounceTypes
  <2>3. Warns(k)'
    BY <2>1 DEF Warns
  <2>4. bounce_crashes = 0 => \A f \in k.files : Kind(f) # "d"
    BY <1>0, <1>1, <1>3 DEF WarnsOnce
  <2>5. WarnsOnce(k)'
    BY <1>1, <1>3, <2>1, <2>4 DEF WarnsOnce
  <2>6. \A f \in k.files : Kind(f)' = "d" => since >= 0 /\ (Age(f)' = 1 => since >= 1)
    BY <1>0, <1>1, <2>1 DEF Waited
  <2>7. \A f \in k.files : Kind(f)' = "w" => since >= 1 /\ (Age(f)' = 1 => since = 2)
    BY <1>0, <2>1 DEF Waited
  <2>8. Waited(k)'
    BY <1>0, <1>1, <2>6, <2>7 DEF Waited
  <2> QED BY <2>2, <2>3, <2>5, <2>8 DEF BounceInv
<1> QED BY <1>1, <1>2, <1>3

LEMMA BounceKeepNumber == ASSUME NEW k, BounceInv(k), Address(k)!KeepNumber PROVE BounceInv(k)'
<1>0. /\ BounceTypes(k) /\ Warns(k) /\ WarnsOnce(k) /\ Waited(k)
      /\ \A f \in k.files : Kind(f) \in {"none", "d", "w"} /\ Age(f) \in 0 .. 1
  BY KindIs DEF BounceInv
<1>1. /\ bounce_pc = "rename_h" /\ bounce_pc' = "free" /\ h' = 0 /\ mail' = mail \ {it} /\ it' = Address(k)!NoMail
      /\ subscribed' = subscribed /\ times' = times /\ bounce_file' = bounce_file
      /\ bounce_crashes' = bounce_crashes /\ since' = since
  BY DEF Address!KeepNumber, Address!list, Address!ghosts, Address!Drop, Address!NoMail
<1>2. \A f : Kind(f)' = Kind(f) /\ Age(f)' = Age(f)
  BY <1>1, SameFile
<1>3. BounceTypes(k)'
  BY <1>0, <1>1, <1>2 DEF BounceTypes, Letters
<1>4. Warns(k)'
  BY <1>0, <1>1, <1>2 DEF BounceTypes, Warns
<1>5. WarnsOnce(k)'
  BY <1>0, <1>1, <1>2 DEF BounceTypes, WarnsOnce
<1>6. Waited(k)'
  BY <1>0, <1>1, <1>2 DEF BounceTypes, Waited, Letters
<1> QED BY <1>3, <1>4, <1>5, <1>6 DEF BounceInv

LEMMA BounceWarn == ASSUME NEW k, BounceInv(k), NEW g \in k.files, Address(k)!Warn(g) PROVE BounceInv(k)'
<1>0. /\ BounceTypes(k) /\ Warns(k) /\ WarnsOnce(k) /\ Waited(k)
      /\ \A f \in k.files : Kind(f) \in {"none", "d", "w"} /\ Age(f) \in 0 .. 1
  BY KindIs DEF BounceInv
<1>1. /\ bounce_pc = "free" /\ Kind(g) \in {"d", "w"} /\ Age(g) >= 1
      /\ \/ /\ subscribed /\ bounce_pc' = "unlink_h" /\ it' = g /\ bounce_file' = bounce_file
            /\ mail' = mail \cup {[kind |-> IF Kind(g) = "d" THEN "warn" ELSE "probe", back |-> FALSE, age |-> 0]}
         \/ /\ ~subscribed /\ bounce_file' = [bounce_file EXCEPT ![g] = [kind |-> "none", age |-> 0]]
            /\ mail' = mail /\ bounce_pc' = bounce_pc /\ it' = it
      /\ subscribed' = subscribed /\ times' = times /\ h' = h /\ bounce_crashes' = bounce_crashes
      /\ since' = since
  BY DEF Address!Warn, Address!Send, Address!list, Address!Answer, Address!Timeout, Address!NoFile, Kind, Age
<1>2. CASE subscribed /\ bounce_file' = bounce_file
  <2>1. \A f : Kind(f)' = Kind(f) /\ Age(f)' = Age(f)
    BY <1>2, SameFile
  <2>2. PICK m : m = [kind |-> IF Kind(g) = "d" THEN "warn" ELSE "probe", back |-> FALSE, age |-> 0]
    OBVIOUS
  <2>3. m \in Letters /\ m.kind = (IF Kind(g) = "d" THEN "warn" ELSE "probe") /\ m.back = FALSE
    BY <2>2 DEF Letters
  <2>4. CASE mail' = mail \cup {m} /\ bounce_pc' = "unlink_h" /\ it' = g
    <3>1. BounceTypes(k)' /\ Warns(k)'
      BY <1>0, <1>1, <1>2, <2>1, <2>3, <2>4 DEF BounceTypes, Warns
    <3>2. WarnsOnce(k)'
      BY <1>0, <1>1, <2>1, <2>4 DEF WarnsOnce
    <3>3. (m.kind = "warn" => since >= 1) /\ (m.kind = "probe" => since = 2)
      BY <1>0, <1>1, <2>3 DEF Waited
    <3>4. Waited(k)'
      BY <1>0, <1>1, <2>1, <2>3, <2>4, <3>3 DEF Waited
    <3> QED BY <3>1, <3>2, <3>4 DEF BounceInv
  <2>5. CASE ~subscribed
    BY <1>2, <2>5
  <2> QED BY <1>1, <2>2, <2>4, <2>5
<1>3. CASE /\ ~subscribed /\ bounce_file' = [bounce_file EXCEPT ![g] = [kind |-> "none", age |-> 0]]
           /\ mail' = mail /\ bounce_pc' = bounce_pc /\ it' = it
  <2>1. /\ bounce_file' \in [k.files -> [kind : {"none", "d", "w"}, age : 0 .. 1]] /\ Kind(g)' = "none" /\ Age(g)' = 0
        /\ \A f \in k.files : f # g => Kind(f)' = Kind(f) /\ Age(f)' = Age(f)
    BY <1>0, <1>3, ChangedFile
  <2>2. BounceTypes(k)' /\ Warns(k)'
    BY <1>0, <1>1, <1>3, <2>1 DEF BounceTypes, Warns
  <2>3. \A f \in k.files : Kind(f)' \in {"d", "w"} => Kind(f)' = Kind(f) /\ Age(f)' = Age(f)
    BY <2>1
  <2>4. WarnsOnce(k)' /\ Waited(k)'
    BY <1>0, <1>1, <1>3, <2>3 DEF WarnsOnce, Waited
  <2> QED BY <2>2, <2>4 DEF BounceInv
<1> QED BY <1>1, <1>2, <1>3

LEMMA BounceUnlinkH == ASSUME NEW k, BounceInv(k), Address(k)!UnlinkH PROVE BounceInv(k)'
<1>0. /\ BounceTypes(k) /\ Warns(k) /\ WarnsOnce(k) /\ Waited(k)
      /\ \A f \in k.files : Kind(f) \in {"none", "d", "w"} /\ Age(f) \in 0 .. 1
  BY KindIs DEF BounceInv
<1>1. /\ bounce_pc = "unlink_h" /\ bounce_pc' = "unlink_d" /\ h' = IF Kind(it) = "d" THEN -1 ELSE h
      /\ subscribed' = subscribed /\ times' = times /\ bounce_file' = bounce_file /\ mail' = mail
      /\ it' = it /\ bounce_crashes' = bounce_crashes /\ since' = since
  BY DEF Address!UnlinkH, Address!list, Address!ghosts, Address!Absent, Kind
<1>2. \A f : Kind(f)' = Kind(f) /\ Age(f)' = Age(f)
  BY <1>1, SameFile
<1>3. BounceTypes(k)'
  BY <1>0, <1>1, <1>2 DEF BounceTypes, Letters
<1>4. Warns(k)'
  BY <1>0, <1>1, <1>2 DEF BounceTypes, Warns
<1>5. WarnsOnce(k)'
  BY <1>0, <1>1, <1>2 DEF BounceTypes, WarnsOnce
<1>6. Waited(k)'
  BY <1>0, <1>1, <1>2 DEF BounceTypes, Waited, Letters
<1> QED BY <1>3, <1>4, <1>5, <1>6 DEF BounceInv

LEMMA BounceUnlinkD == ASSUME NEW k, BounceInv(k), Address(k)!UnlinkD PROVE BounceInv(k)'
<1>0. /\ BounceTypes(k) /\ Warns(k) /\ WarnsOnce(k) /\ Waited(k)
      /\ \A f \in k.files : Kind(f) \in {"none", "d", "w"} /\ Age(f) \in 0 .. 1
  BY KindIs DEF BounceInv
<1>1. /\ bounce_pc = "unlink_d" /\ bounce_pc' = "free" /\ it' = Address(k)!NoMail
      /\ bounce_file' = [bounce_file EXCEPT ![it] = [kind |-> "none", age |-> 0]]
      /\ subscribed' = subscribed /\ times' = times /\ h' = h /\ mail' = mail
      /\ bounce_crashes' = bounce_crashes /\ since' = since
  BY DEF Address!UnlinkD, Address!list, Address!ghosts, Address!NoFile, Address!NoMail
<1>2. PICK g \in k.files : g = it
  BY <1>0, <1>1 DEF BounceTypes
<1>3. /\ bounce_file' \in [k.files -> [kind : {"none", "d", "w"}, age : 0 .. 1]] /\ Kind(g)' = "none" /\ Age(g)' = 0
      /\ \A f \in k.files : f # g => Kind(f)' = Kind(f) /\ Age(f)' = Age(f)
  BY <1>0, <1>1, <1>2, ChangedFile
<1>4. BounceTypes(k)'
  BY <1>0, <1>1, <1>3 DEF BounceTypes
<1>5. Kind(g) = "d" => h = -1
  BY <1>0, <1>1, <1>2 DEF BounceTypes
<1>6. Warns(k)'
  BY <1>0, <1>1, <1>3, <1>5 DEF Warns
<1>7. \A f \in k.files : Kind(f)' \in {"d", "w"} => f # g /\ Kind(f)' = Kind(f) /\ Age(f)' = Age(f)
  BY <1>3
<1>8. WarnsOnce(k)'
  BY <1>0, <1>1, <1>2, <1>7 DEF WarnsOnce
<1>9. Waited(k)'
  BY <1>0, <1>1, <1>7 DEF Waited
<1> QED BY <1>4, <1>6, <1>8, <1>9 DEF BounceInv

LEMMA BounceClean == ASSUME NEW k, BounceInv(k), Address(k)!Clean PROVE BounceInv(k)'
<1>0. /\ BounceTypes(k) /\ Warns(k) /\ WarnsOnce(k) /\ Waited(k)
      /\ \A f \in k.files : Kind(f) \in {"none", "d", "w"} /\ Age(f) \in 0 .. 1
  BY KindIs DEF BounceInv
<1>1. /\ bounce_pc = "free" /\ h > 3 /\ h' = -1 /\ \A f \in k.files : Kind(f) \in {"d", "w"} => Age(f) < 1
      /\ subscribed' = subscribed /\ times' = times /\ bounce_file' = bounce_file /\ mail' = mail
      /\ bounce_pc' = bounce_pc /\ it' = it /\ bounce_crashes' = bounce_crashes /\ since' = since
  BY DEF Address!Clean, Address!list, Address!ghosts, Address!Timeout, Address!Expiry, Address!bounce,
    Address!Absent, Kind, Age
<1>2. \A f : Kind(f)' = Kind(f) /\ Age(f)' = Age(f)
  BY <1>1, SameFile
<1>3. BounceTypes(k)'
  BY <1>0, <1>1, <1>2 DEF BounceTypes, Letters
<1>4. Warns(k)'
  BY <1>0, <1>1, <1>2 DEF BounceTypes, Warns
<1>5. WarnsOnce(k)'
  BY <1>0, <1>1, <1>2 DEF BounceTypes, WarnsOnce
<1>6. Waited(k)'
  BY <1>0, <1>1, <1>2 DEF BounceTypes, Waited, Letters
<1> QED BY <1>3, <1>4, <1>5, <1>6 DEF BounceInv

LEMMA BounceCrash == ASSUME NEW k, BounceInv(k), Address(k)!Crash PROVE BounceInv(k)'
<1>0. /\ BounceTypes(k) /\ Warns(k) /\ WarnsOnce(k) /\ Waited(k)
      /\ \A f \in k.files : Kind(f) \in {"none", "d", "w"} /\ Age(f) \in 0 .. 1
  BY KindIs DEF BounceInv
<1>1. /\ bounce_pc' = "free" /\ it' = Address(k)!NoMail /\ bounce_crashes' = bounce_crashes + 1
      /\ subscribed' = subscribed /\ times' = times /\ bounce_file' = bounce_file /\ h' = h
      /\ mail' = mail /\ since' = since
  BY DEF Address!Crash, Address!bounce, Address!list, Address!ghosts, Address!NoMail
<1>2. \A f : Kind(f)' = Kind(f) /\ Age(f)' = Age(f)
  BY <1>1, SameFile
<1>3. BounceTypes(k)'
  BY <1>0, <1>1, <1>2 DEF BounceTypes, Letters
<1>4. Warns(k)'
  BY <1>0, <1>1, <1>2 DEF BounceTypes, Warns
<1>5. WarnsOnce(k)'
  BY <1>0, <1>1, <1>2 DEF BounceTypes, WarnsOnce
<1>6. Waited(k)'
  BY <1>0, <1>1, <1>2 DEF BounceTypes, Waited, Letters
<1> QED BY <1>3, <1>4, <1>5, <1>6 DEF BounceInv

LEMMA BounceNext == ASSUME NEW k, BounceInv(k), Address(k)!Next PROVE BounceInv(k)'
<1>1. CASE Address(k)!Post
  BY <1>1, BouncePost
<1>2. CASE Address(k)!Unsubscribe
  BY <1>2, BounceUnsubscribe
<1>3. CASE Address(k)!Subscribe
  BY <1>3, BounceSubscribe
<1>4. CASE Address(k)!Tick
  BY <1>4, BounceTick
<1>5. ASSUME NEW m \in mail, Address(k)!Arrive(m) PROVE BounceInv(k)'
  BY <1>5, BounceArrive
<1>6. ASSUME NEW m \in mail, Address(k)!Bounce(m) PROVE BounceInv(k)'
  BY <1>6, BounceBounce
<1>7. ASSUME NEW m \in mail, Address(k)!TakePost(m) PROVE BounceInv(k)'
  BY <1>7, BounceTakePost
<1>8. ASSUME NEW m \in mail, Address(k)!TakeWarning(m) PROVE BounceInv(k)'
  BY <1>8, BounceTakeWarning
<1>9. ASSUME NEW m \in mail, Address(k)!TakeProbe(m) PROVE BounceInv(k)'
  BY <1>9, BounceTakeProbe
<1>10. CASE Address(k)!KeepBounce
  BY <1>10, BounceKeepBounce
<1>11. CASE Address(k)!KeepNumber
  BY <1>11, BounceKeepNumber
<1>12. ASSUME NEW g \in k.files, Address(k)!Warn(g) PROVE BounceInv(k)'
  BY <1>12, BounceWarn
<1>13. CASE Address(k)!UnlinkH
  BY <1>13, BounceUnlinkH
<1>14. CASE Address(k)!UnlinkD
  BY <1>14, BounceUnlinkD
<1>15. CASE Address(k)!Clean
  BY <1>15, BounceClean
<1>16. CASE Address(k)!Crash
  BY <1>16, BounceCrash
<1> QED BY <1>1, <1>2, <1>3, <1>4, <1>5, <1>6, <1>7, <1>8, <1>9, <1>10, <1>11, <1>12, <1>13, <1>14,
  <1>15, <1>16,
  Zenon DEF Address!Next

LEMMA BounceStutter == ASSUME NEW k, BounceInv(k), UNCHANGED bounceVars PROVE BounceInv(k)'
<1>1. /\ subscribed' = subscribed /\ times' = times /\ bounce_file' = bounce_file /\ h' = h /\ mail' = mail
      /\ bounce_pc' = bounce_pc /\ it' = it /\ bounce_crashes' = bounce_crashes /\ since' = since
  BY DEF bounceVars
<1>2. \A f : Kind(f)' = Kind(f) /\ Age(f)' = Age(f)
  BY <1>1, SameFile
<1>3. BounceTypes(k)' /\ Warns(k)'
  BY <1>1, <1>2 DEF BounceInv, BounceTypes, Warns
<1>4. WarnsOnce(k)' /\ Waited(k)'
  BY <1>1, <1>2 DEF BounceInv, WarnsOnce, Waited
<1> QED BY <1>3, <1>4 DEF BounceInv

LEMMA BounceCounts == ASSUME NEW k, NEW S PROVE Address(k)!Cardinality(S) = Cardinality(S)
BY DEF Address!Cardinality, Cardinality

LEMMA BounceKeeps == ASSUME NEW k, BounceInv(k) PROVE Address(k)!HasBounce /\ Address(k)!OneWarning
<1>1. Address(k)!Of("d") = {f \in k.files : Kind(f) = "d"}
  BY DEF Address!Of, Kind
<1>2. Address(k)!HasBounce
  BY <1>1 DEF BounceInv, Warns, Address!HasBounce, Address!Absent
<1>3. ASSUME bounce_crashes = 0 PROVE Cardinality(Address(k)!Of("d")) <= 1
  <2>1. CASE Address(k)!Of("d") = {}
    BY <2>1, FS_EmptySet
  <2>2. CASE Address(k)!Of("d") # {}
    <3>1. PICK f : Address(k)!Of("d") = {f}
      BY <1>1, <1>3, <2>2 DEF BounceInv, WarnsOnce
    <3> QED BY <3>1, FS_Singleton
  <2> QED BY <2>1, <2>2
<1>4. Address(k)!OneWarning
  BY <1>3, BounceCounts DEF Address!OneWarning
<1> QED BY <1>2, <1>4

(* What a step that takes the address off the list had to wait for.           *)
LEMMA BounceRemoves == ASSUME NEW k, BounceInv(k), Address(k)!Next PROVE Address(k)!RemovedInPatience
<1> SUFFICES ASSUME subscribed, ~subscribed', mail' # mail PROVE since >= 2
  BY DEF Address!RemovedInPatience, Address!Timeout
<1>1. \E m \in mail : Address(k)!TakeProbe(m)
  BY DEF Address!Next, Address!list, Address!Post, Address!Unsubscribe, Address!Subscribe, Address!Tick,
    Address!Arrive, Address!Bounce, Address!TakePost, Address!TakeWarning, Address!KeepBounce,
    Address!KeepNumber, Address!Warn, Address!UnlinkH, Address!UnlinkD, Address!Clean, Address!Crash
<1>2. \E m \in mail : m.kind = "probe"
  BY <1>1 DEF Address!TakeProbe
<1> QED BY <1>2 DEF BounceInv, Waited

-----------------------------------------------------------------------------
(* Moderated lists of ezmlm *)

Verdicts == {"accept", "reject"}
Outcomes == Verdicts \cup {"late"}
FilesOf(k) == 1 .. k.files
Answers(k) == [mod : k.moderators, f : asked, verdict : Verdicts]
Did(f, w) == done[<<f, w>>] > 0
Twice(f, w) == done[<<f, w>>] > 1
ActedOn(f) == \E w \in Outcomes : Did(f, w)

(* The file of the holder of mod/lock was acted on, and is still there.       *)
Acting(f) ==
  /\ mod_lock.f = f
  /\ \/ mod_lock.who = "moderate" /\ mod_lock.at \in {"mark", "unlink"}
     \/ mod_lock.who = "clean" /\ mod_lock.at = "unlink"

PostTypes(k) ==
  /\ post \in {"queued", "stored"} /\ store \in [at : {"idle", "write", "ask"}, f : 0 .. k.files]
  /\ store.at = "idle" \/ store.f \in FilesOf(k)
  /\ pending \in [FilesOf(k) -> {"unused", "part", "whole", "gone"}]
  /\ old \subseteq FilesOf(k) /\ marker \in [FilesOf(k) -> Verdicts \cup {"none"}]
  /\ asked \subseteq FilesOf(k) /\ answers \subseteq Answers(k)
  /\ told \in [k.moderators -> Verdicts \cup {"nothing", "late", "error"}]
  /\ done \in [FilesOf(k) \X Outcomes -> 0 .. 2] /\ mod_crashes \in Nat

LockIs(k) ==
  /\ DOMAIN mod_lock = {"who", "at", "f", "a"} /\ mod_lock = [who |-> mod_lock.who, at |-> mod_lock.at, f |-> mod_lock.f, a |-> mod_lock.a]
  /\ mod_lock = Moderation(k)!Unlocked \/ mod_lock.who \in {"store", "moderate", "clean"}
  /\ mod_lock.who = "store" <=> store.at = "write"
  /\ mod_lock.who = "moderate" =>
       /\ mod_lock.at \in {"mail", "mark", "unlink"} /\ mod_lock.a \in answers /\ mod_lock.f = mod_lock.a.f
       /\ pending[mod_lock.f] # "gone"
  /\ mod_lock.who = "clean" =>
       /\ mod_lock.at \in {"look", "unlink"} /\ mod_lock.f \in 1 .. k.files + 1
       /\ mod_lock.at = "unlink" => mod_lock.f \in FilesOf(k)

(* A post that moderators may be asked about is whole until it was acted on.  *)
Kept ==
  /\ \A f \in asked : pending[f] = "whole" \/ ActedOn(f)
  /\ store.at = "ask" => pending[store.f] = "whole" \/ ActedOn(store.f)
  /\ store.at = "write" => pending[store.f] = "part"
  /\ post = "stored" => asked # {}

(* What was marked, or is about to be, was done.                              *)
DoneFirst(k) ==
  /\ \A f \in FilesOf(k), w \in Verdicts : marker[f] = w => Did(f, w)
  /\ mod_lock.who = "moderate" /\ mod_lock.at \in {"mark", "unlink"} => Did(mod_lock.f, mod_lock.a.verdict)
  /\ mod_lock.who = "clean" /\ mod_lock.at = "unlink" => Did(mod_lock.f, "late")

(* Without kills a file is acted on once, and is gone before anyone else has  *)
(* the lock.                                                                 *)
DoneOnce(k) ==
  mod_crashes = 0 =>
    \A f \in FilesOf(k) :
      /\ \A v, w \in Outcomes : ~Twice(f, v) /\ (Did(f, v) /\ Did(f, w) => v = w)
      /\ ActedOn(f) => pending[f] = "gone" \/ Acting(f)

ModInv(k) == PostTypes(k) /\ LockIs(k) /\ Kept /\ DoneFirst(k) /\ DoneOnce(k)

LEMMA ModInit ==
  ASSUME NEW k, Moderation(k)!ModerateAssumption, Moderation(k)!Init
  PROVE  ModInv(k)
<1>0. k.files \in Nat
  BY DEF Moderation!ModerateAssumption
<1>1. /\ post = "queued" /\ store = [at |-> "idle", f |-> 0] /\ pending = [f \in FilesOf(k) |-> "unused"]
      /\ old = {} /\ marker = [f \in FilesOf(k) |-> "none"] /\ asked = {} /\ answers = {}
      /\ told = [m \in k.moderators |-> "nothing"]
      /\ mod_lock = [who |-> "none", at |-> "", f |-> 0, a |-> [mod |-> "none", f |-> 0, verdict |-> "none"]]
      /\ done = [x \in FilesOf(k) \X Outcomes |-> 0] /\ mod_crashes = 0
  BY DEF Moderation!Init, Moderation!Idle, Moderation!Files, Moderation!Unlocked, Moderation!NoAnswer,
    Moderation!Verdicts, FilesOf, Outcomes, Verdicts
<1>2. PostTypes(k)
  <2>1. store \in [at : {"idle", "write", "ask"}, f : 0 .. k.files]
    <3>1. store = [at |-> "idle", f |-> 0]
      BY <1>1
    <3>2. 0 \in 0 .. k.files
      BY <1>0
    <3> QED BY <3>1, <3>2
  <2>2. done \in [FilesOf(k) \X Outcomes -> 0 .. 2]
    <3>1. done = [x \in FilesOf(k) \X Outcomes |-> 0]
      BY <1>1
    <3> QED BY <3>1, SMT
  <2>3. told \in [k.moderators -> Verdicts \cup {"nothing", "late", "error"}]
    BY <1>1
  <2>4. /\ pending \in [FilesOf(k) -> {"unused", "part", "whole", "gone"}]
        /\ marker \in [FilesOf(k) -> Verdicts \cup {"none"}]
    BY <1>1
  <2> QED BY <1>1, <2>1, <2>2, <2>3, <2>4 DEF PostTypes
<1>3. LockIs(k)
  BY <1>1 DEF LockIs, Moderation!Unlocked, Moderation!NoAnswer
<1>4. \A f \in FilesOf(k), w \in Outcomes : ~Did(f, w) /\ ~Twice(f, w)
  <2>1. done = [x \in FilesOf(k) \X Outcomes |-> 0]
    BY <1>1
  <2>2. \A f \in FilesOf(k), w \in Outcomes : done[<<f, w>>] = 0
    BY <2>1
  <2>3. ASSUME NEW f \in FilesOf(k), NEW w \in Outcomes PROVE ~(done[<<f, w>>] > 0) /\ ~(done[<<f, w>>] > 1)
    <3>1. done[<<f, w>>] = 0
      BY <2>2
    <3> QED BY <3>1
  <2> QED BY <2>3 DEF Did, Twice
<1>5. Kept
  BY <1>1 DEF Kept
<1>6. DoneFirst(k)
  BY <1>1 DEF DoneFirst, Verdicts
<1>7. DoneOnce(k)
  BY <1>4 DEF DoneOnce, ActedOn
<1> QED BY <1>2, <1>3, <1>5, <1>6, <1>7 DEF ModInv

(* What acting on a file does.                                               *)
LEMMA ActOn ==
  ASSUME NEW k, PostTypes(k), NEW f \in FilesOf(k), NEW w \in Outcomes, Moderation(k)!Act(f, w)
  PROVE  /\ done' \in [FilesOf(k) \X Outcomes -> 0 .. 2] /\ Did(f, w)' /\ (~Did(f, w) => ~Twice(f, w)')
         /\ \A g \in FilesOf(k), v \in Outcomes :
              /\ g # f \/ v # w => (Did(g, v)' <=> Did(g, v)) /\ (Twice(g, v)' <=> Twice(g, v))
              /\ Did(g, v) => Did(g, v)'
<1>1. done' = [done EXCEPT ![<<f, w>>] = IF done[<<f, w>>] = 2 THEN 2 ELSE done[<<f, w>>] + 1]
  BY DEF Moderation!Act
<1>2. done \in [FilesOf(k) \X Outcomes -> 0 .. 2] /\ <<f, w>> \in FilesOf(k) \X Outcomes
  BY DEF PostTypes
<1>3. done[<<f, w>>] \in 0 .. 2 /\ DOMAIN done = FilesOf(k) \X Outcomes
  BY <1>2
<1>4. done'[<<f, w>>] = IF done[<<f, w>>] = 2 THEN 2 ELSE done[<<f, w>>] + 1
  BY <1>1, <1>2
<1>5. \A g \in FilesOf(k), v \in Outcomes : g # f \/ v # w => done'[<<g, v>>] = done[<<g, v>>]
  BY <1>1, <1>2
<1>6. done' \in [FilesOf(k) \X Outcomes -> 0 .. 2]
  BY <1>1, <1>2, <1>3
<1>7. Did(f, w)' /\ (~Did(f, w) => ~Twice(f, w)')
  BY <1>3, <1>4 DEF Did, Twice
<1>8. \A g \in FilesOf(k), v \in Outcomes : g # f \/ v # w => (Did(g, v)' <=> Did(g, v)) /\ (Twice(g, v)' <=> Twice(g, v))
  BY <1>5 DEF Did, Twice
<1> QED BY <1>6, <1>7, <1>8

LEMMA SameDone ==
  ASSUME done' = done
  PROVE  \A f, w : (Did(f, w)' <=> Did(f, w)) /\ (Twice(f, w)' <=> Twice(f, w)) /\ (ActedOn(f)' <=> ActedOn(f))
BY DEF Did, Twice, ActedOn

LEMMA UnlockedIs ==
  ASSUME NEW k, NEW u, u = Moderation(k)!Unlocked
  PROVE  /\ DOMAIN u = {"who", "at", "f", "a"} /\ u = [who |-> u.who, at |-> u.at, f |-> u.f, a |-> u.a]
         /\ u.who = "none" /\ u.f = 0
BY DEF Moderation!Unlocked

LEMMA ModStoreOpen ==
  ASSUME NEW k, k.files \in Nat, ModInv(k), Moderation(k)!StoreOpen
  PROVE  ModInv(k)'
<1>0. PostTypes(k) /\ LockIs(k) /\ Kept /\ DoneFirst(k) /\ DoneOnce(k)
  BY DEF ModInv
<1> DEFINE u == Moderation(k)!Unlocked
<1>u. /\ DOMAIN u = {"who", "at", "f", "a"} /\ u = [who |-> u.who, at |-> u.at, f |-> u.f, a |-> u.a]
      /\ u.who = "none" /\ u.f = 0
  BY UnlockedIs
<1>1. \A f, w : (Did(f, w)' <=> Did(f, w)) /\ (Twice(f, w)' <=> Twice(f, w)) /\ (ActedOn(f)' <=> ActedOn(f))
  BY SameDone DEF Moderation!StoreOpen
<1>2. PostTypes(k)'
  BY <1>0 DEF PostTypes, LockIs, FilesOf, Answers, Moderation!StoreOpen, Moderation!mods,
    Moderation!faults, Moderation!Idle, Moderation!Files
<1>3. LockIs(k)'
  <2>1. PICK g \in FilesOf(k) : store' = [at |-> "write", f |-> g] /\ mod_lock' = [u EXCEPT !.who = "store", !.f = g]
    BY DEF Moderation!StoreOpen, Moderation!Files, FilesOf
  <2> HIDE DEF u
  <2>2. mod_lock' = [who |-> "store", at |-> u.at, f |-> g, a |-> u.a]
    BY <1>u, <2>1
  <2> QED BY <2>1, <2>2 DEF LockIs
<1>4. Kept'
  <2>1. PICK g \in FilesOf(k) :
          /\ pending[g] = "unused" /\ pending' = [pending EXCEPT ![g] = "part"] /\ store' = [at |-> "write", f |-> g]
          /\ post' = post /\ asked' = asked /\ store.at = "idle"
    BY DEF Moderation!StoreOpen, Moderation!mods, Moderation!Files, Moderation!Idle, FilesOf
  <2>2. pending'[g] = "part" /\ \A f \in FilesOf(k) : f # g => pending'[f] = pending[f]
    BY <1>0, <2>1 DEF PostTypes
  <2>3. \A f \in asked : pending'[f] = "whole" \/ ActedOn(f)
    BY <1>0, <2>1, <2>2 DEF Kept, PostTypes
  <2> QED BY <1>0, <1>1, <2>1, <2>2, <2>3 DEF Kept
<1>5. DoneFirst(k)'
  BY <1>0, <1>1, <1>u DEF PostTypes, LockIs, DoneFirst, Moderation!StoreOpen, Moderation!mods,
    Moderation!faults, Moderation!Idle, Moderation!Files
<1>6. DoneOnce(k)'
  BY <1>0, <1>1, <1>u DEF PostTypes, LockIs, DoneOnce, Acting, Moderation!StoreOpen, Moderation!mods,
    Moderation!faults, Moderation!Idle, Moderation!Files
<1> QED BY <1>2, <1>3, <1>4, <1>5, <1>6 DEF ModInv

LEMMA ModStoreClose ==
  ASSUME NEW k, k.files \in Nat, ModInv(k), Moderation(k)!StoreClose
  PROVE  ModInv(k)'
<1>0. PostTypes(k) /\ LockIs(k) /\ Kept /\ DoneFirst(k) /\ DoneOnce(k)
  BY DEF ModInv
<1> DEFINE u == Moderation(k)!Unlocked
<1>u. /\ DOMAIN u = {"who", "at", "f", "a"} /\ u = [who |-> u.who, at |-> u.at, f |-> u.f, a |-> u.a]
      /\ u.who = "none" /\ u.f = 0
  BY UnlockedIs
<1>1. \A f, w : (Did(f, w)' <=> Did(f, w)) /\ (Twice(f, w)' <=> Twice(f, w)) /\ (ActedOn(f)' <=> ActedOn(f))
  BY SameDone DEF Moderation!StoreClose
<1>2. PostTypes(k)'
  BY <1>0 DEF PostTypes, LockIs, FilesOf, Answers, Moderation!StoreClose, Moderation!mods, Moderation!faults
<1>3. LockIs(k)'
  BY <1>0, <1>u DEF PostTypes, LockIs, FilesOf, Answers, Moderation!StoreClose, Moderation!mods,
    Moderation!faults
<1>4. Kept'
  BY <1>0, <1>1, <1>u DEF PostTypes, LockIs, Kept, Moderation!StoreClose, Moderation!mods, Moderation!faults
<1>5. DoneFirst(k)'
  BY <1>0, <1>1, <1>u DEF PostTypes, LockIs, DoneFirst, Moderation!StoreClose, Moderation!mods,
    Moderation!faults
<1>6. DoneOnce(k)'
  <2>1. /\ store.at = "write" /\ pending' = [pending EXCEPT ![store.f] = "whole"] /\ mod_crashes' = mod_crashes
        /\ mod_lock' = u
    BY DEF Moderation!StoreClose, Moderation!faults
  <2>2. mod_lock.who = "store" /\ pending[store.f] = "part" /\ store.f \in FilesOf(k)
    BY <1>0, <2>1 DEF LockIs, Kept, PostTypes
  <2>3. \A f \in FilesOf(k) : f # store.f => pending'[f] = pending[f]
    BY <1>0, <2>1 DEF PostTypes
  <2>4. mod_crashes = 0 => \A f \in FilesOf(k) : ActedOn(f) => pending[f] = "gone"
    BY <1>0, <2>2 DEF DoneOnce, Acting
  <2>5. mod_crashes = 0 => \A f \in FilesOf(k) : ActedOn(f) => pending'[f] = "gone"
    BY <2>2, <2>3, <2>4
  <2> QED BY <1>0, <1>1, <2>1, <2>5 DEF DoneOnce
<1> QED BY <1>2, <1>3, <1>4, <1>5, <1>6 DEF ModInv

LEMMA ModStoreAsk ==
  ASSUME NEW k, k.files \in Nat, ModInv(k), Moderation(k)!StoreAsk
  PROVE  ModInv(k)'
<1>0. PostTypes(k) /\ LockIs(k) /\ Kept /\ DoneFirst(k) /\ DoneOnce(k)
  BY DEF ModInv
<1>1. \A f, w : (Did(f, w)' <=> Did(f, w)) /\ (Twice(f, w)' <=> Twice(f, w)) /\ (ActedOn(f)' <=> ActedOn(f))
  BY SameDone DEF Moderation!StoreAsk
<1>2. PostTypes(k)'
  BY <1>0 DEF PostTypes, LockIs, FilesOf, Answers, Moderation!StoreAsk, Moderation!disk,
    Moderation!faults, Moderation!Idle
<1>3. LockIs(k)'
  BY <1>0 DEF PostTypes, LockIs, FilesOf, Answers, Moderation!StoreAsk, Moderation!disk,
    Moderation!faults, Moderation!Idle
<1>4. Kept'
  BY <1>0, <1>1 DEF PostTypes, LockIs, Kept, Moderation!StoreAsk, Moderation!disk, Moderation!faults,
    Moderation!Idle
<1>5. DoneFirst(k)'
  BY <1>0, <1>1 DEF PostTypes, LockIs, DoneFirst, Moderation!StoreAsk, Moderation!disk,
    Moderation!faults, Moderation!Idle
<1>6. DoneOnce(k)'
  BY <1>0, <1>1 DEF PostTypes, LockIs, DoneOnce, Acting, Moderation!StoreAsk, Moderation!disk,
    Moderation!faults, Moderation!Idle
<1> QED BY <1>2, <1>3, <1>4, <1>5, <1>6 DEF ModInv

LEMMA ModStoreFails ==
  ASSUME NEW k, k.files \in Nat, ModInv(k), Moderation(k)!StoreFails
  PROVE  ModInv(k)'
<1>0. PostTypes(k) /\ LockIs(k) /\ Kept /\ DoneFirst(k) /\ DoneOnce(k)
  BY DEF ModInv
<1>1. \A f, w : (Did(f, w)' <=> Did(f, w)) /\ (Twice(f, w)' <=> Twice(f, w)) /\ (ActedOn(f)' <=> ActedOn(f))
  BY SameDone DEF Moderation!StoreFails
<1>2. PostTypes(k)'
  BY <1>0 DEF PostTypes, LockIs, FilesOf, Answers, Moderation!StoreFails, Moderation!disk,
    Moderation!mods, Moderation!Fault, Moderation!Idle
<1>3. LockIs(k)'
  BY <1>0 DEF PostTypes, LockIs, FilesOf, Answers, Moderation!StoreFails, Moderation!disk,
    Moderation!mods, Moderation!Fault, Moderation!Idle
<1>4. Kept'
  BY <1>0, <1>1 DEF PostTypes, LockIs, Kept, Moderation!StoreFails, Moderation!disk, Moderation!mods,
    Moderation!Fault, Moderation!Idle
<1>5. DoneFirst(k)'
  BY <1>0, <1>1 DEF PostTypes, LockIs, DoneFirst, Moderation!StoreFails, Moderation!disk,
    Moderation!mods, Moderation!Fault, Moderation!Idle
<1>6. DoneOnce(k)'
  BY <1>0, <1>1 DEF PostTypes, LockIs, DoneOnce, Acting, Moderation!StoreFails, Moderation!disk,
    Moderation!mods, Moderation!Fault, Moderation!Idle
<1> QED BY <1>2, <1>3, <1>4, <1>5, <1>6 DEF ModInv

LEMMA ModAnswer ==
  ASSUME NEW k, k.files \in Nat, ModInv(k), NEW m \in k.moderators, NEW g \in FilesOf(k), NEW v \in Verdicts, Moderation(k)!Answer(m, g, v)
  PROVE  ModInv(k)'
<1>0. PostTypes(k) /\ LockIs(k) /\ Kept /\ DoneFirst(k) /\ DoneOnce(k)
  BY DEF ModInv
<1>1. \A f, w : (Did(f, w)' <=> Did(f, w)) /\ (Twice(f, w)' <=> Twice(f, w)) /\ (ActedOn(f)' <=> ActedOn(f))
  BY SameDone DEF Moderation!Answer
<1>2. PostTypes(k)'
  BY <1>0 DEF PostTypes, LockIs, FilesOf, Answers, Moderation!Answer, Moderation!disk, Moderation!faults
<1>3. LockIs(k)'
  BY <1>0 DEF PostTypes, LockIs, FilesOf, Answers, Moderation!Answer, Moderation!disk, Moderation!faults
<1>4. Kept'
  BY <1>0, <1>1 DEF PostTypes, LockIs, Kept, Moderation!Answer, Moderation!disk, Moderation!faults
<1>5. DoneFirst(k)'
  BY <1>0, <1>1 DEF PostTypes, LockIs, DoneFirst, Moderation!Answer, Moderation!disk, Moderation!faults
<1>6. DoneOnce(k)'
  BY <1>0, <1>1 DEF PostTypes, LockIs, DoneOnce, Acting, Moderation!Answer, Moderation!disk, Moderation!faults
<1> QED BY <1>2, <1>3, <1>4, <1>5, <1>6 DEF ModInv

LEMMA ModModerateFinds ==
  ASSUME NEW k, k.files \in Nat, ModInv(k), NEW a \in answers, Moderation(k)!ModerateFinds(a)
  PROVE  ModInv(k)'
<1>0. PostTypes(k) /\ LockIs(k) /\ Kept /\ DoneFirst(k) /\ DoneOnce(k)
  BY DEF ModInv
<1> DEFINE u == Moderation(k)!Unlocked
<1>u. /\ DOMAIN u = {"who", "at", "f", "a"} /\ u = [who |-> u.who, at |-> u.at, f |-> u.f, a |-> u.a]
      /\ u.who = "none" /\ u.f = 0
  BY UnlockedIs
<1>1. \A f, w : (Did(f, w)' <=> Did(f, w)) /\ (Twice(f, w)' <=> Twice(f, w)) /\ (ActedOn(f)' <=> ActedOn(f))
  BY SameDone DEF Moderation!ModerateFinds
<1>2. PostTypes(k)'
  BY <1>0 DEF PostTypes, LockIs, FilesOf, Answers, Moderation!ModerateFinds, Moderation!disk,
    Moderation!mods, Moderation!faults
<1>3. LockIs(k)'
  BY <1>0, <1>u DEF PostTypes, LockIs, FilesOf, Answers, Moderation!ModerateFinds, Moderation!disk,
    Moderation!mods, Moderation!faults
<1>4. Kept'
  BY <1>0, <1>1, <1>u DEF PostTypes, LockIs, Kept, Moderation!ModerateFinds, Moderation!disk,
    Moderation!mods, Moderation!faults
<1>5. DoneFirst(k)'
  BY <1>0, <1>1, <1>u DEF PostTypes, LockIs, DoneFirst, Moderation!ModerateFinds, Moderation!disk,
    Moderation!mods, Moderation!faults
<1>6. DoneOnce(k)'
  BY <1>0, <1>1, <1>u DEF PostTypes, LockIs, DoneOnce, Acting, Moderation!ModerateFinds, Moderation!disk,
    Moderation!mods, Moderation!faults
<1> QED BY <1>2, <1>3, <1>4, <1>5, <1>6 DEF ModInv

LEMMA ModModerateMisses ==
  ASSUME NEW k, k.files \in Nat, ModInv(k), NEW a \in answers, Moderation(k)!ModerateMisses(a)
  PROVE  ModInv(k)'
<1>0. PostTypes(k) /\ LockIs(k) /\ Kept /\ DoneFirst(k) /\ DoneOnce(k)
  BY DEF ModInv
<1> DEFINE u == Moderation(k)!Unlocked
<1>u. /\ DOMAIN u = {"who", "at", "f", "a"} /\ u = [who |-> u.who, at |-> u.at, f |-> u.f, a |-> u.a]
      /\ u.who = "none" /\ u.f = 0
  BY UnlockedIs
<1>1. \A f, w : (Did(f, w)' <=> Did(f, w)) /\ (Twice(f, w)' <=> Twice(f, w)) /\ (ActedOn(f)' <=> ActedOn(f))
  BY SameDone DEF Moderation!ModerateMisses
<1>2. PostTypes(k)'
  BY <1>0 DEF PostTypes, LockIs, FilesOf, Answers, Moderation!ModerateMisses, Moderation!disk,
    Moderation!faults, Moderation!Reply
<1>3. LockIs(k)'
  BY <1>0, <1>u DEF PostTypes, LockIs, FilesOf, Answers, Moderation!ModerateMisses, Moderation!disk,
    Moderation!faults, Moderation!Reply
<1>4. Kept'
  BY <1>0, <1>1, <1>u DEF PostTypes, LockIs, Kept, Moderation!ModerateMisses, Moderation!disk,
    Moderation!faults, Moderation!Reply
<1>5. DoneFirst(k)'
  BY <1>0, <1>1, <1>u DEF PostTypes, LockIs, DoneFirst, Moderation!ModerateMisses, Moderation!disk,
    Moderation!faults, Moderation!Reply
<1>6. DoneOnce(k)'
  BY <1>0, <1>1, <1>u DEF PostTypes, LockIs, DoneOnce, Acting, Moderation!ModerateMisses,
    Moderation!disk, Moderation!faults, Moderation!Reply
<1> QED BY <1>2, <1>3, <1>4, <1>5, <1>6 DEF ModInv

LEMMA ModModerateFails ==
  ASSUME NEW k, k.files \in Nat, ModInv(k), Moderation(k)!ModerateFails
  PROVE  ModInv(k)'
<1>0. PostTypes(k) /\ LockIs(k) /\ Kept /\ DoneFirst(k) /\ DoneOnce(k)
  BY DEF ModInv
<1> DEFINE u == Moderation(k)!Unlocked
<1>u. /\ DOMAIN u = {"who", "at", "f", "a"} /\ u = [who |-> u.who, at |-> u.at, f |-> u.f, a |-> u.a]
      /\ u.who = "none" /\ u.f = 0
  BY UnlockedIs
<1>1. \A f, w : (Did(f, w)' <=> Did(f, w)) /\ (Twice(f, w)' <=> Twice(f, w)) /\ (ActedOn(f)' <=> ActedOn(f))
  BY SameDone DEF Moderation!ModerateFails
<1>2. PostTypes(k)'
  BY <1>0 DEF PostTypes, LockIs, FilesOf, Answers, Moderation!ModerateFails, Moderation!disk,
    Moderation!Fault, Moderation!Reply
<1>3. LockIs(k)'
  BY <1>0, <1>u DEF PostTypes, LockIs, FilesOf, Answers, Moderation!ModerateFails, Moderation!disk,
    Moderation!Fault, Moderation!Reply
<1>4. Kept'
  BY <1>0, <1>1, <1>u DEF PostTypes, LockIs, Kept, Moderation!ModerateFails, Moderation!disk,
    Moderation!Fault, Moderation!Reply
<1>5. DoneFirst(k)'
  BY <1>0, <1>1, <1>u DEF PostTypes, LockIs, DoneFirst, Moderation!ModerateFails, Moderation!disk,
    Moderation!Fault, Moderation!Reply
<1>6. DoneOnce(k)'
  BY <1>0, <1>1, <1>u DEF PostTypes, LockIs, DoneOnce, Acting, Moderation!ModerateFails, Moderation!disk,
    Moderation!Fault, Moderation!Reply
<1> QED BY <1>2, <1>3, <1>4, <1>5, <1>6 DEF ModInv

LEMMA ModModerateMarks ==
  ASSUME NEW k, k.files \in Nat, ModInv(k), Moderation(k)!ModerateMarks
  PROVE  ModInv(k)'
<1>0. PostTypes(k) /\ LockIs(k) /\ Kept /\ DoneFirst(k) /\ DoneOnce(k)
  BY DEF ModInv
<1>1. \A f, w : (Did(f, w)' <=> Did(f, w)) /\ (Twice(f, w)' <=> Twice(f, w)) /\ (ActedOn(f)' <=> ActedOn(f))
  BY SameDone DEF Moderation!ModerateMarks
<1>2. PostTypes(k)'
  BY <1>0 DEF PostTypes, LockIs, FilesOf, Answers, Moderation!ModerateMarks, Moderation!mods, Moderation!Fault
<1>3. LockIs(k)'
  BY <1>0 DEF PostTypes, LockIs, FilesOf, Answers, Moderation!ModerateMarks, Moderation!mods, Moderation!Fault
<1>4. Kept'
  BY <1>0, <1>1 DEF PostTypes, LockIs, Kept, Moderation!ModerateMarks, Moderation!mods, Moderation!Fault
<1>5. DoneFirst(k)'
  BY <1>0, <1>1 DEF PostTypes, LockIs, DoneFirst, Moderation!ModerateMarks, Moderation!mods, Moderation!Fault
<1>6. DoneOnce(k)'
  BY <1>0, <1>1 DEF PostTypes, LockIs, DoneOnce, Acting, Moderation!ModerateMarks, Moderation!mods,
    Moderation!Fault
<1> QED BY <1>2, <1>3, <1>4, <1>5, <1>6 DEF ModInv

LEMMA ModModerateEnds ==
  ASSUME NEW k, k.files \in Nat, ModInv(k), Moderation(k)!ModerateEnds
  PROVE  ModInv(k)'
<1>0. PostTypes(k) /\ LockIs(k) /\ Kept /\ DoneFirst(k) /\ DoneOnce(k)
  BY DEF ModInv
<1> DEFINE u == Moderation(k)!Unlocked
<1>u. /\ DOMAIN u = {"who", "at", "f", "a"} /\ u = [who |-> u.who, at |-> u.at, f |-> u.f, a |-> u.a]
      /\ u.who = "none" /\ u.f = 0
  BY UnlockedIs
<1>1. \A f, w : (Did(f, w)' <=> Did(f, w)) /\ (Twice(f, w)' <=> Twice(f, w)) /\ (ActedOn(f)' <=> ActedOn(f))
  BY SameDone DEF Moderation!ModerateEnds
<1> DEFINE g == mod_lock.f
<1>w. /\ mod_lock.who = "moderate" /\ mod_lock.at = "unlink" /\ mod_lock' = Moderation(k)!Unlocked
      /\ answers' = answers \ {mod_lock.a}
      /\ told' = [told EXCEPT ![mod_lock.a.mod] = mod_lock.a.verdict]
      /\ \/ pending' = [pending EXCEPT ![g] = "gone"] /\ mod_crashes' = mod_crashes
         \/ pending' = pending /\ mod_crashes' = mod_crashes + 1
      /\ post' = post /\ store' = store /\ old' = old /\ marker' = marker /\ asked' = asked /\ done' = done
  BY DEF Moderation!ModerateEnds, Moderation!Reply, Moderation!Killed
<1>g. /\ g \in FilesOf(k) /\ g = mod_lock.a.f /\ mod_lock.a.mod \in k.moderators /\ mod_lock.a.verdict \in Verdicts
      /\ g \in asked /\ ActedOn(g)
  BY <1>0, <1>w DEF PostTypes, LockIs, Answers, DoneFirst, ActedOn, Outcomes
<1>h. /\ \A f \in FilesOf(k) : f # g => pending'[f] = pending[f]
      /\ pending' \in [FilesOf(k) -> {"unused", "part", "whole", "gone"}]
  BY <1>0, <1>w DEF PostTypes
<1> HIDE DEF g
<1>2. PostTypes(k)'
  <2>1. told' \in [k.moderators -> Verdicts \cup {"nothing", "late", "error"}]
    BY <1>0, <1>w, <1>g DEF PostTypes
  <2>2. mod_crashes' \in Nat
    BY <1>0, <1>w DEF PostTypes
  <2> QED BY <1>0, <1>w, <1>h, <2>1, <2>2 DEF PostTypes, Answers
<1>3. LockIs(k)'
  BY <1>0, <1>u DEF PostTypes, LockIs, FilesOf, Answers, Moderation!ModerateEnds, Moderation!Killed,
    Moderation!Reply
<1>4. Kept'
  <2>1. store.at # "write"
    BY <1>0, <1>w DEF LockIs
  <2>2. store.at = "ask" => store.f \in FilesOf(k)
    BY <1>0 DEF PostTypes
  <2>3. asked \subseteq FilesOf(k)
    BY <1>0 DEF PostTypes
  <2> QED BY <1>0, <1>1, <1>w, <1>g, <1>h, <2>1, <2>2, <2>3 DEF Kept
<1>5. DoneFirst(k)'
  BY <1>0, <1>1, <1>u DEF PostTypes, LockIs, DoneFirst, Moderation!ModerateEnds, Moderation!Killed,
    Moderation!Reply
<1>6. DoneOnce(k)'
  BY <1>0, <1>1, <1>u DEF PostTypes, LockIs, DoneOnce, Acting, Moderation!ModerateEnds,
    Moderation!Killed, Moderation!Reply
<1> QED BY <1>2, <1>3, <1>4, <1>5, <1>6 DEF ModInv

LEMMA ModAge ==
  ASSUME NEW k, k.files \in Nat, ModInv(k), NEW g \in FilesOf(k), Moderation(k)!Age(g)
  PROVE  ModInv(k)'
<1>0. PostTypes(k) /\ LockIs(k) /\ Kept /\ DoneFirst(k) /\ DoneOnce(k)
  BY DEF ModInv
<1>1. \A f, w : (Did(f, w)' <=> Did(f, w)) /\ (Twice(f, w)' <=> Twice(f, w)) /\ (ActedOn(f)' <=> ActedOn(f))
  BY SameDone DEF Moderation!Age
<1>2. PostTypes(k)'
  BY <1>0 DEF PostTypes, LockIs, FilesOf, Answers, Moderation!Age, Moderation!mods, Moderation!faults
<1>3. LockIs(k)'
  BY <1>0 DEF PostTypes, LockIs, FilesOf, Answers, Moderation!Age, Moderation!mods, Moderation!faults
<1>4. Kept'
  BY <1>0, <1>1 DEF PostTypes, LockIs, Kept, Moderation!Age, Moderation!mods, Moderation!faults
<1>5. DoneFirst(k)'
  BY <1>0, <1>1 DEF PostTypes, LockIs, DoneFirst, Moderation!Age, Moderation!mods, Moderation!faults
<1>6. DoneOnce(k)'
  BY <1>0, <1>1 DEF PostTypes, LockIs, DoneOnce, Acting, Moderation!Age, Moderation!mods, Moderation!faults
<1> QED BY <1>2, <1>3, <1>4, <1>5, <1>6 DEF ModInv

LEMMA ModCleanStart ==
  ASSUME NEW k, k.files \in Nat, ModInv(k), Moderation(k)!CleanStart
  PROVE  ModInv(k)'
<1>0. PostTypes(k) /\ LockIs(k) /\ Kept /\ DoneFirst(k) /\ DoneOnce(k)
  BY DEF ModInv
<1> DEFINE u == Moderation(k)!Unlocked
<1>u. /\ DOMAIN u = {"who", "at", "f", "a"} /\ u = [who |-> u.who, at |-> u.at, f |-> u.f, a |-> u.a]
      /\ u.who = "none" /\ u.f = 0
  BY UnlockedIs
<1>1. \A f, w : (Did(f, w)' <=> Did(f, w)) /\ (Twice(f, w)' <=> Twice(f, w)) /\ (ActedOn(f)' <=> ActedOn(f))
  BY SameDone DEF Moderation!CleanStart
<1>2. PostTypes(k)'
  BY <1>0 DEF PostTypes, LockIs, FilesOf, Answers, Moderation!CleanStart, Moderation!disk,
    Moderation!mods, Moderation!faults
<1>3. LockIs(k)'
  <2>1. mod_lock = u /\ mod_lock' = [u EXCEPT !.who = "clean", !.at = "look", !.f = 1] /\ store' = store
    BY DEF Moderation!CleanStart
  <2> HIDE DEF u
  <2>2. mod_lock' = [who |-> "clean", at |-> "look", f |-> 1, a |-> u.a]
    BY <1>u, <2>1
  <2>3. 1 \in 1 .. k.files + 1
    OBVIOUS
  <2> QED BY <1>0, <1>u, <2>1, <2>2, <2>3 DEF LockIs
<1>4. Kept'
  BY <1>0, <1>1, <1>u DEF PostTypes, LockIs, Kept, Moderation!CleanStart, Moderation!disk,
    Moderation!mods, Moderation!faults
<1>5. DoneFirst(k)'
  BY <1>0, <1>1, <1>u DEF PostTypes, LockIs, DoneFirst, Moderation!CleanStart, Moderation!disk,
    Moderation!mods, Moderation!faults
<1>6. DoneOnce(k)'
  BY <1>0, <1>1, <1>u DEF PostTypes, LockIs, DoneOnce, Acting, Moderation!CleanStart, Moderation!disk,
    Moderation!mods, Moderation!faults
<1> QED BY <1>2, <1>3, <1>4, <1>5, <1>6 DEF ModInv

LEMMA ModCleanFile ==
  ASSUME NEW k, k.files \in Nat, ModInv(k), Moderation(k)!CleanFile
  PROVE  ModInv(k)'
<1>0. PostTypes(k) /\ LockIs(k) /\ Kept /\ DoneFirst(k) /\ DoneOnce(k)
  BY DEF ModInv
<1>1. \A f, w : (Did(f, w)' <=> Did(f, w)) /\ (Twice(f, w)' <=> Twice(f, w)) /\ (ActedOn(f)' <=> ActedOn(f))
  BY SameDone DEF Moderation!CleanFile
<1>2. PostTypes(k)'
  BY <1>0 DEF PostTypes, LockIs, FilesOf, Answers, Moderation!CleanFile, Moderation!mods,
    Moderation!faults, Moderation!NextFile, Moderation!Late, Moderation!Cleaning, Moderation!Files
<1>3. LockIs(k)'
  <2>1. /\ mod_lock.who = "clean" /\ mod_lock.at = "look" /\ mod_lock.f \in FilesOf(k)
        /\ mod_lock' = [mod_lock EXCEPT !.at = "look", !.f = mod_lock.f + 1] /\ store' = store
    BY DEF Moderation!CleanFile, Moderation!NextFile, Moderation!Cleaning, Moderation!Files, FilesOf
  <2>2. mod_lock.f \in FilesOf(k)
    BY <1>0, <2>1 DEF LockIs
  <2>3. mod_lock.f + 1 \in 1 .. k.files + 1
    BY <2>2 DEF FilesOf
  <2>4. mod_lock' = [who |-> "clean", at |-> "look", f |-> mod_lock.f + 1, a |-> mod_lock.a]
    BY <1>0, <2>1 DEF LockIs
  <2>5. store.at # "write"
    BY <1>0, <2>1 DEF LockIs
  <2> QED BY <2>1, <2>3, <2>4, <2>5 DEF LockIs
<1>4. Kept'
  BY <1>0, <1>1 DEF PostTypes, LockIs, Kept, Moderation!CleanFile, Moderation!mods, Moderation!faults,
    Moderation!NextFile, Moderation!Late, Moderation!Cleaning, Moderation!Files
<1>5. DoneFirst(k)'
  BY <1>0, <1>1 DEF PostTypes, LockIs, DoneFirst, Moderation!CleanFile, Moderation!mods,
    Moderation!faults, Moderation!NextFile, Moderation!Late, Moderation!Cleaning, Moderation!Files
<1>6. DoneOnce(k)'
  BY <1>0, <1>1 DEF PostTypes, LockIs, DoneOnce, Acting, Moderation!CleanFile, Moderation!mods,
    Moderation!faults, Moderation!NextFile, Moderation!Late, Moderation!Cleaning, Moderation!Files
<1> QED BY <1>2, <1>3, <1>4, <1>5, <1>6 DEF ModInv

LEMMA ModCleanFails ==
  ASSUME NEW k, k.files \in Nat, ModInv(k), Moderation(k)!CleanFails
  PROVE  ModInv(k)'
<1>0. PostTypes(k) /\ LockIs(k) /\ Kept /\ DoneFirst(k) /\ DoneOnce(k)
  BY DEF ModInv
<1> DEFINE u == Moderation(k)!Unlocked
<1>u. /\ DOMAIN u = {"who", "at", "f", "a"} /\ u = [who |-> u.who, at |-> u.at, f |-> u.f, a |-> u.a]
      /\ u.who = "none" /\ u.f = 0
  BY UnlockedIs
<1>1. \A f, w : (Did(f, w)' <=> Did(f, w)) /\ (Twice(f, w)' <=> Twice(f, w)) /\ (ActedOn(f)' <=> ActedOn(f))
  BY SameDone DEF Moderation!CleanFails
<1>2. PostTypes(k)'
  BY <1>0 DEF PostTypes, LockIs, FilesOf, Answers, Moderation!CleanFails, Moderation!disk,
    Moderation!mods, Moderation!Fault, Moderation!Late, Moderation!Cleaning, Moderation!Files
<1>3. LockIs(k)'
  BY <1>0, <1>u DEF PostTypes, LockIs, FilesOf, Answers, Moderation!CleanFails, Moderation!disk,
    Moderation!mods, Moderation!Fault, Moderation!Late, Moderation!Cleaning, Moderation!Files
<1>4. Kept'
  BY <1>0, <1>1, <1>u DEF PostTypes, LockIs, Kept, Moderation!CleanFails, Moderation!disk,
    Moderation!mods, Moderation!Fault, Moderation!Late, Moderation!Cleaning, Moderation!Files
<1>5. DoneFirst(k)'
  BY <1>0, <1>1, <1>u DEF PostTypes, LockIs, DoneFirst, Moderation!CleanFails, Moderation!disk,
    Moderation!mods, Moderation!Fault, Moderation!Late, Moderation!Cleaning, Moderation!Files
<1>6. DoneOnce(k)'
  BY <1>0, <1>1, <1>u DEF PostTypes, LockIs, DoneOnce, Acting, Moderation!CleanFails, Moderation!disk,
    Moderation!mods, Moderation!Fault, Moderation!Late, Moderation!Cleaning, Moderation!Files
<1> QED BY <1>2, <1>3, <1>4, <1>5, <1>6 DEF ModInv

LEMMA ModCleanUnlink ==
  ASSUME NEW k, k.files \in Nat, ModInv(k), Moderation(k)!CleanUnlink
  PROVE  ModInv(k)'
<1>0. PostTypes(k) /\ LockIs(k) /\ Kept /\ DoneFirst(k) /\ DoneOnce(k)
  BY DEF ModInv
<1>1. \A f, w : (Did(f, w)' <=> Did(f, w)) /\ (Twice(f, w)' <=> Twice(f, w)) /\ (ActedOn(f)' <=> ActedOn(f))
  BY SameDone DEF Moderation!CleanUnlink
<1>2. PostTypes(k)'
  BY <1>0 DEF PostTypes, LockIs, FilesOf, Answers, Moderation!CleanUnlink, Moderation!mods,
    Moderation!faults, Moderation!NextFile
<1>3. LockIs(k)'
  <2>1. /\ mod_lock.who = "clean" /\ mod_lock.at = "unlink"
        /\ mod_lock' = [mod_lock EXCEPT !.at = "look", !.f = mod_lock.f + 1] /\ store' = store
    BY DEF Moderation!CleanUnlink, Moderation!NextFile, Moderation!Cleaning, Moderation!Files, FilesOf
  <2>2. mod_lock.f \in FilesOf(k)
    BY <1>0, <2>1 DEF LockIs
  <2>3. mod_lock.f + 1 \in 1 .. k.files + 1
    BY <2>2 DEF FilesOf
  <2>4. mod_lock' = [who |-> "clean", at |-> "look", f |-> mod_lock.f + 1, a |-> mod_lock.a]
    BY <1>0, <2>1 DEF LockIs
  <2>5. store.at # "write"
    BY <1>0, <2>1 DEF LockIs
  <2> QED BY <2>1, <2>3, <2>4, <2>5 DEF LockIs
<1>4. Kept'
  <2> DEFINE g == mod_lock.f
  <2>1. /\ mod_lock.who = "clean" /\ mod_lock.at = "unlink" /\ pending' = [pending EXCEPT ![g] = "gone"]
        /\ store' = store /\ post' = post /\ asked' = asked
    BY DEF Moderation!CleanUnlink, Moderation!mods
  <2>2. g \in FilesOf(k) /\ ActedOn(g) /\ store.at # "write"
    BY <1>0, <2>1 DEF LockIs, DoneFirst, ActedOn, Outcomes
  <2>3. \A f \in FilesOf(k) : f # g => pending'[f] = pending[f]
    BY <1>0, <2>1 DEF PostTypes
  <2>4. asked \subseteq FilesOf(k) /\ (store.at = "ask" => store.f \in FilesOf(k))
    BY <1>0 DEF PostTypes
  <2> HIDE DEF g
  <2> QED BY <1>0, <1>1, <2>1, <2>2, <2>3, <2>4 DEF Kept
<1>5. DoneFirst(k)'
  BY <1>0, <1>1 DEF PostTypes, LockIs, DoneFirst, Moderation!CleanUnlink, Moderation!mods,
    Moderation!faults, Moderation!NextFile
<1>6. DoneOnce(k)'
  BY <1>0, <1>1 DEF PostTypes, LockIs, DoneOnce, Acting, Moderation!CleanUnlink, Moderation!mods,
    Moderation!faults, Moderation!NextFile
<1> QED BY <1>2, <1>3, <1>4, <1>5, <1>6 DEF ModInv

LEMMA ModCleanMarkers ==
  ASSUME NEW k, k.files \in Nat, ModInv(k), Moderation(k)!CleanMarkers
  PROVE  ModInv(k)'
<1>0. PostTypes(k) /\ LockIs(k) /\ Kept /\ DoneFirst(k) /\ DoneOnce(k)
  BY DEF ModInv
<1> DEFINE u == Moderation(k)!Unlocked
<1>u. /\ DOMAIN u = {"who", "at", "f", "a"} /\ u = [who |-> u.who, at |-> u.at, f |-> u.f, a |-> u.a]
      /\ u.who = "none" /\ u.f = 0
  BY UnlockedIs
<1>1. \A f, w : (Did(f, w)' <=> Did(f, w)) /\ (Twice(f, w)' <=> Twice(f, w)) /\ (ActedOn(f)' <=> ActedOn(f))
  BY SameDone DEF Moderation!CleanMarkers
<1>2. PostTypes(k)'
  BY <1>0 DEF PostTypes, LockIs, FilesOf, Answers, Moderation!CleanMarkers, Moderation!mods,
    Moderation!faults, Moderation!Cleaning, Moderation!Files
<1>3. LockIs(k)'
  BY <1>0, <1>u DEF PostTypes, LockIs, FilesOf, Answers, Moderation!CleanMarkers, Moderation!mods,
    Moderation!faults, Moderation!Cleaning, Moderation!Files
<1>4. Kept'
  BY <1>0, <1>1, <1>u DEF PostTypes, LockIs, Kept, Moderation!CleanMarkers, Moderation!mods,
    Moderation!faults, Moderation!Cleaning, Moderation!Files
<1>5. DoneFirst(k)'
  <2>1. /\ mod_lock' = u /\ marker' = [f \in FilesOf(k) |-> IF f \in old THEN "none" ELSE marker[f]]
    BY DEF Moderation!CleanMarkers, Moderation!Files, FilesOf
  <2> HIDE DEF u
  <2>2. \A f \in FilesOf(k), w \in Verdicts : marker'[f] = w => marker[f] = w
    BY <2>1 DEF Verdicts
  <2>3. mod_lock'.who = "none"
    BY <1>u, <2>1
  <2>4. \A f \in FilesOf(k), w \in Verdicts : marker'[f] = w => Did(f, w)'
    BY <1>0, <1>1, <2>2 DEF DoneFirst
  <2> QED BY <2>3, <2>4 DEF DoneFirst
<1>6. DoneOnce(k)'
  BY <1>0, <1>1, <1>u DEF PostTypes, LockIs, DoneOnce, Acting, Moderation!CleanMarkers, Moderation!mods,
    Moderation!faults, Moderation!Cleaning, Moderation!Files
<1> QED BY <1>2, <1>3, <1>4, <1>5, <1>6 DEF ModInv

LEMMA ModKillStore ==
  ASSUME NEW k, k.files \in Nat, ModInv(k), Moderation(k)!KillStore
  PROVE  ModInv(k)'
<1>0. PostTypes(k) /\ LockIs(k) /\ Kept /\ DoneFirst(k) /\ DoneOnce(k)
  BY DEF ModInv
<1> DEFINE u == Moderation(k)!Unlocked
<1>u. /\ DOMAIN u = {"who", "at", "f", "a"} /\ u = [who |-> u.who, at |-> u.at, f |-> u.f, a |-> u.a]
      /\ u.who = "none" /\ u.f = 0
  BY UnlockedIs
<1>1. \A f, w : (Did(f, w)' <=> Did(f, w)) /\ (Twice(f, w)' <=> Twice(f, w)) /\ (ActedOn(f)' <=> ActedOn(f))
  BY SameDone DEF Moderation!KillStore
<1>2. PostTypes(k)'
  BY <1>0 DEF PostTypes, LockIs, FilesOf, Answers, Moderation!KillStore, Moderation!disk,
    Moderation!Killed, Moderation!Idle
<1>3. LockIs(k)'
  BY <1>0, <1>u DEF PostTypes, LockIs, FilesOf, Answers, Moderation!KillStore, Moderation!disk,
    Moderation!Killed, Moderation!Idle
<1>4. Kept'
  BY <1>0, <1>1, <1>u DEF PostTypes, LockIs, Kept, Moderation!KillStore, Moderation!disk,
    Moderation!Killed, Moderation!Idle
<1>5. DoneFirst(k)'
  BY <1>0, <1>1, <1>u DEF PostTypes, LockIs, DoneFirst, Moderation!KillStore, Moderation!disk,
    Moderation!Killed, Moderation!Idle
<1>6. DoneOnce(k)'
  BY <1>0, <1>1, <1>u DEF PostTypes, LockIs, DoneOnce, Acting, Moderation!KillStore, Moderation!disk,
    Moderation!Killed, Moderation!Idle
<1> QED BY <1>2, <1>3, <1>4, <1>5, <1>6 DEF ModInv

LEMMA ModKillHolder ==
  ASSUME NEW k, k.files \in Nat, ModInv(k), Moderation(k)!KillHolder
  PROVE  ModInv(k)'
<1>0. PostTypes(k) /\ LockIs(k) /\ Kept /\ DoneFirst(k) /\ DoneOnce(k)
  BY DEF ModInv
<1> DEFINE u == Moderation(k)!Unlocked
<1>u. /\ DOMAIN u = {"who", "at", "f", "a"} /\ u = [who |-> u.who, at |-> u.at, f |-> u.f, a |-> u.a]
      /\ u.who = "none" /\ u.f = 0
  BY UnlockedIs
<1>1. \A f, w : (Did(f, w)' <=> Did(f, w)) /\ (Twice(f, w)' <=> Twice(f, w)) /\ (ActedOn(f)' <=> ActedOn(f))
  BY SameDone DEF Moderation!KillHolder
<1>2. PostTypes(k)'
  BY <1>0 DEF PostTypes, LockIs, FilesOf, Answers, Moderation!KillHolder, Moderation!disk,
    Moderation!mods, Moderation!Killed
<1>3. LockIs(k)'
  BY <1>0, <1>u DEF PostTypes, LockIs, FilesOf, Answers, Moderation!KillHolder, Moderation!disk,
    Moderation!mods, Moderation!Killed
<1>4. Kept'
  BY <1>0, <1>1, <1>u DEF PostTypes, LockIs, Kept, Moderation!KillHolder, Moderation!disk,
    Moderation!mods, Moderation!Killed
<1>5. DoneFirst(k)'
  BY <1>0, <1>1, <1>u DEF PostTypes, LockIs, DoneFirst, Moderation!KillHolder, Moderation!disk,
    Moderation!mods, Moderation!Killed
<1>6. DoneOnce(k)'
  BY <1>0, <1>1, <1>u DEF PostTypes, LockIs, DoneOnce, Acting, Moderation!KillHolder, Moderation!disk,
    Moderation!mods, Moderation!Killed
<1> QED BY <1>2, <1>3, <1>4, <1>5, <1>6 DEF ModInv

LEMMA ModModerateActs ==
  ASSUME NEW k, k.files \in Nat, ModInv(k), Moderation(k)!ModerateActs
  PROVE  ModInv(k)'
<1>0. PostTypes(k) /\ LockIs(k) /\ Kept /\ DoneFirst(k) /\ DoneOnce(k)
  BY DEF ModInv
<1>g. PICK g, x : g = mod_lock.f /\ x = mod_lock.a.verdict
  OBVIOUS
<1>1. /\ mod_lock.who = "moderate" /\ mod_lock.at = "mail" /\ Moderation(k)!Act(g, x)
      /\ mod_lock' = [mod_lock EXCEPT !.at = "mark"]
      /\ post' = post /\ store' = store /\ pending' = pending /\ old' = old /\ marker' = marker /\ asked' = asked
      /\ answers' = answers /\ told' = told /\ mod_crashes' = mod_crashes
  BY <1>g DEF Moderation!ModerateActs, Moderation!disk, Moderation!mods, Moderation!faults
<1>2. g \in FilesOf(k) /\ x \in Outcomes /\ pending[g] # "gone" /\ store.at # "write"
  BY <1>0, <1>1, <1>g DEF LockIs, PostTypes, Answers, FilesOf, Outcomes
<1>3. mod_lock' = [who |-> mod_lock.who, at |-> "mark", f |-> g, a |-> mod_lock.a]
  BY <1>0, <1>1, <1>g DEF LockIs
<1>4. /\ done' \in [FilesOf(k) \X Outcomes -> 0 .. 2] /\ Did(g, x)' /\ (~Did(g, x) => ~Twice(g, x)')
      /\ \A f \in FilesOf(k), v \in Outcomes :
           /\ f # g \/ v # x => (Did(f, v)' <=> Did(f, v)) /\ (Twice(f, v)' <=> Twice(f, v))
           /\ Did(f, v) => Did(f, v)'
  <2>1. PostTypes(k) /\ Moderation(k)!Act(g, x)
    BY <1>0, <1>1
  <2> QED BY <1>2, <2>1, ActOn
<1>5. \A f \in FilesOf(k) : (ActedOn(f) => ActedOn(f)') /\ (f # g => (ActedOn(f)' <=> ActedOn(f)))
  BY <1>4 DEF ActedOn
<1>6. PostTypes(k)'
  BY <1>0, <1>1, <1>4 DEF PostTypes, Answers
<1>7. LockIs(k)'
  BY <1>0, <1>1, <1>2, <1>3, <1>g DEF LockIs
<1>8. Kept'
  <2>1. asked \subseteq FilesOf(k) /\ (store.at = "ask" => store.f \in FilesOf(k))
    BY <1>0 DEF PostTypes
  <2> QED BY <1>0, <1>1, <1>5, <2>1 DEF Kept
<1>9. DoneFirst(k)'
  <2>1. \A f \in FilesOf(k), v \in Verdicts : Did(f, v) => Did(f, v)'
    BY <1>4 DEF Outcomes
  <2>2. \A f \in FilesOf(k), v \in Verdicts : (marker[f] = v => Did(f, v))'
    BY <1>0, <1>1, <2>1 DEF DoneFirst
  <2>3. Did(mod_lock.f, mod_lock.a.verdict)'
    <3>1. mod_lock'.f = g /\ mod_lock'.a = mod_lock.a
      BY <1>3
    <3> QED BY <1>4, <1>g, <3>1 DEF Did
  <2> QED BY <1>1, <1>3, <2>2, <2>3 DEF DoneFirst
<1>10. ASSUME mod_crashes = 0 PROVE ~ActedOn(g)
  BY <1>0, <1>1, <1>2, <1>10, <1>g DEF DoneOnce, Acting
<1>11. DoneOnce(k)'
  <2> SUFFICES ASSUME mod_crashes' = 0, NEW f \in FilesOf(k)
               PROVE  /\ \A v, w \in Outcomes : ~Twice(f, v)' /\ (Did(f, v)' /\ Did(f, w)' => v = w)
                      /\ ActedOn(f)' => pending'[f] = "gone" \/ Acting(f)'
    BY DEF DoneOnce
  <2>1. mod_crashes = 0
    BY <1>1
  <2>2. CASE f = g
    <3>1. \A v \in Outcomes : ~Did(g, v) /\ ~Twice(g, v)
      BY <1>0, <1>2, <1>10, <2>1 DEF ActedOn, DoneOnce
    <3>2. \A v, w \in Outcomes : ~Twice(f, v)' /\ (Did(f, v)' /\ Did(f, w)' => v = w)
      BY <1>2, <1>4, <2>2, <3>1
    <3>3. Acting(f)'
      <4>1. mod_lock'.f = f /\ mod_lock'.who = mod_lock.who /\ mod_lock'.at = "mark"
        BY <1>3, <2>2
      <4>2. mod_lock'.who = "moderate"
        BY <1>1, <4>1
      <4> QED BY <4>1, <4>2 DEF Acting
    <3> QED BY <3>2, <3>3
  <2>3. CASE f # g
    <3>1. \A v, w \in Outcomes : ~Twice(f, v)' /\ (Did(f, v)' /\ Did(f, w)' => v = w)
      BY <1>0, <1>4, <2>1, <2>3 DEF DoneOnce
    <3>2. ActedOn(f) => pending[f] = "gone"
      BY <1>0, <1>g, <2>1, <2>3 DEF DoneOnce, Acting
    <3> QED BY <1>1, <1>5, <2>3, <3>1, <3>2
  <2> QED BY <2>2, <2>3
<1> QED BY <1>6, <1>7, <1>8, <1>9, <1>11 DEF ModInv

LEMMA ModCleanNotice ==
  ASSUME NEW k, k.files \in Nat, ModInv(k), Moderation(k)!CleanNotice
  PROVE  ModInv(k)'
<1>0. PostTypes(k) /\ LockIs(k) /\ Kept /\ DoneFirst(k) /\ DoneOnce(k)
  BY DEF ModInv
<1>g. PICK g, x : g = mod_lock.f /\ x = "late"
  OBVIOUS
<1>1. /\ mod_lock.who = "clean" /\ mod_lock.at = "look" /\ Moderation(k)!Act(g, x)
      /\ mod_lock' = [mod_lock EXCEPT !.at = "unlink"] /\ g \in FilesOf(k) /\ pending[g] = "whole"
      /\ post' = post /\ store' = store /\ pending' = pending /\ old' = old /\ marker' = marker /\ asked' = asked
      /\ answers' = answers /\ told' = told /\ mod_crashes' = mod_crashes
  BY <1>g DEF Moderation!CleanNotice, Moderation!Cleaning, Moderation!Late, Moderation!Files, FilesOf,
    Moderation!disk,
    Moderation!mods, Moderation!faults
<1>2. g \in FilesOf(k) /\ x \in Outcomes /\ pending[g] # "gone" /\ store.at # "write"
  BY <1>0, <1>1, <1>g DEF LockIs, PostTypes, Answers, FilesOf, Outcomes
<1>3. mod_lock' = [who |-> mod_lock.who, at |-> "unlink", f |-> g, a |-> mod_lock.a]
  BY <1>0, <1>1, <1>g DEF LockIs
<1>4. /\ done' \in [FilesOf(k) \X Outcomes -> 0 .. 2] /\ Did(g, x)' /\ (~Did(g, x) => ~Twice(g, x)')
      /\ \A f \in FilesOf(k), v \in Outcomes :
           /\ f # g \/ v # x => (Did(f, v)' <=> Did(f, v)) /\ (Twice(f, v)' <=> Twice(f, v))
           /\ Did(f, v) => Did(f, v)'
  <2>1. PostTypes(k) /\ Moderation(k)!Act(g, x)
    BY <1>0, <1>1
  <2> QED BY <1>2, <2>1, ActOn
<1>5. \A f \in FilesOf(k) : (ActedOn(f) => ActedOn(f)') /\ (f # g => (ActedOn(f)' <=> ActedOn(f)))
  BY <1>4 DEF ActedOn
<1>6. PostTypes(k)'
  BY <1>0, <1>1, <1>4 DEF PostTypes, Answers
<1>7. LockIs(k)'
  BY <1>0, <1>1, <1>2, <1>3, <1>g DEF LockIs
<1>8. Kept'
  <2>1. asked \subseteq FilesOf(k) /\ (store.at = "ask" => store.f \in FilesOf(k))
    BY <1>0 DEF PostTypes
  <2> QED BY <1>0, <1>1, <1>5, <2>1 DEF Kept
<1>9. DoneFirst(k)'
  <2>1. \A f \in FilesOf(k), v \in Verdicts : Did(f, v) => Did(f, v)'
    BY <1>4 DEF Outcomes
  <2>2. \A f \in FilesOf(k), v \in Verdicts : (marker[f] = v => Did(f, v))'
    BY <1>0, <1>1, <2>1 DEF DoneFirst
  <2>3. Did(mod_lock.f, "late")'
    <3>1. mod_lock'.f = g /\ mod_lock'.a = mod_lock.a
      BY <1>3
    <3> QED BY <1>4, <1>g, <3>1 DEF Did
  <2> QED BY <1>1, <1>3, <2>2, <2>3 DEF DoneFirst
<1>10. ASSUME mod_crashes = 0 PROVE ~ActedOn(g)
  BY <1>0, <1>1, <1>2, <1>10, <1>g DEF DoneOnce, Acting
<1>11. DoneOnce(k)'
  <2> SUFFICES ASSUME mod_crashes' = 0, NEW f \in FilesOf(k)
               PROVE  /\ \A v, w \in Outcomes : ~Twice(f, v)' /\ (Did(f, v)' /\ Did(f, w)' => v = w)
                      /\ ActedOn(f)' => pending'[f] = "gone" \/ Acting(f)'
    BY DEF DoneOnce
  <2>1. mod_crashes = 0
    BY <1>1
  <2>2. CASE f = g
    <3>1. \A v \in Outcomes : ~Did(g, v) /\ ~Twice(g, v)
      BY <1>0, <1>2, <1>10, <2>1 DEF ActedOn, DoneOnce
    <3>2. \A v, w \in Outcomes : ~Twice(f, v)' /\ (Did(f, v)' /\ Did(f, w)' => v = w)
      BY <1>2, <1>4, <2>2, <3>1
    <3>3. Acting(f)'
      <4>1. mod_lock'.f = f /\ mod_lock'.who = mod_lock.who /\ mod_lock'.at = "unlink"
        BY <1>3, <2>2
      <4>2. mod_lock'.who = "clean"
        BY <1>1, <4>1
      <4> QED BY <4>1, <4>2 DEF Acting
    <3> QED BY <3>2, <3>3
  <2>3. CASE f # g
    <3>1. \A v, w \in Outcomes : ~Twice(f, v)' /\ (Did(f, v)' /\ Did(f, w)' => v = w)
      BY <1>0, <1>4, <2>1, <2>3 DEF DoneOnce
    <3>2. ActedOn(f) => pending[f] = "gone"
      BY <1>0, <1>g, <2>1, <2>3 DEF DoneOnce, Acting
    <3> QED BY <1>1, <1>5, <2>3, <3>1, <3>2
  <2> QED BY <2>2, <2>3
<1> QED BY <1>6, <1>7, <1>8, <1>9, <1>11 DEF ModInv

LEMMA ModNext ==
  ASSUME NEW k, Moderation(k)!ModerateAssumption, ModInv(k), Moderation(k)!Next
  PROVE  ModInv(k)'
<1>0. k.files \in Nat
  BY DEF Moderation!ModerateAssumption
<1>1. CASE Moderation(k)!StoreOpen
  BY <1>0, <1>1, ModStoreOpen
<1>2. CASE Moderation(k)!StoreClose
  BY <1>0, <1>2, ModStoreClose
<1>3. CASE Moderation(k)!StoreAsk
  BY <1>0, <1>3, ModStoreAsk
<1>4. CASE Moderation(k)!StoreFails
  BY <1>0, <1>4, ModStoreFails
<1>5. ASSUME NEW m \in k.moderators, NEW g \in FilesOf(k), NEW v \in Verdicts, Moderation(k)!Answer(m, g, v)
      PROVE  ModInv(k)'
  BY <1>0, <1>5, ModAnswer
<1>6. ASSUME NEW a \in answers, Moderation(k)!ModerateFinds(a) PROVE ModInv(k)'
  BY <1>0, <1>6, ModModerateFinds
<1>7. ASSUME NEW a \in answers, Moderation(k)!ModerateMisses(a) PROVE ModInv(k)'
  BY <1>0, <1>7, ModModerateMisses
<1>8. CASE Moderation(k)!ModerateActs
  BY <1>0, <1>8, ModModerateActs
<1>9. CASE Moderation(k)!ModerateFails
  BY <1>0, <1>9, ModModerateFails
<1>10. CASE Moderation(k)!ModerateMarks
  BY <1>0, <1>10, ModModerateMarks
<1>11. CASE Moderation(k)!ModerateEnds
  BY <1>0, <1>11, ModModerateEnds
<1>12. ASSUME NEW g \in FilesOf(k), Moderation(k)!Age(g) PROVE ModInv(k)'
  BY <1>0, <1>12, ModAge
<1>13. CASE Moderation(k)!CleanStart
  BY <1>0, <1>13, ModCleanStart
<1>14. CASE Moderation(k)!CleanFile
  BY <1>0, <1>14, ModCleanFile
<1>15. CASE Moderation(k)!CleanNotice
  BY <1>0, <1>15, ModCleanNotice
<1>16. CASE Moderation(k)!CleanFails
  BY <1>0, <1>16, ModCleanFails
<1>17. CASE Moderation(k)!CleanUnlink
  BY <1>0, <1>17, ModCleanUnlink
<1>18. CASE Moderation(k)!CleanMarkers
  BY <1>0, <1>18, ModCleanMarkers
<1>19. CASE Moderation(k)!KillStore
  BY <1>0, <1>19, ModKillStore
<1>20. CASE Moderation(k)!KillHolder
  BY <1>0, <1>20, ModKillHolder
<1> QED BY <1>1, <1>2, <1>3, <1>4, <1>5, <1>6, <1>7, <1>8, <1>9, <1>10, <1>11, <1>12, <1>13, <1>14,
  <1>15, <1>16, <1>17, <1>18, <1>19, <1>20,
  Zenon DEF Moderation!Next, Moderation!Moderate, Moderation!Clean, Moderation!Files, FilesOf, Moderation!Verdicts, Verdicts

LEMMA ModStutter == ASSUME NEW k, ModInv(k), UNCHANGED modVars PROVE ModInv(k)'
<1>1. /\ post' = post /\ store' = store /\ pending' = pending /\ old' = old /\ marker' = marker /\ asked' = asked
      /\ answers' = answers /\ told' = told /\ mod_lock' = mod_lock /\ done' = done /\ mod_crashes' = mod_crashes
  BY DEF modVars
<1>2. PostTypes(k)' /\ LockIs(k)'
  BY <1>1 DEF ModInv, PostTypes, LockIs, Answers
<1>3. Kept' /\ DoneFirst(k)' /\ DoneOnce(k)'
  BY <1>1, SameDone DEF ModInv, Kept, DoneFirst, DoneOnce, Acting
<1> QED BY <1>2, <1>3 DEF ModInv

LEMMA ModKeeps == ASSUME NEW k, ModInv(k) PROVE Moderation(k)!NothingLost /\ Moderation(k)!OneDecision
<1>0. PostTypes(k) /\ LockIs(k) /\ Kept /\ DoneFirst(k) /\ DoneOnce(k)
  BY DEF ModInv
<1>1. \A f : ActedOn(f) <=> Moderation(k)!Acted(f)
  BY DEF ActedOn, Did, Moderation!Acted, Outcomes, Verdicts, Moderation!Verdicts
<1>2. Moderation(k)!NothingLost
  BY <1>0, <1>1 DEF Kept, Moderation!NothingLost
<1>3. \A f \in FilesOf(k), v \in Outcomes : ~Twice(f, v) => done[<<f, v>>] <= 1
  BY <1>0 DEF PostTypes, Twice
<1>4. Moderation(k)!OneDecision
  BY <1>0, <1>3 DEF DoneOnce, Did, Moderation!OneDecision, Moderation!Files, FilesOf, Outcomes, Verdicts,
    Moderation!Verdicts
<1> QED BY <1>2, <1>4

(* What a step tells a moderator.                                            *)
LEMMA ModTells ==
  ASSUME NEW k, Moderation(k)!ModerateAssumption, ModInv(k), Moderation(k)!Next
  PROVE  Moderation(k)!TellsTheTruth
<1>0. PostTypes(k) /\ LockIs(k) /\ DoneFirst(k)
  BY DEF ModInv
<1> SUFFICES ASSUME NEW m \in k.moderators, NEW w, w = told'[m], w \in Verdicts, w # told[m]
             PROVE  \E f \in asked : Did(f, w)
  BY DEF Moderation!TellsTheTruth, Did, Verdicts, Moderation!Verdicts
<1>1. ASSUME NEW a, NEW r, a \in answers, told' = [told EXCEPT ![a.mod] = r] PROVE w = r
  BY <1>0, <1>1 DEF PostTypes, Answers
<1>2. ASSUME NEW a \in answers, Moderation(k)!ModerateMisses(a) PROVE \E f \in asked : Did(f, w)
  <2>1. told' = [told EXCEPT ![a.mod] = IF marker[a.f] = "none" THEN "late" ELSE marker[a.f]]
    BY <1>2 DEF Moderation!ModerateMisses, Moderation!Reply
  <2>2. w = IF marker[a.f] = "none" THEN "late" ELSE marker[a.f]
    BY <1>1, <2>1
  <2>3. w = marker[a.f]
    BY <2>2 DEF Verdicts
  <2>4. a.f \in asked /\ a.f \in FilesOf(k)
    BY <1>0 DEF PostTypes, Answers
  <2> QED BY <1>0, <2>3, <2>4 DEF DoneFirst
<1>3. CASE Moderation(k)!ModerateEnds
  <2>1. /\ mod_lock.who = "moderate" /\ mod_lock.at = "unlink"
        /\ told' = [told EXCEPT ![mod_lock.a.mod] = mod_lock.a.verdict]
    BY <1>3 DEF Moderation!ModerateEnds, Moderation!Reply
  <2>2. mod_lock.a \in answers /\ mod_lock.f = mod_lock.a.f
    BY <1>0, <2>1 DEF LockIs
  <2>3. w = mod_lock.a.verdict
    BY <1>1, <2>1, <2>2
  <2>4. mod_lock.f \in asked
    BY <1>0, <2>2 DEF PostTypes, Answers
  <2> QED BY <1>0, <2>1, <2>3, <2>4 DEF DoneFirst
<1>4. CASE Moderation(k)!ModerateFails
  <2>1. mod_lock.who = "moderate" /\ (told' = told \/ told' = [told EXCEPT ![mod_lock.a.mod] = "error"])
    BY <1>4 DEF Moderation!ModerateFails, Moderation!Reply
  <2>2. mod_lock.a \in answers
    BY <1>0, <2>1 DEF LockIs
  <2> QED BY <1>1, <2>1, <2>2 DEF Verdicts
<1>5. told' = told \/ (\E a \in answers : Moderation(k)!ModerateMisses(a)) \/ Moderation(k)!ModerateEnds \/
      Moderation(k)!ModerateFails
  BY DEF Moderation!Next, Moderation!Moderate, Moderation!Clean, Moderation!mods, Moderation!StoreOpen,
    Moderation!StoreClose, Moderation!StoreAsk, Moderation!StoreFails, Moderation!Answer,
    Moderation!ModerateFinds, Moderation!ModerateActs, Moderation!ModerateMarks, Moderation!Age,
    Moderation!CleanStart, Moderation!CleanFile, Moderation!CleanNotice, Moderation!CleanFails,
    Moderation!CleanUnlink, Moderation!CleanMarkers, Moderation!KillStore, Moderation!KillHolder
<1> QED BY <1>2, <1>3, <1>4, <1>5

-----------------------------------------------------------------------------
(* Lists of ezmlm with an archive *)

NumbersOf(k) == 1 .. k.numbers
LineOf(n, p) == [n |-> n, post |-> p]
FileOf(p) == [post |-> p, x |-> TRUE, whole |-> TRUE]
SendAt(at) == archive_lock.who = "send" /\ archive_lock.at = at
SendStages == {"index", "archive", "number", "out", "exit", "give_back"}
Digesting == {"read", "number", "out"}

ListTypes(k) ==
  /\ waiting \subseteq k.posts /\ num \in 0 .. k.numbers /\ dignum \in Nat
  /\ archive \in [NumbersOf(k) -> [post : k.posts \cup {"none"}, x : BOOLEAN, whole : BOOLEAN]]
  /\ sent \subseteq [n : NumbersOf(k), post : k.posts] /\ digested \in [k.posts -> Nat] /\ get \in Nat
  /\ digest \in [at : {"idle", "lock"} \cup Digesting, max : 0 .. k.numbers, prev : Nat, has : SUBSET (k.posts \cup {"none"})]
  /\ sendFailures \in Nat /\ archive_crashes \in Nat

HolderIs(k) ==
  /\ archive_lock = [who |-> archive_lock.who, at |-> archive_lock.at, post |-> archive_lock.post]
  /\ archive_lock = List(k)!Free \/ archive_lock.who \in {"send", "digest"}
  /\ archive_lock.who = "send" => archive_lock.at \in SendStages /\ archive_lock.post \in waiting
  /\ SendAt("index") \/ SendAt("archive") \/ SendAt("number") => num < k.numbers
  /\ SendAt("out") \/ SendAt("exit") \/ SendAt("give_back") => num > 0
  /\ archive_lock.who = "digest" <=> digest.at \in Digesting

(* What was sent is in the archive and in the index, and what will be is.     *)
Archived ==
  /\ \A l \in sent : archive[l.n] = FileOf(l.post) /\ l \in index /\ l.n <= num
  /\ SendAt("out") \/ SendAt("give_back") => \A l \in sent : l.n < num
  /\ SendAt("index") \/ SendAt("archive") => archive[num + 1].post = archive_lock.post
  /\ SendAt("archive") => LineOf(num + 1, archive_lock.post) \in index
  /\ SendAt("number") =>
       LineOf(num + 1, archive_lock.post) \in index /\ archive[num + 1] = FileOf(archive_lock.post)
  /\ SendAt("out") => LineOf(num, archive_lock.post) \in index /\ archive[num] = FileOf(archive_lock.post)

(* Without kills a post that was sent is not waiting any more, or just about  *)
(* not to.                                                                   *)
SentOnceOnly ==
  archive_crashes = 0 =>
    \A l \in sent :
      /\ l.post \in waiting => SendAt("exit") /\ l.post = archive_lock.post
      /\ \A m \in sent : m.post = l.post => m = l

(* If no number is given back, the numbers up to num are of whole messages,   *)
(* and nobody reads others.                                                  *)
WholeUpToNum(k) ==
  k.sendfailures = 0 =>
    /\ ~SendAt("give_back") /\ get <= num
    /\ \A n \in NumbersOf(k) : n <= num /\ archive[n].x => archive[n].whole

(* Where the counted digests end.                                            *)
Counted == IF digest.at = "out" THEN digest.prev ELSE dignum
Digested(k) ==
  k.sendfailures = 0 /\ archive_crashes = 0 =>
    /\ dignum <= num /\ (SendAt("out") => dignum < num)
    /\ digest.at # "idle" => digest.max <= num
    /\ digest.at \in {"read", "number"} => digest.prev = dignum
    /\ digest.at \in Digesting => digest.prev < digest.max
    /\ digest.at = "out" => dignum = digest.max
    /\ \A n \in NumbersOf(k) : n <= num => (\E l \in sent : l.n = n) \/ (SendAt("out") /\ n = num)
    /\ \A p \in k.posts : digested[p] # 0 => \E l \in sent : l.post = p
    /\ digest.at \in {"number", "out"} => \A p \in digest.has : \E l \in sent : l.post = p
    /\ digest.at \in {"number", "out"} =>
         \A l \in sent : l.post \in digest.has <=> digest.prev < l.n /\ l.n <= digest.max
    /\ \A l \in sent : digested[l.post] = IF l.n <= Counted THEN 1 ELSE 0

ListInv(k) ==
  ListTypes(k) /\ HolderIs(k) /\ Archived /\ SentOnceOnly /\ WholeUpToNum(k) /\ Digested(k)

LEMMA FreeIs ==
  ASSUME NEW k, NEW u, u = List(k)!Free
  PROVE  u = [who |-> u.who, at |-> u.at, post |-> u.post] /\ u.who = "nobody"
BY DEF List!Free

LEMMA ListInit ==
  ASSUME NEW k, List(k)!ArchiveAssumption, List(k)!Init
  PROVE  ListInv(k)
<1>0. k.numbers \in Nat
  BY DEF List!ArchiveAssumption
<1>1. /\ waiting = k.posts /\ num = 0 /\ dignum = 0 /\ archive = [n \in NumbersOf(k) |-> List(k)!NoFile]
      /\ archive_lock = List(k)!Free /\ digest = List(k)!NoDigest /\ sent = {} /\ digested = [p \in k.posts |-> 0]
      /\ get = 0 /\ sendFailures = 0 /\ archive_crashes = 0
  BY DEF List!Init, List!Numbers, NumbersOf
<1>2. List(k)!NoFile = [post |-> "none", x |-> FALSE, whole |-> FALSE]
  BY DEF List!NoFile, List!NoPost
<1>3. digest = [at |-> "idle", max |-> 0, prev |-> 0, has |-> {}]
  BY <1>1 DEF List!NoDigest
<1>4. archive_lock.who = "nobody" /\ archive_lock = [who |-> archive_lock.who, at |-> archive_lock.at, post |-> archive_lock.post]
  BY <1>1, FreeIs
<1>5. \A at : ~SendAt(at)
  BY <1>4 DEF SendAt
<1>6. ListTypes(k)
  <2>1. archive \in [NumbersOf(k) -> [post : k.posts \cup {"none"}, x : BOOLEAN, whole : BOOLEAN]]
    BY <1>1, <1>2
  <2>2. digest \in [at : {"idle", "lock"} \cup Digesting, max : 0 .. k.numbers, prev : Nat, has : SUBSET (k.posts \cup {"none"})]
    BY <1>0, <1>3
  <2>3. digested \in [k.posts -> Nat]
    BY <1>1
  <2> QED BY <1>0, <1>1, <2>1, <2>2, <2>3 DEF ListTypes
<1>7. HolderIs(k)
  BY <1>1, <1>3, <1>4, <1>5 DEF HolderIs, Digesting
<1>8. Archived /\ SentOnceOnly
  BY <1>1, <1>5 DEF Archived, SentOnceOnly
<1>9. WholeUpToNum(k)
  BY <1>1, <1>5 DEF WholeUpToNum, NumbersOf
<1>10. Digested(k)
  BY <1>1, <1>3, <1>5 DEF Digested, NumbersOf, Digesting
<1> QED BY <1>6, <1>7, <1>8, <1>9, <1>10 DEF ListInv

LEMMA ListSendStart ==
  ASSUME NEW k, List(k)!ArchiveAssumption, ListInv(k), NEW q \in k.posts, List(k)!SendStart(q)
  PROVE  ListInv(k)'
<1>0. ListTypes(k) /\ HolderIs(k) /\ Archived /\ SentOnceOnly /\ WholeUpToNum(k) /\ Digested(k) /\ k.numbers \in Nat
  BY DEF ListInv, List!ArchiveAssumption
<1> DEFINE u == List(k)!Free
<1>u. u = [who |-> u.who, at |-> u.at, post |-> u.post] /\ u.who = "nobody"
  BY FreeIs
<1> HIDE DEF u
<1>1. /\ q \in waiting /\ archive_lock = u /\ num + 1 \in 1 .. k.numbers
      /\ archive_lock' = [who |-> "send", at |-> "index", post |-> q]
      /\ archive' = [archive EXCEPT ![num + 1] = [archive[num + 1] EXCEPT !.post = q, !.whole = FALSE]]
      /\ waiting' = waiting /\ num' = num /\ dignum' = dignum /\ index' = index /\ digest' = digest
      /\ sent' = sent /\ digested' = digested /\ get' = get /\ sendFailures' = sendFailures
      /\ archive_crashes' = archive_crashes
  BY DEF List!SendStart, List!MsgNum, List!readers, List!faults, List!Numbers, u
<1>2. ListTypes(k)'
  BY <1>0, <1>1 DEF ListTypes, HolderIs
<1>3. HolderIs(k)'
  BY <1>0, <1>1, <1>u DEF ListTypes, HolderIs, SendAt, SendStages, Digesting, u
<1>4. Archived'
  BY <1>0, <1>1, <1>u DEF ListTypes, HolderIs, SendAt, Archived, NumbersOf
<1>5. SentOnceOnly'
  BY <1>0, <1>1, <1>u DEF ListTypes, HolderIs, SendAt, SentOnceOnly
<1>6. WholeUpToNum(k)'
  BY <1>0, <1>1, <1>u DEF ListTypes, HolderIs, SendAt, WholeUpToNum, NumbersOf, Archived, FileOf
<1>7. Digested(k)'
  BY <1>0, <1>1, <1>u DEF ListTypes, HolderIs, SendAt, Digested, NumbersOf, Digesting, Counted
<1> QED BY <1>2, <1>3, <1>4, <1>5, <1>6, <1>7 DEF ListInv

LEMMA ListSendIndex ==
  ASSUME NEW k, List(k)!ArchiveAssumption, ListInv(k), List(k)!SendIndex
  PROVE  ListInv(k)'
<1>0. ListTypes(k) /\ HolderIs(k) /\ Archived /\ SentOnceOnly /\ WholeUpToNum(k) /\ Digested(k) /\ k.numbers \in Nat
  BY DEF ListInv, List!ArchiveAssumption
<1> DEFINE u == List(k)!Free
<1>u. u = [who |-> u.who, at |-> u.at, post |-> u.post] /\ u.who = "nobody"
  BY FreeIs
<1> HIDE DEF u
<1>1. /\ SendAt("index") /\ archive_lock' = [archive_lock EXCEPT !.at = "archive"]
      /\ index' = {l \in index : l.n < num + 1} \cup {LineOf(num + 1, archive_lock.post)}
      /\ waiting' = waiting /\ num' = num /\ dignum' = dignum /\ archive' = archive /\ digest' = digest
      /\ sent' = sent /\ digested' = digested /\ get' = get /\ sendFailures' = sendFailures
      /\ archive_crashes' = archive_crashes
  BY DEF List!SendIndex, List!Sends, List!Step, List!MsgNum, List!readers, List!faults, List!Line,
    SendAt, LineOf, u
<1>2. ListTypes(k)'
  BY <1>0, <1>1 DEF ListTypes, HolderIs
<1>3. HolderIs(k)'
  BY <1>0, <1>1, <1>u DEF ListTypes, HolderIs, SendAt, SendStages, Digesting, u
<1>4. Archived'
  BY <1>0, <1>1, <1>u DEF ListTypes, HolderIs, SendAt, Archived, NumbersOf
<1>5. SentOnceOnly'
  BY <1>0, <1>1, <1>u DEF ListTypes, HolderIs, SendAt, SentOnceOnly
<1>6. WholeUpToNum(k)'
  BY <1>0, <1>1, <1>u DEF ListTypes, HolderIs, SendAt, WholeUpToNum, NumbersOf, Archived, FileOf
<1>7. Digested(k)'
  BY <1>0, <1>1, <1>u DEF ListTypes, HolderIs, SendAt, Digested, NumbersOf, Digesting, Counted
<1> QED BY <1>2, <1>3, <1>4, <1>5, <1>6, <1>7 DEF ListInv

LEMMA ListSendRefuse ==
  ASSUME NEW k, List(k)!ArchiveAssumption, ListInv(k), List(k)!SendRefuse
  PROVE  ListInv(k)'
<1>0. ListTypes(k) /\ HolderIs(k) /\ Archived /\ SentOnceOnly /\ WholeUpToNum(k) /\ Digested(k) /\ k.numbers \in Nat
  BY DEF ListInv, List!ArchiveAssumption
<1> DEFINE u == List(k)!Free
<1>u. u = [who |-> u.who, at |-> u.at, post |-> u.post] /\ u.who = "nobody"
  BY FreeIs
<1> HIDE DEF u
<1>1. /\ SendAt("archive") /\ archive_lock' = u /\ waiting' = waiting \ {archive_lock.post}
      /\ num' = num /\ dignum' = dignum /\ archive' = archive /\ index' = index /\ digest' = digest
      /\ sent' = sent /\ digested' = digested /\ get' = get /\ sendFailures' = sendFailures
      /\ archive_crashes' = archive_crashes
  BY DEF List!SendRefuse, List!Sends, List!files, List!readers, List!faults, SendAt, u
<1>2. ListTypes(k)'
  BY <1>0, <1>1 DEF ListTypes, HolderIs
<1>3. HolderIs(k)'
  BY <1>0, <1>1, <1>u DEF ListTypes, HolderIs, SendAt, SendStages, Digesting, u
<1>4. Archived'
  BY <1>0, <1>1, <1>u DEF ListTypes, HolderIs, SendAt, Archived, NumbersOf
<1>5. SentOnceOnly'
  BY <1>0, <1>1, <1>u DEF ListTypes, HolderIs, SendAt, SentOnceOnly
<1>6. WholeUpToNum(k)'
  BY <1>0, <1>1, <1>u DEF ListTypes, HolderIs, SendAt, WholeUpToNum, NumbersOf, Archived, FileOf
<1>7. Digested(k)'
  BY <1>0, <1>1, <1>u DEF ListTypes, HolderIs, SendAt, Digested, NumbersOf, Digesting, Counted
<1> QED BY <1>2, <1>3, <1>4, <1>5, <1>6, <1>7 DEF ListInv

LEMMA ListSendArchive ==
  ASSUME NEW k, List(k)!ArchiveAssumption, ListInv(k), List(k)!SendArchive
  PROVE  ListInv(k)'
<1>0. ListTypes(k) /\ HolderIs(k) /\ Archived /\ SentOnceOnly /\ WholeUpToNum(k) /\ Digested(k) /\ k.numbers \in Nat
  BY DEF ListInv, List!ArchiveAssumption
<1> DEFINE u == List(k)!Free
<1>u. u = [who |-> u.who, at |-> u.at, post |-> u.post] /\ u.who = "nobody"
  BY FreeIs
<1> HIDE DEF u
<1>1. /\ SendAt("archive") /\ archive_lock' = [archive_lock EXCEPT !.at = "number"]
      /\ archive' = [archive EXCEPT ![num + 1] = [archive[num + 1] EXCEPT !.x = TRUE, !.whole = TRUE]]
      /\ waiting' = waiting /\ num' = num /\ dignum' = dignum /\ index' = index /\ digest' = digest
      /\ sent' = sent /\ digested' = digested /\ get' = get /\ sendFailures' = sendFailures
      /\ archive_crashes' = archive_crashes
  BY DEF List!SendArchive, List!Sends, List!Step, List!MsgNum, List!readers, List!faults, SendAt, u
<1>2. ListTypes(k)'
  BY <1>0, <1>1 DEF ListTypes, HolderIs
<1>3. HolderIs(k)'
  BY <1>0, <1>1, <1>u DEF ListTypes, HolderIs, SendAt, SendStages, Digesting, u
<1>4. Archived'
  <2>1. num + 1 \in NumbersOf(k) /\ archive_lock'.post = archive_lock.post /\ archive_lock'.who = "send"
        /\ archive_lock'.at = "number"
    BY <1>0, <1>1 DEF ListTypes, HolderIs, SendAt, NumbersOf
  <2>2. archive[num + 1] \in [post : k.posts \cup {"none"}, x : BOOLEAN, whole : BOOLEAN]
    BY <1>0, <2>1 DEF ListTypes
  <2>3. PICK q : q = archive_lock.post
    OBVIOUS
  <2>4. archive[num + 1].post = q
    BY <1>0, <1>1, <2>3 DEF Archived
  <2>5. archive'[num + 1] = FileOf(q) /\ \A n \in NumbersOf(k) : n # num + 1 => archive'[n] = archive[n]
    BY <1>0, <1>1, <2>1, <2>2, <2>4 DEF ListTypes, FileOf
  <2>6. \A l \in sent : l.n \in NumbersOf(k) /\ l.n <= num /\ l.n # num + 1
    BY <1>0 DEF ListTypes, Archived, NumbersOf
  <2>7. \A l \in sent : (archive[l.n] = FileOf(l.post))' /\ l \in index'
    BY <1>0, <1>1, <2>5, <2>6 DEF Archived, FileOf
  <2>8. LineOf(num + 1, q) \in index'
    BY <1>0, <1>1, <2>3 DEF Archived
  <2>9. ~SendAt("out")' /\ ~SendAt("give_back")' /\ ~SendAt("archive")' /\ ~SendAt("index")'
    BY <2>1 DEF SendAt
  <2>10. num' = num /\ sent' = sent
    BY <1>1
  <2>11. LineOf(num + 1, archive_lock.post)' = LineOf(num + 1, q) /\ FileOf(archive_lock.post)' = FileOf(q)
    BY <2>1, <2>3, <2>10 DEF LineOf, FileOf
  <2>12. (archive[num + 1])' = archive'[num + 1]
    BY <2>10
  <2> QED BY <2>5, <2>6, <2>7, <2>8, <2>9, <2>10, <2>11, <2>12 DEF Archived
<1>5. SentOnceOnly'
  BY <1>0, <1>1, <1>u DEF ListTypes, HolderIs, SendAt, SentOnceOnly
<1>6. WholeUpToNum(k)'
  BY <1>0, <1>1, <1>u DEF ListTypes, HolderIs, SendAt, WholeUpToNum, NumbersOf, Archived, FileOf
<1>7. Digested(k)'
  BY <1>0, <1>1, <1>u DEF ListTypes, HolderIs, SendAt, Digested, NumbersOf, Digesting, Counted
<1> QED BY <1>2, <1>3, <1>4, <1>5, <1>6, <1>7 DEF ListInv

LEMMA ListSendNumber ==
  ASSUME NEW k, List(k)!ArchiveAssumption, ListInv(k), List(k)!SendNumber
  PROVE  ListInv(k)'
<1>0. ListTypes(k) /\ HolderIs(k) /\ Archived /\ SentOnceOnly /\ WholeUpToNum(k) /\ Digested(k) /\ k.numbers \in Nat
  BY DEF ListInv, List!ArchiveAssumption
<1> DEFINE u == List(k)!Free
<1>u. u = [who |-> u.who, at |-> u.at, post |-> u.post] /\ u.who = "nobody"
  BY FreeIs
<1> HIDE DEF u
<1>1. /\ SendAt("number") /\ archive_lock' = [archive_lock EXCEPT !.at = "out"] /\ num' = num + 1
      /\ waiting' = waiting /\ dignum' = dignum /\ archive' = archive /\ index' = index
      /\ digest' = digest /\ sent' = sent /\ digested' = digested /\ get' = get
      /\ sendFailures' = sendFailures /\ archive_crashes' = archive_crashes
  BY DEF List!SendNumber, List!Sends, List!Step, List!MsgNum, List!readers, List!faults, SendAt, u
<1>2. ListTypes(k)'
  BY <1>0, <1>1 DEF ListTypes, HolderIs
<1>3. HolderIs(k)'
  BY <1>0, <1>1, <1>u DEF ListTypes, HolderIs, SendAt, SendStages, Digesting, u
<1>4. Archived'
  BY <1>0, <1>1, <1>u DEF ListTypes, HolderIs, SendAt, Archived, NumbersOf
<1>5. SentOnceOnly'
  BY <1>0, <1>1, <1>u DEF ListTypes, HolderIs, SendAt, SentOnceOnly
<1>6. WholeUpToNum(k)'
  BY <1>0, <1>1, <1>u DEF ListTypes, HolderIs, SendAt, WholeUpToNum, NumbersOf, Archived, FileOf
<1>7. Digested(k)'
  <2> SUFFICES ASSUME k.sendfailures = 0, archive_crashes = 0 PROVE Digested(k)'
    BY <1>1 DEF Digested
  <2>1. SendAt("out")' /\ ~SendAt("out") /\ num \in Nat /\ num' = num + 1 /\ dignum \in Nat /\ digest.max \in Nat
    BY <1>0, <1>1 DEF ListTypes, HolderIs, SendAt
  <2>2. dignum' <= num' /\ dignum' < num' /\ (digest'.at # "idle" => digest'.max <= num')
    BY <1>0, <1>1, <2>1 DEF Digested
  <2>3. \A n \in NumbersOf(k) : n <= num' => (\E l \in sent' : l.n = n) \/ n = num'
    BY <1>0, <1>1, <2>1 DEF Digested, NumbersOf
  <2>4. Counted' = Counted
    BY <1>1 DEF Counted
  <2> QED BY <1>0, <1>1, <2>1, <2>2, <2>3, <2>4 DEF Digested
<1> QED BY <1>2, <1>3, <1>4, <1>5, <1>6, <1>7 DEF ListInv

LEMMA ListSendOut ==
  ASSUME NEW k, List(k)!ArchiveAssumption, ListInv(k), List(k)!SendOut
  PROVE  ListInv(k)'
<1>0. ListTypes(k) /\ HolderIs(k) /\ Archived /\ SentOnceOnly /\ WholeUpToNum(k) /\ Digested(k) /\ k.numbers \in Nat
  BY DEF ListInv, List!ArchiveAssumption
<1> DEFINE u == List(k)!Free
<1>u. u = [who |-> u.who, at |-> u.at, post |-> u.post] /\ u.who = "nobody"
  BY FreeIs
<1> HIDE DEF u
<1>1. /\ SendAt("out") /\ archive_lock' = [archive_lock EXCEPT !.at = "exit"]
      /\ sent' = sent \cup {LineOf(num, archive_lock.post)}
      /\ waiting' = waiting /\ num' = num /\ dignum' = dignum /\ archive' = archive /\ index' = index
      /\ digest' = digest /\ digested' = digested /\ get' = get /\ sendFailures' = sendFailures
      /\ archive_crashes' = archive_crashes
  BY DEF List!SendOut, List!Sends, List!Step, List!files, List!readers, List!faults, List!Line, SendAt,
    LineOf, u
<1>l. PICK l0, q : q = archive_lock.post /\ l0 = [n |-> num, post |-> q]
  OBVIOUS
<1>m. /\ sent' = sent \cup {l0} /\ l0.n = num /\ l0.post = q /\ num \in NumbersOf(k) /\ q \in k.posts /\ q \in waiting
      /\ archive_lock' = [who |-> "send", at |-> "exit", post |-> q]
      /\ l0 \in index /\ archive[num] = FileOf(q) /\ \A l \in sent : l.n < num
  <2>1. num \in NumbersOf(k)
    BY <1>0, <1>1 DEF ListTypes, HolderIs, NumbersOf
  <2>2. q \in waiting /\ q \in k.posts
    BY <1>0, <1>1, <1>l DEF ListTypes, HolderIs, SendAt
  <2>3. archive_lock' = [who |-> "send", at |-> "exit", post |-> q]
    BY <1>0, <1>1, <1>l DEF HolderIs, SendAt
  <2>4. LineOf(num, archive_lock.post) = l0 /\ l0.n = num /\ l0.post = q
    BY <1>l DEF LineOf
  <2>5. l0 \in index /\ archive[num] = FileOf(q) /\ \A l \in sent : l.n < num
    BY <1>0, <1>1, <1>l, <2>4 DEF Archived
  <2> QED BY <1>1, <2>1, <2>2, <2>3, <2>4, <2>5
<1>n. /\ archive_lock'.who = "send" /\ archive_lock'.at = "exit" /\ archive_lock'.post = q
      /\ \A at : SendAt(at)' <=> at = "exit"
  BY <1>m DEF SendAt
<1>2. ListTypes(k)'
  <2>1. l0 \in [n : NumbersOf(k), post : k.posts]
    BY <1>l, <1>m
  <2> QED BY <1>0, <1>1, <1>m, <2>1 DEF ListTypes
<1>3. HolderIs(k)'
  BY <1>0, <1>1, <1>u DEF ListTypes, HolderIs, SendAt, SendStages, Digesting, u
<1>4. Archived'
  <2>1. num \in Nat /\ \A l \in sent : l.n \in Nat
    BY <1>0 DEF ListTypes, NumbersOf
  <2> QED BY <1>0, <1>1, <1>m, <1>n, <2>1 DEF Archived
<1>5. SentOnceOnly'
  <2> SUFFICES ASSUME archive_crashes = 0 PROVE SentOnceOnly'
    BY <1>1 DEF SentOnceOnly
  <2>1. \A l \in sent : l.post \notin waiting /\ l.post # q /\ \A m \in sent : m.post = l.post => m = l
    BY <1>0, <1>1, <1>m DEF SentOnceOnly, SendAt
  <2> QED BY <1>1, <1>m, <1>n, <2>1 DEF SentOnceOnly
<1>6. WholeUpToNum(k)'
  BY <1>0, <1>1, <1>u DEF ListTypes, HolderIs, SendAt, WholeUpToNum, NumbersOf, Archived, FileOf
<1>7. Digested(k)'
  <2> SUFFICES ASSUME k.sendfailures = 0, archive_crashes = 0 PROVE Digested(k)'
    BY <1>1 DEF Digested
  <2>1. /\ \A l \in sent : l.post # q
        /\ dignum < num /\ digest.at \notin Digesting /\ num \in Nat /\ dignum \in Nat
    BY <1>0, <1>1, <1>m DEF SentOnceOnly, SendAt, Digested, HolderIs, ListTypes
  <2>2. digested[q] = 0
    BY <1>0, <1>m, <2>1 DEF Digested
  <2>3. Counted' = dignum /\ Counted = dignum
    BY <1>1, <2>1 DEF Counted, Digesting
  <2>4. digested[l0.post] = IF l0.n <= dignum THEN 1 ELSE 0
    BY <1>m, <2>1, <2>2
  <2>5. \A l \in sent' : digested[l.post] = IF l.n <= dignum THEN 1 ELSE 0
    BY <1>0, <1>m, <2>3, <2>4 DEF Digested
  <2>6. \A n \in NumbersOf(k) : n <= num => \E l \in sent' : l.n = n
    BY <1>0, <1>m DEF Digested
  <2>7. \A p \in k.posts : digested[p] # 0 => \E l \in sent' : l.post = p
    BY <1>0, <1>m DEF Digested
  <2>8. digest.at \notin {"read", "number", "out"} /\ dignum <= num
    BY <2>1 DEF Digesting
  <2>9. digest.at # "idle" => digest.max <= num
    BY <1>0 DEF Digested
  <2> QED BY <1>1, <1>n, <2>1, <2>3, <2>5, <2>6, <2>7, <2>8, <2>9 DEF Digested
<1> QED BY <1>2, <1>3, <1>4, <1>5, <1>6, <1>7 DEF ListInv

LEMMA ListSendExit ==
  ASSUME NEW k, List(k)!ArchiveAssumption, ListInv(k), List(k)!SendExit
  PROVE  ListInv(k)'
<1>0. ListTypes(k) /\ HolderIs(k) /\ Archived /\ SentOnceOnly /\ WholeUpToNum(k) /\ Digested(k) /\ k.numbers \in Nat
  BY DEF ListInv, List!ArchiveAssumption
<1> DEFINE u == List(k)!Free
<1>u. u = [who |-> u.who, at |-> u.at, post |-> u.post] /\ u.who = "nobody"
  BY FreeIs
<1> HIDE DEF u
<1>1. /\ SendAt("exit") /\ archive_lock' = u /\ waiting' = waiting \ {archive_lock.post}
      /\ num' = num /\ dignum' = dignum /\ archive' = archive /\ index' = index /\ digest' = digest
      /\ sent' = sent /\ digested' = digested /\ get' = get /\ sendFailures' = sendFailures
      /\ archive_crashes' = archive_crashes
  BY DEF List!SendExit, List!Sends, List!files, List!readers, List!faults, SendAt, u
<1>2. ListTypes(k)'
  BY <1>0, <1>1 DEF ListTypes, HolderIs
<1>3. HolderIs(k)'
  BY <1>0, <1>1, <1>u DEF ListTypes, HolderIs, SendAt, SendStages, Digesting, u
<1>4. Archived'
  BY <1>0, <1>1, <1>u DEF ListTypes, HolderIs, SendAt, Archived, NumbersOf
<1>5. SentOnceOnly'
  BY <1>0, <1>1, <1>u DEF ListTypes, HolderIs, SendAt, SentOnceOnly
<1>6. WholeUpToNum(k)'
  BY <1>0, <1>1, <1>u DEF ListTypes, HolderIs, SendAt, WholeUpToNum, NumbersOf, Archived, FileOf
<1>7. Digested(k)'
  BY <1>0, <1>1, <1>u DEF ListTypes, HolderIs, SendAt, Digested, NumbersOf, Digesting, Counted
<1> QED BY <1>2, <1>3, <1>4, <1>5, <1>6, <1>7 DEF ListInv

LEMMA ListSendFails ==
  ASSUME NEW k, List(k)!ArchiveAssumption, ListInv(k), List(k)!SendFails
  PROVE  ListInv(k)'
<1>0. ListTypes(k) /\ HolderIs(k) /\ Archived /\ SentOnceOnly /\ WholeUpToNum(k) /\ Digested(k) /\ k.numbers \in Nat
  BY DEF ListInv, List!ArchiveAssumption
<1> DEFINE u == List(k)!Free
<1>u. u = [who |-> u.who, at |-> u.at, post |-> u.post] /\ u.who = "nobody"
  BY FreeIs
<1> HIDE DEF u
<1>1. /\ SendAt("out") /\ archive_lock' = [archive_lock EXCEPT !.at = "give_back"]
      /\ sendFailures < k.sendfailures /\ sendFailures' = sendFailures + 1
      /\ waiting' = waiting /\ num' = num /\ dignum' = dignum /\ archive' = archive /\ index' = index
      /\ digest' = digest /\ sent' = sent /\ digested' = digested /\ get' = get
      /\ archive_crashes' = archive_crashes
  BY DEF List!SendFails, List!Sends, List!Step, List!files, List!readers, SendAt, u
<1>2. ListTypes(k)'
  BY <1>0, <1>1 DEF ListTypes, HolderIs
<1>3. HolderIs(k)'
  BY <1>0, <1>1, <1>u DEF ListTypes, HolderIs, SendAt, SendStages, Digesting, u
<1>4. Archived'
  BY <1>0, <1>1, <1>u DEF ListTypes, HolderIs, SendAt, Archived, NumbersOf
<1>5. SentOnceOnly'
  BY <1>0, <1>1, <1>u DEF ListTypes, HolderIs, SendAt, SentOnceOnly
<1>6. WholeUpToNum(k)'
  BY <1>0, <1>1, <1>u DEF ListTypes, HolderIs, SendAt, WholeUpToNum, NumbersOf, Archived, FileOf
<1>7. Digested(k)'
  BY <1>0, <1>1, <1>u DEF ListTypes, HolderIs, SendAt, Digested, NumbersOf, Digesting, Counted
<1> QED BY <1>2, <1>3, <1>4, <1>5, <1>6, <1>7 DEF ListInv

LEMMA ListSendGiveBack ==
  ASSUME NEW k, List(k)!ArchiveAssumption, ListInv(k), List(k)!SendGiveBack
  PROVE  ListInv(k)'
<1>0. ListTypes(k) /\ HolderIs(k) /\ Archived /\ SentOnceOnly /\ WholeUpToNum(k) /\ Digested(k) /\ k.numbers \in Nat
  BY DEF ListInv, List!ArchiveAssumption
<1> DEFINE u == List(k)!Free
<1>u. u = [who |-> u.who, at |-> u.at, post |-> u.post] /\ u.who = "nobody"
  BY FreeIs
<1> HIDE DEF u
<1>1. /\ SendAt("give_back") /\ archive_lock' = u /\ num' = num - 1
      /\ waiting' = waiting /\ dignum' = dignum /\ archive' = archive /\ index' = index
      /\ digest' = digest /\ sent' = sent /\ digested' = digested /\ get' = get
      /\ sendFailures' = sendFailures /\ archive_crashes' = archive_crashes
  BY DEF List!SendGiveBack, List!Sends, List!readers, List!faults, SendAt, u
<1>2. ListTypes(k)'
  BY <1>0, <1>1 DEF ListTypes, HolderIs
<1>3. HolderIs(k)'
  BY <1>0, <1>1, <1>u DEF ListTypes, HolderIs, SendAt, SendStages, Digesting, u
<1>4. Archived'
  BY <1>0, <1>1, <1>u DEF ListTypes, HolderIs, SendAt, Archived, NumbersOf
<1>5. SentOnceOnly'
  BY <1>0, <1>1, <1>u DEF ListTypes, HolderIs, SendAt, SentOnceOnly
<1>6. WholeUpToNum(k)'
  BY <1>0, <1>1, <1>u DEF ListTypes, HolderIs, SendAt, WholeUpToNum, NumbersOf, Archived, FileOf
<1>7. Digested(k)'
  BY <1>0, <1>1 DEF WholeUpToNum, Digested
<1> QED BY <1>2, <1>3, <1>4, <1>5, <1>6, <1>7 DEF ListInv

LEMMA ListDigestNum ==
  ASSUME NEW k, List(k)!ArchiveAssumption, ListInv(k), List(k)!DigestNum
  PROVE  ListInv(k)'
<1>0. ListTypes(k) /\ HolderIs(k) /\ Archived /\ SentOnceOnly /\ WholeUpToNum(k) /\ Digested(k) /\ k.numbers \in Nat
  BY DEF ListInv, List!ArchiveAssumption
<1> DEFINE u == List(k)!Free
<1>u. u = [who |-> u.who, at |-> u.at, post |-> u.post] /\ u.who = "nobody"
  BY FreeIs
<1> HIDE DEF u
<1>1. /\ digest.at = "idle" /\ num > dignum
      /\ digest' = [at |-> "lock", max |-> num, prev |-> 0, has |-> {}]
      /\ waiting' = waiting /\ num' = num /\ dignum' = dignum /\ archive' = archive /\ index' = index
      /\ archive_lock' = archive_lock /\ sent' = sent /\ digested' = digested /\ get' = get
      /\ sendFailures' = sendFailures /\ archive_crashes' = archive_crashes
  BY DEF List!DigestNum, List!files, List!faults, List!NoDigest, u
<1>2. ListTypes(k)'
  BY <1>0, <1>1 DEF ListTypes, HolderIs
<1>3. HolderIs(k)'
  BY <1>0, <1>1, <1>u DEF ListTypes, HolderIs, SendAt, SendStages, Digesting, u
<1>4. Archived'
  BY <1>0, <1>1, <1>u DEF ListTypes, HolderIs, SendAt, Archived, NumbersOf
<1>5. SentOnceOnly'
  BY <1>0, <1>1, <1>u DEF ListTypes, HolderIs, SendAt, SentOnceOnly
<1>6. WholeUpToNum(k)'
  BY <1>0, <1>1, <1>u DEF ListTypes, HolderIs, SendAt, WholeUpToNum, NumbersOf, Archived, FileOf
<1>7. Digested(k)'
  BY <1>0, <1>1, <1>u DEF ListTypes, HolderIs, SendAt, Digested, NumbersOf, Digesting, Counted
<1> QED BY <1>2, <1>3, <1>4, <1>5, <1>6, <1>7 DEF ListInv

LEMMA ListDigestLock ==
  ASSUME NEW k, List(k)!ArchiveAssumption, ListInv(k), List(k)!DigestLock
  PROVE  ListInv(k)'
<1>0. ListTypes(k) /\ HolderIs(k) /\ Archived /\ SentOnceOnly /\ WholeUpToNum(k) /\ Digested(k) /\ k.numbers \in Nat
  BY DEF ListInv, List!ArchiveAssumption
<1> DEFINE u == List(k)!Free
<1>u. u = [who |-> u.who, at |-> u.at, post |-> u.post] /\ u.who = "nobody"
  BY FreeIs
<1> HIDE DEF u
<1>1. /\ digest.at = "lock" /\ archive_lock = u
      /\ \/ /\ digest.max > dignum /\ archive_lock' = [u EXCEPT !.who = "digest"]
            /\ digest' = [digest EXCEPT !.at = "read", !.prev = dignum]
         \/ archive_lock' = u /\ digest' = [at |-> "idle", max |-> 0, prev |-> 0, has |-> {}]
      /\ waiting' = waiting /\ num' = num /\ dignum' = dignum /\ archive' = archive /\ index' = index
      /\ sent' = sent /\ digested' = digested /\ get' = get /\ sendFailures' = sendFailures
      /\ archive_crashes' = archive_crashes
  BY DEF List!DigestLock, List!files, List!faults, List!NoDigest, u
<1>d. /\ digest \in [at : {"idle", "lock"} \cup Digesting, max : 0 .. k.numbers, prev : Nat, has : SUBSET (k.posts \cup {"none"})]
      /\ dignum \in Nat
  BY <1>0 DEF ListTypes
<1>e. /\ \A at : ~SendAt(at) /\ ~SendAt(at)'
      /\ archive_lock' = [who |-> archive_lock'.who, at |-> archive_lock'.at, post |-> archive_lock'.post]
  <2>1. archive_lock' = [who |-> "digest", at |-> u.at, post |-> u.post] \/ archive_lock' = u
    BY <1>1, <1>u
  <2> QED BY <1>1, <1>u, <2>1 DEF SendAt
<1>f. ASSUME digest.max > dignum, archive_lock' = [u EXCEPT !.who = "digest"], digest' = [digest EXCEPT !.at = "read", !.prev = dignum]
      PROVE  ListTypes(k)' /\ HolderIs(k)' /\ Digested(k)'
  <2>1. archive_lock'.who = "digest"
    BY <1>f, <1>u
  <2>2. digest' = [at |-> "read", max |-> digest.max, prev |-> dignum, has |-> digest.has]
    BY <1>d, <1>f
  <2>3. ListTypes(k)'
    BY <1>0, <1>1, <1>d, <2>2 DEF ListTypes, Digesting
  <2>4. HolderIs(k)'
    BY <1>0, <1>1, <1>e, <2>1, <2>2 DEF HolderIs, Digesting
  <2>5. Digested(k)'
    BY <1>0, <1>1, <1>d, <1>e, <1>f, <2>2 DEF Digested, Digesting, Counted
  <2> QED BY <2>3, <2>4, <2>5
<1>g. ASSUME archive_lock' = u, digest' = [at |-> "idle", max |-> 0, prev |-> 0, has |-> {}]
      PROVE  ListTypes(k)' /\ HolderIs(k)' /\ Digested(k)'
  <2>1. archive_lock'.who = "nobody" /\ archive_lock' = List(k)!Free
    BY <1>g, <1>u DEF u
  <2>3. ListTypes(k)'
    BY <1>0, <1>1, <1>g DEF ListTypes
  <2>4. HolderIs(k)'
    BY <1>0, <1>1, <1>e, <1>g, <2>1 DEF HolderIs, Digesting
  <2>5. Digested(k)'
    BY <1>0, <1>1, <1>e, <1>g DEF Digested, Digesting, Counted
  <2> QED BY <2>3, <2>4, <2>5
<1>2. ListTypes(k)'
  BY <1>1, <1>f, <1>g
<1>3. HolderIs(k)'
  BY <1>1, <1>f, <1>g
<1>4. Archived'
  BY <1>0, <1>1, <1>u DEF ListTypes, HolderIs, SendAt, Archived, NumbersOf
<1>5. SentOnceOnly'
  BY <1>0, <1>1, <1>u DEF ListTypes, HolderIs, SendAt, SentOnceOnly
<1>6. WholeUpToNum(k)'
  BY <1>0, <1>1, <1>u DEF ListTypes, HolderIs, SendAt, WholeUpToNum, NumbersOf, Archived, FileOf
<1>7. Digested(k)'
  BY <1>1, <1>f, <1>g
<1> QED BY <1>2, <1>3, <1>4, <1>5, <1>6, <1>7 DEF ListInv

LEMMA ListDigestRead ==
  ASSUME NEW k, List(k)!ArchiveAssumption, ListInv(k), List(k)!DigestRead
  PROVE  ListInv(k)'
<1>0. ListTypes(k) /\ HolderIs(k) /\ Archived /\ SentOnceOnly /\ WholeUpToNum(k) /\ Digested(k) /\ k.numbers \in Nat
  BY DEF ListInv, List!ArchiveAssumption
<1> DEFINE u == List(k)!Free
<1>u. u = [who |-> u.who, at |-> u.at, post |-> u.post] /\ u.who = "nobody"
  BY FreeIs
<1> HIDE DEF u
<1>1. /\ digest.at = "read"
      /\ digest' = [digest EXCEPT !.at = "number",
                      !.has = {archive[n].post : n \in {n \in digest.prev + 1 .. digest.max : archive[n].x}}]
      /\ waiting' = waiting /\ num' = num /\ dignum' = dignum /\ archive' = archive /\ index' = index
      /\ archive_lock' = archive_lock /\ sent' = sent /\ digested' = digested /\ get' = get
      /\ sendFailures' = sendFailures /\ archive_crashes' = archive_crashes
  BY DEF List!DigestRead, List!files, List!faults, u
<1> DEFINE has == {archive[n].post : n \in {n \in digest.prev + 1 .. digest.max : archive[n].x}}
<1>d. /\ digest \in [at : {"idle", "lock"} \cup Digesting, max : 0 .. k.numbers, prev : Nat, has : SUBSET (k.posts \cup {"none"})]
      /\ dignum \in Nat
  BY <1>0 DEF ListTypes
<1>e. digest' = [at |-> "number", max |-> digest.max, prev |-> digest.prev, has |-> has]
  BY <1>1, <1>d
<1>f. \A p : p \in has <=> \E n \in digest.prev + 1 .. digest.max : archive[n].x /\ archive[n].post = p
  OBVIOUS
<1> HIDE DEF has
<1>2. ListTypes(k)'
  <2>1. \A n \in digest.prev + 1 .. digest.max : n \in NumbersOf(k)
    BY <1>0, <1>d DEF NumbersOf
  <2>2. \A n \in NumbersOf(k) : archive[n].post \in k.posts \cup {"none"}
    BY <1>0 DEF ListTypes
  <2>3. has \in SUBSET (k.posts \cup {"none"})
    BY <1>f, <2>1, <2>2
  <2>4. digest' \in [at : {"idle", "lock"} \cup Digesting, max : 0 .. k.numbers, prev : Nat, has : SUBSET (k.posts \cup {"none"})]
    BY <1>d, <1>e, <2>3 DEF Digesting
  <2> QED BY <1>0, <1>1, <2>4 DEF ListTypes
<1>3. HolderIs(k)'
  BY <1>0, <1>1, <1>u DEF ListTypes, HolderIs, SendAt, SendStages, Digesting, u
<1>4. Archived'
  BY <1>0, <1>1, <1>u DEF ListTypes, HolderIs, SendAt, Archived, NumbersOf
<1>5. SentOnceOnly'
  BY <1>0, <1>1, <1>u DEF ListTypes, HolderIs, SendAt, SentOnceOnly
<1>6. WholeUpToNum(k)'
  BY <1>0, <1>1, <1>u DEF ListTypes, HolderIs, SendAt, WholeUpToNum, NumbersOf, Archived, FileOf
<1>7. Digested(k)'
  <2> SUFFICES ASSUME k.sendfailures = 0, archive_crashes = 0 PROVE Digested(k)'
    BY <1>1 DEF Digested
  <2>1. archive_lock.who = "digest" /\ \A at : ~SendAt(at) /\ ~SendAt(at)'
    BY <1>0, <1>1 DEF HolderIs, SendAt, Digesting
  <2>2. /\ digest.prev = dignum /\ digest.prev < digest.max /\ digest.max <= num /\ dignum <= num
        /\ \A n \in NumbersOf(k) : n <= num => \E l \in sent : l.n = n
        /\ \A p \in k.posts : digested[p] # 0 => \E l \in sent : l.post = p
        /\ \A l \in sent : digested[l.post] = IF l.n <= dignum THEN 1 ELSE 0
    BY <1>0, <1>1, <2>1 DEF Digested, Digesting, Counted
  <2>3. \A n \in digest.prev + 1 .. digest.max : n \in NumbersOf(k) /\ n <= num
    <3>1. num \in Nat
      BY <1>0 DEF ListTypes
    <3> QED BY <1>0, <1>d, <2>2, <3>1 DEF NumbersOf
  <2>4. \A l \in sent : archive[l.n].post = l.post /\ archive[l.n].x /\ l.n \in NumbersOf(k)
    <3>1. \A l \in sent : archive[l.n] = [post |-> l.post, x |-> TRUE, whole |-> TRUE]
      BY <1>0 DEF Archived, FileOf
    <3>2. \A l \in sent : l.n \in NumbersOf(k)
      BY <1>0 DEF ListTypes
    <3>3. ASSUME NEW l \in sent PROVE archive[l.n].post = l.post /\ archive[l.n].x
      <4>1. PICK f : f = archive[l.n]
        OBVIOUS
      <4>2. f = [post |-> l.post, x |-> TRUE, whole |-> TRUE]
        BY <3>1, <4>1
      <4>3. f.post = l.post /\ f.x = TRUE
        BY <4>2
      <4> QED BY <4>1, <4>3
    <3> QED BY <3>2, <3>3
  <2>5. \A p \in has : \E l \in sent : l.post = p /\ digest.prev < l.n /\ l.n <= digest.max
    <3> SUFFICES ASSUME NEW p \in has PROVE \E l \in sent : l.post = p /\ digest.prev < l.n /\ l.n <= digest.max
      OBVIOUS
    <3>1. PICK n \in digest.prev + 1 .. digest.max : archive[n].x /\ archive[n].post = p
      BY <1>f
    <3>2. PICK l \in sent : l.n = n
      BY <2>2, <2>3
    <3>3. l.post = p
      BY <2>4, <3>1, <3>2
    <3>4. digest.prev < n /\ n <= digest.max
      BY <1>d
    <3> QED BY <3>2, <3>3, <3>4
  <2>6. \A l, m \in sent : m.post = l.post => m = l
    BY <1>0 DEF SentOnceOnly
  <2>7. ASSUME NEW l \in sent PROVE l.post \in has <=> digest.prev < l.n /\ l.n <= digest.max
    <3>1. CASE l.post \in has
      BY <2>5, <2>6, <3>1
    <3>2. CASE digest.prev < l.n /\ l.n <= digest.max
      <4>1. l.n \in digest.prev + 1 .. digest.max
        BY <1>d, <2>4, <3>2 DEF NumbersOf
      <4> QED BY <1>f, <2>4, <3>2, <4>1
    <3> QED BY <3>1, <3>2
  <2>8. Counted' = dignum
    BY <1>1, <1>e DEF Counted
  <2>9. digest'.at = "number" /\ digest'.max = digest.max /\ digest'.prev = digest.prev /\ digest'.has = has
    BY <1>e
  <2>10. \A l \in sent : digested[l.post] = IF l.n <= Counted' THEN 1 ELSE 0
    BY <2>2, <2>8
  <2>11. \A p \in has : \E l \in sent : l.post = p
    BY <2>5
  <2>12. \A l \in sent : l.post \in has <=> digest.prev < l.n /\ l.n <= digest.max
    BY <2>7
  <2> QED BY <1>1, <2>1, <2>2, <2>9, <2>10, <2>11, <2>12 DEF Digested, Digesting
<1> QED BY <1>2, <1>3, <1>4, <1>5, <1>6, <1>7 DEF ListInv

LEMMA ListDigestNumber ==
  ASSUME NEW k, List(k)!ArchiveAssumption, ListInv(k), List(k)!DigestNumber
  PROVE  ListInv(k)'
<1>0. ListTypes(k) /\ HolderIs(k) /\ Archived /\ SentOnceOnly /\ WholeUpToNum(k) /\ Digested(k) /\ k.numbers \in Nat
  BY DEF ListInv, List!ArchiveAssumption
<1> DEFINE u == List(k)!Free
<1>u. u = [who |-> u.who, at |-> u.at, post |-> u.post] /\ u.who = "nobody"
  BY FreeIs
<1> HIDE DEF u
<1>1. /\ digest.at = "number" /\ digest' = [digest EXCEPT !.at = "out"] /\ dignum' = digest.max
      /\ waiting' = waiting /\ num' = num /\ archive' = archive /\ index' = index
      /\ archive_lock' = archive_lock /\ sent' = sent /\ digested' = digested /\ get' = get
      /\ sendFailures' = sendFailures /\ archive_crashes' = archive_crashes
  BY DEF List!DigestNumber, List!faults, u
<1>2. ListTypes(k)'
  <2>1. digest \in [at : {"idle", "lock"} \cup Digesting, max : 0 .. k.numbers, prev : Nat, has : SUBSET (k.posts \cup {"none"})]
    BY <1>0 DEF ListTypes
  <2>2. digest' = [at |-> "out", max |-> digest.max, prev |-> digest.prev, has |-> digest.has]
    BY <1>1, <2>1
  <2> QED BY <1>0, <1>1, <2>1, <2>2 DEF ListTypes, Digesting
<1>3. HolderIs(k)'
  BY <1>0, <1>1, <1>u DEF ListTypes, HolderIs, SendAt, SendStages, Digesting, u
<1>4. Archived'
  BY <1>0, <1>1, <1>u DEF ListTypes, HolderIs, SendAt, Archived, NumbersOf
<1>5. SentOnceOnly'
  BY <1>0, <1>1, <1>u DEF ListTypes, HolderIs, SendAt, SentOnceOnly
<1>6. WholeUpToNum(k)'
  BY <1>0, <1>1, <1>u DEF ListTypes, HolderIs, SendAt, WholeUpToNum, NumbersOf, Archived, FileOf
<1>7. Digested(k)'
  BY <1>0, <1>1, <1>u DEF ListTypes, HolderIs, SendAt, Digested, NumbersOf, Digesting, Counted
<1> QED BY <1>2, <1>3, <1>4, <1>5, <1>6, <1>7 DEF ListInv

LEMMA ListDigestOut ==
  ASSUME NEW k, List(k)!ArchiveAssumption, ListInv(k), List(k)!DigestOut
  PROVE  ListInv(k)'
<1>0. ListTypes(k) /\ HolderIs(k) /\ Archived /\ SentOnceOnly /\ WholeUpToNum(k) /\ Digested(k) /\ k.numbers \in Nat
  BY DEF ListInv, List!ArchiveAssumption
<1> DEFINE u == List(k)!Free
<1>u. u = [who |-> u.who, at |-> u.at, post |-> u.post] /\ u.who = "nobody"
  BY FreeIs
<1> HIDE DEF u
<1>1. /\ digest.at = "out" /\ digest' = [at |-> "idle", max |-> 0, prev |-> 0, has |-> {}] /\ archive_lock' = u
      /\ digested' = [p \in k.posts |-> digested[p] + (IF p \in digest.has THEN 1 ELSE 0)]
      /\ waiting' = waiting /\ num' = num /\ dignum' = dignum /\ archive' = archive /\ index' = index
      /\ sent' = sent /\ get' = get /\ sendFailures' = sendFailures /\ archive_crashes' = archive_crashes
  BY DEF List!DigestOut, List!files, List!faults, List!NoDigest, u
<1>2. ListTypes(k)'
  BY <1>0, <1>1 DEF ListTypes, HolderIs
<1>3. HolderIs(k)'
  BY <1>0, <1>1, <1>u DEF ListTypes, HolderIs, SendAt, SendStages, Digesting, u
<1>4. Archived'
  BY <1>0, <1>1, <1>u DEF ListTypes, HolderIs, SendAt, Archived, NumbersOf
<1>5. SentOnceOnly'
  BY <1>0, <1>1, <1>u DEF ListTypes, HolderIs, SendAt, SentOnceOnly
<1>6. WholeUpToNum(k)'
  BY <1>0, <1>1, <1>u DEF ListTypes, HolderIs, SendAt, WholeUpToNum, NumbersOf, Archived, FileOf
<1>7. Digested(k)'
  BY <1>0, <1>1, <1>u DEF ListTypes, HolderIs, SendAt, Digested, NumbersOf, Digesting, Counted
<1> QED BY <1>2, <1>3, <1>4, <1>5, <1>6, <1>7 DEF ListInv

LEMMA ListDigestFails ==
  ASSUME NEW k, List(k)!ArchiveAssumption, ListInv(k), List(k)!DigestFails
  PROVE  ListInv(k)'
<1>0. ListTypes(k) /\ HolderIs(k) /\ Archived /\ SentOnceOnly /\ WholeUpToNum(k) /\ Digested(k) /\ k.numbers \in Nat
  BY DEF ListInv, List!ArchiveAssumption
<1> DEFINE u == List(k)!Free
<1>u. u = [who |-> u.who, at |-> u.at, post |-> u.post] /\ u.who = "nobody"
  BY FreeIs
<1> HIDE DEF u
<1>1. /\ digest.at = "out" /\ digest' = [at |-> "idle", max |-> 0, prev |-> 0, has |-> {}] /\ archive_lock' = u
      /\ dignum' = digest.prev
      /\ waiting' = waiting /\ num' = num /\ archive' = archive /\ index' = index /\ sent' = sent
      /\ digested' = digested /\ get' = get /\ sendFailures' = sendFailures
      /\ archive_crashes' = archive_crashes
  BY DEF List!DigestFails, List!NoDigest, u
<1>2. ListTypes(k)'
  BY <1>0, <1>1 DEF ListTypes, HolderIs
<1>3. HolderIs(k)'
  BY <1>0, <1>1, <1>u DEF ListTypes, HolderIs, SendAt, SendStages, Digesting, u
<1>4. Archived'
  BY <1>0, <1>1, <1>u DEF ListTypes, HolderIs, SendAt, Archived, NumbersOf
<1>5. SentOnceOnly'
  BY <1>0, <1>1, <1>u DEF ListTypes, HolderIs, SendAt, SentOnceOnly
<1>6. WholeUpToNum(k)'
  BY <1>0, <1>1, <1>u DEF ListTypes, HolderIs, SendAt, WholeUpToNum, NumbersOf, Archived, FileOf
<1>7. Digested(k)'
  BY <1>0, <1>1, <1>u DEF ListTypes, HolderIs, SendAt, Digested, NumbersOf, Digesting, Counted
<1> QED BY <1>2, <1>3, <1>4, <1>5, <1>6, <1>7 DEF ListInv

LEMMA ListGetNum ==
  ASSUME NEW k, List(k)!ArchiveAssumption, ListInv(k), List(k)!GetNum
  PROVE  ListInv(k)'
<1>0. ListTypes(k) /\ HolderIs(k) /\ Archived /\ SentOnceOnly /\ WholeUpToNum(k) /\ Digested(k) /\ k.numbers \in Nat
  BY DEF ListInv, List!ArchiveAssumption
<1> DEFINE u == List(k)!Free
<1>u. u = [who |-> u.who, at |-> u.at, post |-> u.post] /\ u.who = "nobody"
  BY FreeIs
<1> HIDE DEF u
<1>1. /\ get' = num
      /\ waiting' = waiting /\ num' = num /\ dignum' = dignum /\ archive' = archive /\ index' = index
      /\ archive_lock' = archive_lock /\ digest' = digest /\ sent' = sent /\ digested' = digested
      /\ sendFailures' = sendFailures /\ archive_crashes' = archive_crashes
  BY DEF List!GetNum, List!files, List!faults, u
<1>2. ListTypes(k)'
  BY <1>0, <1>1 DEF ListTypes, HolderIs
<1>3. HolderIs(k)'
  BY <1>0, <1>1, <1>u DEF ListTypes, HolderIs, SendAt, SendStages, Digesting, u
<1>4. Archived'
  BY <1>0, <1>1, <1>u DEF ListTypes, HolderIs, SendAt, Archived, NumbersOf
<1>5. SentOnceOnly'
  BY <1>0, <1>1, <1>u DEF ListTypes, HolderIs, SendAt, SentOnceOnly
<1>6. WholeUpToNum(k)'
  BY <1>0, <1>1, <1>u DEF ListTypes, HolderIs, SendAt, WholeUpToNum, NumbersOf, Archived, FileOf
<1>7. Digested(k)'
  BY <1>0, <1>1, <1>u DEF ListTypes, HolderIs, SendAt, Digested, NumbersOf, Digesting, Counted
<1> QED BY <1>2, <1>3, <1>4, <1>5, <1>6, <1>7 DEF ListInv

LEMMA ListGetRead ==
  ASSUME NEW k, List(k)!ArchiveAssumption, ListInv(k), NEW i \in NumbersOf(k), List(k)!GetRead(i)
  PROVE  ListInv(k)'
<1>0. ListTypes(k) /\ HolderIs(k) /\ Archived /\ SentOnceOnly /\ WholeUpToNum(k) /\ Digested(k) /\ k.numbers \in Nat
  BY DEF ListInv, List!ArchiveAssumption
<1> DEFINE u == List(k)!Free
<1>u. u = [who |-> u.who, at |-> u.at, post |-> u.post] /\ u.who = "nobody"
  BY FreeIs
<1> HIDE DEF u
<1>1. /\ get' = 0
      /\ waiting' = waiting /\ num' = num /\ dignum' = dignum /\ archive' = archive /\ index' = index
      /\ archive_lock' = archive_lock /\ digest' = digest /\ sent' = sent /\ digested' = digested
      /\ sendFailures' = sendFailures /\ archive_crashes' = archive_crashes
  BY DEF List!GetRead, List!files, List!faults, u
<1>2. ListTypes(k)'
  BY <1>0, <1>1 DEF ListTypes, HolderIs
<1>3. HolderIs(k)'
  BY <1>0, <1>1, <1>u DEF ListTypes, HolderIs, SendAt, SendStages, Digesting, u
<1>4. Archived'
  BY <1>0, <1>1, <1>u DEF ListTypes, HolderIs, SendAt, Archived, NumbersOf
<1>5. SentOnceOnly'
  BY <1>0, <1>1, <1>u DEF ListTypes, HolderIs, SendAt, SentOnceOnly
<1>6. WholeUpToNum(k)'
  BY <1>0, <1>1, <1>u DEF ListTypes, HolderIs, SendAt, WholeUpToNum, NumbersOf, Archived, FileOf
<1>7. Digested(k)'
  BY <1>0, <1>1, <1>u DEF ListTypes, HolderIs, SendAt, Digested, NumbersOf, Digesting, Counted
<1> QED BY <1>2, <1>3, <1>4, <1>5, <1>6, <1>7 DEF ListInv

LEMMA ListRebuild ==
  ASSUME NEW k, List(k)!ArchiveAssumption, ListInv(k), List(k)!Rebuild
  PROVE  ListInv(k)'
<1>0. ListTypes(k) /\ HolderIs(k) /\ Archived /\ SentOnceOnly /\ WholeUpToNum(k) /\ Digested(k) /\ k.numbers \in Nat
  BY DEF ListInv, List!ArchiveAssumption
<1> DEFINE u == List(k)!Free
<1>u. u = [who |-> u.who, at |-> u.at, post |-> u.post] /\ u.who = "nobody"
  BY FreeIs
<1> HIDE DEF u
<1>1. /\ archive_lock = u /\ index' = {LineOf(n, archive[n].post) : n \in {n \in 1 .. num : archive[n].x}}
      /\ waiting' = waiting /\ num' = num /\ dignum' = dignum /\ archive' = archive
      /\ archive_lock' = archive_lock /\ digest' = digest /\ sent' = sent /\ digested' = digested
      /\ get' = get /\ sendFailures' = sendFailures /\ archive_crashes' = archive_crashes
  BY DEF List!Rebuild, List!readers, List!faults, List!Line, LineOf, u
<1>2. ListTypes(k)'
  BY <1>0, <1>1 DEF ListTypes, HolderIs
<1>3. HolderIs(k)'
  BY <1>0, <1>1, <1>u DEF ListTypes, HolderIs, SendAt, SendStages, Digesting, u
<1>4. Archived'
  <2>1. \A at : ~SendAt(at)'
    BY <1>1, <1>u DEF SendAt
  <2>2. ASSUME NEW l \in sent PROVE l \in index'
    <3>1. l = LineOf(l.n, l.post) /\ l.n \in NumbersOf(k)
      BY <1>0 DEF ListTypes, LineOf
    <3>2. archive[l.n] = FileOf(l.post) /\ l.n <= num /\ num \in Nat
      BY <1>0 DEF Archived, ListTypes
    <3>3. l.n \in 1 .. num /\ archive[l.n].x /\ archive[l.n].post = l.post
      BY <3>1, <3>2 DEF NumbersOf, FileOf
    <3>4. PICK i : i = l.n
      OBVIOUS
    <3>5. i \in {n \in 1 .. num : archive[n].x} /\ l = LineOf(i, archive[i].post)
      BY <3>1, <3>3, <3>4
    <3> QED BY <1>1, <3>5
  <2> QED BY <1>0, <1>1, <2>1, <2>2 DEF Archived
<1>5. SentOnceOnly'
  BY <1>0, <1>1, <1>u DEF ListTypes, HolderIs, SendAt, SentOnceOnly
<1>6. WholeUpToNum(k)'
  BY <1>0, <1>1, <1>u DEF ListTypes, HolderIs, SendAt, WholeUpToNum, NumbersOf, Archived, FileOf
<1>7. Digested(k)'
  BY <1>0, <1>1, <1>u DEF ListTypes, HolderIs, SendAt, Digested, NumbersOf, Digesting, Counted
<1> QED BY <1>2, <1>3, <1>4, <1>5, <1>6, <1>7 DEF ListInv

LEMMA ListKillHolder ==
  ASSUME NEW k, List(k)!ArchiveAssumption, ListInv(k), List(k)!KillHolder
  PROVE  ListInv(k)'
<1>0. ListTypes(k) /\ HolderIs(k) /\ Archived /\ SentOnceOnly /\ WholeUpToNum(k) /\ Digested(k) /\ k.numbers \in Nat
  BY DEF ListInv, List!ArchiveAssumption
<1> DEFINE u == List(k)!Free
<1>u. u = [who |-> u.who, at |-> u.at, post |-> u.post] /\ u.who = "nobody"
  BY FreeIs
<1> HIDE DEF u
<1>1. /\ archive_lock' = u /\ archive_crashes' = archive_crashes + 1
      /\ digest' = IF archive_lock.who = "digest" THEN [at |-> "idle", max |-> 0, prev |-> 0, has |-> {}] ELSE digest
      /\ waiting' = waiting /\ num' = num /\ dignum' = dignum /\ archive' = archive /\ index' = index
      /\ sent' = sent /\ digested' = digested /\ get' = get /\ sendFailures' = sendFailures
  BY DEF List!KillHolder, List!files, List!NoDigest, u
<1>2. ListTypes(k)'
  BY <1>0, <1>1 DEF ListTypes, HolderIs
<1>3. HolderIs(k)'
  BY <1>0, <1>1, <1>u DEF ListTypes, HolderIs, SendAt, SendStages, Digesting, u
<1>4. Archived'
  BY <1>0, <1>1, <1>u DEF ListTypes, HolderIs, SendAt, Archived, NumbersOf
<1>5. SentOnceOnly'
  BY <1>0, <1>1, <1>u DEF ListTypes, HolderIs, SendAt, SentOnceOnly
<1>6. WholeUpToNum(k)'
  BY <1>0, <1>1, <1>u DEF ListTypes, HolderIs, SendAt, WholeUpToNum, NumbersOf, Archived, FileOf
<1>7. Digested(k)'
  BY <1>0, <1>1, <1>u DEF ListTypes, HolderIs, SendAt, Digested, NumbersOf, Digesting, Counted
<1> QED BY <1>2, <1>3, <1>4, <1>5, <1>6, <1>7 DEF ListInv

LEMMA ListNext ==
  ASSUME NEW k, List(k)!ArchiveAssumption, ListInv(k), List(k)!Next
  PROVE  ListInv(k)'
<1>1. ASSUME NEW q \in k.posts, List(k)!SendStart(q) PROVE ListInv(k)'
  BY <1>1, ListSendStart
<1>2. CASE List(k)!SendIndex
  BY <1>2, ListSendIndex
<1>3. CASE List(k)!SendRefuse
  BY <1>3, ListSendRefuse
<1>4. CASE List(k)!SendArchive
  BY <1>4, ListSendArchive
<1>5. CASE List(k)!SendNumber
  BY <1>5, ListSendNumber
<1>6. CASE List(k)!SendOut
  BY <1>6, ListSendOut
<1>7. CASE List(k)!SendExit
  BY <1>7, ListSendExit
<1>8. CASE List(k)!SendFails
  BY <1>8, ListSendFails
<1>9. CASE List(k)!SendGiveBack
  BY <1>9, ListSendGiveBack
<1>10. CASE List(k)!DigestNum
  BY <1>10, ListDigestNum
<1>11. CASE List(k)!DigestLock
  BY <1>11, ListDigestLock
<1>12. CASE List(k)!DigestRead
  BY <1>12, ListDigestRead
<1>13. CASE List(k)!DigestNumber
  BY <1>13, ListDigestNumber
<1>14. CASE List(k)!DigestOut
  BY <1>14, ListDigestOut
<1>15. CASE List(k)!DigestFails
  BY <1>15, ListDigestFails
<1>16. CASE List(k)!GetNum
  BY <1>16, ListGetNum
<1>17. ASSUME NEW n \in NumbersOf(k), List(k)!GetRead(n) PROVE ListInv(k)'
  BY <1>17, ListGetRead
<1>18. CASE List(k)!Rebuild
  BY <1>18, ListRebuild
<1>19. CASE List(k)!KillHolder
  BY <1>19, ListKillHolder
<1> QED BY <1>1, <1>2, <1>3, <1>4, <1>5, <1>6, <1>7, <1>8, <1>9, <1>10, <1>11, <1>12, <1>13, <1>14,
  <1>15, <1>16, <1>17, <1>18, <1>19,
  Zenon DEF List!Next, List!SendStep, List!DigestStep, List!Numbers, NumbersOf

LEMMA ListStutter == ASSUME NEW k, ListInv(k), UNCHANGED archiveVars PROVE ListInv(k)'
<1>1. /\ waiting' = waiting /\ num' = num /\ dignum' = dignum /\ archive' = archive /\ index' = index
      /\ archive_lock' = archive_lock /\ digest' = digest /\ sent' = sent /\ digested' = digested
      /\ get' = get /\ sendFailures' = sendFailures /\ archive_crashes' = archive_crashes
  BY DEF archiveVars
<1>2. ListTypes(k)' /\ HolderIs(k)' /\ Archived'
  BY <1>1 DEF ListInv, ListTypes, HolderIs, Archived, SendAt
<1>3. SentOnceOnly' /\ WholeUpToNum(k)' /\ Digested(k)'
  BY <1>1 DEF ListInv, SentOnceOnly, WholeUpToNum, Digested, SendAt, Counted
<1> QED BY <1>2, <1>3 DEF ListInv

LEMMA ListKeeps ==
  ASSUME NEW k, ListInv(k)
  PROVE  /\ List(k)!ArchiveTells /\ List(k)!IndexTells /\ List(k)!SentOnce
         /\ k.sendfailures = 0 => List(k)!InOneDigest
<1>1. List(k)!ArchiveTells /\ List(k)!IndexTells
  BY DEF ListInv, Archived, FileOf, List!ArchiveTells, List!IndexTells
<1>2. List(k)!SentOnce
  BY DEF ListInv, SentOnceOnly, List!SentOnce
<1>3. k.sendfailures = 0 => List(k)!InOneDigest
  BY DEF ListInv, Digested, Counted, List!InOneDigest
<1> QED BY <1>1, <1>2, <1>3

LEMMA ListReads == ASSUME NEW k, ListInv(k), k.sendfailures = 0 PROVE List(k)!ReadsWhole
<1> SUFFICES ASSUME NEW n \in NumbersOf(k), List(k)!GetRead(n) PROVE archive[n].whole
  BY DEF List!ReadsWhole, List!Numbers, NumbersOf
<1>1. n \in 1 .. get /\ archive[n].x
  BY DEF List!GetRead
<1>2. get <= num /\ get \in Nat /\ num \in Nat
  BY DEF ListInv, ListTypes, WholeUpToNum
<1>3. n <= num
  BY <1>1, <1>2
<1> QED BY <1>1, <1>3 DEF ListInv, WholeUpToNum

-----------------------------------------------------------------------------
(* All together *)

AccountsInv ==
  /\ VpInv
  /\ \A k \in Hosts : part = k.part => HostInv(k)
  /\ \A k \in Quotas : part = k.part => MailboxInv(k)
  /\ \A k \in Addresses : part = k.part => BounceInv(k)
  /\ \A k \in Moderations : part = k.part => ModInv(k)
  /\ \A k \in Lists : part = k.part => ListInv(k)

LEMMA InitAccounts == ASSUME Init PROVE AccountsInv
<1> USE InstancesAssumption
<1>1. VpInv
  BY VpInit DEF Init
<1>2. ASSUME NEW k \in Quotas, part = k.part PROVE MailboxInv(k)
  <2>1. PICK j \in Quotas : May(j, Quotas) /\ Mailbox(j)!Init
    BY DEF Init
  <2>2. j = k
    BY <1>2, <2>1 DEF May, PartsOf
  <2> QED BY <2>1, <2>2, QuotaInit
<1>3. ASSUME NEW k \in Hosts, part = k.part PROVE HostInv(k)
  <2>1. PICK j \in Hosts : May(j, Hosts) /\ Host(j)!Init
    BY DEF Init
  <2>2. j = k
    BY <1>3, <2>1 DEF May, PartsOf
  <2> QED BY <2>1, <2>2, HostInit
<1>4. ASSUME NEW k \in Addresses, part = k.part PROVE BounceInv(k)
  <2>1. PICK j \in Addresses : May(j, Addresses) /\ Address(j)!Init
    BY DEF Init
  <2>2. j = k
    BY <1>4, <2>1 DEF May, PartsOf
  <2> QED BY <2>1, <2>2, BounceInit
<1>5. ASSUME NEW k \in Moderations, part = k.part PROVE ModInv(k)
  <2>1. PICK j \in Moderations : May(j, Moderations) /\ Moderation(j)!Init
    BY DEF Init
  <2>2. j = k
    BY <1>5, <2>1 DEF May, PartsOf
  <2> QED BY <2>1, <2>2, ModInit
<1>6. ASSUME NEW k \in Lists, part = k.part PROVE ListInv(k)
  <2>1. PICK j \in Lists : May(j, Lists) /\ List(j)!Init
    BY DEF Init
  <2>2. j = k
    BY <1>6, <2>1 DEF May, PartsOf
  <2> QED BY <2>1, <2>2, ListInit
<1> QED BY <1>1, <1>2, <1>3, <1>4, <1>5, <1>6 DEF AccountsInv

(* A step is one of the part that runs, and of no other.                      *)
LEMMA StepsApart ==
  ASSUME [Next]_vars
  PROVE  /\ part' = part
         /\ Users!Next \/ UNCHANGED vpVars
         /\ (\E k \in Hosts : part = k.part /\ Host(k)!Next) \/ UNCHANGED vdVars
         /\ (\E k \in Quotas : part = k.part /\ Mailbox(k)!Next) \/ UNCHANGED quotaVars
         /\ (\E k \in Addresses : part = k.part /\ Address(k)!Next) \/ UNCHANGED bounceVars
         /\ (\E k \in Moderations : part = k.part /\ Moderation(k)!Next) \/ UNCHANGED modVars
         /\ (\E k \in Lists : part = k.part /\ List(k)!Next) \/ UNCHANGED archiveVars
BY DEF Next, vars, ChangesUsers, ChangesDomains, CountsMail, Bounces, Moderates, Archives

LEMMA StepAccounts == ASSUME AccountsInv, [Next]_vars PROVE AccountsInv'
<1> USE InstancesAssumption
<1>1. part' = part
  BY StepsApart
<1>2. VpInv'
  BY StepsApart, VpNext DEF AccountsInv
<1>3. ASSUME NEW k \in Quotas, part = k.part PROVE MailboxInv(k)'
  <2>1. MailboxInv(k)
    BY <1>3 DEF AccountsInv
  <2>2. CASE \E j \in Quotas : part = j.part /\ Mailbox(j)!Next
    <3>1. Mailbox(k)!Next
      BY <1>3, <2>2
    <3> QED BY <2>1, <3>1, QuotaNext
  <2>3. CASE UNCHANGED quotaVars
    BY <2>1, <2>3, QuotaStutter
  <2> QED BY <2>2, <2>3, StepsApart
<1>4. ASSUME NEW k \in Hosts, part = k.part PROVE HostInv(k)'
  <2>1. HostInv(k)
    BY <1>4 DEF AccountsInv
  <2>2. CASE \E j \in Hosts : part = j.part /\ Host(j)!Next
    <3>1. Host(k)!Next
      BY <1>4, <2>2
    <3> QED BY <1>4, <2>1, <3>1, HostNext
  <2>3. CASE UNCHANGED vdVars
    BY <2>1, <2>3, HostStutter
  <2> QED BY <2>2, <2>3, StepsApart
<1>5. ASSUME NEW k \in Addresses, part = k.part PROVE BounceInv(k)'
  <2>1. BounceInv(k)
    BY <1>5 DEF AccountsInv
  <2>2. CASE \E j \in Addresses : part = j.part /\ Address(j)!Next
    <3>1. Address(k)!Next
      BY <1>5, <2>2
    <3> QED BY <2>1, <3>1, BounceNext
  <2>3. CASE UNCHANGED bounceVars
    BY <2>1, <2>3, BounceStutter
  <2> QED BY <2>2, <2>3, StepsApart
<1>6. ASSUME NEW k \in Moderations, part = k.part PROVE ModInv(k)'
  <2>1. ModInv(k)
    BY <1>6 DEF AccountsInv
  <2>2. CASE \E j \in Moderations : part = j.part /\ Moderation(j)!Next
    <3>1. Moderation(k)!Next
      BY <1>6, <2>2
    <3> QED BY <2>1, <3>1, ModNext
  <2>3. CASE UNCHANGED modVars
    BY <2>1, <2>3, ModStutter
  <2> QED BY <2>2, <2>3, StepsApart
<1>7. ASSUME NEW k \in Lists, part = k.part PROVE ListInv(k)'
  <2>1. ListInv(k)
    BY <1>7 DEF AccountsInv
  <2>2. CASE \E j \in Lists : part = j.part /\ List(j)!Next
    <3>1. List(k)!Next
      BY <1>7, <2>2
    <3> QED BY <2>1, <3>1, ListNext
  <2>3. CASE UNCHANGED archiveVars
    BY <2>1, <2>3, ListStutter
  <2> QED BY <2>2, <2>3, StepsApart
<1> QED BY <1>1, <1>2, <1>3, <1>4, <1>5, <1>6, <1>7 DEF AccountsInv

(* The invariant of the users and of every instance of the domains, of the    *)
(* mailboxes and of the lists holds.                                         *)
THEOREM AlwaysAccountsInv == Spec => []AccountsInv
BY InitAccounts, StepAccounts, PTL DEF Spec

(* What a program said of a user holds, in vpasswd, for every look-up and of  *)
(* the directory, until another works on that user, and vpasswd.cdb is fresh  *)
(* whenever nobody holds the lock: for any programs, users, operations,       *)
(* directories per level, deletions and kills.                               *)
THEOREM AlwaysUsersAsSaid == Spec => []UsersAsSaid
<1>1. AccountsInv => UsersAsSaid
  BY VpSays DEF AccountsInv, UsersAsSaid
<1> QED BY <1>1, AlwaysAccountsInv, PTL

(* A domain whose mail is accepted is in users/assign; one that was said to be *)
(* added is in every file that leads mail to it, and one that was said to be   *)
(* deleted has left no trace: for every domain that is not hurt, and none is   *)
(* hurt without a kill, a lock that was busy for too long, or an alias; for    *)
(* any programs, domains, aliases, kills, size of rcpthosts and patience.      *)
THEOREM AlwaysDomainsAsSaid == Spec => []DomainsAsSaid
<1>1. AccountsInv => DomainsAsSaid
  BY HostKeeps DEF AccountsInv, DomainsAsSaid
<1> QED BY <1>1, AlwaysAccountsInv, PTL

(* A message is refused only if there was no room since the count began that  *)
(* the refusal rests on; and programs that run one after the other exceed no  *)
(* quota but for the warning, forget no message and warn once a day: for any  *)
(* programs, quota, window, number of deletions and time.                    *)
THEOREM AlwaysQuotaHolds == Spec => []QuotaHolds
<1>1. AccountsInv => QuotaHolds
  BY MailboxKeeps DEF AccountsInv, QuotaHolds
<1> QED BY <1>1, AlwaysAccountsInv, PTL

(* A step of the part that runs is of its only instance.                      *)
LEMMA StepOfInstance ==
  ASSUME [Next]_vars
  PROVE  /\ \A k \in Addresses : part = k.part => Address(k)!Next \/ UNCHANGED bounceVars
         /\ \A k \in Moderations : part = k.part => Moderation(k)!Next \/ UNCHANGED modVars
<1> USE InstancesAssumption
<1>1. ASSUME NEW k \in Addresses, part = k.part, NEW j \in Addresses, part = j.part PROVE j = k
  BY <1>1
<1>2. ASSUME NEW k \in Moderations, part = k.part, NEW j \in Moderations, part = j.part PROVE j = k
  BY <1>2
<1>3. ASSUME NEW k \in Addresses, part = k.part PROVE Address(k)!Next \/ UNCHANGED bounceVars
  BY <1>1, <1>3, StepsApart
<1>4. ASSUME NEW k \in Moderations, part = k.part PROVE Moderation(k)!Next \/ UNCHANGED modVars
  BY <1>2, <1>4, StepsApart
<1> QED BY <1>3, <1>4

(* While a file of bounce/h keeps bounces back there is a file of bounce/d     *)
(* that leads to a warning, without kills only one; and a bounced probe        *)
(* removes nobody earlier than two timeouts after the first bounce: for any    *)
(* number of files, mails, subscriptions and kills, and whether the address    *)
(* always bounces or not.                                                    *)
THEOREM AlwaysBouncesCounted == Spec => BouncesCounted
<1> DEFINE Counts == \A k \in Addresses : part = k.part => Address(k)!HasBounce /\ Address(k)!OneWarning
           Waits == \A k \in Addresses : part = k.part => Address(k)!RemovedInPatience
<1>1. AccountsInv => Counts
  BY BounceKeeps DEF AccountsInv
<1>2. AccountsInv /\ [Next]_vars => [Waits]_vars
  <2> SUFFICES ASSUME AccountsInv, [Next]_vars, NEW k \in Addresses, part = k.part PROVE Address(k)!RemovedInPatience
    OBVIOUS
  <2>1. CASE Address(k)!Next
    BY <2>1, BounceRemoves DEF AccountsInv
  <2>2. CASE UNCHANGED bounceVars
    BY <2>2 DEF bounceVars, Address!RemovedInPatience
  <2> QED BY <2>1, <2>2, StepOfInstance
<1>3. Spec => []Counts /\ [][Waits]_vars
  BY <1>1, <1>2, AlwaysAccountsInv, PTL DEF Spec
<1> QED BY <1>3 DEF BouncesCounted

(* A post that was taken is kept until it has gone to the list or back; one    *)
(* thing happens to a file when nobody is killed; and a moderator is told the  *)
(* truth: for any moderators, files, refused files, kills and failures.        *)
THEOREM AlwaysModerationDecides == Spec => ModerationDecides
<1> DEFINE ActsOnce == \A k \in Moderations : part = k.part => Moderation(k)!NothingLost /\ Moderation(k)!OneDecision
           Tells == \A k \in Moderations : part = k.part => Moderation(k)!TellsTheTruth
<1>1. AccountsInv => ActsOnce
  BY ModKeeps DEF AccountsInv
<1>2. AccountsInv /\ [Next]_vars => [Tells]_vars
  <2> SUFFICES ASSUME AccountsInv, [Next]_vars, NEW k \in Moderations, part = k.part PROVE Moderation(k)!TellsTheTruth
    OBVIOUS
  <2>1. CASE Moderation(k)!Next
    BY <2>1, ModTells, InstancesAssumption DEF AccountsInv
  <2>2. CASE UNCHANGED modVars
    BY <2>2 DEF modVars, Moderation!TellsTheTruth
  <2> QED BY <2>1, <2>2, StepOfInstance
<1>3. Spec => []ActsOnce /\ [][Tells]_vars
  BY <1>1, <1>2, AlwaysAccountsInv, PTL DEF Spec
<1> QED BY <1>3 DEF ModerationDecides

(* The number of a message tells its file and its line of the index from when  *)
(* subscribers can know it; a post is distributed once and, when no number is   *)
(* given back, is in one digest and who asks for a message gets all of it: for  *)
(* any posts, numbers, failures and kills.                                   *)
THEOREM AlwaysArchiveWhole == Spec => ArchiveWhole
<1> DEFINE Tells == \A k \in Lists : part = k.part =>
                      /\ List(k)!ArchiveTells /\ List(k)!IndexTells /\ List(k)!SentOnce
                      /\ k.sendfailures = 0 => List(k)!InOneDigest
           Reads == \A k \in Lists : part = k.part /\ k.sendfailures = 0 => List(k)!ReadsWhole
<1>1. AccountsInv => Tells
  BY ListKeeps DEF AccountsInv
<1>2. AccountsInv /\ [Next]_vars => [Reads]_vars
  BY ListReads DEF AccountsInv
<1>3. Spec => []Tells /\ [][Reads]_vars
  BY <1>1, <1>2, AlwaysAccountsInv, PTL DEF Spec
<1> QED BY <1>3 DEF ArchiveWhole
=============================================================================
