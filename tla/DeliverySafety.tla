---------------------------- MODULE DeliverySafety ----------------------------
(* The invariants of the deliveries, for maildirs, mboxes, networks of        *)
(* addresses and hosts of any kind: each component has its inductive          *)
(* invariant, and a behaviour is one of the component that runs.              *)
EXTENDS MCDelivery, FiniteSetTheorems, SequenceTheorems, TLAPS

-----------------------------------------------------------------------------
(* Maildir *)

Boxes == {"tmp", "new", "cur"}
Read == {"new", "cur"}
ArmedAt == {"write", "sync", "link", "unlink", "fail"}

Holds(x, n, d) == n \in DOMAIN dir[x] /\ dir[x][n] = d

ChildType(k) ==
  [at : {"none", "stat", "open", "end"} \cup ArmedAt, pid : k.pids \cup {0}, name : Dir(k)!Names \cup {<<>>},
   alarm : Nat]

DirTypes(k) ==
  /\ maildir_clock \in 0 .. k.horizon /\ crashes \in 0 .. k.crashes
  /\ DOMAIN dir = Boxes
  /\ \A x \in Boxes : \A n \in DOMAIN dir[x] : n \in Dir(k)!Names /\ dir[x][n] \in k.deliveries
  /\ child \in [k.deliveries -> ChildType(k)]
  /\ inode \in [k.deliveries -> [whole : BOOLEAN, synced : BOOLEAN, atime : Nat, mtime : Nat]]
  /\ maildir_told \subseteq k.deliveries /\ asked \subseteq k.deliveries

PopType(k) ==
  [at : {"none", "new", "cur", "commands", "quit"}, time : Nat, list : Seq(Read \X Dir(k)!Names),
   del : SUBSET (Nat \ {0}), there : SUBSET k.deliveries]
PopTypes(k) == pop \in [k.sessions -> PopType(k)]

(* A child, the name it took and the age of its file.                         *)
Life(k, d) ==
  /\ child[d].at # "none" => child[d].pid \in k.pids
  /\ child[d].at \in {"open"} \cup ArmedAt =>
       /\ child[d].name \in Dir(k)!Names /\ child[d].name[1] = child[d].pid
       /\ child[d].name[2] <= maildir_clock
  /\ child[d].at \in ArmedAt => /\ child[d].alarm = inode[d].atime + k.alarm
                                /\ inode[d].atime <= maildir_clock /\ maildir_clock <= child[d].alarm
  /\ child[d].at = "end" => child[d].alarm <= maildir_clock

(* Whoever had the process id before has ended before this name was taken.    *)
Apart(k, d, e) ==
  d # e /\ child[d].pid = child[e].pid /\ child[e].at # "none" =>
    /\ child[d].at \in {"stat", "open"} \cup ArmedAt => child[e].at = "end"
    /\ child[d].at = "stat" => child[e].alarm < maildir_clock
    /\ child[d].at \in {"open"} \cup ArmedAt => child[e].alarm < child[d].name[2]

Owner(n, d) ==
  /\ child[d].pid = n[1]
  /\ \/ child[d].at \in ArmedAt /\ child[d].name = n
     \/ child[d].at = "end" /\ n[2] <= child[d].alarm
Spent(k, n) == \E d \in k.deliveries : Owner(n, d)

Children(k) == \A d \in k.deliveries : Life(k, d) /\ \A e \in k.deliveries : Apart(k, d, e)

(* A name is of one delivery, and a delivery has one name, in tmp and in one  *)
(* of new and cur, where its file is whole.                                  *)
Owned(k) ==
  \A x \in Boxes, n \in Dir(k)!Names, d \in k.deliveries : Holds(x, n, d) =>
    /\ Owner(n, d)
    /\ x # "tmp" => child[d].at \in {"unlink", "end"} /\ inode[d].whole /\ inode[d].synced
OneName(k) ==
  /\ \A x, y \in Boxes, n \in Dir(k)!Names, d, e \in k.deliveries : Holds(x, n, d) /\ Holds(y, n, e) => d = e
  /\ \A x, y \in Boxes, m, n \in Dir(k)!Names, d \in k.deliveries : Holds(x, m, d) /\ Holds(y, n, d) => m = n
  /\ \A n \in Dir(k)!Names, d \in k.deliveries : ~(Holds("new", n, d) /\ Holds("cur", n, d))
Working(k) ==
  \A d \in k.deliveries :
    /\ child[d].at \in ArmedAt => Holds("tmp", child[d].name, d)
    /\ child[d].at \in {"sync", "link", "unlink"} => inode[d].whole
    /\ child[d].at \in {"link", "unlink"} => inode[d].synced
Present(k, d) == \E x \in Read, n \in Dir(k)!Names : Holds(x, n, d)
KeepsTold(k) ==
  \A d \in k.deliveries : d \in maildir_told \/ child[d].at = "unlink" => Present(k, d) \/ d \in asked

(* What is to be deleted was asked for, under whichever name it is now.       *)
Deletes(k, s) ==
  /\ pop[s].del \subseteq DOMAIN pop[s].list /\ (pop[s].at \in {"none", "new"} => pop[s].del = {})
  /\ \A i \in DOMAIN pop[s].list : Spent(k, pop[s].list[i][2])
  /\ \A i \in pop[s].del, x \in Boxes, d \in k.deliveries : Holds(x, pop[s].list[i][2], d) => d \in asked

(* What a session found in new it has listed; what was in cur it will list.   *)
Listing(k, s, d) ==
  \/ \E i \in DOMAIN pop[s].list : \E x \in Read : Holds(x, pop[s].list[i][2], d)
  \/ pop[s].at = "cur" /\ \E n \in Dir(k)!Names : Holds("cur", n, d) /\ inode[d].mtime < pop[s].time
Lists(k, s) ==
  pop[s].at \in {"cur", "commands"} =>
    \A d \in pop[s].there :
      child[d].at \in {"unlink", "end"} /\ (Present(k, d) => Listing(k, s, d))

World(k) == DirTypes(k) /\ Children(k) /\ Owned(k) /\ OneName(k) /\ Working(k) /\ KeepsTold(k)
Readers(k) == PopTypes(k) /\ \A s \in k.sessions : Deletes(k, s) /\ Lists(k, s)
DirInv(k) == World(k) /\ Readers(k)

LEMMA Constants ==
  ASSUME NEW k, Dir(k)!MaildirAssumption
  PROVE  k.alarm \in Nat /\ k.clean \in Nat /\ k.alarm < k.clean /\ k.horizon \in Nat /\ k.crashes \in Nat
BY DEF Dir!MaildirAssumption

LEMMA InitDir == ASSUME NEW k, Dir(k)!MaildirAssumption, Dir(k)!Init PROVE DirInv(k)
<1> USE Constants DEF Dir!Init, Dir!NoChild, Dir!NoPop, Dir!NoFile, ChildType
<1>1. DOMAIN <<>> = {}
  OBVIOUS
<1>2. \A x \in Boxes : dir[x] = <<>>
  BY DEF Boxes
<1>3. \A x \in Boxes : \A n, d : ~Holds(x, n, d)
  BY <1>1, <1>2 DEF Holds
<1>4. DirTypes(k)
  <2>1. DOMAIN dir = Boxes /\ \A x \in Boxes : \A n \in DOMAIN dir[x] : n \in Dir(k)!Names /\ dir[x][n] \in k.deliveries
    BY <1>1, <1>2 DEF Boxes
  <2>2. maildir_clock \in 0 .. k.horizon /\ crashes \in 0 .. k.crashes
    OBVIOUS
  <2> QED BY <2>1, <2>2 DEF DirTypes
<1>5. PopTypes(k)
  <2>1. <<>> \in Seq(Read \X Dir(k)!Names)
    OBVIOUS
  <2> QED BY <2>1 DEF PopTypes, PopType
<1>6. \A d \in k.deliveries : child[d].at = "none" /\ d \notin maildir_told
  OBVIOUS
<1>7. Children(k) /\ Working(k) /\ KeepsTold(k)
  BY <1>6 DEF Children, Life, Apart, Working, KeepsTold, ArmedAt
<1>8. Owned(k) /\ OneName(k)
  BY <1>3 DEF Owned, OneName, Boxes
<1>9. \A s \in k.sessions : Deletes(k, s) /\ Lists(k, s)
  <2>1. \A s \in k.sessions : pop[s].at = "none" /\ pop[s].list = <<>> /\ pop[s].del = {}
    OBVIOUS
  <2> QED BY <1>1, <2>1 DEF Deletes, Lists
<1> QED BY <1>4, <1>5, <1>7, <1>8, <1>9 DEF DirInv, World, Readers

LEMMA HeldIs ==
  ASSUME NEW k, DirTypes(k), NEW x \in Boxes, NEW n \in DOMAIN dir[x]
  PROVE  Holds(x, n, dir[x][n]) /\ n \in Dir(k)!Names /\ dir[x][n] \in k.deliveries
BY DEF Holds, DirTypes

LEMMA DirPromises ==
  ASSUME NEW k, Dir(k)!MaildirAssumption, DirInv(k)
  PROVE  Dir(k)!TypeOK /\ Dir(k)!WholeMessages /\ Dir(k)!ToldIsKept /\ Dir(k)!NothingOverlooked
         /\ Dir(k)!CleanSparesDeliveries
<1> USE DEF DirInv, World, Readers
<1>1. \A d \in k.deliveries : Dir(k)!Armed(d) <=> child[d].at \in ArmedAt
  BY DEF Dir!Armed, ArmedAt
<1>2. \A x \in Boxes : \A d : d \in Dir(k)!Range(dir[x]) <=> \E n \in Dir(k)!Names : Holds(x, n, d)
  BY HeldIs DEF Dir!Range, Holds
<1>3. \A x \in Boxes : \A d : d \in Dir(k)!Range(dir[x]) => d \in k.deliveries
  BY HeldIs DEF Dir!Range
<1>4. Read \subseteq Boxes /\ Read = {"new", "cur"} /\ "tmp" \notin Read /\ "tmp" \in Boxes
  BY DEF Read, Boxes
<1>5. \A d \in k.deliveries : Dir(k)!Kept(d) <=> Present(k, d)
  BY <1>2, <1>4 DEF Dir!Kept, Present
<1>6. Dir(k)!WholeMessages
  BY <1>2, <1>3, <1>4 DEF Dir!WholeMessages, Owned
<1>7. Dir(k)!ToldIsKept
  BY <1>5 DEF Dir!ToldIsKept, KeepsTold, DirTypes
<1>8. Dir(k)!CleanSparesDeliveries
  BY <1>1 DEF Dir!CleanSparesDeliveries, Working, Holds, Dir!In
<1>9. Dir(k)!NothingOverlooked
  <2> SUFFICES ASSUME NEW s \in k.sessions, pop[s].at = "commands", NEW d \in pop[s].there, Dir(k)!Kept(d)
               PROVE  \E i \in DOMAIN pop[s].list : LET e == pop[s].list[i] IN
                        \E x \in {"new", "cur"} : Dir(k)!In(x, e[2]) /\ dir[x][e[2]] = d
    BY DEF Dir!NothingOverlooked
  <2>1. d \in k.deliveries
    BY DEF PopTypes, PopType
  <2>2. Present(k, d)
    BY <1>5, <2>1
  <2>3. Listing(k, s, d)
    BY <2>2 DEF Lists
  <2> QED BY <2>3 DEF Listing, Holds, Read, Dir!In
<1>10. Dir(k)!TypeOK
  <2>1. \A x \in DOMAIN dir : DOMAIN dir[x] \subseteq Dir(k)!Names /\ Dir(k)!Range(dir[x]) \subseteq k.deliveries
    BY <1>3 DEF DirTypes
  <2>2. ASSUME NEW d \in k.deliveries, Dir(k)!Armed(d)
        PROVE  child[d].alarm \in maildir_clock .. maildir_clock + k.alarm
    <3>1. child[d].alarm = inode[d].atime + k.alarm /\ inode[d].atime <= maildir_clock /\ maildir_clock <= child[d].alarm
      BY <1>1, <2>2 DEF Children, Life
    <3>2. inode[d].atime \in Nat /\ maildir_clock \in Nat /\ k.alarm \in Nat
      BY Constants DEF DirTypes
    <3> QED BY <3>1, <3>2
  <2>3. \A s \in k.sessions : pop[s].del \subseteq DOMAIN pop[s].list
    BY DEF Deletes
  <2> QED BY <2>1, <2>2, <2>3 DEF Dir!TypeOK, DirTypes
<1> QED BY <1>6, <1>7, <1>8, <1>9, <1>10

-----------------------------------------------------------------------------
(* What the sessions rely on: no name is used again, and nothing that they    *)
(* found disappears from new but into cur, or for good.                      *)
Steady(k) ==
  /\ asked \subseteq asked'
  /\ \A d \in k.deliveries : child[d].at \in {"unlink", "end"} =>
       child'[d].at \in {"unlink", "end"} /\ inode'[d].mtime = inode[d].mtime /\ (Present(k, d)' => Present(k, d))
  /\ \A n \in Dir(k)!Names : Spent(k, n) =>
       /\ Spent(k, n)'
       /\ \A x \in Boxes, d \in k.deliveries : Holds(x, n, d)' => \E y \in Boxes : Holds(y, n, d)
  /\ \A n \in Dir(k)!Names, d \in k.deliveries : Present(k, d)' =>
       /\ Holds("new", n, d) => Holds("new", n, d)' \/ Holds("cur", n, d)'
       /\ Holds("cur", n, d) => Holds("cur", n, d)'

LEMMA DeletesKeep ==
  ASSUME NEW k, PopTypes(k), NEW s \in k.sessions, Deletes(k, s), Steady(k),
         pop'[s].list = pop[s].list, pop'[s].del \subseteq pop[s].del,
         pop'[s].at \in {"none", "new"} => pop'[s].del = {}
  PROVE  Deletes(k, s)'
<1>1. pop[s].list \in Seq(Read \X Dir(k)!Names) /\ pop[s].del \subseteq DOMAIN pop[s].list
  BY DEF PopTypes, PopType, Deletes
<1>2. \A i \in DOMAIN pop[s].list : pop[s].list[i][2] \in Dir(k)!Names
  BY <1>1
<1>3. \A i \in DOMAIN pop[s].list : Spent(k, pop[s].list[i][2])'
  BY <1>2 DEF Steady, Deletes
<1>4. ASSUME NEW i \in pop[s].del, NEW x \in Boxes, NEW d \in k.deliveries, Holds(x, pop[s].list[i][2], d)'
      PROVE  d \in asked'
  <2>1. i \in DOMAIN pop[s].list
    BY <1>1
  <2>2. PICK n \in Dir(k)!Names : n = pop[s].list[i][2]
    BY <1>2, <2>1
  <2>3. Spent(k, n) /\ Holds(x, n, d)'
    <3>1. Spent(k, pop[s].list[i][2])
      BY <2>1 DEF Deletes
    <3> QED BY <1>4, <2>2, <3>1 DEF Holds
  <2>4. PICK y \in Boxes : Holds(y, n, d)
    BY <2>3 DEF Steady
  <2> QED BY <2>2, <2>4 DEF Deletes, Steady
<1>5. pop'[s].del \subseteq DOMAIN pop'[s].list
  BY <1>1
<1> QED BY <1>3, <1>4, <1>5 DEF Deletes, Holds, Spent, Owner

LEMMA SessionKeeps ==
  ASSUME NEW k, PopTypes(k), NEW s \in k.sessions, Deletes(k, s), Lists(k, s), Steady(k), pop'[s] = pop[s]
  PROVE  Deletes(k, s)' /\ Lists(k, s)'
<1>1. /\ pop[s].list \in Seq(Read \X Dir(k)!Names) /\ pop[s].del \subseteq DOMAIN pop[s].list
      /\ pop[s].there \subseteq k.deliveries
  BY DEF PopTypes, PopType, Deletes
<1>2. \A i \in DOMAIN pop[s].list : pop[s].list[i][2] \in Dir(k)!Names
  BY <1>1
<1>3. Deletes(k, s)'
  <2>1. pop[s].at \in {"none", "new"} => pop[s].del = {}
    BY DEF Deletes
  <2> QED BY <2>1, DeletesKeep
<1>4. Lists(k, s)'
  <2> SUFFICES ASSUME pop[s].at \in {"cur", "commands"}, NEW d \in pop[s].there
               PROVE  child'[d].at \in {"unlink", "end"} /\ (Present(k, d)' => Listing(k, s, d)')
    BY DEF Lists, Listing, Present, Holds
  <2>1. d \in k.deliveries /\ child[d].at \in {"unlink", "end"} /\ (Present(k, d) => Listing(k, s, d))
    BY <1>1 DEF Lists
  <2>2. child'[d].at \in {"unlink", "end"} /\ inode'[d].mtime = inode[d].mtime
    BY <2>1 DEF Steady
  <2>3. ASSUME Present(k, d)' PROVE Listing(k, s, d)'
    <3>1. Present(k, d)
      BY <2>1, <2>3 DEF Steady
    <3>2. \A n \in Dir(k)!Names : /\ Holds("new", n, d) => Holds("new", n, d)' \/ Holds("cur", n, d)'
                                  /\ Holds("cur", n, d) => Holds("cur", n, d)'
      BY <2>1, <2>3 DEF Steady
    <3>3. CASE \E i \in DOMAIN pop[s].list : \E x \in Read : Holds(x, pop[s].list[i][2], d)
      <4>1. PICK i \in DOMAIN pop[s].list, x \in Read : Holds(x, pop[s].list[i][2], d)
        BY <3>3
      <4>2. PICK n \in Dir(k)!Names : n = pop[s].list[i][2]
        BY <1>2
      <4>3. \E y \in Read : Holds(y, n, d)'
        BY <3>2, <4>1, <4>2 DEF Read
      <4>4. n = pop'[s].list[i][2] /\ i \in DOMAIN pop'[s].list
        BY <4>2
      <4> QED BY <4>3, <4>4 DEF Listing, Holds
    <3>4. CASE pop[s].at = "cur" /\ \E n \in Dir(k)!Names : Holds("cur", n, d) /\ inode[d].mtime < pop[s].time
      BY <2>2, <3>2, <3>4 DEF Listing
    <3> QED BY <2>1, <3>1, <3>3, <3>4 DEF Listing
  <2> QED BY <2>2, <2>3
<1> QED BY <1>3, <1>4

LEMMA SessionsKeep ==
  ASSUME NEW k, Readers(k), Steady(k), pop' = pop
  PROVE  Readers(k)'
<1>1. PopTypes(k)'
  BY DEF Readers, PopTypes, PopType, Dir!Names
<1>2. ASSUME NEW s \in k.sessions PROVE Deletes(k, s)' /\ Lists(k, s)'
  BY SessionKeeps DEF Readers
<1> QED BY <1>1, <1>2 DEF Readers

LEMMA SteadyStill ==
  ASSUME NEW k, dir' = dir, asked' = asked,
         \A d \in k.deliveries : child[d].at \in {"unlink", "end"} =>
           child'[d].at \in {"unlink", "end"} /\ inode'[d].mtime = inode[d].mtime,
         \A n \in Dir(k)!Names, d \in k.deliveries : Owner(n, d) => Owner(n, d)'
  PROVE  Steady(k)
<1>1. \A x, n, d : Holds(x, n, d)' <=> Holds(x, n, d)
  BY DEF Holds
<1>2. \A d : Present(k, d)' <=> Present(k, d)
  BY <1>1 DEF Present, Dir!Names
<1>3. \A n \in Dir(k)!Names : Spent(k, n) => Spent(k, n)'
  BY DEF Spent
<1> QED BY <1>1, <1>2, <1>3 DEF Steady

InodeType(k) == [k.deliveries -> [whole : BOOLEAN, synced : BOOLEAN, atime : Nat, mtime : Nat]]

(* A child goes on with its file, which nobody reads yet.                     *)
LEMMA Works ==
  ASSUME NEW k, Dir(k)!MaildirAssumption, DirInv(k), NEW d \in k.deliveries, NEW t \in ArmedAt \ {"unlink"},
         child[d].at \in {"write", "sync", "link"}, Dir(k)!Goto(d, t), inode' \in InodeType(k),
         \A e \in k.deliveries : e # d => inode'[e] = inode[e], inode'[d].atime = inode[d].atime,
         t \in {"sync", "link"} => inode'[d].whole, t = "link" => inode'[d].synced,
         UNCHANGED <<maildir_clock, dir, pop, maildir_told, asked, crashes>>
  PROVE  DirInv(k)'
<1> USE DEF DirInv, World
<1>1. /\ \A e \in k.deliveries : e # d => child'[e] = child[e]
      /\ child'[d].at = t /\ child'[d].pid = child[d].pid /\ child'[d].name = child[d].name
      /\ child'[d].alarm = child[d].alarm
  BY DEF Dir!Goto, DirTypes
<1>2. child[d].at \in ArmedAt /\ t \in ArmedAt /\ child[d].at \notin {"none", "stat", "open", "end", "unlink"}
      /\ t \notin {"none", "stat", "open", "end", "unlink"}
  BY DEF ArmedAt
<1>3. \A x, n, e : Holds(x, n, e)' <=> Holds(x, n, e)
  BY DEF Holds
<1>4. DirTypes(k)'
  <2>1. child' \in [k.deliveries -> ChildType(k)]
    <3>1. PICK c : c = child[d]
      OBVIOUS
    <3>3. c \in ChildType(k)
      BY <3>1 DEF DirTypes
    <3>2. [c EXCEPT !.at = t] \in ChildType(k)
      BY <1>2, <3>3 DEF ChildType
    <3> QED BY <3>1, <3>2 DEF Dir!Goto, DirTypes
  <2> QED BY <2>1 DEF DirTypes, InodeType, Dir!Names, ChildType
<1>5. \A e \in k.deliveries : Life(k, e)'
  BY <1>1, <1>2 DEF Children, Life, Dir!Names
<1>6. \A e, f \in k.deliveries : Apart(k, e, f)'
  <2> SUFFICES ASSUME NEW e \in k.deliveries, NEW f \in k.deliveries PROVE Apart(k, e, f)'
    OBVIOUS
  <2>1. Apart(k, e, f)
    BY DEF Children
  <2>2. CASE e = d
    BY <1>1, <1>2, <2>1, <2>2 DEF Apart
  <2>3. CASE f = d
    BY <1>1, <1>2, <2>1, <2>3 DEF Apart
  <2>4. CASE e # d /\ f # d
    BY <1>1, <2>1, <2>4 DEF Apart
  <2> QED BY <2>2, <2>3, <2>4
<1>7. \A n, e : e \in k.deliveries => (Owner(n, e)' <=> Owner(n, e))
  BY <1>1, <1>2 DEF Owner
<1>8. Owned(k)'
  <2> SUFFICES ASSUME NEW x \in Boxes, NEW n \in Dir(k)!Names, NEW e \in k.deliveries, Holds(x, n, e)
               PROVE  Owner(n, e)' /\ (x # "tmp" => child'[e].at \in {"unlink", "end"} /\ inode'[e].whole /\ inode'[e].synced)
    BY <1>3 DEF Owned, Dir!Names
  <2>1. Owner(n, e) /\ (x # "tmp" => child[e].at \in {"unlink", "end"} /\ inode[e].whole /\ inode[e].synced)
    BY DEF Owned
  <2> QED BY <1>1, <1>2, <1>7, <2>1
<1>9. OneName(k)'
  BY <1>3 DEF OneName, Dir!Names
<1>10. Working(k)'
  <2> SUFFICES ASSUME NEW e \in k.deliveries
               PROVE  /\ child'[e].at \in ArmedAt => Holds("tmp", child'[e].name, e)
                      /\ child'[e].at \in {"sync", "link", "unlink"} => inode'[e].whole
                      /\ child'[e].at \in {"link", "unlink"} => inode'[e].synced
    BY <1>3 DEF Working, Holds
  <2> QED BY <1>1, <1>2 DEF Working
<1>11. KeepsTold(k)'
  <2>1. \A e : Present(k, e)' <=> Present(k, e)
    BY <1>3 DEF Present, Dir!Names
  <2> QED BY <1>1, <1>2, <2>1 DEF KeepsTold
<1>12. Steady(k)
  BY <1>1, <1>2, <1>7, SteadyStill
<1> QED BY <1>4, <1>5, <1>6, <1>8, <1>9, <1>10, <1>11, <1>12, SessionsKeep DEF Children

LEMMA StepWrite ==
  ASSUME NEW k, Dir(k)!MaildirAssumption, DirInv(k), NEW d \in k.deliveries,
         Dir(k)!Write(d) \/ Dir(k)!Sync(d) \/ Dir(k)!Fails(d)
  PROVE  DirInv(k)'
<1>1. inode \in InodeType(k) /\ maildir_clock \in Nat
  BY DEF DirInv, World, DirTypes, InodeType
<1>2. CASE Dir(k)!Write(d)
  <2>1. /\ inode' \in InodeType(k) /\ inode'[d].atime = inode[d].atime /\ inode'[d].whole
        /\ \A e \in k.deliveries : e # d => inode'[e] = inode[e]
    BY <1>1, <1>2 DEF Dir!Write, InodeType
  <2>2. "sync" \in ArmedAt \ {"unlink"}
    BY DEF ArmedAt
  <2> QED BY <1>2, <2>1, <2>2, Works DEF Dir!Write
<1>3. CASE Dir(k)!Sync(d)
  <2>1. /\ inode' \in InodeType(k) /\ inode'[d].atime = inode[d].atime /\ inode'[d].synced
        /\ inode'[d].whole = inode[d].whole
        /\ \A e \in k.deliveries : e # d => inode'[e] = inode[e]
    BY <1>1, <1>3 DEF Dir!Sync, InodeType
  <2>2. inode[d].whole
    BY <1>3 DEF DirInv, World, Working, Dir!Sync
  <2>3. "link" \in ArmedAt \ {"unlink"}
    BY DEF ArmedAt
  <2> QED BY <1>3, <2>1, <2>2, <2>3, Works DEF Dir!Sync
<1>4. CASE Dir(k)!Fails(d)
  <2>1. "fail" \in ArmedAt \ {"unlink"}
    BY DEF ArmedAt
  <2> QED BY <1>1, <1>4, <2>1, Works DEF Dir!Fails
<1> QED BY <1>2, <1>3, <1>4

LEMMA Drops ==
  ASSUME NEW k, DOMAIN dir = Boxes, NEW x \in Boxes, NEW n, dir' = Dir(k)!Gone(x, n)
  PROVE  /\ DOMAIN dir' = Boxes
         /\ \A y \in Boxes : \A m : m \in DOMAIN dir'[y] => m \in DOMAIN dir[y] /\ dir'[y][m] = dir[y][m]
         /\ \A y \in Boxes : \A m, e : Holds(y, m, e)' <=> Holds(y, m, e) /\ ~(y = x /\ m = n)
<1>1. DOMAIN dir' = Boxes /\ dir'[x] = Dir(k)!Less(dir[x], n) /\ \A y \in Boxes : y # x => dir'[y] = dir[y]
  BY DEF Dir!Gone
<1>2. /\ DOMAIN dir'[x] = DOMAIN dir[x] \ {n}
      /\ \A m \in DOMAIN dir[x] \ {n} : dir'[x][m] = dir[x][m]
  BY <1>1 DEF Dir!Less
<1>3. ASSUME NEW y \in Boxes, NEW m PROVE m \in DOMAIN dir'[y] => m \in DOMAIN dir[y] /\ dir'[y][m] = dir[y][m]
  BY <1>1, <1>2
<1>4. ASSUME NEW y \in Boxes, NEW m, NEW e PROVE Holds(y, m, e)' <=> Holds(y, m, e) /\ ~(y = x /\ m = n)
  BY <1>1, <1>2 DEF Holds
<1> QED BY <1>1, <1>3, <1>4

(* A child ends, and takes its file out of tmp or leaves it.                  *)
LEMMA Ends ==
  ASSUME NEW k, Dir(k)!MaildirAssumption, DirInv(k), NEW d \in k.deliveries,
         child[d].at \in {"stat", "open"} \cup ArmedAt, Dir(k)!End(d),
         dir' = dir \/ (child[d].at \in ArmedAt /\ dir' = Dir(k)!Gone("tmp", child[d].name)),
         maildir_told' = maildir_told \/ (child[d].at = "unlink" /\ maildir_told' = maildir_told \cup {d}),
         UNCHANGED <<maildir_clock, inode, pop, asked, crashes>>
  PROVE  DirInv(k)'
<1> USE DEF DirInv, World
<1>1. /\ \A e \in k.deliveries : e # d => child'[e] = child[e]
      /\ child'[d] = [at |-> "end", pid |-> child[d].pid, name |-> <<>>, alarm |-> maildir_clock]
  BY DEF Dir!End, Dir!Ended, Dir!NoChild, DirTypes
<1>2. /\ child'[d].at = "end" /\ child'[d].pid = child[d].pid /\ child'[d].alarm = maildir_clock
      /\ child[d].at \notin {"none", "end"} /\ "end" \notin ArmedAt /\ child'[d].at # "unlink"
  BY <1>1 DEF ArmedAt
<1>3. "tmp" \in Boxes /\ Read \subseteq Boxes /\ "tmp" \notin Read /\ DOMAIN dir = Boxes
  BY DEF Boxes, Read, DirTypes
<1>4. /\ DOMAIN dir' = Boxes
      /\ \A x \in Boxes : \A n : n \in DOMAIN dir'[x] => n \in DOMAIN dir[x] /\ dir'[x][n] = dir[x][n]
      /\ \A x \in Boxes : \A n, e : Holds(x, n, e)' => Holds(x, n, e)
      /\ \A x \in Boxes : \A n, e : Holds(x, n, e) /\ x # "tmp" => Holds(x, n, e)'
      /\ \A n, e : Holds("tmp", n, e) /\ ~(n = child[d].name /\ child[d].at \in ArmedAt) => Holds("tmp", n, e)'
  <2>1. CASE dir' = dir
    BY <1>3, <2>1 DEF Holds
  <2>2. CASE child[d].at \in ArmedAt /\ dir' = Dir(k)!Gone("tmp", child[d].name)
    <3>1. PICK n : n = child[d].name
      OBVIOUS
    <3>2. dir' = Dir(k)!Gone("tmp", n)
      BY <2>2, <3>1
    <3>3. /\ DOMAIN dir' = Boxes
          /\ \A x \in Boxes : \A m : m \in DOMAIN dir'[x] => m \in DOMAIN dir[x] /\ dir'[x][m] = dir[x][m]
          /\ \A x \in Boxes : \A m, e : Holds(x, m, e)' <=> Holds(x, m, e) /\ ~(x = "tmp" /\ m = n)
      BY <1>3, <3>2, Drops
    <3>4. \A x \in Boxes : \A m, e : (Holds(x, m, e)' => Holds(x, m, e))
                                     /\ (Holds(x, m, e) /\ x # "tmp" => Holds(x, m, e)')
      BY <3>3
    <3>5. \A m, e : Holds("tmp", m, e) /\ ~(m = child[d].name /\ child[d].at \in ArmedAt) => Holds("tmp", m, e)'
      BY <1>3, <2>2, <3>1, <3>3
    <3> QED BY <3>3, <3>4, <3>5
  <2> QED BY <2>1, <2>2
<1>5. \A n \in Dir(k)!Names, e \in k.deliveries : Holds("tmp", n, e) /\ e # d => Holds("tmp", n, e)'
  <2> SUFFICES ASSUME NEW e \in k.deliveries, e # d, Holds("tmp", child[d].name, e), child[d].at \in ArmedAt,
                      child[d].name \in Dir(k)!Names
               PROVE  FALSE
    BY <1>4
  <2>1. Holds("tmp", child[d].name, d)
    BY DEF Working
  <2> QED BY <1>3, <2>1 DEF OneName
<1>6. DirTypes(k)'
  <2>1. child' \in [k.deliveries -> ChildType(k)]
    <3>1. maildir_clock \in Nat /\ child[d].pid \in k.pids \cup {0}
      BY DEF DirTypes, ChildType
    <3>2. [at |-> "end", pid |-> child[d].pid, name |-> <<>>, alarm |-> maildir_clock] \in ChildType(k)
      BY <3>1 DEF ChildType
    <3>3. child' = [child EXCEPT ![d] = [at |-> "end", pid |-> child[d].pid, name |-> <<>>, alarm |-> maildir_clock]]
      <4>1. Dir(k)!Ended(d) = [at |-> "end", pid |-> child[d].pid, name |-> <<>>, alarm |-> maildir_clock]
        BY <1>1 DEF Dir!End, DirTypes
      <4> QED BY <4>1 DEF Dir!End
    <3> QED BY <3>2, <3>3 DEF DirTypes
  <2>2. \A x \in Boxes : \A n \in DOMAIN dir'[x] : n \in Dir(k)!Names /\ dir'[x][n] \in k.deliveries
    BY <1>4 DEF DirTypes
  <2>3. maildir_told' \subseteq k.deliveries /\ DOMAIN dir' = Boxes
    BY <1>4 DEF DirTypes
  <2> QED BY <2>1, <2>2, <2>3 DEF DirTypes, ChildType, Dir!Names
<1>7. \A e \in k.deliveries : Life(k, e)'
  <2>1. maildir_clock <= maildir_clock
    BY DEF DirTypes
  <2> QED BY <1>1, <1>2, <2>1 DEF Children, Life, Dir!Names
<1>8. \A e, f \in k.deliveries : Apart(k, e, f)'
  <2> SUFFICES ASSUME NEW e \in k.deliveries, NEW f \in k.deliveries PROVE Apart(k, e, f)'
    OBVIOUS
  <2>1. Apart(k, e, f) /\ Apart(k, f, e)
    BY DEF Children
  <2>2. CASE e = d
    BY <1>1, <1>2, <2>1, <2>2 DEF Apart
  <2>3. CASE f = d
    BY <1>1, <1>2, <2>1, <2>3 DEF Apart
  <2>4. CASE e # d /\ f # d
    BY <1>1, <2>1, <2>4 DEF Apart
  <2> QED BY <2>2, <2>3, <2>4
<1>9. \A n, e : e \in k.deliveries /\ Owner(n, e) => Owner(n, e)'
  <2> SUFFICES ASSUME NEW n, Owner(n, d) PROVE Owner(n, d)'
    BY <1>1 DEF Owner
  <2>1. child[d].at \in ArmedAt /\ child[d].name = n
    BY <1>2 DEF Owner
  <2>2. n[2] <= maildir_clock
    BY <2>1 DEF Children, Life
  <2> QED BY <1>2, <2>2 DEF Owner
<1>10. Owned(k)'
  <2> SUFFICES ASSUME NEW x \in Boxes, NEW n \in Dir(k)!Names, NEW e \in k.deliveries, Holds(x, n, e)
               PROVE  Owner(n, e)' /\ (x # "tmp" => child'[e].at \in {"unlink", "end"} /\ inode'[e].whole /\ inode'[e].synced)
    BY <1>4 DEF Owned, Dir!Names
  <2>1. Owner(n, e) /\ (x # "tmp" => child[e].at \in {"unlink", "end"} /\ inode[e].whole /\ inode[e].synced)
    BY DEF Owned
  <2> QED BY <1>1, <1>2, <1>9, <2>1
<1>11. OneName(k)'
  BY <1>3, <1>4 DEF OneName, Dir!Names, Boxes
<1>12. Working(k)'
  <2> SUFFICES ASSUME NEW e \in k.deliveries
               PROVE  /\ (child[e].at \in ArmedAt => Holds("tmp", child[e].name, e))'
                      /\ child'[e].at \in {"sync", "link", "unlink"} => inode'[e].whole
                      /\ child'[e].at \in {"link", "unlink"} => inode'[e].synced
    BY DEF Working
  <2>1. CASE e = d
    BY <1>2, <2>1 DEF ArmedAt
  <2>2. CASE e # d
    <3>1. child[e].at \in ArmedAt => Holds("tmp", child[e].name, e) /\ child[e].name \in Dir(k)!Names
      BY DEF Working, Children, Life
    <3>2. PICK n : n = child[e].name
      OBVIOUS
    <3>3. child[e].at \in ArmedAt => Holds("tmp", n, e)'
      BY <1>5, <2>2, <3>1, <3>2
    <3> QED BY <1>1, <2>2, <3>2, <3>3 DEF Working, Holds
  <2> QED BY <2>1, <2>2
<1>13. \A e : Present(k, e)' <=> Present(k, e)
  BY <1>3, <1>4 DEF Present, Dir!Names
<1>14. KeepsTold(k)'
  BY <1>1, <1>2, <1>13 DEF KeepsTold
<1>15. Steady(k)
  <2>1. \A n \in Dir(k)!Names : Spent(k, n) => Spent(k, n)'
    BY <1>9 DEF Spent
  <2>2. \A e \in k.deliveries : child[e].at \in {"unlink", "end"} => child'[e].at \in {"unlink", "end"}
    BY <1>1, <1>2
  <2> QED BY <1>3, <1>4, <1>13, <2>1, <2>2 DEF Steady, Boxes
<1> QED BY <1>6, <1>7, <1>8, <1>10, <1>11, <1>12, <1>14, <1>15, SessionsKeep DEF Children

LEMMA StepEnd ==
  ASSUME NEW k, Dir(k)!MaildirAssumption, DirInv(k), NEW d \in k.deliveries,
         Dir(k)!UnlinkTmp(d) \/ Dir(k)!Fail(d) \/ Dir(k)!SigAlrm(d) \/ Dir(k)!ChildKilled(d)
  PROVE  DirInv(k)'
<1>1. CASE Dir(k)!UnlinkTmp(d)
  <2>1. child[d].at \in ArmedAt
    BY <1>1 DEF Dir!UnlinkTmp, ArmedAt
  <2> QED BY <1>1, <2>1, Ends DEF Dir!UnlinkTmp
<1>2. CASE Dir(k)!Fail(d) \/ Dir(k)!SigAlrm(d)
  <2>1. child[d].at \in ArmedAt
    BY <1>2 DEF Dir!Fail, Dir!SigAlrm, Dir!Armed, ArmedAt
  <2> QED BY <1>2, <2>1, Ends DEF Dir!Fail, Dir!SigAlrm
<1>3. CASE Dir(k)!ChildKilled(d)
  <2>1. child[d].at \in {"stat", "open"} \cup ArmedAt
    BY <1>3 DEF Dir!ChildKilled, Dir!Alive, DirInv, World, DirTypes, ChildType
  <2> QED BY <1>3, <2>1, Ends DEF Dir!ChildKilled
<1> QED BY <1>1, <1>2, <1>3

(* A child that has no file yet.                                              *)
LEMMA Early ==
  ASSUME NEW k, Dir(k)!MaildirAssumption, DirInv(k), NEW d \in k.deliveries,
         child[d].at \in {"none", "stat"}, NEW c \in ChildType(k), c.at \in {"stat", "open"},
         child' = [child EXCEPT ![d] = c], Life(k, d)',
         \A e \in k.deliveries : Apart(k, d, e)' /\ Apart(k, e, d)',
         UNCHANGED <<maildir_clock, inode, dir, pop, maildir_told, asked, crashes>>
  PROVE  DirInv(k)'
<1> USE DEF DirInv, World
<1>1. child'[d] = c /\ \A e \in k.deliveries : e # d => child'[e] = child[e]
  BY DEF DirTypes
<1>2. /\ child[d].at \notin ArmedAt \cup {"end"} /\ child[d].at # "unlink"
      /\ child'[d].at \notin ArmedAt \cup {"end"} /\ child'[d].at \notin {"sync", "link", "unlink"}
  BY <1>1 DEF ArmedAt
<1>3. \A x, n, e : Holds(x, n, e)' <=> Holds(x, n, e)
  BY DEF Holds
<1>4. DirTypes(k)'
  BY DEF DirTypes, Dir!Names, ChildType
<1>5. \A e \in k.deliveries : Life(k, e)'
  BY <1>1 DEF Children, Life, Dir!Names
<1>6. \A e, f \in k.deliveries : Apart(k, e, f)'
  <2> SUFFICES ASSUME NEW e \in k.deliveries, NEW f \in k.deliveries, e # d, f # d PROVE Apart(k, e, f)'
    OBVIOUS
  <2>1. Apart(k, e, f)
    BY DEF Children
  <2> QED BY <1>1, <2>1 DEF Apart
<1>7. \A n, e : e \in k.deliveries => (Owner(n, e)' <=> Owner(n, e))
  BY <1>1, <1>2 DEF Owner
<1>8. Owned(k)'
  <2> SUFFICES ASSUME NEW x \in Boxes, NEW n \in Dir(k)!Names, NEW e \in k.deliveries, Holds(x, n, e)
               PROVE  Owner(n, e)' /\ (x # "tmp" => child'[e].at \in {"unlink", "end"} /\ inode'[e].whole /\ inode'[e].synced)
    BY <1>3 DEF Owned, Dir!Names
  <2>1. Owner(n, e) /\ (x # "tmp" => child[e].at \in {"unlink", "end"} /\ inode[e].whole /\ inode[e].synced)
    BY DEF Owned
  <2> QED BY <1>1, <1>2, <1>7, <2>1
<1>9. OneName(k)'
  BY <1>3 DEF OneName, Dir!Names
<1>10. Working(k)'
  <2> SUFFICES ASSUME NEW e \in k.deliveries
               PROVE  /\ child'[e].at \in ArmedAt => Holds("tmp", child'[e].name, e)
                      /\ child'[e].at \in {"sync", "link", "unlink"} => inode'[e].whole
                      /\ child'[e].at \in {"link", "unlink"} => inode'[e].synced
    BY <1>3 DEF Working, Holds
  <2> QED BY <1>1, <1>2 DEF Working
<1>11. KeepsTold(k)'
  <2>1. \A e : Present(k, e)' <=> Present(k, e)
    BY <1>3 DEF Present, Dir!Names
  <2> QED BY <1>1, <1>2, <2>1 DEF KeepsTold
<1>12. Steady(k)
  BY <1>1, <1>2, <1>7, SteadyStill
<1> QED BY <1>4, <1>5, <1>6, <1>8, <1>9, <1>10, <1>11, <1>12, SessionsKeep DEF Children

LEMMA StepFork ==
  ASSUME NEW k, Dir(k)!MaildirAssumption, DirInv(k), NEW d \in k.deliveries, Dir(k)!ForkChild(d)
  PROVE  DirInv(k)'
<1>1. PICK p \in k.pids :
        /\ \A e \in k.deliveries : child[e].pid = p => child[e].at = "end" /\ child[e].alarm < maildir_clock
        /\ child' = [child EXCEPT ![d] = [Dir(k)!NoChild EXCEPT !.at = "stat", !.pid = p]]
  BY DEF Dir!ForkChild
<1> DEFINE c == [at |-> "stat", pid |-> p, name |-> <<>>, alarm |-> 0]
<1>2. child'[d] = c
  BY <1>1 DEF Dir!NoChild, DirInv, World, DirTypes
<1>3. child' = [child EXCEPT ![d] = c]
  <2>1. [Dir(k)!NoChild EXCEPT !.at = "stat", !.pid = p] = c
    BY <1>1, <1>2 DEF DirInv, World, DirTypes
  <2> QED BY <1>1, <2>1
<1>4. c \in ChildType(k) /\ c.at = "stat" /\ c.pid = p
  BY DEF ChildType
<1> HIDE DEF c
<1>5. /\ child[d].at = "none" /\ child' = [child EXCEPT ![d] = c]
      /\ UNCHANGED <<maildir_clock, inode, dir, pop, maildir_told, asked, crashes>>
  BY <1>1, <1>3 DEF Dir!ForkChild
<1>6. child'[d] = c /\ \A e \in k.deliveries : e # d => child'[e] = child[e]
  BY <1>5 DEF DirInv, World, DirTypes
<1>7. Life(k, d)'
  BY <1>4, <1>6 DEF Life, ArmedAt
<1>8. ASSUME NEW e \in k.deliveries PROVE Apart(k, d, e)' /\ Apart(k, e, d)'
  <2>1. e # d /\ child[e].pid = p => child'[e].at = "end" /\ child'[e].alarm < maildir_clock'
    BY <1>1, <1>5, <1>6
  <2>2. "end" \notin ArmedAt /\ "stat" \notin ArmedAt
    BY DEF ArmedAt
  <2> QED BY <1>4, <1>6, <2>1, <2>2 DEF Apart
<1> QED BY <1>4, <1>5, <1>7, <1>8, Early

LEMMA StepStat ==
  ASSUME NEW k, Dir(k)!MaildirAssumption, DirInv(k), NEW d \in k.deliveries, Dir(k)!StatTmp(d)
  PROVE  DirInv(k)'
<1> DEFINE n == <<child[d].pid, maildir_clock>>
<1>1. child[d].at = "stat" /\ UNCHANGED <<maildir_clock, inode, dir, pop, maildir_told, asked, crashes>>
  BY DEF Dir!StatTmp
<1>2. CASE Dir(k)!End(d)
  BY <1>1, <1>2, Ends
<1>3. CASE child' = [child EXCEPT ![d].at = "open", ![d].name = n]
  <2>1. PICK b : b = child[d]
    OBVIOUS
  <2>2. b \in ChildType(k) /\ b.pid \in k.pids /\ maildir_clock \in 0 .. k.horizon
    BY <1>1, <2>1 DEF DirInv, World, DirTypes, Children, Life
  <2>3. PICK m : m = n
    OBVIOUS
  <2>4. m \in Dir(k)!Names /\ m[1] = b.pid /\ m[2] = maildir_clock
    BY <2>1, <2>2, <2>3 DEF Dir!Names
  <2>5. PICK c : c = [b EXCEPT !.at = "open", !.name = m]
    OBVIOUS
  <2>6. c \in ChildType(k) /\ c.at = "open" /\ c.pid = b.pid /\ c.name = m /\ c.alarm = b.alarm
    BY <2>2, <2>4, <2>5 DEF ChildType
  <2>7. child' = [child EXCEPT ![d] = c]
    BY <1>3, <2>1, <2>3, <2>5
  <2>8. child'[d] = c /\ \A e \in k.deliveries : e # d => child'[e] = child[e]
    BY <2>7 DEF DirInv, World, DirTypes
  <2>9. maildir_clock <= maildir_clock /\ "open" \notin ArmedAt
    BY <2>2 DEF ArmedAt
  <2>10. Life(k, d)'
    BY <1>1, <2>2, <2>4, <2>6, <2>8, <2>9 DEF Life, Dir!Names
  <2>11. ASSUME NEW e \in k.deliveries PROVE Apart(k, d, e)' /\ Apart(k, e, d)'
    <3>1. Apart(k, d, e) /\ Apart(k, e, d)
      BY DEF DirInv, World, Children
    <3>2. Apart(k, d, e)'
      BY <1>1, <2>1, <2>4, <2>6, <2>8, <2>9, <3>1 DEF Apart
    <3>3. Apart(k, e, d)'
      BY <1>1, <2>1, <2>4, <2>6, <2>8, <2>9, <3>1 DEF Apart
    <3> QED BY <3>2, <3>3
  <2> HIDE DEF n
  <2>12. child[d].at \in {"none", "stat"} /\ c.at \in {"stat", "open"}
    BY <1>1, <2>6
  <2> QED BY <1>1, <2>6, <2>7, <2>10, <2>11, <2>12, Early
<1> QED BY <1>2, <1>3 DEF Dir!StatTmp

LEMMA Puts ==
  ASSUME NEW k, DOMAIN dir = Boxes, NEW x \in Boxes, NEW n, NEW d, n \notin DOMAIN dir[x], dir' = Dir(k)!Entry(x, n, d)
  PROVE  /\ DOMAIN dir' = Boxes
         /\ \A y \in Boxes : \A m : m \in DOMAIN dir'[y] => \/ m \in DOMAIN dir[y] /\ dir'[y][m] = dir[y][m]
                                                            \/ m = n /\ dir'[y][m] = d
         /\ \A y \in Boxes : \A m, e : Holds(y, m, e)' <=> Holds(y, m, e) \/ (y = x /\ m = n /\ e = d)
<1>1. DOMAIN dir' = Boxes /\ dir'[x] = Dir(k)!More(dir[x], n, d) /\ \A y \in Boxes : y # x => dir'[y] = dir[y]
  BY DEF Dir!Entry
<1>2. /\ DOMAIN dir'[x] = DOMAIN dir[x] \cup {n} /\ dir'[x][n] = d
      /\ \A m \in DOMAIN dir[x] : dir'[x][m] = dir[x][m]
  BY <1>1 DEF Dir!More
<1>3. ASSUME NEW y \in Boxes, NEW m
      PROVE  m \in DOMAIN dir'[y] => \/ m \in DOMAIN dir[y] /\ dir'[y][m] = dir[y][m]
                                     \/ m = n /\ dir'[y][m] = d
  BY <1>1, <1>2
<1>4. ASSUME NEW y \in Boxes, NEW m, NEW e
      PROVE  Holds(y, m, e)' <=> Holds(y, m, e) \/ (y = x /\ m = n /\ e = d)
  <2>1. CASE y = x
    BY <1>2, <2>1 DEF Holds
  <2>2. CASE y # x
    BY <1>1, <2>2 DEF Holds
  <2> QED BY <2>1, <2>2
<1> QED BY <1>1, <1>3, <1>4

(* A child gives its file a name that nothing else has.                       *)
LEMMA Makes ==
  ASSUME NEW k, Dir(k)!MaildirAssumption, DirInv(k), NEW d \in k.deliveries, child[d].at \in {"open", "link"},
         NEW c \in ChildType(k), child' = [child EXCEPT ![d] = c], c.at \in {"write", "unlink"},
         c.pid = child[d].pid, c.name = child[d].name, Life(k, d)',
         NEW n \in Dir(k)!Names, n = child[d].name, NEW x \in {"tmp", "new"}, n \notin DOMAIN dir[x],
         dir' = Dir(k)!Entry(x, n, d),
         inode' \in InodeType(k), \A e \in k.deliveries : e # d => inode'[e] = inode[e],
         \A y \in Boxes, e \in k.deliveries : Holds(y, n, e) => e = d /\ y = "tmp",
         \A y \in Boxes, m \in Dir(k)!Names : Holds(y, m, d) => m = n /\ y = "tmp",
         Spent(k, n) => Holds("tmp", n, d), x = "tmp" \/ Holds("tmp", n, d),
         x = "new" => c.at = "unlink", c.at = "unlink" => x = "new" /\ inode'[d].whole /\ inode'[d].synced,
         UNCHANGED <<maildir_clock, pop, maildir_told, asked, crashes>>
  PROVE  DirInv(k)'
<1> USE DEF DirInv, World
<1>1. child'[d] = c /\ \A e \in k.deliveries : e # d => child'[e] = child[e]
  BY DEF DirTypes
<1>2. c.at \in ArmedAt /\ c.at \notin {"none", "stat", "end"} /\ child[d].at \notin {"none", "stat", "end", "unlink"}
      /\ x \in Boxes /\ DOMAIN dir = Boxes /\ Read \subseteq Boxes /\ "tmp" \notin Read /\ "tmp" \in Boxes
      /\ Read = {"new", "cur"} /\ c.at \notin {"sync", "link"}
  BY DEF ArmedAt, Boxes, Read, DirTypes
<1>3. /\ DOMAIN dir' = Boxes
      /\ \A y \in Boxes : \A m : m \in DOMAIN dir'[y] => \/ m \in DOMAIN dir[y] /\ dir'[y][m] = dir[y][m]
                                                         \/ m = n /\ dir'[y][m] = d
      /\ \A y \in Boxes : \A m, e : Holds(y, m, e)' <=> Holds(y, m, e) \/ (y = x /\ m = n /\ e = d)
  <2> HIDE DEF DirInv, World
  <2>1. x \in Boxes /\ DOMAIN dir = Boxes /\ n \notin DOMAIN dir[x] /\ dir' = Dir(k)!Entry(x, n, d)
    BY <1>2
  <2> QED BY ONLY <2>1, Puts
<1>4. DirTypes(k)'
  <2>1. \A y \in Boxes : \A m \in DOMAIN dir'[y] : m \in Dir(k)!Names /\ dir'[y][m] \in k.deliveries
    BY <1>3 DEF DirTypes
  <2>2. child' \in [k.deliveries -> ChildType(k)]
    BY DEF DirTypes
  <2> QED BY <1>3, <2>1, <2>2 DEF DirTypes, ChildType, Dir!Names, InodeType
<1>5. \A e \in k.deliveries : Life(k, e)'
  BY <1>1 DEF Children, Life, Dir!Names
<1>6. \A e, f \in k.deliveries : Apart(k, e, f)'
  <2> SUFFICES ASSUME NEW e \in k.deliveries, NEW f \in k.deliveries PROVE Apart(k, e, f)'
    OBVIOUS
  <2>1. Apart(k, e, f) /\ Apart(k, f, e)
    BY DEF Children
  <2>2. child[d].at \in {"stat", "open"} \cup ArmedAt /\ child[d].at \in {"open"} \cup ArmedAt
    BY DEF ArmedAt
  <2>3. CASE e = d
    BY <1>1, <1>2, <2>1, <2>2, <2>3 DEF Apart
  <2>4. CASE f = d
    BY <1>1, <1>2, <2>1, <2>2, <2>4 DEF Apart
  <2>5. CASE e # d /\ f # d
    BY <1>1, <2>1, <2>5 DEF Apart
  <2> QED BY <2>3, <2>4, <2>5
<1>7. \A m, e : e \in k.deliveries /\ Owner(m, e) => Owner(m, e)'
  BY <1>1, <1>2 DEF Owner
<1>8. Owner(n, d)'
  BY <1>1, <1>2 DEF Owner, Children, Life, ArmedAt
<1>9. Owned(k)'
  <2> SUFFICES ASSUME NEW y \in Boxes, NEW m \in Dir(k)!Names, NEW e \in k.deliveries, Holds(y, m, e)'
               PROVE  Owner(m, e)' /\ (y # "tmp" => child'[e].at \in {"unlink", "end"} /\ inode'[e].whole /\ inode'[e].synced)
    BY DEF Owned, Dir!Names
  <2>1. CASE Holds(y, m, e)
    <3>1. Owner(m, e) /\ (y # "tmp" => child[e].at \in {"unlink", "end"} /\ inode[e].whole /\ inode[e].synced)
      BY <2>1 DEF Owned
    <3>2. y # "tmp" => e # d
      BY <2>1
    <3> QED BY <1>1, <1>7, <3>1, <3>2
  <2>2. CASE y = x /\ m = n /\ e = d
    BY <1>1, <1>8, <2>2
  <2> QED BY <1>3, <2>1, <2>2
<1>10. OneName(k)'
  <2>1. ASSUME NEW y \in Boxes, NEW z \in Boxes, NEW m \in Dir(k)!Names, NEW e \in k.deliveries, NEW f \in k.deliveries,
               Holds(y, m, e)', Holds(z, m, f)'
        PROVE  e = f
    <3>1. Holds(y, m, e) /\ Holds(z, m, f) => e = f
      BY DEF OneName
    <3> QED BY <1>3, <2>1, <3>1
  <2>2. ASSUME NEW y \in Boxes, NEW z \in Boxes, NEW l \in Dir(k)!Names, NEW m \in Dir(k)!Names, NEW e \in k.deliveries,
               Holds(y, l, e)', Holds(z, m, e)'
        PROVE  l = m
    <3>1. Holds(y, l, e) /\ Holds(z, m, e) => l = m
      BY DEF OneName
    <3> QED BY <1>3, <2>2, <3>1
  <2>3. ASSUME NEW m \in Dir(k)!Names, NEW e \in k.deliveries, Holds("new", m, e)', Holds("cur", m, e)' PROVE FALSE
    <3>1. "new" \in Boxes /\ "cur" \in Boxes /\ x # "cur"
      BY DEF Boxes
    <3>2. Holds("cur", m, e) /\ (Holds("new", m, e) \/ e = d)
      BY <1>3, <2>3, <3>1
    <3>3. ~(Holds("new", m, e) /\ Holds("cur", m, e))
      BY DEF OneName
    <3> QED BY <3>1, <3>2, <3>3
  <2> QED BY <2>1, <2>2, <2>3 DEF OneName, Dir!Names
<1>11. Working(k)'
  <2> SUFFICES ASSUME NEW e \in k.deliveries
               PROVE  /\ (child[e].at \in ArmedAt => Holds("tmp", child[e].name, e))'
                      /\ child'[e].at \in {"sync", "link", "unlink"} => inode'[e].whole
                      /\ child'[e].at \in {"link", "unlink"} => inode'[e].synced
    BY DEF Working
  <2>1. CASE e = d
    <3>1. Holds("tmp", n, d)'
      BY <1>2, <1>3
    <3>2. child'[d].name = n
      BY <1>1
    <3>3. Holds("tmp", child[e].name, e)'
      BY <2>1, <3>1, <3>2 DEF Holds
    <3> QED BY <1>1, <1>2, <2>1, <3>3
  <2>2. CASE e # d
    <3>1. child[e].at \in ArmedAt => Holds("tmp", child[e].name, e)
      BY DEF Working
    <3>2. PICK m : m = child[e].name
      OBVIOUS
    <3>3. child[e].at \in ArmedAt => Holds("tmp", m, e)'
      BY <1>2, <1>3, <3>1, <3>2
    <3>4. child'[e] = child[e] /\ inode'[e] = inode[e]
      BY <1>1, <2>2
    <3> QED BY <3>2, <3>3, <3>4 DEF Working, Holds
  <2> QED BY <2>1, <2>2
<1>12. \A e \in k.deliveries : (e # d => (Present(k, e)' <=> Present(k, e))) /\ (Present(k, e) => Present(k, e)')
  BY <1>2, <1>3 DEF Present, Dir!Names
<1>13. KeepsTold(k)'
  <2>1. x = "new" => Present(k, d)'
    BY <1>2, <1>3 DEF Present, Dir!Names
  <2> QED BY <1>1, <1>2, <1>12, <2>1 DEF KeepsTold
<1>14. Steady(k)
  <2>1. \A m \in Dir(k)!Names : Spent(k, m) => Spent(k, m)'
    BY <1>7 DEF Spent
  <2>2. \A e \in k.deliveries : child[e].at \in {"unlink", "end"} =>
          child'[e].at \in {"unlink", "end"} /\ inode'[e].mtime = inode[e].mtime /\ (Present(k, e)' => Present(k, e))
    BY <1>1, <1>2, <1>12
  <2>3. \A m \in Dir(k)!Names : Spent(k, m) =>
          \A y \in Boxes, e \in k.deliveries : Holds(y, m, e)' => \E z \in Boxes : Holds(z, m, e)
    BY <1>2, <1>3
  <2>4. "new" \in Boxes /\ "cur" \in Boxes
    BY DEF Boxes
  <2>5. \A m, e : (Holds("new", m, e) => Holds("new", m, e)') /\ (Holds("cur", m, e) => Holds("cur", m, e)')
    BY <1>3, <2>4
  <2> QED BY <2>1, <2>2, <2>3, <2>5 DEF Steady
<1> QED BY <1>4, <1>5, <1>6, <1>9, <1>10, <1>11, <1>13, <1>14, SessionsKeep DEF Children

LEMMA StepOpen ==
  ASSUME NEW k, Dir(k)!MaildirAssumption, DirInv(k), NEW d \in k.deliveries, Dir(k)!OpenTmp(d)
  PROVE  DirInv(k)'
<1> USE DEF DirInv, World
<1>1. child[d].at = "open" /\ UNCHANGED <<maildir_clock, pop, maildir_told, asked, crashes>>
  BY DEF Dir!OpenTmp
<1>2. PICK n : n = child[d].name
  OBVIOUS
<1>3. n \in Dir(k)!Names /\ n[1] = child[d].pid /\ n[2] <= maildir_clock /\ child[d].pid \in k.pids
  BY <1>1, <1>2 DEF Children, Life
<1>4. CASE Dir(k)!In("tmp", n)
  BY <1>1, <1>2, <1>4, Ends DEF Dir!OpenTmp
<1>5. CASE ~Dir(k)!In("tmp", n)
  <2>1. /\ child' = [child EXCEPT ![d].at = "write", ![d].alarm = maildir_clock + k.alarm]
        /\ inode' = [inode EXCEPT ![d].atime = maildir_clock, ![d].mtime = maildir_clock]
        /\ dir' = Dir(k)!Entry("tmp", n, d)
    BY <1>2, <1>5 DEF Dir!OpenTmp
  <2>2. PICK b : b = child[d]
    OBVIOUS
  <2>3. b \in ChildType(k) /\ maildir_clock \in Nat /\ maildir_clock + k.alarm \in Nat /\ maildir_clock <= maildir_clock + k.alarm
    <3>1. maildir_clock \in Nat /\ k.alarm \in Nat
      BY Constants DEF DirTypes
    <3> QED BY <2>2, <3>1 DEF DirTypes
  <2>4. PICK t : t = maildir_clock + k.alarm
    OBVIOUS
  <2>5. PICK c : c = [b EXCEPT !.at = "write", !.alarm = t]
    OBVIOUS
  <2>6. c \in ChildType(k) /\ c.at = "write" /\ c.alarm = t /\ c.pid = b.pid /\ c.name = b.name
    BY <2>3, <2>4, <2>5 DEF ChildType, ArmedAt
  <2>7. child' = [child EXCEPT ![d] = c]
    BY <2>1, <2>2, <2>4, <2>5
  <2>8. /\ inode' \in InodeType(k) /\ inode'[d].atime = maildir_clock
        /\ \A e \in k.deliveries : e # d => inode'[e] = inode[e]
    BY <2>1, <2>3 DEF DirTypes, InodeType
  <2>9. child'[d] = c
    BY <2>7 DEF DirTypes
  <2>10. Life(k, d)'
    BY <1>1, <1>2, <1>3, <2>2, <2>3, <2>4, <2>6, <2>8, <2>9 DEF Life, Dir!Names
  <2>11. ~Spent(k, n)
    <3> SUFFICES ASSUME NEW e \in k.deliveries, Owner(n, e) PROVE FALSE
      BY DEF Spent
    <3>1. child[e].pid = child[d].pid /\ e # d /\ child[e].at # "none"
      BY <1>1, <1>3 DEF Owner, ArmedAt
    <3>2. child[e].at = "end" /\ child[e].alarm < n[2]
      BY <1>1, <1>2, <3>1 DEF Children, Apart
    <3>3. n[2] <= child[e].alarm
      BY <3>2 DEF Owner, ArmedAt
    <3>4. child[e].alarm \in Nat /\ n[2] \in Nat
      BY <1>3 DEF DirTypes, ChildType, Dir!Names
    <3> QED BY <3>2, <3>3, <3>4
  <2>12. \A y \in Boxes, e \in k.deliveries : ~Holds(y, n, e)
    BY <1>3, <2>11 DEF Owned, Spent
  <2>13. \A y \in Boxes, m \in Dir(k)!Names : ~Holds(y, m, d)
    <3>1. \A m : ~Owner(m, d)
      BY <1>1 DEF Owner, ArmedAt
    <3> QED BY <3>1 DEF Owned
  <2>14. n \notin DOMAIN dir["tmp"]
    BY <1>5 DEF Dir!In
  <2>15. c.pid = child[d].pid /\ c.name = child[d].name
    BY <2>2, <2>6
  <2> QED BY <1>1, <1>2, <1>3, <2>1, <2>6, <2>7, <2>8, <2>10, <2>11, <2>12, <2>13, <2>14, <2>15, Makes
<1> QED BY <1>4, <1>5

LEMMA StepLink ==
  ASSUME NEW k, Dir(k)!MaildirAssumption, DirInv(k), NEW d \in k.deliveries, Dir(k)!LinkNew(d)
  PROVE  DirInv(k)'
<1> USE DEF DirInv, World
<1>1. child[d].at = "link" /\ UNCHANGED <<maildir_clock, inode, pop, maildir_told, asked, crashes>>
  BY DEF Dir!LinkNew
<1>2. PICK n : n = child[d].name
  OBVIOUS
<1>3. n \in Dir(k)!Names /\ Holds("tmp", n, d) /\ inode[d].whole /\ inode[d].synced
  BY <1>1, <1>2 DEF Children, Life, Working, ArmedAt
<1>4. inode' \in InodeType(k)
  BY <1>1 DEF DirTypes, InodeType
<1>5. CASE Dir(k)!In("new", n)
  <2>1. Dir(k)!Goto(d, "fail") /\ UNCHANGED dir
    BY <1>2, <1>5 DEF Dir!LinkNew
  <2>2. "fail" \in ArmedAt \ {"unlink"}
    BY DEF ArmedAt
  <2> QED BY <1>1, <1>4, <2>1, <2>2, Works
<1>6. CASE ~Dir(k)!In("new", n)
  <2>1. Dir(k)!In("tmp", n) /\ dir["tmp"][n] = d
    BY <1>3 DEF Holds, Dir!In
  <2>2. Dir(k)!Goto(d, "unlink") /\ dir' = Dir(k)!Entry("new", n, d)
    BY <1>2, <1>6, <2>1 DEF Dir!LinkNew
  <2>3. PICK b : b = child[d]
    OBVIOUS
  <2>4. b \in ChildType(k)
    BY <2>3 DEF DirTypes
  <2>5. PICK c : c = [b EXCEPT !.at = "unlink"]
    OBVIOUS
  <2>6. c \in ChildType(k) /\ c.at = "unlink" /\ c.alarm = b.alarm /\ c.pid = b.pid /\ c.name = b.name
    BY <2>4, <2>5 DEF ChildType, ArmedAt
  <2>7. child' = [child EXCEPT ![d] = c]
    BY <2>2, <2>3, <2>5 DEF Dir!Goto
  <2>8. child'[d] = c
    BY <2>7 DEF DirTypes
  <2>9. Life(k, d)'
    <3>1. Life(k, d)
      BY DEF Children
    <3> QED BY <1>1, <2>3, <2>6, <2>8, <3>1 DEF Life, Dir!Names, ArmedAt
  <2>10. "tmp" \in Boxes
    BY DEF Boxes
  <2>11. \A y \in Boxes, m \in Dir(k)!Names : Holds(y, m, d) => m = n /\ y = "tmp"
    <3>1. \A y \in Boxes, m \in Dir(k)!Names : Holds(y, m, d) => y = "tmp"
      BY <1>1 DEF Owned
    <3>2. \A y \in Boxes, m \in Dir(k)!Names : Holds(y, m, d) => m = n
      BY <1>3, <2>10 DEF OneName
    <3> QED BY <3>1, <3>2
  <2>12. \A y \in Boxes, e \in k.deliveries : Holds(y, n, e) => e = d /\ y = "tmp"
    <3>1. \A y \in Boxes, e \in k.deliveries : Holds(y, n, e) => e = d
      BY <1>3, <2>10 DEF OneName
    <3> QED BY <1>3, <2>11, <3>1
  <2>13. n \notin DOMAIN dir["new"]
    BY <1>6 DEF Dir!In
  <2>14. c.pid = child[d].pid /\ c.name = child[d].name /\ inode' = inode
    BY <1>1, <2>3, <2>6
  <2> QED BY <1>1, <1>2, <1>3, <1>4, <2>2, <2>6, <2>7, <2>9, <2>11, <2>12, <2>13, <2>14, Makes
<1> QED BY <1>5, <1>6

LEMMA StepChild ==
  ASSUME NEW k, Dir(k)!MaildirAssumption, DirInv(k), NEW d \in k.deliveries, Dir(k)!Child(d)
  PROVE  DirInv(k)'
BY StepFork, StepStat, StepOpen, StepWrite, StepLink, StepEnd DEF Dir!Child

-----------------------------------------------------------------------------
(* Sessions *)

LEMMA WorldStill ==
  ASSUME NEW k, World(k), UNCHANGED <<maildir_clock, child, inode, dir, maildir_told, crashes>>,
         asked \subseteq asked', asked' \subseteq k.deliveries
  PROVE  World(k)' /\ Steady(k)
<1> USE DEF World
<1>1. \A x, n, e : Holds(x, n, e)' <=> Holds(x, n, e)
  BY DEF Holds
<1>2. \A e : Present(k, e)' <=> Present(k, e)
  BY <1>1 DEF Present, Dir!Names
<1>3. \A n, e : Owner(n, e)' <=> Owner(n, e)
  BY DEF Owner
<1>4. DirTypes(k)'
  BY DEF DirTypes, ChildType, Dir!Names
<1>5. Children(k)'
  BY DEF Children, Life, Apart, Dir!Names
<1>6. Owned(k)'
  BY <1>1, <1>3 DEF Owned, Dir!Names
<1>7. OneName(k)'
  BY <1>1 DEF OneName, Dir!Names
<1>8. Working(k)'
  BY DEF Working, Holds
<1>9. KeepsTold(k)'
  BY <1>2 DEF KeepsTold
<1>10. Steady(k)
  BY <1>1, <1>2, <1>3 DEF Steady, Spent
<1> QED BY <1>4, <1>5, <1>6, <1>7, <1>8, <1>9, <1>10

LEMMA OneSession ==
  ASSUME NEW k, Readers(k), World(k)', Steady(k), NEW s \in k.sessions, NEW p \in PopType(k),
         pop' = [pop EXCEPT ![s] = p], Deletes(k, s)', Lists(k, s)'
  PROVE  DirInv(k)'
<1>1. PopTypes(k)'
  <2>1. pop' \in [k.sessions -> PopType(k)]
    BY DEF Readers, PopTypes
  <2> QED BY <2>1 DEF PopTypes, PopType, Dir!Names
<1>2. ASSUME NEW t \in k.sessions, t # s PROVE Deletes(k, t)' /\ Lists(k, t)'
  <2>1. pop'[t] = pop[t]
    BY <1>2 DEF Readers, PopTypes
  <2> QED BY <2>1, SessionKeeps DEF Readers
<1> QED BY <1>1, <1>2 DEF DirInv, Readers

LEMMA StepClean ==
  ASSUME NEW k, Dir(k)!MaildirAssumption, DirInv(k), NEW s \in k.sessions, Dir(k)!CleanTmp(s)
  PROVE  DirInv(k)'
<1>1. /\ pop[s].at = "none" /\ pop' = [pop EXCEPT ![s].at = "new", ![s].time = maildir_clock]
      /\ UNCHANGED <<maildir_clock, child, inode, maildir_told, asked, crashes>>
  BY DEF Dir!CleanTmp
<1>2. /\ DOMAIN dir = Boxes /\ maildir_clock \in Nat /\ "tmp" \in Boxes /\ "tmp" \notin Read /\ Read \subseteq Boxes
      /\ Read = {"new", "cur"}
  BY DEF DirInv, World, DirTypes, Boxes, Read
<1>3. /\ DOMAIN dir' = Boxes /\ \A x \in Boxes : x # "tmp" => dir'[x] = dir[x]
      /\ DOMAIN dir'["tmp"] = {n \in DOMAIN dir["tmp"] : ~Dir(k)!Old(n)}
      /\ \A n \in DOMAIN dir'["tmp"] : dir'["tmp"][n] = dir["tmp"][n]
  <2>1. dir' = [dir EXCEPT !["tmp"] = [n \in {m \in DOMAIN dir["tmp"] : ~Dir(k)!Old(m)} |-> dir["tmp"][n]]]
    BY DEF Dir!CleanTmp
  <2> QED BY <1>2, <2>1
<1>4. \A x \in Boxes : \A n, e : Holds(x, n, e)' => Holds(x, n, e)
  BY <1>2, <1>3 DEF Holds
<1>5. \A x \in Boxes : \A n, e : x # "tmp" => (Holds(x, n, e)' <=> Holds(x, n, e))
  BY <1>3 DEF Holds
<1>6. \A e : Present(k, e)' <=> Present(k, e)
  BY <1>2, <1>5 DEF Present, Dir!Names
<1>7. \A n, e : Owner(n, e)' <=> Owner(n, e)
  BY <1>1 DEF Owner
<1>8. World(k)'
  <2> USE DEF DirInv, World
  <2>1. DirTypes(k)'
    <3>1. \A x \in Boxes : \A n \in DOMAIN dir'[x] : n \in DOMAIN dir[x] /\ dir'[x][n] = dir[x][n]
      BY <1>2, <1>3
    <3>2. \A x \in Boxes : \A n \in DOMAIN dir'[x] : n \in Dir(k)!Names /\ dir'[x][n] \in k.deliveries
      BY <3>1 DEF DirTypes
    <3> QED BY <1>1, <1>3, <3>2 DEF DirTypes, ChildType, Dir!Names
  <2>2. Children(k)'
    BY <1>1 DEF Children, Life, Apart, Dir!Names
  <2>3. Owned(k)'
    BY <1>1, <1>4, <1>7 DEF Owned, Dir!Names
  <2>4. OneName(k)'
    <3>1. "new" \in Boxes /\ "cur" \in Boxes
      BY DEF Boxes
    <3> QED BY <1>4, <3>1 DEF OneName, Dir!Names
  <2>5. Working(k)'
    <3> SUFFICES ASSUME NEW d \in k.deliveries, child[d].at \in ArmedAt PROVE Holds("tmp", child[d].name, d)'
      BY <1>1 DEF Working
    <3>1. PICK n : n = child[d].name
      OBVIOUS
    <3>2. Holds("tmp", n, d) /\ child[d].alarm = inode[d].atime + k.alarm /\ maildir_clock <= child[d].alarm
      BY <3>1 DEF Working, Children, Life
    <3>3. ~Dir(k)!Old(n)
      <4>1. dir["tmp"][n] = d
        BY <3>2 DEF Holds
      <4>2. inode[d].atime \in Nat /\ k.alarm \in Nat /\ k.clean \in Nat /\ k.alarm < k.clean
        BY Constants DEF DirTypes
      <4>3. ~(maildir_clock > inode[d].atime + k.clean)
        BY <1>2, <3>2, <4>2
      <4> QED BY <4>1, <4>3 DEF Dir!Old
    <3>4. Holds("tmp", n, d)'
      BY <1>3, <3>2, <3>3 DEF Holds
    <3> QED BY <1>1, <3>1, <3>4 DEF Holds
  <2>6. KeepsTold(k)'
    BY <1>1, <1>6 DEF KeepsTold
  <2> QED BY <2>1, <2>2, <2>3, <2>4, <2>5, <2>6
<1>9. Steady(k)
  <2>1. \A n : Spent(k, n)' <=> Spent(k, n)
    BY <1>7 DEF Spent
  <2>2. "new" \in Boxes /\ "cur" \in Boxes
    BY DEF Boxes
  <2> QED BY <1>1, <1>4, <1>5, <1>6, <2>1, <2>2 DEF Steady
<1>10. PICK b : b = pop[s]
  OBVIOUS
<1>11. PICK p : p = [b EXCEPT !.at = "new", !.time = maildir_clock]
  OBVIOUS
<1>12. b \in PopType(k)
  BY <1>10 DEF DirInv, Readers, PopTypes
<1>13. p \in PopType(k) /\ p.at = "new" /\ p.list = b.list /\ p.del = b.del
  BY <1>2, <1>11, <1>12 DEF PopType
<1>14. pop' = [pop EXCEPT ![s] = p]
  BY <1>1, <1>10, <1>11
<1>15. pop'[s] = p
  BY <1>14 DEF DirInv, Readers, PopTypes
<1>16. Deletes(k, s)'
  <2>1. Deletes(k, s) /\ PopTypes(k) /\ pop[s].del = {}
    BY <1>1 DEF DirInv, Readers, Deletes
  <2> QED BY <1>9, <1>10, <1>13, <1>15, <2>1, DeletesKeep
<1>17. Lists(k, s)'
  BY <1>13, <1>15 DEF Lists
<1> QED BY <1>8, <1>9, <1>13, <1>14, <1>16, <1>17, OneSession DEF DirInv

LEMMA StepEndSession ==
  ASSUME NEW k, Dir(k)!MaildirAssumption, DirInv(k), NEW s \in k.sessions,
         Dir(k)!Rset(s) \/ Dir(k)!Quit(s) \/ Dir(k)!EndSession(s)
  PROVE  DirInv(k)'
<1>1. UNCHANGED <<maildir_clock, child, inode, dir, maildir_told, asked, crashes>>
  BY DEF Dir!Rset, Dir!Quit, Dir!EndSession
<1>2. World(k)' /\ Steady(k)
  <2>1. asked \subseteq k.deliveries
    BY DEF DirInv, World, DirTypes
  <2> QED BY <1>1, <2>1, WorldStill DEF DirInv
<1>3. PICK b : b = pop[s]
  OBVIOUS
<1>4. b \in PopType(k) /\ Deletes(k, s) /\ Lists(k, s) /\ PopTypes(k)
  BY <1>3 DEF DirInv, Readers, PopTypes
<1>5. CASE Dir(k)!Rset(s)
  <2>1. PICK p : p = [b EXCEPT !.del = {}]
    OBVIOUS
  <2>2. p \in PopType(k) /\ p.at = b.at /\ p.list = b.list /\ p.del = {} /\ p.time = b.time /\ p.there = b.there
    BY <1>4, <2>1 DEF PopType
  <2>3. pop' = [pop EXCEPT ![s] = p]
    BY <1>3, <1>5, <2>1 DEF Dir!Rset
  <2>4. pop'[s] = p
    BY <1>4, <2>3 DEF PopTypes
  <2>5. Deletes(k, s)'
    BY <1>2, <1>3, <1>4, <2>2, <2>4, DeletesKeep
  <2>6. Lists(k, s)'
    BY <1>1, <1>3, <1>4, <2>2, <2>4 DEF Lists, Listing, Present, Holds, Dir!Names
  <2> QED BY <1>2, <2>2, <2>3, <2>5, <2>6, OneSession DEF DirInv
<1>6. CASE Dir(k)!Quit(s)
  <2>1. PICK p : p = [b EXCEPT !.at = "quit"]
    OBVIOUS
  <2>2. p \in PopType(k) /\ p.at = "quit" /\ p.list = b.list /\ p.del = b.del
    BY <1>4, <2>1 DEF PopType
  <2>3. pop' = [pop EXCEPT ![s] = p]
    BY <1>3, <1>6, <2>1 DEF Dir!Quit
  <2>4. pop'[s] = p
    BY <1>4, <2>3 DEF PopTypes
  <2>5. Deletes(k, s)'
    BY <1>2, <1>3, <1>4, <2>2, <2>4, DeletesKeep
  <2>6. Lists(k, s)'
    BY <2>2, <2>4 DEF Lists
  <2> QED BY <1>2, <2>2, <2>3, <2>5, <2>6, OneSession DEF DirInv
<1>7. CASE Dir(k)!EndSession(s)
  <2>1. PICK p : p = Dir(k)!NoPop
    OBVIOUS
  <2>2. p \in PopType(k) /\ p.at = "none" /\ p.list = <<>> /\ p.del = {}
    <3>1. p = [at |-> "none", time |-> 0, list |-> <<>>, del |-> {}, there |-> {}]
      BY <2>1 DEF Dir!NoPop
    <3>2. <<>> \in Seq(Read \X Dir(k)!Names)
      OBVIOUS
    <3> QED BY <3>1, <3>2 DEF PopType
  <2>3. pop' = [pop EXCEPT ![s] = p]
    BY <1>7, <2>1 DEF Dir!EndSession
  <2>4. pop'[s] = p
    BY <1>4, <2>3 DEF PopTypes
  <2>5. Deletes(k, s)' /\ Lists(k, s)'
    <3>1. DOMAIN <<>> = {}
      OBVIOUS
    <3> QED BY <2>2, <2>4, <3>1 DEF Deletes, Lists
  <2> QED BY <1>2, <2>2, <2>3, <2>5, OneSession DEF DirInv
<1> QED BY <1>5, <1>6, <1>7

LEMMA SameSets ==
  ASSUME NEW k, NEW S, NEW T
  PROVE  /\ Dir(k)!Cardinality(S) = Cardinality(S) /\ (Dir(k)!IsFiniteSet(S) <=> IsFiniteSet(S))
         /\ Dir(k)!Bijection(S, T) = Bijection(S, T)
<1>1. Dir(k)!Cardinality(S) = Cardinality(S)
  BY DEF Cardinality, Dir!Cardinality, Dir!IsFiniteSet, IsFiniteSet
<1>2. Dir(k)!IsFiniteSet(S) <=> IsFiniteSet(S)
  BY DEF Dir!IsFiniteSet, IsFiniteSet
<1>3. Dir(k)!Bijection(S, T) = Bijection(S, T)
  BY DEF Dir!Bijection, Dir!Injection, Dir!Surjection, Dir!IsInjective, Bijection, Injection, Surjection, IsInjective
<1> QED BY <1>1, <1>2, <1>3

(* What readdir() gives is a sequence of all entries that are old enough.     *)
Scanned(k, s, x, q) ==
  /\ q \in Seq(Read \X Dir(k)!Names)
  /\ \A i \in DOMAIN q : \E d \in k.deliveries :
       q[i][1] = x /\ q[i][2] \in Dir(k)!Names /\ Holds(x, q[i][2], d)
  /\ \A n, d : Holds(x, n, d) /\ inode[d].mtime < pop[s].time => \E i \in DOMAIN q : q[i] = <<x, n>>
LEMMA Scans ==
  ASSUME NEW k, Dir(k)!MaildirAssumption, DirInv(k), NEW s \in k.sessions, NEW x \in Read,
         NEW q \in Dir(k)!InAnyOrder(Dir(k)!Listed(s, x))
  PROVE  Scanned(k, s, x, q)
<1> DEFINE S == Dir(k)!Listed(s, x)
<1>1. x \in Boxes /\ DOMAIN dir = Boxes
  BY DEF Boxes, Read, DirInv, World, DirTypes
<1>2. \A e : e \in S <=> \E n \in DOMAIN dir[x] : inode[dir[x][n]].mtime < pop[s].time /\ e = <<x, n>>
  BY DEF Dir!Listed
<1>3. S \subseteq {x} \X Dir(k)!Names
  BY <1>1, <1>2, HeldIs DEF DirInv, World
<1>4. IsFiniteSet(S)
  <2>1. IsFiniteSet(k.pids) /\ IsFiniteSet(0 .. k.horizon) /\ IsFiniteSet({x})
    <3>1. IsFiniteSet(k.pids)
      BY SameSets DEF Dir!MaildirAssumption
    <3>2. IsFiniteSet(0 .. k.horizon)
      <4>1. 0 \in Int /\ k.horizon \in Int
        BY Constants
      <4> QED BY <4>1, FS_Interval
    <3> QED BY <3>1, <3>2, FS_Singleton
  <2>2. IsFiniteSet(Dir(k)!Names)
    BY <2>1, FS_Product DEF Dir!Names
  <2>3. IsFiniteSet({x} \X Dir(k)!Names)
    BY <2>1, <2>2, FS_Product
  <2> QED BY <1>3, <2>3, FS_Subset
<1>5. Cardinality(S) \in Nat
  BY <1>4, FS_CardinalityType
<1> HIDE DEF S
<1>6. q \in Bijection(1 .. Cardinality(S), S)
  BY SameSets DEF Dir!InAnyOrder, S
<1>7. q \in [1 .. Cardinality(S) -> S] /\ \A e \in S : \E i \in 1 .. Cardinality(S) : q[i] = e
  BY <1>6 DEF Bijection, Injection, Surjection
<1>8. q \in Seq(S) /\ DOMAIN q = 1 .. Cardinality(S)
  BY <1>5, <1>7
<1>9. q \in Seq(Read \X Dir(k)!Names)
  <2>1. S \subseteq Read \X Dir(k)!Names
    BY <1>3
  <2> QED BY <1>5, <1>7, <2>1
<1>10. ASSUME NEW i \in DOMAIN q
       PROVE  \E d \in k.deliveries : q[i][1] = x /\ q[i][2] \in Dir(k)!Names /\ Holds(x, q[i][2], d)
  <2>1. PICK n \in DOMAIN dir[x] : q[i] = <<x, n>>
    BY <1>2, <1>7, <1>8
  <2>2. Holds(x, n, dir[x][n]) /\ n \in Dir(k)!Names /\ dir[x][n] \in k.deliveries
    BY <1>1, HeldIs DEF DirInv, World
  <2> QED BY <2>1, <2>2
<1>11. ASSUME NEW n, NEW d, Holds(x, n, d), inode[d].mtime < pop[s].time PROVE \E i \in DOMAIN q : q[i] = <<x, n>>
  <2>1. n \in DOMAIN dir[x] /\ dir[x][n] = d
    BY <1>11 DEF Holds
  <2>2. <<x, n>> \in S
    BY <1>2, <1>11, <2>1
  <2> QED BY <1>7, <1>8, <2>2
<1> QED BY <1>9, <1>10, <1>11 DEF Scanned

LEMMA StepScanFirst ==
  ASSUME NEW k, Dir(k)!MaildirAssumption, DirInv(k), NEW s \in k.sessions, Dir(k)!ScanFirst(s)
  PROVE  DirInv(k)'
<1> DEFINE T == {Dir(k)!At(e) : e \in Dir(k)!Listed(s, "new") \cup Dir(k)!Listed(s, "cur")}
<1>1. /\ pop[s].at = "new"
      /\ UNCHANGED <<maildir_clock, child, inode, dir, maildir_told, asked, crashes>>
  BY DEF Dir!ScanFirst
<1>2. PICK q \in Dir(k)!InAnyOrder(Dir(k)!Listed(s, "new")) :
        pop' = [pop EXCEPT ![s].at = "cur", ![s].list = q, ![s].there = T]
  BY DEF Dir!ScanFirst, Dir!Directories
<1>3. World(k)' /\ Steady(k)
  <2>1. asked \subseteq k.deliveries
    BY DEF DirInv, World, DirTypes
  <2> QED BY <1>1, <2>1, WorldStill DEF DirInv
<1>4. PICK b : b = pop[s]
  OBVIOUS
<1>5. b \in PopType(k) /\ Deletes(k, s) /\ PopTypes(k) /\ b.del = {}
  BY <1>1, <1>4 DEF DirInv, Readers, PopTypes, Deletes
<1>6. /\ q \in Seq(Read \X Dir(k)!Names)
      /\ \A i \in DOMAIN q : \E d \in k.deliveries :
           q[i][1] = "new" /\ q[i][2] \in Dir(k)!Names /\ Holds("new", q[i][2], d)
      /\ \A n, d : Holds("new", n, d) /\ inode[d].mtime < pop[s].time => \E i \in DOMAIN q : q[i] = <<"new", n>>
  <2>1. PICK x \in Read : x = "new"
    BY DEF Read
  <2>2. q \in Dir(k)!InAnyOrder(Dir(k)!Listed(s, x))
    BY <2>1
  <2>3. Scanned(k, s, x, q)
    BY <2>2, Scans
  <2> QED BY <2>1, <2>3 DEF Scanned
<1>7. \A d \in T : /\ d \in k.deliveries /\ inode[d].mtime < pop[s].time
                   /\ \E x \in Read, n \in Dir(k)!Names : Holds(x, n, d)
  <2> SUFFICES ASSUME NEW x \in Read, NEW n \in DOMAIN dir[x], inode[dir[x][n]].mtime < pop[s].time
               PROVE  dir[x][n] \in k.deliveries /\ n \in Dir(k)!Names /\ Holds(x, n, dir[x][n])
    BY DEF Dir!Listed, Dir!At, Read
  <2>1. x \in Boxes
    BY DEF Boxes, Read
  <2> QED BY <2>1, HeldIs DEF DirInv, World
<1> HIDE DEF T
<1>8. PICK p : p = [b EXCEPT !.at = "cur", !.list = q, !.there = T]
  OBVIOUS
<1>9. p \in PopType(k) /\ p.at = "cur" /\ p.list = q /\ p.there = T /\ p.del = {} /\ p.time = b.time
  <2>1. T \in SUBSET k.deliveries
    BY <1>7
  <2> QED BY <1>5, <1>6, <1>8, <2>1 DEF PopType
<1>10. pop' = [pop EXCEPT ![s] = p]
  BY <1>2, <1>4, <1>8
<1>11. pop'[s] = p
  BY <1>5, <1>10 DEF PopTypes
<1>12. \A x, n, e : Holds(x, n, e)' <=> Holds(x, n, e)
  BY <1>1 DEF Holds
<1>13. Deletes(k, s)'
  <2>1. ASSUME NEW i \in DOMAIN q PROVE Spent(k, q[i][2])'
    <3>1. PICK n \in Dir(k)!Names, d \in k.deliveries : n = q[i][2] /\ Holds("new", n, d)
      BY <1>6
    <3>2. Owner(n, d)
      BY <3>1 DEF DirInv, World, Owned, Boxes
    <3>3. Owner(n, d)'
      BY <1>1, <3>2 DEF Owner
    <3>4. q' = q
      OBVIOUS
    <3> QED BY <3>1, <3>3 DEF Spent, Owner
  <2> QED BY <1>9, <1>11, <2>1 DEF Deletes, Spent, Owner
<1>14. Lists(k, s)'
  <2> SUFFICES ASSUME NEW d \in T PROVE child'[d].at \in {"unlink", "end"} /\ Listing(k, s, d)'
    BY <1>9, <1>11 DEF Lists
  <2>1. PICK x \in Read, n \in Dir(k)!Names : Holds(x, n, d)
    BY <1>7
  <2>2. d \in k.deliveries /\ inode[d].mtime < b.time /\ inode' = inode
    BY <1>1, <1>4, <1>7
  <2>3. child[d].at \in {"unlink", "end"}
    BY <2>1, <2>2 DEF DirInv, World, Owned, Read, Boxes
  <2>4. CASE x = "new"
    <3>1. PICK i \in DOMAIN q : q[i] = <<"new", n>>
      BY <1>4, <1>6, <2>1, <2>2, <2>4
    <3>2. q[i][2] = n /\ q = pop'[s].list
      BY <1>9, <1>11, <3>1
    <3>3. Holds(x, n, d)'
      BY <1>12, <2>1
    <3>4. \E j \in DOMAIN pop'[s].list : \E y \in Read : Holds(y, pop[s].list[j][2], d)'
      BY <3>2, <3>3 DEF Holds
    <3> QED BY <1>1, <2>3, <3>4 DEF Listing
  <2>5. CASE x = "cur"
    BY <1>1, <1>9, <1>11, <1>12, <2>1, <2>2, <2>3, <2>5 DEF Listing, Dir!Names
  <2> QED BY <2>4, <2>5 DEF Read
<1> QED BY <1>3, <1>9, <1>10, <1>13, <1>14, OneSession DEF DirInv

LEMMA StepScanSecond ==
  ASSUME NEW k, Dir(k)!MaildirAssumption, DirInv(k), NEW s \in k.sessions, Dir(k)!ScanSecond(s)
  PROVE  DirInv(k)'
<1>1. /\ pop[s].at = "cur"
      /\ UNCHANGED <<maildir_clock, child, inode, dir, maildir_told, asked, crashes>>
  BY DEF Dir!ScanSecond
<1>2. PICK q \in Dir(k)!InAnyOrder(Dir(k)!Listed(s, "cur")) :
        pop' = [pop EXCEPT ![s].at = "commands", ![s].list = @ \o q]
  BY DEF Dir!ScanSecond, Dir!Directories
<1>3. World(k)' /\ Steady(k)
  <2>1. asked \subseteq k.deliveries
    BY DEF DirInv, World, DirTypes
  <2> QED BY <1>1, <2>1, WorldStill DEF DirInv
<1>4. PICK b : b = pop[s]
  OBVIOUS
<1>5. b \in PopType(k) /\ Deletes(k, s) /\ Lists(k, s) /\ PopTypes(k)
  BY <1>4 DEF DirInv, Readers, PopTypes
<1>6. /\ q \in Seq(Read \X Dir(k)!Names)
      /\ \A i \in DOMAIN q : \E d \in k.deliveries :
           q[i][1] = "cur" /\ q[i][2] \in Dir(k)!Names /\ Holds("cur", q[i][2], d)
      /\ \A n, d : Holds("cur", n, d) /\ inode[d].mtime < pop[s].time => \E i \in DOMAIN q : q[i] = <<"cur", n>>
  <2>1. PICK x \in Read : x = "cur"
    BY DEF Read
  <2>2. q \in Dir(k)!InAnyOrder(Dir(k)!Listed(s, x))
    BY <2>1
  <2>3. Scanned(k, s, x, q)
    BY <2>2, Scans
  <2> QED BY <2>1, <2>3 DEF Scanned
<1>7. PICK w : w = b.list \o q
  OBVIOUS
<1>8. /\ b.list \in Seq(Read \X Dir(k)!Names) /\ b.del \subseteq DOMAIN b.list
  BY <1>4, <1>5 DEF PopType, Deletes
<1>9. /\ w \in Seq(Read \X Dir(k)!Names)
      /\ DOMAIN b.list \subseteq DOMAIN w /\ \A i \in DOMAIN b.list : w[i] = b.list[i]
      /\ \A i \in DOMAIN q : Len(b.list) + i \in DOMAIN w /\ w[Len(b.list) + i] = q[i]
      /\ \A i \in DOMAIN w : i \in DOMAIN b.list \/ \E j \in DOMAIN q : w[i] = q[j]
  <2>1. Len(b.list) \in Nat /\ Len(q) \in Nat /\ DOMAIN b.list = 1 .. Len(b.list) /\ DOMAIN q = 1 .. Len(q)
    BY <1>6, <1>8
  <2>2. w \in Seq(Read \X Dir(k)!Names) /\ Len(w) = Len(b.list) + Len(q) /\ DOMAIN w = 1 .. Len(w)
        /\ \A i \in 1 .. Len(w) : w[i] = IF i <= Len(b.list) THEN b.list[i] ELSE q[i - Len(b.list)]
    BY <1>6, <1>7, <1>8, ConcatProperties
  <2>3. \A i \in DOMAIN b.list : i \in DOMAIN w /\ w[i] = b.list[i]
    BY <2>1, <2>2
  <2>4. ASSUME NEW i \in DOMAIN q PROVE Len(b.list) + i \in DOMAIN w /\ w[Len(b.list) + i] = q[i]
    <3>1. i \in Nat /\ 1 <= i /\ i <= Len(q)
      BY <2>1
    <3>2. Len(b.list) + i \in 1 .. Len(w) /\ ~(Len(b.list) + i <= Len(b.list)) /\ (Len(b.list) + i) - Len(b.list) = i
      BY <2>1, <2>2, <3>1
    <3> QED BY <2>2, <3>2
  <2>5. ASSUME NEW i \in DOMAIN w PROVE i \in DOMAIN b.list \/ \E j \in DOMAIN q : w[i] = q[j]
    <3>1. i \in Nat /\ 1 <= i /\ i <= Len(w)
      BY <2>1, <2>2
    <3>2. CASE i <= Len(b.list)
      BY <2>1, <3>1, <3>2
    <3>3. CASE ~(i <= Len(b.list))
      <4>1. i - Len(b.list) \in 1 .. Len(q)
        BY <2>1, <2>2, <3>1, <3>3
      <4> QED BY <2>1, <2>2, <3>3, <4>1
    <3> QED BY <3>2, <3>3
  <2> QED BY <2>2, <2>3, <2>4, <2>5
<1>10. PICK p : p = [b EXCEPT !.at = "commands", !.list = w]
  OBVIOUS
<1>11. p \in PopType(k) /\ p.at = "commands" /\ p.list = w /\ p.there = b.there /\ p.del = b.del
  BY <1>5, <1>9, <1>10 DEF PopType
<1>12. pop' = [pop EXCEPT ![s] = p]
  BY <1>2, <1>4, <1>7, <1>10
<1>13. pop'[s] = p
  BY <1>5, <1>12 DEF PopTypes
<1>14. \A x, n, e : Holds(x, n, e)' <=> Holds(x, n, e)
  BY <1>1 DEF Holds
<1>15. \A n, e : Owner(n, e)' <=> Owner(n, e)
  BY <1>1 DEF Owner
<1>16. Deletes(k, s)'
  <2>1. ASSUME NEW i \in DOMAIN w PROVE \E d \in k.deliveries : Owner(w[i][2], d)'
    <3>1. CASE i \in DOMAIN b.list
      <4>1. Spent(k, b.list[i][2])
        BY <1>4, <1>5, <3>1 DEF Deletes
      <4>2. w[i] = b.list[i]
        BY <1>9, <3>1
      <4>3. PICK n : n = w[i][2]
        OBVIOUS
      <4>4. \E d \in k.deliveries : Owner(n, d)'
        BY <1>15, <4>1, <4>2, <4>3 DEF Spent
      <4> QED BY <4>3, <4>4 DEF Owner
    <3>2. CASE \E j \in DOMAIN q : w[i] = q[j]
      <4>1. PICK n \in Dir(k)!Names, d \in k.deliveries : n = w[i][2] /\ Holds("cur", n, d)
        BY <1>6, <3>2
      <4>2. Owner(n, d)
        BY <4>1 DEF DirInv, World, Owned, Boxes
      <4>3. Owner(n, d)'
        BY <1>15, <4>2
      <4> QED BY <4>1, <4>3 DEF Owner
    <3> QED BY <1>9, <3>1, <3>2
  <2>2. ASSUME NEW i \in b.del, NEW x \in Boxes, NEW d \in k.deliveries, Holds(x, w[i][2], d)' PROVE d \in asked'
    <3>1. i \in DOMAIN b.list /\ w[i] = b.list[i]
      BY <1>8, <1>9
    <3>2. PICK n : n = w[i][2]
      OBVIOUS
    <3>3. Holds(x, n, d)'
      BY <2>2, <3>2 DEF Holds
    <3>4. Holds(x, n, d)
      BY <1>14, <3>3
    <3>5. Holds(x, pop[s].list[i][2], d) /\ i \in pop[s].del
      BY <1>4, <3>1, <3>2, <3>4
    <3> QED BY <1>1, <1>5, <3>5 DEF Deletes
  <2>3. b.del \subseteq DOMAIN w
    BY <1>8, <1>9
  <2> QED BY <1>11, <1>13, <2>1, <2>2, <2>3 DEF Deletes, Spent, Owner, Holds
<1>17. Lists(k, s)'
  <2> SUFFICES ASSUME NEW d \in b.there
               PROVE  child'[d].at \in {"unlink", "end"} /\ (Present(k, d)' => Listing(k, s, d)')
    BY <1>11, <1>13 DEF Lists
  <2>1. child[d].at \in {"unlink", "end"} /\ (Present(k, d) => Listing(k, s, d)) /\ d \in k.deliveries
    BY <1>1, <1>4, <1>5 DEF Lists, PopType
  <2>2. Present(k, d)' <=> Present(k, d)
    BY <1>14 DEF Present, Dir!Names
  <2>3. ASSUME Listing(k, s, d) PROVE \E j \in DOMAIN w : \E x \in Read : Holds(x, w[j][2], d)
    <3>1. CASE \E i \in DOMAIN b.list : \E x \in Read : Holds(x, b.list[i][2], d)
      BY <1>9, <3>1
    <3>2. CASE \E n \in Dir(k)!Names : Holds("cur", n, d) /\ inode[d].mtime < pop[s].time
      <4>1. PICK n \in Dir(k)!Names : Holds("cur", n, d) /\ inode[d].mtime < pop[s].time
        BY <3>2
      <4>2. PICK i \in DOMAIN q : q[i] = <<"cur", n>>
        BY <1>6, <4>1
      <4>3. Len(b.list) + i \in DOMAIN w /\ w[Len(b.list) + i][2] = n
        BY <1>9, <4>2
      <4> QED BY <4>1, <4>3 DEF Read
    <3> QED BY <1>4, <2>3, <3>1, <3>2 DEF Listing
  <2>4. ASSUME Listing(k, s, d) PROVE Listing(k, s, d)'
    <3>1. PICK j \in DOMAIN w, x \in Read : Holds(x, w[j][2], d)
      BY <2>3, <2>4
    <3>2. PICK n : n = w[j][2]
      OBVIOUS
    <3>3. Holds(x, n, d)'
      BY <1>14, <3>1, <3>2
    <3>4. w = pop'[s].list
      BY <1>11, <1>13
    <3>5. \E i \in DOMAIN pop'[s].list : \E y \in Read : Holds(y, pop[s].list[i][2], d)'
      BY <3>2, <3>3, <3>4 DEF Holds
    <3> QED BY <3>5 DEF Listing
  <2> QED BY <1>1, <2>1, <2>2, <2>4
<1> QED BY <1>3, <1>11, <1>12, <1>16, <1>17, OneSession DEF DirInv

LEMMA StepDele ==
  ASSUME NEW k, Dir(k)!MaildirAssumption, DirInv(k), NEW s \in k.sessions, NEW i \in DOMAIN pop[s].list, Dir(k)!Dele(s, i)
  PROVE  DirInv(k)'
<1>1. /\ pop[s].at = "commands" /\ Dir(k)!In(pop[s].list[i][1], pop[s].list[i][2])
      /\ asked' = asked \cup {Dir(k)!At(pop[s].list[i])} /\ pop' = [pop EXCEPT ![s].del = @ \cup {i}]
      /\ UNCHANGED <<maildir_clock, child, inode, dir, maildir_told, crashes>>
  BY DEF Dir!Dele
<1>2. PICK b : b = pop[s]
  OBVIOUS
<1>3. b \in PopType(k) /\ Deletes(k, s) /\ Lists(k, s) /\ PopTypes(k)
  BY <1>2 DEF DirInv, Readers, PopTypes
<1>4. b.list \in Seq(Read \X Dir(k)!Names) /\ i \in DOMAIN b.list /\ i \in Nat \ {0}
  <2>1. b.list \in Seq(Read \X Dir(k)!Names) /\ i \in DOMAIN b.list
    BY <1>2, <1>3 DEF PopType
  <2> QED BY <2>1
<1>5. PICK x \in Read, n \in Dir(k)!Names : b.list[i] = <<x, n>>
  BY <1>4
<1>6. x \in Boxes /\ DOMAIN dir = Boxes
  BY DEF Read, Boxes, DirInv, World, DirTypes
<1>7. PICK d : d = dir[x][n]
  OBVIOUS
<1>8. n \in DOMAIN dir[x] /\ asked' = asked \cup {d}
  BY <1>1, <1>2, <1>5, <1>7 DEF Dir!In, Dir!At
<1>9. d \in k.deliveries /\ Holds(x, n, d)
  BY <1>6, <1>7, <1>8, HeldIs DEF DirInv, World
<1>10. World(k)' /\ Steady(k)
  <2>1. asked \subseteq asked' /\ asked' \subseteq k.deliveries
    BY <1>8, <1>9 DEF DirInv, World, DirTypes
  <2> QED BY <1>1, <2>1, WorldStill DEF DirInv
<1>11. PICK p : p = [b EXCEPT !.del = @ \cup {i}]
  OBVIOUS
<1>12. /\ p \in PopType(k) /\ p.at = "commands" /\ p.list = b.list /\ p.del = b.del \cup {i}
       /\ p.there = b.there /\ p.time = b.time
  <2>1. b.del \cup {i} \in SUBSET (Nat \ {0})
    BY <1>3, <1>4 DEF PopType
  <2> QED BY <1>1, <1>2, <1>3, <1>11, <2>1 DEF PopType
<1>13. pop' = [pop EXCEPT ![s] = p]
  BY <1>1, <1>2, <1>11
<1>14. pop'[s] = p
  BY <1>3, <1>13 DEF PopTypes
<1>15. \A y, m, e : Holds(y, m, e)' <=> Holds(y, m, e)
  BY <1>1 DEF Holds
<1>16. Deletes(k, s)'
  <2>1. \A j \in DOMAIN b.list : Spent(k, b.list[j][2])
    BY <1>2, <1>3 DEF Deletes
  <2>2. ASSUME NEW j \in p.del, NEW y \in Boxes, NEW e \in k.deliveries, Holds(y, b.list[j][2], e)
        PROVE  e \in asked'
    <3>1. CASE j = i
      <4>1. Holds(y, n, e)
        BY <1>5, <2>2, <3>1
      <4>2. e = d
        BY <1>6, <1>9, <4>1 DEF DirInv, World, OneName
      <4> QED BY <1>8, <4>2
    <3>2. CASE j \in b.del
      BY <1>2, <1>3, <1>8, <2>2, <3>2 DEF Deletes
    <3> QED BY <1>12, <3>1, <3>2
  <2>3. p.del \subseteq DOMAIN b.list
    BY <1>2, <1>3, <1>4, <1>12 DEF Deletes
  <2> QED BY <1>1, <1>12, <1>14, <2>1, <2>2, <2>3 DEF Deletes, Spent, Owner, Holds
<1>17. Lists(k, s)'
  BY <1>1, <1>2, <1>3, <1>12, <1>14 DEF Lists, Listing, Present, Holds, Dir!Names
<1> QED BY <1>10, <1>12, <1>13, <1>16, <1>17, OneSession DEF DirInv

(* A client's QUIT moves a name from new to cur, or takes away what it asked. *)
LEMMA WorldMoves ==
  ASSUME NEW k, World(k), UNCHANGED <<maildir_clock, child, inode, maildir_told, asked, crashes>>,
         DOMAIN dir' = Boxes, \A x \in Boxes : \A n \in DOMAIN dir'[x] : n \in Dir(k)!Names /\ dir'[x][n] \in k.deliveries,
         \A n, d : Holds("tmp", n, d)' <=> Holds("tmp", n, d),
         \A n, d : Holds("new", n, d)' => Holds("new", n, d),
         \A n, d : Holds("cur", n, d)' => Holds("cur", n, d) \/ (Holds("new", n, d) /\ ~Holds("new", n, d)'),
         \A n \in Dir(k)!Names, d \in k.deliveries : \A x \in Read : Holds(x, n, d) =>
           Holds(x, n, d)' \/ (x = "new" /\ Holds("cur", n, d)') \/ (d \in asked /\ ~Present(k, d)')
  PROVE  World(k)' /\ Steady(k)
<1> USE DEF World
<1>1. Boxes = {"tmp", "new", "cur"} /\ Read = {"new", "cur"}
  BY DEF Boxes, Read
<1>2. \A x \in Boxes : \A n, d : Holds(x, n, d)' => \E y \in Boxes : Holds(y, n, d) /\ (x # "tmp" => y # "tmp")
  BY <1>1
<1>3. \A n, e : Owner(n, e)' <=> Owner(n, e)
  BY DEF Owner
<1>4. \A d : Present(k, d)' => Present(k, d)
  BY <1>1 DEF Present, Dir!Names
<1>5. DirTypes(k)'
  BY DEF DirTypes, ChildType, Dir!Names
<1>6. Children(k)'
  BY DEF Children, Life, Apart, Dir!Names
<1>7. Owned(k)'
  <2> SUFFICES ASSUME NEW x \in Boxes, NEW n \in Dir(k)!Names, NEW d \in k.deliveries, Holds(x, n, d)'
               PROVE  Owner(n, d) /\ (x # "tmp" => child[d].at \in {"unlink", "end"} /\ inode[d].whole /\ inode[d].synced)
    BY <1>3 DEF Owned, Dir!Names
  <2>1. PICK y \in Boxes : Holds(y, n, d) /\ (x # "tmp" => y # "tmp")
    BY <1>2
  <2> QED BY <2>1 DEF Owned
<1>8. OneName(k)'
  <2>1. \A x, y \in Boxes, n \in Dir(k)!Names, d, e \in k.deliveries : Holds(x, n, d)' /\ Holds(y, n, e)' => d = e
    BY <1>2 DEF OneName
  <2>2. \A x, y \in Boxes, m, n \in Dir(k)!Names, d \in k.deliveries : Holds(x, m, d)' /\ Holds(y, n, d)' => m = n
    BY <1>2 DEF OneName
  <2>3. \A n \in Dir(k)!Names, d \in k.deliveries : ~(Holds("new", n, d)' /\ Holds("cur", n, d)')
    BY DEF OneName
  <2> QED BY <2>1, <2>2, <2>3 DEF OneName, Dir!Names
<1>9. Working(k)'
  <2> SUFFICES ASSUME NEW d \in k.deliveries, child[d].at \in ArmedAt PROVE Holds("tmp", child[d].name, d)'
    BY DEF Working
  <2>1. PICK n : n = child[d].name
    OBVIOUS
  <2>2. Holds("tmp", n, d)'
    BY <2>1 DEF Working
  <2> QED BY <2>1, <2>2 DEF Holds
<1>10. KeepsTold(k)'
  <2>1. ASSUME NEW d \in k.deliveries, Present(k, d), d \notin asked PROVE Present(k, d)'
    <3>1. PICK x \in Read, n \in Dir(k)!Names : Holds(x, n, d)
      BY <2>1 DEF Present
    <3>2. \E y \in Read : Holds(y, n, d)'
      BY <1>1, <2>1, <3>1
    <3> QED BY <3>2 DEF Present, Dir!Names
  <2> QED BY <2>1 DEF KeepsTold
<1>11. Steady(k)
  <2>1. \A n \in Dir(k)!Names, d \in k.deliveries : Present(k, d)' =>
          /\ Holds("new", n, d) => Holds("new", n, d)' \/ Holds("cur", n, d)'
          /\ Holds("cur", n, d) => Holds("cur", n, d)'
    BY <1>1
  <2>2. \A n : Spent(k, n)' <=> Spent(k, n)
    BY <1>3 DEF Spent
  <2>3. \A n : \A x \in Boxes, d \in k.deliveries : Holds(x, n, d)' => \E y \in Boxes : Holds(y, n, d)
    BY <1>2
  <2> QED BY <1>4, <2>1, <2>2, <2>3 DEF Steady
<1> QED BY <1>5, <1>6, <1>7, <1>8, <1>9, <1>10, <1>11

LEMMA QuitMoves ==
  ASSUME NEW k, Dir(k)!MaildirAssumption, DirInv(k), NEW s \in k.sessions, Dir(k)!QuitOne(s)
  PROVE  World(k)' /\ Steady(k)
<1> USE DEF DirInv, World
<1>1. /\ pop[s].at = "quit" /\ pop[s].list # <<>>
      /\ UNCHANGED <<maildir_clock, child, inode, maildir_told, asked, crashes>>
  BY DEF Dir!QuitOne
<1>2. pop[s].list \in Seq(Read \X Dir(k)!Names) /\ Deletes(k, s)
  BY DEF Readers, PopTypes, PopType
<1>3. Head(pop[s].list) = pop[s].list[1] /\ 1 \in DOMAIN pop[s].list
  BY <1>1, <1>2
<1>4. PICK x \in Read, n \in Dir(k)!Names : Head(pop[s].list) = <<x, n>>
  BY <1>2, <1>3
<1>5. x \in Boxes /\ DOMAIN dir = Boxes /\ Boxes = {"tmp", "new", "cur"} /\ Read = {"new", "cur"}
  BY DEF Boxes, Read, DirTypes
<1>6. CASE dir' = dir
  <2>1. asked \subseteq k.deliveries
    BY DEF DirTypes
  <2> QED BY <1>1, <1>6, <2>1, WorldStill
<1>7. CASE n \in DOMAIN dir[x] /\ 1 \in pop[s].del /\ dir' = Dir(k)!Gone(x, n)
  <2>1. /\ DOMAIN dir' = Boxes
        /\ \A y \in Boxes : \A m : m \in DOMAIN dir'[y] => m \in DOMAIN dir[y] /\ dir'[y][m] = dir[y][m]
        /\ \A y \in Boxes : \A m, e : Holds(y, m, e)' <=> Holds(y, m, e) /\ ~(y = x /\ m = n)
    <3>1. DOMAIN dir = Boxes /\ x \in Boxes /\ dir' = Dir(k)!Gone(x, n)
      BY <1>5, <1>7
    <3> QED BY ONLY <3>1, Drops
  <2>2. PICK d \in k.deliveries : Holds(x, n, d)
    BY <1>5, <1>7, HeldIs
  <2>3. d \in asked
    BY <1>2, <1>3, <1>4, <1>5, <1>7, <2>2 DEF Deletes
  <2>4. ~Present(k, d)'
    <3> SUFFICES ASSUME NEW y \in Read, NEW m \in Dir(k)!Names, Holds(y, m, d)' PROVE FALSE
      BY DEF Present, Dir!Names
    <3>1. Holds(y, m, d) /\ ~(y = x /\ m = n)
      BY <1>5, <2>1
    <3>2. m = n
      BY <1>5, <2>2, <3>1 DEF OneName
    <3>3. ~(Holds("new", n, d) /\ Holds("cur", n, d))
      BY DEF OneName
    <3> QED BY <1>5, <2>2, <3>1, <3>2, <3>3
  <2>5. \A y \in Boxes : \A m \in DOMAIN dir'[y] : m \in Dir(k)!Names /\ dir'[y][m] \in k.deliveries
    BY <2>1 DEF DirTypes
  <2>6. \A m \in Dir(k)!Names, e \in k.deliveries : \A y \in Read : Holds(y, m, e) =>
          Holds(y, m, e)' \/ (e \in asked /\ ~Present(k, e)')
    <3> SUFFICES ASSUME NEW e \in k.deliveries, Holds(x, n, e) PROVE e = d
      BY <1>5, <2>1, <2>3, <2>4
    <3> QED BY <1>5, <2>2 DEF OneName
  <2>7. \A m, e : /\ Holds("tmp", m, e)' <=> Holds("tmp", m, e)
                  /\ Holds("new", m, e)' => Holds("new", m, e)
                  /\ Holds("cur", m, e)' => Holds("cur", m, e)
    BY <1>5, <2>1
  <2> QED BY <1>1, <2>1, <2>5, <2>6, <2>7, WorldMoves
<1>8. CASE x = "new" /\ n \in DOMAIN dir[x]
           /\ dir' = [Dir(k)!Gone("new", n) EXCEPT !["cur"] = Dir(k)!More(@, n, dir[x][n])]
  <2>1. PICK d \in k.deliveries : d = dir[x][n] /\ Holds("new", n, d)
    BY <1>5, <1>8, HeldIs
  <2>2. n \notin DOMAIN dir["cur"]
    <3> SUFFICES ASSUME n \in DOMAIN dir["cur"] PROVE FALSE
      OBVIOUS
    <3>1. PICK e \in k.deliveries : Holds("cur", n, e)
      BY <1>5, HeldIs
    <3>2. e = d
      BY <1>5, <2>1, <3>1 DEF OneName
    <3> QED BY <2>1, <3>1, <3>2 DEF OneName
  <2>3. /\ DOMAIN dir' = Boxes /\ dir'["tmp"] = dir["tmp"] /\ dir'["new"] = Dir(k)!Less(dir["new"], n)
        /\ dir'["cur"] = Dir(k)!More(dir["cur"], n, d)
    BY <1>5, <1>8, <2>1 DEF Dir!Gone
  <2>4. /\ DOMAIN dir'["new"] = DOMAIN dir["new"] \ {n}
        /\ \A m \in DOMAIN dir["new"] \ {n} : dir'["new"][m] = dir["new"][m]
    BY <2>3 DEF Dir!Less
  <2>5. /\ DOMAIN dir'["cur"] = DOMAIN dir["cur"] \cup {n} /\ dir'["cur"][n] = d
        /\ \A m \in DOMAIN dir["cur"] : dir'["cur"][m] = dir["cur"][m]
    BY <2>2, <2>3 DEF Dir!More
  <2>6. \A m, e : Holds("tmp", m, e)' <=> Holds("tmp", m, e)
    BY <2>3 DEF Holds
  <2>7. \A m, e : Holds("new", m, e)' <=> Holds("new", m, e) /\ m # n
    BY <2>4 DEF Holds
  <2>8. \A m, e : Holds("cur", m, e)' <=> Holds("cur", m, e) \/ (m = n /\ e = d)
    BY <2>2, <2>5 DEF Holds
  <2>9. \A y \in Boxes : \A m \in DOMAIN dir'[y] : m \in Dir(k)!Names /\ dir'[y][m] \in k.deliveries
    <3>1. \A m \in DOMAIN dir'["tmp"] : m \in Dir(k)!Names /\ dir'["tmp"][m] \in k.deliveries
      BY <1>5, <2>3 DEF DirTypes
    <3>2. \A m \in DOMAIN dir'["new"] : m \in Dir(k)!Names /\ dir'["new"][m] \in k.deliveries
      BY <1>5, <2>4 DEF DirTypes
    <3>3. \A m \in DOMAIN dir'["cur"] : m \in Dir(k)!Names /\ dir'["cur"][m] \in k.deliveries
      BY <1>5, <2>5 DEF DirTypes
    <3> QED BY <1>5, <3>1, <3>2, <3>3
  <2>10. \A m \in Dir(k)!Names, e \in k.deliveries : \A y \in Read : Holds(y, m, e) =>
           Holds(y, m, e)' \/ (y = "new" /\ Holds("cur", m, e)')
    <3> SUFFICES ASSUME NEW e \in k.deliveries, Holds("new", n, e) PROVE e = d
      BY <1>5, <2>7, <2>8
    <3> QED BY <1>5, <2>1 DEF OneName
  <2>11. \A m, e : Holds("cur", m, e)' => Holds("cur", m, e) \/ (Holds("new", m, e) /\ ~Holds("new", m, e)')
    BY <2>1, <2>7, <2>8
  <2> QED BY <1>1, <2>3, <2>6, <2>7, <2>9, <2>10, <2>11, WorldMoves
<1> QED BY <1>4, <1>6, <1>7, <1>8 DEF Dir!QuitOne, Dir!In, Dir!At

LEMMA StepQuitOne ==
  ASSUME NEW k, Dir(k)!MaildirAssumption, DirInv(k), NEW s \in k.sessions, Dir(k)!QuitOne(s)
  PROVE  DirInv(k)'
<1>1. World(k)' /\ Steady(k)
  BY QuitMoves
<1>2. /\ pop[s].at = "quit" /\ pop[s].list # <<>> /\ UNCHANGED child
      /\ pop' = [pop EXCEPT ![s].list = Tail(@), ![s].del = {i - 1 : i \in @ \ {1}}]
  BY DEF Dir!QuitOne
<1>3. PICK b : b = pop[s]
  OBVIOUS
<1>4. b \in PopType(k) /\ Deletes(k, s) /\ PopTypes(k)
  BY <1>3 DEF DirInv, Readers, PopTypes
<1>5. b.list \in Seq(Read \X Dir(k)!Names) /\ b.list # <<>> /\ b.del \subseteq DOMAIN b.list /\ b.del \subseteq Nat \ {0}
  BY <1>2, <1>3, <1>4 DEF PopType, Deletes
<1>6. PICK w : w = Tail(b.list)
  OBVIOUS
<1>7. w \in Seq(Read \X Dir(k)!Names) /\ \A i \in DOMAIN w : i \in Nat /\ i + 1 \in DOMAIN b.list /\ w[i] = b.list[i + 1]
  BY <1>5, <1>6
<1>8. PICK r : r = {i - 1 : i \in b.del \ {1}}
  OBVIOUS
<1>9. \A i \in r : i \in Nat \ {0} /\ i + 1 \in b.del /\ i \in DOMAIN w
  <2> SUFFICES ASSUME NEW j \in b.del, j # 1 PROVE j - 1 \in Nat \ {0} /\ (j - 1) + 1 = j /\ j - 1 \in DOMAIN w
    BY <1>8
  <2>1. j \in Nat \ {0} /\ j \in 1 .. Len(b.list) /\ Len(b.list) \in Nat
    BY <1>5
  <2>2. DOMAIN w = 1 .. (Len(b.list) - 1)
    BY <1>5, <1>6
  <2> QED BY <2>1, <2>2
<1>10. PICK p : p = [b EXCEPT !.list = w, !.del = r]
  OBVIOUS
<1>11. p \in PopType(k) /\ p.at = "quit" /\ p.list = w /\ p.del = r
  <2>1. r \in SUBSET (Nat \ {0})
    BY <1>9
  <2> QED BY <1>2, <1>3, <1>4, <1>7, <1>10, <2>1 DEF PopType
<1>12. pop' = [pop EXCEPT ![s] = p]
  BY <1>2, <1>3, <1>6, <1>8, <1>10
<1>13. pop'[s] = p
  BY <1>4, <1>12 DEF PopTypes
<1>14. Deletes(k, s)'
  <2>1. ASSUME NEW i \in DOMAIN w PROVE \E d \in k.deliveries : Owner(w[i][2], d)'
    <3>1. i + 1 \in DOMAIN b.list /\ w[i] = b.list[i + 1]
      BY <1>7
    <3>2. PICK n \in Dir(k)!Names : n = b.list[i + 1][2]
      BY <1>5, <3>1
    <3>3. Spent(k, n)
      BY <1>3, <1>4, <3>1, <3>2 DEF Deletes
    <3>4. \E d \in k.deliveries : Owner(n, d)'
      BY <1>1, <3>3 DEF Steady, Spent
    <3> QED BY <3>1, <3>2, <3>4 DEF Owner
  <2>2. ASSUME NEW i \in r, NEW x \in Boxes, NEW d \in k.deliveries, Holds(x, w[i][2], d)' PROVE d \in asked'
    <3>1. i + 1 \in b.del /\ i + 1 \in DOMAIN b.list /\ w[i] = b.list[i + 1]
      BY <1>5, <1>7, <1>9
    <3>2. PICK n \in Dir(k)!Names : n = b.list[i + 1][2]
      BY <1>5, <3>1
    <3>3. Holds(x, n, d)'
      BY <2>2, <3>1, <3>2 DEF Holds
    <3>4. Spent(k, n)
      BY <1>3, <1>4, <3>1, <3>2 DEF Deletes
    <3>5. PICK y \in Boxes : Holds(y, n, d)
      BY <1>1, <3>3, <3>4 DEF Steady
    <3>6. d \in asked
      BY <1>3, <1>4, <3>1, <3>2, <3>5 DEF Deletes
    <3> QED BY <1>1, <3>6 DEF Steady
  <2>3. r \subseteq DOMAIN w
    BY <1>9
  <2> QED BY <1>11, <1>13, <2>1, <2>2, <2>3 DEF Deletes, Spent, Owner, Holds
<1>15. Lists(k, s)'
  BY <1>11, <1>13 DEF Lists
<1> QED BY <1>1, <1>11, <1>12, <1>14, <1>15, OneSession DEF DirInv

LEMMA StepSession ==
  ASSUME NEW k, Dir(k)!MaildirAssumption, DirInv(k), NEW s \in k.sessions, Dir(k)!Session(s)
  PROVE  DirInv(k)'
BY StepClean, StepScanFirst, StepScanSecond, StepEndSession, StepQuitOne, StepDele DEF Dir!Session

-----------------------------------------------------------------------------
(* Time and crashes *)

LEMMA StepTick ==
  ASSUME NEW k, Dir(k)!MaildirAssumption, DirInv(k), Dir(k)!Tick
  PROVE  DirInv(k)'
<1> USE DEF DirInv, World
<1>1. /\ maildir_clock < k.horizon /\ maildir_clock' = maildir_clock + 1
      /\ UNCHANGED <<child, inode, dir, pop, maildir_told, asked, crashes>>
  BY DEF Dir!Tick
<1>2. \A d \in k.deliveries : child[d].at \in ArmedAt => maildir_clock < child[d].alarm
  BY DEF Dir!Tick, Dir!Armed, ArmedAt
<1>3. maildir_clock \in Nat /\ k.horizon \in Nat /\ maildir_clock' \in 0 .. k.horizon /\ maildir_clock < maildir_clock'
  BY <1>1, Constants DEF DirTypes
<1>4. \A d \in k.deliveries : /\ child[d].alarm \in Nat /\ inode[d].atime \in Nat
                              /\ child[d].name \in Dir(k)!Names => child[d].name[2] \in Nat
  BY DEF DirTypes, ChildType, Dir!Names
<1>5. \A x, n, e : Holds(x, n, e)' <=> Holds(x, n, e)
  BY <1>1 DEF Holds
<1>6. \A n, e : Owner(n, e)' <=> Owner(n, e)
  BY <1>1 DEF Owner
<1>7. DirTypes(k)'
  BY <1>1, <1>3 DEF DirTypes, ChildType, Dir!Names
<1>8. \A d \in k.deliveries : Life(k, d)'
  <2> SUFFICES ASSUME NEW d \in k.deliveries PROVE Life(k, d)'
    OBVIOUS
  <2>1. Life(k, d)
    BY DEF Children
  <2>2. child[d].name \in Dir(k)!Names /\ child[d].name[2] <= maildir_clock => child[d].name[2] <= maildir_clock'
    BY <1>3, <1>4
  <2>3. child[d].at \in ArmedAt => maildir_clock' <= child[d].alarm
    BY <1>1, <1>2, <1>3, <1>4
  <2>4. /\ inode[d].atime <= maildir_clock => inode[d].atime <= maildir_clock'
        /\ child[d].alarm <= maildir_clock => child[d].alarm <= maildir_clock'
    BY <1>3, <1>4
  <2> QED BY <1>1, <2>1, <2>2, <2>3, <2>4 DEF Life, Dir!Names
<1>9. \A d, e \in k.deliveries : Apart(k, d, e)'
  <2> SUFFICES ASSUME NEW d \in k.deliveries, NEW e \in k.deliveries PROVE Apart(k, d, e)'
    OBVIOUS
  <2>1. Apart(k, d, e)
    BY DEF Children
  <2>2. child[e].alarm < maildir_clock => child[e].alarm < maildir_clock'
    BY <1>3, <1>4
  <2> QED BY <1>1, <2>1, <2>2 DEF Apart
<1>10. Owned(k)'
  BY <1>1, <1>5, <1>6 DEF Owned, Dir!Names
<1>11. OneName(k)'
  BY <1>5 DEF OneName, Dir!Names
<1>12. Working(k)'
  BY <1>1 DEF Working, Holds
<1>13. KeepsTold(k)'
  <2>1. \A e : Present(k, e)' <=> Present(k, e)
    BY <1>5 DEF Present, Dir!Names
  <2> QED BY <1>1, <2>1 DEF KeepsTold
<1>14. Steady(k)
  BY <1>1, <1>6, SteadyStill
<1> QED BY <1>1, <1>7, <1>8, <1>9, <1>10, <1>11, <1>12, <1>13, <1>14, SessionsKeep DEF Children

LEMMA StepCrash ==
  ASSUME NEW k, Dir(k)!MaildirAssumption, DirInv(k), Dir(k)!Crash
  PROVE  DirInv(k)'
<1> USE DEF DirInv, World
<1>1. /\ crashes < k.crashes /\ crashes' = crashes + 1
      /\ child' = [d \in k.deliveries |-> IF Dir(k)!Alive(d) THEN Dir(k)!Ended(d) ELSE child[d]]
      /\ inode' = [d \in k.deliveries |-> [inode[d] EXCEPT !.whole = @ /\ inode[d].synced]]
      /\ pop' = [s \in k.sessions |-> Dir(k)!NoPop]
      /\ UNCHANGED <<maildir_clock, dir, maildir_told, asked>>
  BY DEF Dir!Crash
<1>2. ASSUME NEW d \in k.deliveries
      PROVE  /\ child[d].at = "none" => child'[d] = child[d]
             /\ child[d].at # "none" => child'[d].at = "end" /\ child'[d].pid = child[d].pid
             /\ child[d].at = "end" => child'[d] = child[d]
             /\ child[d].at \notin {"none", "end"} => child'[d].alarm = maildir_clock
             /\ child'[d].at \in {"none", "end"} /\ child'[d] \in ChildType(k)
  <2>1. CASE child[d].at \in {"none", "end"}
    BY <1>1, <2>1 DEF Dir!Alive, DirTypes
  <2>2. CASE child[d].at \notin {"none", "end"}
    <3>1. child'[d] = [at |-> "end", pid |-> child[d].pid, name |-> <<>>, alarm |-> maildir_clock]
      BY <1>1, <2>2 DEF Dir!Alive, Dir!Ended, Dir!NoChild
    <3>2. maildir_clock \in Nat /\ child[d].pid \in k.pids \cup {0}
      BY DEF DirTypes, ChildType
    <3> QED BY <2>2, <3>1, <3>2 DEF ChildType
  <2> QED BY <2>1, <2>2
<1>3. ASSUME NEW d \in k.deliveries
      PROVE  /\ inode'[d] \in [whole : BOOLEAN, synced : BOOLEAN, atime : Nat, mtime : Nat]
             /\ inode[d].whole /\ inode[d].synced => inode'[d].whole /\ inode'[d].synced
  <2>1. PICK f : f = inode[d]
    OBVIOUS
  <2>2. f \in [whole : BOOLEAN, synced : BOOLEAN, atime : Nat, mtime : Nat]
    BY <2>1 DEF DirTypes
  <2>3. PICK g : g = [f EXCEPT !.whole = @ /\ f.synced]
    OBVIOUS
  <2>4. /\ g \in [whole : BOOLEAN, synced : BOOLEAN, atime : Nat, mtime : Nat]
        /\ f.whole /\ f.synced => g.whole /\ g.synced
    BY <2>2, <2>3
  <2>5. inode'[d] = g
    BY <1>1, <2>1, <2>3
  <2> QED BY <2>1, <2>4, <2>5
<1>4. \A x, n, e : Holds(x, n, e)' <=> Holds(x, n, e)
  BY <1>1 DEF Holds
<1>5. DirTypes(k)'
  <2>1. child' \in [k.deliveries -> ChildType(k)]
    BY <1>1, <1>2
  <2>2. inode' \in [k.deliveries -> [whole : BOOLEAN, synced : BOOLEAN, atime : Nat, mtime : Nat]]
    BY <1>1, <1>3
  <2>3. crashes' \in 0 .. k.crashes
    BY <1>1, Constants DEF DirTypes
  <2> QED BY <1>1, <2>1, <2>2, <2>3 DEF DirTypes, ChildType, Dir!Names
<1>6. \A d \in k.deliveries : Life(k, d)'
  <2> SUFFICES ASSUME NEW d \in k.deliveries PROVE Life(k, d)'
    OBVIOUS
  <2>1. Life(k, d) /\ maildir_clock <= maildir_clock
    BY DEF Children, DirTypes
  <2>2. child'[d].at \notin ArmedAt /\ child'[d].at # "open"
    BY <1>2 DEF ArmedAt
  <2> QED BY <1>1, <1>2, <2>1, <2>2 DEF Life, Dir!Names
<1>7. \A d, e \in k.deliveries : Apart(k, d, e)'
  <2> SUFFICES ASSUME NEW d \in k.deliveries PROVE child'[d].at \notin {"stat", "open"} \cup ArmedAt
    BY DEF Apart
  <2> QED BY <1>2 DEF ArmedAt
<1>8. ASSUME NEW n, NEW d \in k.deliveries, Owner(n, d) PROVE Owner(n, d)'
  <2>1. child[d].at = "end" \/ child[d].at \in ArmedAt
    BY <1>8 DEF Owner
  <2>2. CASE child[d].at = "end"
    BY <1>2, <1>8, <2>2 DEF Owner, ArmedAt
  <2>3. CASE child[d].at \in ArmedAt
    <3>1. child[d].name = n /\ child[d].at \notin {"none", "end"}
      BY <1>8, <2>3 DEF Owner, ArmedAt
    <3>2. n[2] <= maildir_clock
      BY <2>3, <3>1 DEF Children, Life
    <3> QED BY <1>2, <1>8, <3>1, <3>2 DEF Owner
  <2> QED BY <2>1, <2>2, <2>3
<1>9. Owned(k)'
  <2> SUFFICES ASSUME NEW x \in Boxes, NEW n \in Dir(k)!Names, NEW d \in k.deliveries, Holds(x, n, d)
               PROVE  Owner(n, d)' /\ (x # "tmp" => child'[d].at \in {"unlink", "end"} /\ inode'[d].whole /\ inode'[d].synced)
    BY <1>4 DEF Owned, Dir!Names
  <2>1. Owner(n, d) /\ (x # "tmp" => child[d].at \in {"unlink", "end"} /\ inode[d].whole /\ inode[d].synced)
    BY DEF Owned
  <2> QED BY <1>2, <1>3, <1>8, <2>1
<1>10. OneName(k)'
  BY <1>4 DEF OneName, Dir!Names
<1>11. Working(k)'
  <2> SUFFICES ASSUME NEW d \in k.deliveries PROVE child'[d].at \notin {"sync", "link", "unlink"} \cup ArmedAt
    BY DEF Working
  <2> QED BY <1>2 DEF ArmedAt
<1>12. KeepsTold(k)'
  <2>1. \A e : Present(k, e)' <=> Present(k, e)
    BY <1>4 DEF Present, Dir!Names
  <2> QED BY <1>1, <1>2, <2>1 DEF KeepsTold
<1>13. Readers(k)'
  <2>1. PICK p : p = Dir(k)!NoPop
    OBVIOUS
  <2>2. p \in PopType(k) /\ p.at = "none" /\ p.list = <<>> /\ p.del = {}
    <3>1. p = [at |-> "none", time |-> 0, list |-> <<>>, del |-> {}, there |-> {}]
      BY <2>1 DEF Dir!NoPop
    <3>2. <<>> \in Seq(Read \X Dir(k)!Names)
      OBVIOUS
    <3> QED BY <3>1, <3>2 DEF PopType
  <2>3. \A s \in k.sessions : pop'[s] = p
    BY <1>1, <2>1
  <2>4. PopTypes(k)'
    <3>1. pop' \in [k.sessions -> PopType(k)]
      BY <1>1, <2>1, <2>2
    <3> QED BY <3>1 DEF PopTypes, PopType, Dir!Names
  <2>5. DOMAIN <<>> = {}
    OBVIOUS
  <2>6. \A s \in k.sessions : Deletes(k, s)' /\ Lists(k, s)'
    BY <2>2, <2>3, <2>5 DEF Deletes, Lists
  <2> QED BY <2>4, <2>6 DEF Readers
<1> QED BY <1>5, <1>6, <1>7, <1>9, <1>10, <1>11, <1>12, <1>13 DEF Children

LEMMA StepDir ==
  ASSUME NEW k, Dir(k)!MaildirAssumption, DirInv(k), [Dir(k)!Next]_(Dir(k)!vars)
  PROVE  DirInv(k)'
<1>1. CASE Dir(k)!Next
  BY <1>1, StepChild, StepSession, StepTick, StepCrash DEF Dir!Next
<1>2. CASE UNCHANGED Dir(k)!vars
  <2>1. UNCHANGED <<maildir_clock, child, inode, dir, pop, maildir_told, asked, crashes>>
    BY <1>2 DEF Dir!vars
  <2>2. World(k)' /\ Steady(k)
    <3>1. asked \subseteq k.deliveries
      BY DEF DirInv, World, DirTypes
    <3> QED BY <2>1, <3>1, WorldStill DEF DirInv
  <2> QED BY <2>1, <2>2, SessionsKeep DEF DirInv
<1> QED BY <1>1, <1>2

-----------------------------------------------------------------------------
(* The mbox *)

Writing == {"write1", "write2", "sync"}

(* Who writes has the lock. *)
LockedToWrite == \A d \in BoxUsers : at[d] \in Writing \cup {"close"} => holder = d

(* What the delivery that has the lock has written since. *)
OwnPart(d) ==
  /\ pos[d] <= Len(mbox)
  /\ at[d] \in Writing => safe <= pos[d]
  /\ at[d] = "write1" => Len(mbox) = pos[d]
  /\ at[d] = "write2" => Len(mbox) = pos[d] + 1 /\ mbox[pos[d] + 1] = <<d, 1>>
  /\ at[d] \in {"sync", "close"} =>
       Len(mbox) = pos[d] + 2 /\ mbox[pos[d] + 1] = <<d, 1>> /\ mbox[pos[d] + 2] = <<d, 2>>
  /\ at[d] = "close" => safe = Len(mbox)

(* A message that was reported is in the part that a crash leaves. *)
SafelyIn(d) == \E i \in 1 .. safe : i + 1 <= safe /\ mbox[i] = <<d, 1>> /\ mbox[i + 1] = <<d, 2>>

Others == IF holder = NoUser THEN Len(mbox) ELSE pos[holder]
OthersTold == troubles = 0 => \A i \in 1 .. Others : mbox[i][1] \in mbox_told

BoxInv ==
  /\ Box!TypeOK /\ LockedToWrite /\ OthersTold
  /\ holder # NoUser => holder \in BoxUsers /\ OwnPart(holder)
  /\ \A d \in mbox_told : SafelyIn(d)

LEMMA InitBox == ASSUME Box!MboxAssumption, Box!Init PROVE BoxInv
BY DEF Box!MboxAssumption, Box!Init, BoxInv, Box!TypeOK, LockedToWrite, Writing, OthersTold, Others

LEMMA BoxPromises == ASSUME Box!MboxAssumption, BoxInv PROVE Box!TypeOK /\ Box!ToldIsWhole /\ Box!NoRemains
<1>1. Box!TypeOK
  BY DEF BoxInv
<1>2. safe \in Nat /\ Len(mbox) \in Nat /\ safe <= Len(mbox)
  BY <1>1 DEF Box!TypeOK
<1>3. Box!ToldIsWhole
  <2> SUFFICES ASSUME NEW d \in mbox_told PROVE Box!InMbox(d)
    BY DEF Box!ToldIsWhole
  <2>1. PICK i \in 1 .. safe : i + 1 <= safe /\ mbox[i] = <<d, 1>> /\ mbox[i + 1] = <<d, 2>>
    BY DEF BoxInv, SafelyIn
  <2>2. i \in 1 .. Len(mbox) - 1
    BY <1>2, <2>1
  <2> QED BY <2>1, <2>2 DEF Box!InMbox
<1>4. Box!NoRemains
  BY DEF BoxInv, OthersTold, Others, Box!NoRemains
<1> QED BY <1>1, <1>3, <1>4

(* A step that leaves the file and the lock. *)
LEMMA BoxWaits ==
  ASSUME Box!MboxAssumption, BoxInv, NEW d \in BoxUsers, NEW x \in {"open", "lock", "end"},
         at[d] \in {"open", "lock"}, at' = [at EXCEPT ![d] = x],
         UNCHANGED <<mbox, safe, pos, holder, mbox_told>>,
         troubles' \in 0 .. BoxTroubles, troubles' = 0 => troubles = 0
  PROVE  BoxInv'
<1>1. holder # d
  BY DEF BoxInv, Box!TypeOK, Box!MboxAssumption
<1>2. Box!TypeOK'
  BY <1>1 DEF BoxInv, Box!TypeOK
<1>3. LockedToWrite'
  BY DEF BoxInv, LockedToWrite, Writing, Box!TypeOK
<1>4. OthersTold'
  BY DEF BoxInv, OthersTold, Others
<1>5. holder # NoUser => holder \in BoxUsers /\ OwnPart(holder)'
  BY <1>1 DEF BoxInv, OwnPart, Box!TypeOK
<1>6. \A e \in mbox_told : SafelyIn(e)'
  BY DEF BoxInv, SafelyIn
<1> QED BY <1>2, <1>3, <1>4, <1>5, <1>6 DEF BoxInv

LEMMA StepLockMbox == ASSUME Box!MboxAssumption, BoxInv, NEW d \in BoxUsers, Box!Lock(d) PROVE BoxInv'
<1> USE DEF Box!Lock, Box!Goto
<1>1. d # NoUser /\ safe \in Nat /\ Len(mbox) \in Nat /\ safe <= Len(mbox)
  BY DEF Box!MboxAssumption, BoxInv, Box!TypeOK
<1>2. Box!TypeOK'
  BY <1>1 DEF BoxInv, Box!TypeOK
<1>3. LockedToWrite'
  BY <1>1 DEF BoxInv, LockedToWrite, Writing, Box!TypeOK, Box!MboxAssumption
<1>4. pos'[d] = Len(mbox) /\ at'[d] = "write1"
  BY DEF BoxInv, Box!TypeOK
<1>5. OthersTold'
  BY <1>1, <1>4 DEF BoxInv, OthersTold, Others
<1>6. OwnPart(d)'
  BY <1>1, <1>4 DEF OwnPart, Writing
<1>7. \A e \in mbox_told : SafelyIn(e)'
  BY DEF BoxInv, SafelyIn
<1> QED BY <1>1, <1>2, <1>3, <1>5, <1>6, <1>7 DEF BoxInv

LEMMA StepWriteMbox == ASSUME Box!MboxAssumption, BoxInv, NEW d \in BoxUsers, Box!Write(d) PROVE BoxInv'
<1>1. d # NoUser /\ holder = d /\ safe \in Nat /\ safe <= Len(mbox) /\ safe <= pos[d] /\ pos[d] \in Nat
  BY DEF Box!Write, Box!MboxAssumption, BoxInv, Box!TypeOK, LockedToWrite, Writing, OwnPart
<1>2. PICK q, n : q = mbox /\ n = Len(mbox)
  OBVIOUS
<1>3. q \in Seq(BoxUsers \X {1, 2}) /\ n \in Nat /\ n = Len(q)
  BY <1>2 DEF BoxInv, Box!TypeOK
<1>4. PICK b \in {1, 2} :
        /\ at[d] = IF b = 1 THEN "write1" ELSE "write2"
        /\ at' = [at EXCEPT ![d] = IF b = 1 THEN "write2" ELSE "sync"]
        /\ mbox' = Append(q, <<d, b>>)
        /\ UNCHANGED <<safe, pos, holder, mbox_told, troubles>>
  BY <1>2 DEF Box!Write, Box!Goto
<1>5. PICK z : z = mbox'
  OBVIOUS
<1>6. z \in Seq(BoxUsers \X {1, 2}) /\ Len(z) = n + 1 /\ z[n + 1] = <<d, b>> /\ \A i \in 1 .. n : z[i] = q[i]
  BY <1>3, <1>4, <1>5
<1>7. /\ b = 1 => n = pos[d]
      /\ b = 2 => n = pos[d] + 1 /\ q[pos[d] + 1] = <<d, 1>>
  BY <1>1, <1>2, <1>4 DEF BoxInv, OwnPart
<1>8. at' \in [BoxUsers -> {"open", "lock", "write1", "write2", "sync", "close", "end"}]
      /\ at'[d] = IF b = 1 THEN "write2" ELSE "sync"
  BY <1>4 DEF BoxInv, Box!TypeOK
<1>9. Box!TypeOK'
  <2>1. safe \in 0 .. Len(z)
    BY <1>1, <1>2, <1>3, <1>6
  <2> QED BY <1>1, <1>4, <1>5, <1>6, <1>8, <2>1 DEF BoxInv, Box!TypeOK
<1>10. LockedToWrite'
  BY <1>1, <1>4 DEF BoxInv, LockedToWrite, Writing, Box!TypeOK
<1>11. OthersTold'
  <2>1. \A i \in 1 .. pos[d] : i \in 1 .. n
    BY <1>1, <1>3, <1>7
  <2> QED BY <1>1, <1>2, <1>4, <1>5, <1>6, <2>1 DEF BoxInv, OthersTold, Others
<1>12. OwnPart(d)'
  <2>1. pos[d] + 1 \in 1 .. n + 1 /\ (b = 2 => pos[d] + 1 \in 1 .. n)
    BY <1>1, <1>3, <1>7
  <2> QED BY <1>1, <1>3, <1>4, <1>5, <1>6, <1>7, <1>8, <2>1 DEF OwnPart, Writing
<1>13. \A e \in mbox_told : SafelyIn(e)'
  <2> SUFFICES ASSUME NEW e \in mbox_told PROVE SafelyIn(e)'
    OBVIOUS
  <2>1. PICK i \in 1 .. safe : i + 1 <= safe /\ q[i] = <<e, 1>> /\ q[i + 1] = <<e, 2>>
    BY <1>2 DEF BoxInv, SafelyIn
  <2>2. i \in 1 .. n /\ i + 1 \in 1 .. n
    BY <1>1, <1>2, <1>3, <2>1
  <2> QED BY <1>4, <1>5, <1>6, <2>1, <2>2 DEF SafelyIn
<1> QED BY <1>1, <1>4, <1>9, <1>10, <1>11, <1>12, <1>13 DEF BoxInv

LEMMA StepSyncMbox == ASSUME Box!MboxAssumption, BoxInv, NEW d \in BoxUsers, Box!Sync(d) PROVE BoxInv'
<1> USE DEF Box!Sync, Box!Goto
<1>1. d # NoUser /\ holder = d /\ safe \in Nat /\ safe <= Len(mbox) /\ Len(mbox) \in Nat /\ pos[d] \in Nat
  BY DEF Box!MboxAssumption, BoxInv, Box!TypeOK, LockedToWrite, Writing
<1>2. Box!TypeOK'
  BY <1>1 DEF BoxInv, Box!TypeOK
<1>3. LockedToWrite'
  BY <1>1 DEF BoxInv, LockedToWrite, Writing, Box!TypeOK
<1>4. at'[d] = "close" /\ safe' = Len(mbox)
  BY DEF BoxInv, Box!TypeOK
<1>5. OthersTold'
  BY <1>1, <1>4 DEF BoxInv, OthersTold, Others
<1>6. OwnPart(d)'
  BY <1>1, <1>4 DEF BoxInv, OwnPart, Writing
<1>7. \A e \in mbox_told : SafelyIn(e)'
  <2> SUFFICES ASSUME NEW e \in mbox_told PROVE SafelyIn(e)'
    OBVIOUS
  <2>1. PICK i \in 1 .. safe : i + 1 <= safe /\ mbox[i] = <<e, 1>> /\ mbox[i + 1] = <<e, 2>>
    BY DEF BoxInv, SafelyIn
  <2>2. i \in 1 .. Len(mbox) /\ i + 1 <= Len(mbox)
    BY <1>1, <2>1
  <2> QED BY <1>4, <2>1, <2>2 DEF SafelyIn
<1> QED BY <1>1, <1>2, <1>3, <1>5, <1>6, <1>7 DEF BoxInv

LEMMA StepCloseMbox == ASSUME Box!MboxAssumption, BoxInv, NEW d \in BoxUsers, Box!Close(d) PROVE BoxInv'
<1> USE DEF Box!Close, Box!Goto, Box!Release
<1>1. d # NoUser /\ holder = d /\ holder' = NoUser /\ Len(mbox) \in Nat /\ pos[d] \in Nat
  BY DEF Box!MboxAssumption, BoxInv, Box!TypeOK, LockedToWrite
<1>2. Box!TypeOK'
  BY <1>1 DEF BoxInv, Box!TypeOK
<1>3. LockedToWrite'
  BY <1>1 DEF BoxInv, LockedToWrite, Writing, Box!TypeOK
<1>4. /\ Len(mbox) = pos[d] + 2 /\ safe = Len(mbox)
      /\ mbox[pos[d] + 1] = <<d, 1>> /\ mbox[pos[d] + 2] = <<d, 2>>
  BY <1>1 DEF BoxInv, OwnPart
<1>5. OthersTold'
  <2> SUFFICES ASSUME troubles = 0, NEW i \in 1 .. Len(mbox) PROVE mbox[i][1] \in mbox_told \cup {d}
    BY <1>1 DEF OthersTold, Others
  <2>1. i \in 1 .. pos[d] \/ i = pos[d] + 1 \/ i = pos[d] + 2
    BY <1>1, <1>4
  <2>2. \A k \in 1 .. pos[d] : mbox[k][1] \in mbox_told
    BY <1>1 DEF BoxInv, OthersTold, Others
  <2> QED BY <1>4, <2>1, <2>2
<1>6. \A e \in mbox_told' : SafelyIn(e)'
  <2>1. SafelyIn(d)
    BY <1>1, <1>4 DEF SafelyIn
  <2> QED BY <2>1 DEF BoxInv, SafelyIn
<1> QED BY <1>1, <1>2, <1>3, <1>5, <1>6 DEF BoxInv

(* What is left of the file ends at n, behind everything that is safe. *)
LEMMA CutKeepsSafe ==
  ASSUME Box!MboxAssumption, BoxInv, NEW n \in safe .. Len(mbox), mbox' = SubSeq(mbox, 1, n), safe' \in safe .. n,
         UNCHANGED mbox_told
  PROVE  /\ mbox' \in Seq(BoxUsers \X {1, 2}) /\ Len(mbox') = n /\ \A i \in 1 .. n : mbox'[i] = mbox[i]
         /\ \A e \in mbox_told : SafelyIn(e)'
<1>1. PICK q : q = mbox
  OBVIOUS
<1>2. q \in Seq(BoxUsers \X {1, 2}) /\ safe \in Nat /\ n \in 0 .. Len(q) /\ Len(q) \in Nat
  BY <1>1 DEF BoxInv, Box!TypeOK
<1>3. PICK z : z = mbox'
  OBVIOUS
<1>4. z = SubSeq(q, 1, n)
  BY <1>1, <1>3
<1>5. z \in Seq(BoxUsers \X {1, 2}) /\ Len(z) = n /\ \A i \in 1 .. n : z[i] = q[i]
  BY <1>2, <1>4
<1>6. ASSUME NEW e \in mbox_told PROVE SafelyIn(e)'
  <2>1. PICK i \in 1 .. safe : i + 1 <= safe /\ q[i] = <<e, 1>> /\ q[i + 1] = <<e, 2>>
    BY <1>1 DEF BoxInv, SafelyIn
  <2>2. i \in 1 .. n /\ i + 1 \in 1 .. n /\ i \in 1 .. safe' /\ i + 1 <= safe'
    BY <1>2, <2>1
  <2> QED BY <1>3, <1>5, <2>1, <2>2 DEF SafelyIn
<1> QED BY <1>1, <1>3, <1>5, <1>6

(* A delivery that fails leaves the file as it found it. *)
LEMMA StepFailsMbox == ASSUME Box!MboxAssumption, BoxInv, NEW d \in BoxUsers, Box!Fails(d) PROVE BoxInv'
<1>1. /\ d # NoUser /\ holder = d /\ safe \in Nat /\ pos[d] \in Nat /\ Len(mbox) \in Nat
      /\ safe <= pos[d] /\ pos[d] <= Len(mbox)
  BY DEF Box!Fails, Box!MboxAssumption, BoxInv, Box!TypeOK, LockedToWrite, Writing, OwnPart
<1>2. mbox' = SubSeq(mbox, 1, pos[d])
  <2>1. CASE pos[d] < Len(mbox)
    BY <2>1 DEF Box!Fails, Box!Truncated
  <2>2. CASE pos[d] = Len(mbox)
    <3>1. SubSeq(mbox, 1, Len(mbox)) = mbox
      <4>1. mbox \in Seq(BoxUsers \X {1, 2})
        BY DEF BoxInv, Box!TypeOK
      <4> QED BY <4>1
    <3> QED BY <2>2, <3>1 DEF Box!Fails, Box!Truncated
  <2> QED BY <1>1, <2>1, <2>2
<1>3. /\ at' = [at EXCEPT ![d] = "end"] /\ holder' = NoUser /\ safe' = safe
      /\ UNCHANGED <<pos, mbox_told, troubles>>
  BY <1>1 DEF Box!Fails, Box!Goto, Box!Release
<1>4. /\ mbox' \in Seq(BoxUsers \X {1, 2}) /\ Len(mbox') = pos[d] /\ \A i \in 1 .. pos[d] : mbox'[i] = mbox[i]
      /\ \A e \in mbox_told : SafelyIn(e)'
  <2>1. PICK n : n = pos[d]
    OBVIOUS
  <2>2. n \in safe .. Len(mbox) /\ safe' \in safe .. n /\ mbox' = SubSeq(mbox, 1, n) /\ UNCHANGED mbox_told
    BY <1>1, <1>2, <1>3, <2>1
  <2>3. /\ mbox' \in Seq(BoxUsers \X {1, 2}) /\ Len(mbox') = n /\ \A i \in 1 .. n : mbox'[i] = mbox[i]
        /\ \A e \in mbox_told : SafelyIn(e)'
    BY <2>2, CutKeepsSafe
  <2> QED BY <2>1, <2>3
<1>5. Box!TypeOK'
  <2>1. at' \in [BoxUsers -> {"open", "lock", "write1", "write2", "sync", "close", "end"}]
    BY <1>3 DEF BoxInv, Box!TypeOK
  <2>2. safe' \in 0 .. Len(mbox')
    BY <1>1, <1>3, <1>4
  <2> QED BY <1>3, <1>4, <2>1, <2>2 DEF BoxInv, Box!TypeOK
<1>6. LockedToWrite'
  BY <1>1, <1>3 DEF BoxInv, LockedToWrite, Writing, Box!TypeOK
<1>7. OthersTold'
  BY <1>1, <1>3, <1>4 DEF BoxInv, OthersTold, Others
<1> QED BY <1>3, <1>4, <1>5, <1>6, <1>7 DEF BoxInv

LEMMA StepKilledMbox == ASSUME Box!MboxAssumption, BoxInv, NEW d \in BoxUsers, Box!Killed(d) PROVE BoxInv'
<1> USE DEF Box!Killed, Box!Goto, Box!Release
<1>1. d # NoUser /\ troubles' # 0 /\ troubles' \in 0 .. BoxTroubles
  BY DEF Box!MboxAssumption, BoxInv, Box!TypeOK
<1>2. holder' # NoUser => holder' = holder /\ holder # d
  BY <1>1
<1>3. Box!TypeOK'
  BY <1>1, <1>2 DEF BoxInv, Box!TypeOK
<1>4. LockedToWrite'
  BY <1>1 DEF BoxInv, LockedToWrite, Writing, Box!TypeOK
<1>5. OthersTold' /\ \A e \in mbox_told : SafelyIn(e)'
  BY <1>1 DEF BoxInv, OthersTold, SafelyIn
<1>6. holder' # NoUser => holder' \in BoxUsers /\ OwnPart(holder)'
  BY <1>2 DEF BoxInv, OwnPart, Box!TypeOK
<1> QED BY <1>2, <1>3, <1>4, <1>5, <1>6 DEF BoxInv

LEMMA StepCrashMbox == ASSUME Box!MboxAssumption, BoxInv, Box!Crash PROVE BoxInv'
<1>1. PICK n \in safe .. Len(mbox) : mbox' = SubSeq(mbox, 1, n) /\ safe' = n
  BY DEF Box!Crash
<1>2. safe \in Nat /\ Len(mbox) \in Nat
  BY DEF BoxInv, Box!TypeOK
<1>3. /\ at' = [d \in BoxUsers |-> "end"] /\ holder' = NoUser /\ UNCHANGED <<pos, mbox_told>>
      /\ troubles' # 0 /\ troubles' \in 0 .. BoxTroubles
  BY DEF Box!Crash, BoxInv, Box!TypeOK, Box!MboxAssumption
<1>4. /\ mbox' \in Seq(BoxUsers \X {1, 2}) /\ Len(mbox') = n
      /\ \A e \in mbox_told : SafelyIn(e)'
  BY <1>1, <1>2, <1>3, CutKeepsSafe
<1>5. Box!TypeOK'
  BY <1>1, <1>2, <1>3, <1>4 DEF BoxInv, Box!TypeOK
<1>6. LockedToWrite' /\ OthersTold'
  BY <1>3 DEF LockedToWrite, Writing, OthersTold
<1> QED BY <1>3, <1>4, <1>5, <1>6 DEF BoxInv

LEMMA StepBox == ASSUME Box!MboxAssumption, BoxInv, Box!Next PROVE BoxInv'
<1>1. ASSUME NEW d \in BoxUsers, Box!Open(d) \/ Box!SlowLock(d) PROVE BoxInv'
  <2>1. troubles' \in 0 .. BoxTroubles /\ (troubles' = 0 => troubles = 0)
    BY <1>1 DEF Box!Open, Box!SlowLock, BoxInv, Box!TypeOK
  <2>2. CASE Box!Open(d)
    BY <2>1, <2>2, BoxWaits DEF Box!Open, Box!Goto
  <2>3. CASE Box!SlowLock(d)
    BY <2>1, <2>3, BoxWaits DEF Box!SlowLock, Box!Goto
  <2> QED BY <1>1, <2>2, <2>3
<1>2. CASE \E d \in BoxUsers : Box!Deliver(d) \/ Box!Killed(d)
  BY <1>1, <1>2, StepLockMbox, StepWriteMbox, StepSyncMbox, StepCloseMbox, StepFailsMbox, StepKilledMbox DEF Box!Deliver
<1> QED BY <1>2, StepCrashMbox DEF Box!Next

-----------------------------------------------------------------------------
(* Forwarding *)

MailType(k) ==
  [to : k.addrs, sender : k.addrs \cup {k.empty, k.discard}, dt : SUBSET k.addrs, line : Nat,
   fwd : SUBSET k.addrs, cut : BOOLEAN, try : 1 .. k.tries, sent : Nat, hops : Nat, bounces : Nat]

(* While its lines are read, a message is where it has not been before; what *)
(* bounced once bounces with an empty sender, and after that as "#@[]".      *)
Sane(k, m) ==
  /\ m.line <= Len(dotqmail[m.to]) + 1 /\ m.sent <= kills
  /\ m.hops = Cardinality(m.dt) /\ (m.line # 0 => m.to \notin m.dt)
  /\ m.bounces <= 2 /\ (m.bounces > 0 => m.sender \in {k.empty, k.discard})
  /\ m.sender # k.discard => m.bounces <= 1

FilesSane(k) ==
  /\ dotqmail \in [k.addrs -> Seq(Fwd(k)!LineOfFile)]
  /\ owner \in [k.addrs -> k.addrs \cup {k.empty}]

FwdInv(k) ==
  /\ FilesSane(k)
  /\ mails \in Seq({m \in MailType(k) : Sane(k, m)})
  /\ Len(mails) <= queued /\ queued \in 1 .. k.maxmail /\ kills \in 0 .. k.kills

LEMMA SameCardinality ==
  ASSUME NEW k, NEW S
  PROVE  Fwd(k)!Cardinality(S) = Cardinality(S) /\ (Fwd(k)!IsFiniteSet(S) <=> IsFiniteSet(S))
<1>1. Fwd(k)!Cardinality(S) = Cardinality(S)
  BY DEF Cardinality, Fwd!Cardinality, Fwd!IsFiniteSet, IsFiniteSet
<1>2. Fwd(k)!IsFiniteSet(S) <=> IsFiniteSet(S)
  BY DEF Fwd!IsFiniteSet, IsFiniteSet
<1> QED BY <1>1, <1>2

LEMMA MailFields ==
  ASSUME NEW k, NEW a, NEW s, NEW d, NEW h, NEW b
  PROVE  Fwd(k)!Mail(a, s, d, h, b) =
           [to |-> a, sender |-> s, dt |-> d, line |-> 0, fwd |-> {}, cut |-> FALSE,
            try |-> 1, sent |-> 0, hops |-> h, bounces |-> b]
  BY DEF Fwd!Mail

LEMMA SaneMail ==
  ASSUME NEW k, Fwd(k)!ForwardingAssumption, FilesSane(k), kills \in Nat,
         NEW a \in k.addrs, NEW s \in k.addrs \cup {k.empty, k.discard}, NEW d \in SUBSET k.addrs,
         NEW b \in 0 .. 2, b > 0 => s \in {k.empty, k.discard}, s # k.discard => b <= 1
  PROVE  /\ Fwd(k)!Mail(a, s, d, Cardinality(d), b) \in MailType(k)
         /\ Sane(k, Fwd(k)!Mail(a, s, d, Cardinality(d), b))
<1> DEFINE m == Fwd(k)!Mail(a, s, d, Cardinality(d), b)
<1>1. Cardinality(d) \in Nat
  <2>1. IsFiniteSet(k.addrs)
    BY SameCardinality DEF Fwd!ForwardingAssumption
  <2>2. IsFiniteSet(d)
    BY <2>1, FS_Subset
  <2> QED BY <2>2, FS_CardinalityType
<1>2. 1 \in 1 .. k.tries /\ b \in Nat
  BY DEF Fwd!ForwardingAssumption
<1>3. m = [to |-> a, sender |-> s, dt |-> d, line |-> 0, fwd |-> {}, cut |-> FALSE,
            try |-> 1, sent |-> 0, hops |-> Cardinality(d), bounces |-> b]
  BY MailFields
<1>4. m \in MailType(k)
  BY <1>1, <1>2, <1>3 DEF MailType
<1>5. Len(dotqmail[a]) \in Nat
  BY DEF FilesSane
<1> HIDE DEF m
<1>6. m.to = a /\ m.sender = s /\ m.dt = d /\ m.line = 0 /\ m.sent = 0 /\ m.hops = Cardinality(d) /\ m.bounces = b
  BY <1>3
<1>7. Sane(k, m)
  BY <1>5, <1>6 DEF Sane
<1> QED BY <1>4, <1>7 DEF m

(* Files and owners do not change, so that the same is true afterwards.       *)
LEMMA FilesAlike ==
  ASSUME NEW k, NEW m, dotqmail' = dotqmail, kills' = kills, Sane(k, m) PROVE Sane(k, m)'
  BY DEF Sane

LEMMA InitFwd == ASSUME NEW k, Fwd(k)!ForwardingAssumption, Fwd(k)!Init PROVE FwdInv(k)
<1> USE DEF Fwd!ForwardingAssumption
<1>1. FilesSane(k)
  BY DEF Fwd!Init, FilesSane
<1>2. PICK e \in k.starts : mails = <<Fwd(k)!Mail(e[1], e[2], {}, 0, 0)>>
  BY DEF Fwd!Init
<1>3. e[1] \in k.addrs /\ e[2] \in k.addrs \cup {k.empty}
  OBVIOUS
<1>4. Cardinality({}) = 0 /\ kills = 0 /\ queued = 1
  BY FS_EmptySet DEF Fwd!Init
<1> DEFINE m == Fwd(k)!Mail(e[1], e[2], {}, 0, 0)
           S == {x \in MailType(k) : Sane(k, x)}
<1>5. m \in S
  <2>1. Fwd(k)!Mail(e[1], e[2], {}, Cardinality({}), 0) \in MailType(k)
        /\ Sane(k, Fwd(k)!Mail(e[1], e[2], {}, Cardinality({}), 0))
    BY <1>1, <1>3, <1>4, SaneMail
  <2> QED BY <1>4, <2>1
<1> HIDE DEF m, S
<1>6. mails \in Seq(S) /\ Len(mails) = 1
  BY <1>2, <1>5 DEF m
<1> QED BY <1>1, <1>4, <1>6 DEF FwdInv, S

LEMMA FwdPromises ==
  ASSUME NEW k, Fwd(k)!ForwardingAssumption, FwdInv(k)
  PROVE  Fwd(k)!TypeOK /\ Fwd(k)!EveryHopIsNew /\ Fwd(k)!AtMostTwoBounces /\ Fwd(k)!BouncesKeepSender
         /\ Fwd(k)!ForwardedOnce
<1>1. \A m \in Fwd(k)!Range(mails) : m \in MailType(k) /\ Sane(k, m)
  BY DEF FwdInv, Fwd!Range
<1>2. ASSUME NEW m \in Fwd(k)!Range(mails)
      PROVE  /\ m.to \in k.addrs /\ m.sender \in k.addrs \cup {k.empty, k.discard}
             /\ m.dt \subseteq k.addrs /\ m.fwd \subseteq k.addrs
             /\ m.line \in 0 .. Len(Fwd(k)!Lines(m)) + 1 /\ m.try \in 1 .. k.tries
             /\ m.hops = Cardinality(m.dt) /\ m.bounces <= 2 /\ m.sent <= kills
             /\ m.bounces > 0 => m.sender \in {k.empty, k.discard}
  <2>1. m \in MailType(k) /\ Sane(k, m)
    BY <1>1
  <2>2. m.line \in Nat /\ m.to \in k.addrs
    BY <2>1 DEF MailType
  <2>3. Len(dotqmail[m.to]) \in Nat
    BY <2>2 DEF FwdInv, FilesSane
  <2>4. m.line \in 0 .. Len(dotqmail[m.to]) + 1
    BY <2>1, <2>2, <2>3 DEF Sane
  <2> QED BY <2>1, <2>4 DEF MailType, Sane, Fwd!Lines
<1>3. Fwd(k)!TypeOK
  BY <1>2 DEF Fwd!TypeOK, FwdInv
<1> QED BY <1>2, <1>3, SameCardinality DEF Fwd!EveryHopIsNew, Fwd!AtMostTwoBounces, Fwd!BouncesKeepSender, Fwd!ForwardedOnce

InQueue(k) == {m \in MailType(k) : Sane(k, m)}

(* The rest of the queue, whatever comes before it or after it.               *)
LEMMA QueueKeeps ==
  ASSUME NEW k, Fwd(k)!ForwardingAssumption, FwdInv(k), mails # <<>>, UNCHANGED <<dotqmail, owner>>,
         kills' \in kills .. k.kills
  PROVE  /\ Head(mails) \in InQueue(k) /\ FilesSane(k)' /\ InQueue(k) \subseteq InQueue(k)'
         /\ Tail(mails) \in Seq(InQueue(k)') /\ Len(Tail(mails)) = Len(mails) - 1
         /\ Len(mails) \in Nat \ {0} /\ kills \in Nat
<1>1. kills \in Nat /\ kills' \in Nat /\ kills <= kills' /\ dotqmail' = dotqmail
  BY DEF FwdInv, Fwd!ForwardingAssumption
<1>2. \A m \in MailType(k) : m.sent \in Nat
  BY DEF MailType
<1>3. InQueue(k) \subseteq InQueue(k)'
  BY <1>1, <1>2 DEF InQueue, Sane
<1>4. mails \in Seq(InQueue(k))
  BY DEF FwdInv, InQueue
<1>5. FilesSane(k)'
  BY DEF FwdInv, FilesSane
<1>6. PICK q : q = mails
  OBVIOUS
<1>7. q \in Seq(InQueue(k)) /\ q # <<>>
  BY <1>4, <1>6
<1>8. Head(q) \in InQueue(k) /\ Tail(q) \in Seq(InQueue(k)) /\ Len(Tail(q)) = Len(q) - 1 /\ Len(q) \in Nat \ {0}
  BY <1>7
<1>9. Tail(q) \in Seq(InQueue(k)')
  <2>1. PICK t : t = Tail(q)
    OBVIOUS
  <2>2. t \in Seq(InQueue(k)')
    BY <1>3, <1>8, <2>1
  <2> QED BY <2>1, <2>2
<1> QED BY <1>1, <1>3, <1>5, <1>6, <1>8, <1>9

LEMMA QueueReplaced ==
  ASSUME NEW k, Fwd(k)!ForwardingAssumption, FwdInv(k), mails # <<>>, UNCHANGED <<dotqmail, owner, kills, queued>>,
         NEW m \in InQueue(k), Fwd(k)!Replace(Head(mails), m)
  PROVE  FwdInv(k)'
<1>1. kills' \in kills .. k.kills
  BY DEF FwdInv, Fwd!ForwardingAssumption
<1>2. PICK t : t = Tail(mails)
  OBVIOUS
<1>3. /\ FilesSane(k)' /\ m \in InQueue(k)' /\ t \in Seq(InQueue(k)') /\ Len(t) = Len(mails) - 1
      /\ Len(mails) \in Nat \ {0}
  BY <1>1, <1>2, QueueKeeps
<1>4. PICK u : u = <<m>> \o t
  OBVIOUS
<1>5. u \in Seq(InQueue(k)') /\ Len(u) = Len(mails)
  BY <1>3, <1>4
<1>6. mails' = u
  BY <1>2, <1>4 DEF Fwd!Replace
<1> QED BY <1>3, <1>5, <1>6 DEF FwdInv, InQueue

(* What comes later are messages like those, no more than were queued.        *)
LEMMA QueueLater ==
  ASSUME NEW k, Fwd(k)!ForwardingAssumption, FwdInv(k), mails # <<>>, UNCHANGED <<dotqmail, owner>>,
         kills' \in kills .. k.kills, NEW n \in Nat, queued' = queued + n, queued' <= k.maxmail,
         NEW S \in Seq(InQueue(k)'), Len(S) <= n + 1, Fwd(k)!Later(S)
  PROVE  FwdInv(k)'
<1>1. PICK t : t = Tail(mails)
  OBVIOUS
<1>2. /\ FilesSane(k)' /\ t \in Seq(InQueue(k)') /\ Len(t) = Len(mails) - 1
      /\ Len(mails) \in Nat \ {0} /\ kills \in Nat
  BY <1>1, QueueKeeps
<1>3. PICK u : u = t \o S
  OBVIOUS
<1>4. u \in Seq(InQueue(k)') /\ Len(u) = Len(t) + Len(S) /\ Len(S) \in Nat
  BY <1>2, <1>3
<1>5. mails' = u
  BY <1>1, <1>3 DEF Fwd!Later
<1>6. queued \in 1 .. k.maxmail /\ Len(mails) <= queued /\ k.maxmail \in Nat
  BY DEF FwdInv, Fwd!ForwardingAssumption
<1>7. Len(u) <= queued' /\ queued' \in 1 .. k.maxmail
  BY <1>2, <1>4, <1>6
<1>8. kills' \in 0 .. k.kills
  BY <1>2 DEF Fwd!ForwardingAssumption
<1> QED BY <1>2, <1>4, <1>5, <1>7, <1>8 DEF FwdInv, InQueue

(* A bounce goes to the sender, a bounce of a bounce to the postmaster, and   *)
(* what bounces then goes nowhere.                                            *)
LEMMA PermKeeps ==
  ASSUME NEW k, Fwd(k)!ForwardingAssumption, FwdInv(k), mails # <<>>, UNCHANGED <<dotqmail, owner, kills>>,
         Fwd(k)!Perm(Head(mails))
  PROVE  FwdInv(k)'
<1> DEFINE m == Head(mails)
<1>1. kills' \in kills .. k.kills
  BY DEF FwdInv, Fwd!ForwardingAssumption
<1>2. m \in InQueue(k) /\ FilesSane(k)' /\ kills' \in Nat
  BY <1>1, QueueKeeps
<1> HIDE DEF m
<1>3. m \in MailType(k) /\ Sane(k, m)
  BY <1>2 DEF InQueue
<1>4. m.sender \in k.addrs \cup {k.empty, k.discard} /\ m.bounces \in Nat /\ k.postmaster \in k.addrs
  BY <1>3 DEF MailType, Fwd!ForwardingAssumption
<1>5. queued \in Nat /\ k.maxmail \in Nat /\ queued <= k.maxmail
  BY DEF FwdInv, Fwd!ForwardingAssumption
<1>6. CASE m.sender = k.discard /\ mails' = Tail(mails) /\ UNCHANGED queued
  <2>1. Tail(mails) \in Seq(InQueue(k)') /\ Len(Tail(mails)) = Len(mails) - 1 /\ Len(mails) \in Nat \ {0}
    BY <1>1, QueueKeeps
  <2>2. Len(mails') <= queued' /\ queued' \in 1 .. k.maxmail /\ kills' \in 0 .. k.kills
    BY <1>6, <2>1 DEF FwdInv
  <2> QED BY <1>2, <1>6, <2>1, <2>2 DEF FwdInv, InQueue
<1>7. ASSUME m.sender # k.discard, NEW a \in k.addrs, NEW s \in {k.empty, k.discard},
             s # k.discard => m.bounces = 0,
             queued < k.maxmail, queued' = queued + 1,
             Fwd(k)!Later(<<Fwd(k)!Mail(a, s, {}, 0, m.bounces + 1)>>)
      PROVE  FwdInv(k)'
  <2>1. m.bounces <= 1
    BY <1>3, <1>7 DEF Sane
  <2>2. m.bounces + 1 \in 0 .. 2 /\ (s # k.discard => m.bounces + 1 <= 1)
    BY <1>4, <1>7, <2>1
  <2>3. Cardinality({}) = 0
    BY FS_EmptySet
  <2>4. PICK x : x = Fwd(k)!Mail(a, s, {}, 0, m.bounces + 1)
    OBVIOUS
  <2>5. x \in InQueue(k)'
    <3>1. kills \in Nat /\ FilesSane(k)
      BY <1>1, QueueKeeps DEF FwdInv
    <3>2. x \in MailType(k) /\ Sane(k, x)
      BY <1>7, <2>2, <2>3, <2>4, <3>1, SaneMail
    <3> QED BY <3>2, FilesAlike DEF InQueue
  <2>6. PICK S : S = <<x>>
    OBVIOUS
  <2>7. S \in Seq(InQueue(k)') /\ Len(S) <= 1 + 1 /\ Fwd(k)!Later(S)
    BY <1>7, <2>4, <2>5, <2>6
  <2> QED BY <1>1, <1>5, <1>7, <2>7, QueueLater
<1>8. CASE m.sender # k.discard /\ m.sender = k.empty
  BY <1>4, <1>7, <1>8 DEF Fwd!Perm, m
<1>9. CASE m.sender # k.discard /\ m.sender # k.empty
  <2>1. m.sender \in k.addrs /\ m.bounces = 0
    BY <1>3, <1>4, <1>9 DEF Sane
  <2> QED BY <1>7, <1>9, <2>1 DEF Fwd!Perm, m
<1> QED BY <1>6, <1>8, <1>9 DEF Fwd!Perm, m

(* A message that is tried again is begun anew.                               *)
LEMMA TempKeeps ==
  ASSUME NEW k, Fwd(k)!ForwardingAssumption, FwdInv(k), mails # <<>>, UNCHANGED <<dotqmail, owner, kills>>,
         Fwd(k)!Temp(Head(mails))
  PROVE  FwdInv(k)'
<1> DEFINE m == Head(mails)
<1>1. CASE m.try = k.tries /\ Fwd(k)!Perm(m)
  BY <1>1, PermKeeps
<1>2. CASE m.try # k.tries /\ Fwd(k)!Later(<<[m EXCEPT !.line = 0, !.fwd = {}, !.try = @ + 1]>>) /\ UNCHANGED queued
  <2>1. kills' \in kills .. k.kills
    BY DEF FwdInv, Fwd!ForwardingAssumption
  <2>2. m \in InQueue(k)
    BY <2>1, QueueKeeps
  <2> HIDE DEF m
  <2>3. PICK x : x = [m EXCEPT !.line = 0, !.fwd = {}, !.try = @ + 1]
    OBVIOUS
  <2>4. m \in MailType(k) /\ Sane(k, m) /\ k.tries \in Nat /\ m.try \in 1 .. k.tries
    BY <2>2 DEF InQueue, MailType, Fwd!ForwardingAssumption
  <2>5. m.try + 1 \in 1 .. k.tries
    BY <1>2, <2>4
  <2>6. x \in MailType(k) /\ x.to = m.to /\ x.line = 0 /\ x.sent = m.sent /\ x.hops = m.hops /\ x.dt = m.dt
        /\ x.bounces = m.bounces /\ x.sender = m.sender
    BY <2>3, <2>4, <2>5 DEF MailType
  <2>7. m.to \in k.addrs
    BY <2>4 DEF MailType
  <2>8. Len(dotqmail[m.to]) \in Nat
    BY <2>7 DEF FwdInv, FilesSane
  <2>9. Sane(k, x)
    BY <2>4, <2>6, <2>8 DEF Sane
  <2>10. x \in InQueue(k)'
    BY <2>6, <2>9, FilesAlike DEF InQueue
  <2>11. PICK S : S = <<x>>
    OBVIOUS
  <2>12. S \in Seq(InQueue(k)') /\ Len(S) <= 0 + 1 /\ Fwd(k)!Later(S)
    BY <1>2, <2>3, <2>10, <2>11
  <2>13. queued' = queued + 0 /\ queued' <= k.maxmail
    BY <1>2 DEF FwdInv, Fwd!ForwardingAssumption
  <2> QED BY <2>1, <2>12, <2>13, QueueLater
<1> QED BY <1>1, <1>2 DEF Fwd!Temp

(* A line is done: the next one is read.                                      *)
LEMMA LineDone ==
  ASSUME NEW k, Fwd(k)!ForwardingAssumption, FwdInv(k), mails # <<>>, UNCHANGED <<dotqmail, owner, kills, queued>>,
         NEW x \in MailType(k), LET m == Head(mails) IN
           /\ m.line # 0 /\ x.line # 0 /\ x.line <= Len(dotqmail[m.to]) + 1
           /\ x.to = m.to /\ x.sent = m.sent /\ x.hops = m.hops /\ x.dt = m.dt
           /\ x.bounces = m.bounces /\ x.sender = m.sender,
         Fwd(k)!Replace(Head(mails), x)
  PROVE  FwdInv(k)'
<1>1. kills' \in kills .. k.kills
  BY DEF FwdInv, Fwd!ForwardingAssumption
<1>2. Head(mails) \in InQueue(k)
  BY <1>1, QueueKeeps
<1>3. Sane(k, x)
  BY <1>2 DEF Sane, InQueue
<1>4. x \in InQueue(k)
  BY <1>3 DEF InQueue
<1> QED BY <1>4, QueueReplaced

LEMMA HeadMail ==
  ASSUME NEW k, Fwd(k)!ForwardingAssumption, FwdInv(k), mails # <<>>
  PROVE  LET m == Head(mails) IN
         /\ m \in MailType(k) /\ Sane(k, m) /\ m.to \in k.addrs /\ m.line \in Nat
         /\ dotqmail[m.to] \in Seq(Fwd(k)!LineOfFile) /\ Len(dotqmail[m.to]) \in Nat
<1> DEFINE m == Head(mails)
<1>1. m \in InQueue(k)
  <2>1. PICK q : q = mails
    OBVIOUS
  <2>2. q \in Seq(InQueue(k)) /\ q # <<>>
    BY <2>1 DEF FwdInv, InQueue
  <2>3. Head(q) \in InQueue(k)
    BY <2>2
  <2> QED BY <2>1, <2>3
<1> HIDE DEF m
<1>2. m \in MailType(k) /\ Sane(k, m) /\ m.to \in k.addrs /\ m.line \in Nat
  BY <1>1 DEF InQueue, MailType
<1>3. dotqmail[m.to] \in Seq(Fwd(k)!LineOfFile)
  BY <1>2 DEF FwdInv, FilesSane
<1>4. Len(dotqmail[m.to]) \in Nat
  BY <1>3
<1> QED BY <1>2, <1>3, <1>4 DEF m

LEMMA StepBegin ==
  ASSUME NEW k, Fwd(k)!ForwardingAssumption, FwdInv(k), mails # <<>>, Fwd(k)!Begin(Head(mails))
  PROVE  FwdInv(k)'
<1> DEFINE m == Head(mails)
<1>1. m.line = 0 /\ UNCHANGED <<dotqmail, owner, kills>>
  BY DEF Fwd!Begin
<1>2. CASE Fwd(k)!Perm(m)
  BY <1>1, <1>2, PermKeeps
<1>3. CASE /\ m.to \notin m.dt /\ dotqmail[m.to] # <<>>
           /\ Fwd(k)!Replace(m, [m EXCEPT !.line = 1, !.cut = m.to \in k.cut]) /\ UNCHANGED queued
  <2>1. m \in MailType(k) /\ Sane(k, m) /\ Len(dotqmail[m.to]) \in Nat
    BY HeadMail
  <2>2. PICK x : x = [m EXCEPT !.line = 1, !.cut = m.to \in k.cut]
    OBVIOUS
  <2> HIDE DEF m
  <2>3. (m.to \in k.cut) \in BOOLEAN
    OBVIOUS
  <2>4. x \in MailType(k) /\ x.to = m.to /\ x.line = 1 /\ x.sent = m.sent /\ x.hops = m.hops /\ x.dt = m.dt
        /\ x.bounces = m.bounces /\ x.sender = m.sender
    BY <2>1, <2>2, <2>3 DEF MailType
  <2>5. Sane(k, x)
    BY <1>3, <2>1, <2>4 DEF Sane
  <2>6. x \in InQueue(k)
    BY <2>4, <2>5 DEF InQueue
  <2> QED BY <1>1, <1>3, <2>2, <2>6, QueueReplaced DEF m
<1> QED BY <1>2, <1>3 DEF Fwd!Begin, Fwd!Lines

LEMMA ProceedKeeps ==
  ASSUME NEW k, Fwd(k)!ForwardingAssumption, FwdInv(k), mails # <<>>, UNCHANGED <<dotqmail, owner, kills, queued>>,
         Fwd(k)!InLines(Head(mails)), NEW F \in SUBSET k.addrs, NEW c \in BOOLEAN,
         NEW l \in {Head(mails).line + 1, Len(dotqmail[Head(mails).to]) + 1},
         Fwd(k)!Replace(Head(mails), [Head(mails) EXCEPT !.line = l, !.fwd = F, !.cut = c])
  PROVE  FwdInv(k)'
<1> DEFINE m == Head(mails)
<1>1. m \in MailType(k) /\ m.line \in Nat /\ Len(dotqmail[m.to]) \in Nat
  BY HeadMail
<1>2. m.line \in 1 .. Len(dotqmail[m.to])
  BY DEF Fwd!InLines, Fwd!Lines
<1>3. PICK x : x = [m EXCEPT !.line = l, !.fwd = F, !.cut = c]
  OBVIOUS
<1>4. l \in Nat /\ l # 0 /\ l <= Len(dotqmail[m.to]) + 1
  BY <1>1, <1>2
<1> HIDE DEF m
<1>5. x \in MailType(k) /\ x.to = m.to /\ x.line = l /\ x.sent = m.sent /\ x.hops = m.hops /\ x.dt = m.dt
      /\ x.bounces = m.bounces /\ x.sender = m.sender
  BY <1>1, <1>3, <1>4 DEF MailType
<1>6. Fwd(k)!Replace(Head(mails), x)
  BY <1>3 DEF m
<1>7. m.line # 0 /\ x.line # 0 /\ x.line <= Len(dotqmail[m.to]) + 1
  BY <1>1, <1>2, <1>4, <1>5
<1> QED BY <1>5, <1>6, <1>7, LineDone DEF m

(* Actions read m.line, m.fwd and m.cut as they are where they set nothing.   *)
LEMMA StepLines ==
  ASSUME NEW k, Fwd(k)!ForwardingAssumption, FwdInv(k), mails # <<>>,
         LET m == Head(mails) IN
         Fwd(k)!HomeTrouble(m) \/ Fwd(k)!FileLine(m) \/ Fwd(k)!ProgramLine(m) \/ Fwd(k)!ListLine(m)
         \/ Fwd(k)!ForwardLine(m)
  PROVE  FwdInv(k)'
<1> DEFINE m == Head(mails)
<1>1. UNCHANGED <<dotqmail, owner, kills>>
  BY DEF Fwd!HomeTrouble, Fwd!FileLine, Fwd!ProgramLine, Fwd!ListLine, Fwd!ForwardLine
<1>2. m \in MailType(k) /\ m.to \in k.addrs /\ m.line \in Nat /\ dotqmail[m.to] \in Seq(Fwd(k)!LineOfFile)
  BY HeadMail
<1>3. m.fwd \in SUBSET k.addrs /\ m.cut \in BOOLEAN
  BY <1>2 DEF MailType
<1>4. CASE Fwd(k)!Temp(m)
  BY <1>1, <1>4, TempKeeps
<1>5. CASE Fwd(k)!Perm(m)
  BY <1>1, <1>5, PermKeeps
<1>6. ASSUME UNCHANGED queued, Fwd(k)!InLines(m), NEW F \in SUBSET k.addrs, NEW c \in BOOLEAN,
             NEW l \in {m.line + 1, Len(dotqmail[m.to]) + 1},
             Fwd(k)!Replace(m, [m EXCEPT !.line = l, !.fwd = F, !.cut = c])
      PROVE  FwdInv(k)'
  BY <1>1, <1>6, ProceedKeeps
<1> HIDE DEF m
<1>7. CASE Fwd(k)!InLines(m) /\ Fwd(k)!Proceed(m)
  <2>1. [m EXCEPT !.line = m.line + 1] = [m EXCEPT !.line = m.line + 1, !.fwd = m.fwd, !.cut = m.cut]
    BY <1>2 DEF MailType
  <2> QED BY <1>3, <1>6, <1>7, <2>1 DEF Fwd!Proceed
<1>8. CASE /\ Fwd(k)!InLines(m) /\ UNCHANGED queued
           /\ Fwd(k)!Replace(m, [m EXCEPT !.line = Len(dotqmail[m.to]) + 1])
  <2>1. [m EXCEPT !.line = Len(dotqmail[m.to]) + 1]
          = [m EXCEPT !.line = Len(dotqmail[m.to]) + 1, !.fwd = m.fwd, !.cut = m.cut]
    BY <1>2 DEF MailType
  <2> QED BY <1>3, <1>6, <1>8, <2>1
<1>9. CASE Fwd(k)!ListLine(m)
  <2>1. [m EXCEPT !.line = m.line + 1, !.cut = TRUE]
          = [m EXCEPT !.line = m.line + 1, !.fwd = m.fwd, !.cut = TRUE]
    BY <1>2 DEF MailType
  <2> QED BY <1>3, <1>6, <1>9, <2>1 DEF Fwd!ListLine
<1>10. CASE Fwd(k)!ForwardLine(m)
  <2>1. m.line \in 1 .. Len(dotqmail[m.to]) /\ Fwd(k)!Line(m) = dotqmail[m.to][m.line]
    BY <1>10 DEF Fwd!ForwardLine, Fwd!InLines, Fwd!Line, Fwd!Lines
  <2>2. dotqmail[m.to][m.line] \in Fwd(k)!LineOfFile
    <3>1. PICK q : q = dotqmail[m.to]
      OBVIOUS
    <3> QED BY <1>2, <2>1, <3>1
  <2>3. Fwd(k)!Line(m).to \in k.addrs
    BY <1>10, <2>1, <2>2 DEF Fwd!ForwardLine, Fwd!LineOfFile
  <2>4. [m EXCEPT !.line = m.line + 1, !.fwd = m.fwd \cup {Fwd(k)!Line(m).to}]
          = [m EXCEPT !.line = m.line + 1, !.fwd = m.fwd \cup {Fwd(k)!Line(m).to}, !.cut = m.cut]
    BY <1>2 DEF MailType
  <2>5. m.fwd \cup {Fwd(k)!Line(m).to} \in SUBSET k.addrs
    BY <1>3, <2>3
  <2> QED BY <1>3, <1>6, <1>10, <2>4, <2>5 DEF Fwd!ForwardLine
<1> QED BY <1>4, <1>5, <1>7, <1>8, <1>9, <1>10
    DEF m, Fwd!HomeTrouble, Fwd!FileLine, Fwd!ProgramLine, Fwd!Lines

-----------------------------------------------------------------------------
LEMMA SameBijection == ASSUME NEW k, NEW S, NEW T PROVE Fwd(k)!Bijection(S, T) = Bijection(S, T)
  BY DEF Fwd!Bijection, Fwd!Injection, Fwd!Surjection, Fwd!IsInjective, Bijection, Injection, Surjection, IsInjective

(* The copies of a message are one for each of its recipients at most, with   *)
(* the address that forwards it in their Delivered-To lines.                  *)
LEMMA CopiesSane ==
  ASSUME NEW k, Fwd(k)!ForwardingAssumption, FwdInv(k), mails # <<>>, Head(mails).line # 0
  PROVE  /\ Fwd(k)!Copies(Head(mails)) \in Seq(InQueue(k))
         /\ Len(Fwd(k)!Copies(Head(mails))) <= Cardinality(Head(mails).fwd)
         /\ Cardinality(Head(mails).fwd) \in Nat
<1> DEFINE m == Head(mails)
           d == m.dt \cup {m.to}
           Copy(a) == Fwd(k)!Mail(a, Fwd(k)!NewSender(m), d, m.hops + 1, m.bounces)
           S == {Copy(a) : a \in m.fwd}
<1>1. m \in MailType(k) /\ Sane(k, m) /\ m.to \in k.addrs
  BY HeadMail
<1>2. Fwd(k)!Copies(m) = Fwd(k)!InAnyOrder(S)
  BY DEF Fwd!Copies
<1> HIDE DEF m
<1>3. IsFiniteSet(k.addrs)
  BY SameCardinality DEF Fwd!ForwardingAssumption
<1>4. m.dt \subseteq k.addrs /\ m.fwd \subseteq k.addrs /\ m.bounces \in Nat
      /\ m.sender \in k.addrs \cup {k.empty, k.discard}
  BY <1>1 DEF MailType
<1>5. IsFiniteSet(m.dt) /\ IsFiniteSet(m.fwd)
  BY <1>3, <1>4, FS_Subset
<1>6. Cardinality(d) = m.hops + 1
  <2>1. m.to \notin m.dt /\ m.hops = Cardinality(m.dt)
    BY <1>1 DEF Sane, m
  <2> QED BY <1>5, <2>1, FS_AddElement
<1>7. /\ Fwd(k)!NewSender(m) \in k.addrs \cup {k.empty, k.discard}
      /\ m.bounces \in 0 .. 2 /\ (m.bounces > 0 => Fwd(k)!NewSender(m) \in {k.empty, k.discard})
      /\ Fwd(k)!NewSender(m) # k.discard => m.bounces <= 1
  <2>1. owner[m.to] \in k.addrs \cup {k.empty}
    BY <1>1 DEF FwdInv, FilesSane
  <2>2. k.empty \notin k.addrs /\ k.discard \notin k.addrs
    BY DEF Fwd!ForwardingAssumption
  <2> QED BY <1>1, <1>4, <2>1, <2>2 DEF Fwd!NewSender, Sane
<1>8. S \subseteq InQueue(k)
  <2> SUFFICES ASSUME NEW a \in m.fwd PROVE Copy(a) \in InQueue(k)
    OBVIOUS
  <2>1. Copy(a) = Fwd(k)!Mail(a, Fwd(k)!NewSender(m), d, Cardinality(d), m.bounces)
    BY <1>6
  <2>2. FilesSane(k) /\ kills \in Nat /\ a \in k.addrs /\ d \in SUBSET k.addrs
    BY <1>1, <1>4 DEF FwdInv
  <2> HIDE DEF Copy, d
  <2> QED BY <1>7, <2>1, <2>2, SaneMail DEF InQueue
<1>9. IsFiniteSet(S) /\ Cardinality(S) <= Cardinality(m.fwd)
  <2> DEFINE f == [a \in m.fwd |-> Copy(a)]
  <2> HIDE DEF Copy
  <2>1. f \in Surjection(m.fwd, S)
    BY DEF Surjection
  <2> QED BY <1>5, <2>1, FS_Surjection
<1>10. Cardinality(m.fwd) \in Nat /\ Cardinality(S) \in Nat /\ ExistsBijection(1 .. Cardinality(S), S)
  BY <1>5, <1>9, FS_CardinalityType
<1> HIDE DEF S
<1>11. Fwd(k)!InAnyOrder(S) \in Bijection(1 .. Cardinality(S), S)
  BY <1>10, SameBijection, SameCardinality DEF Fwd!InAnyOrder, ExistsBijection
<1>12. PICK q : q = Fwd(k)!InAnyOrder(S)
  OBVIOUS
<1>13. q \in [1 .. Cardinality(S) -> S]
  BY <1>11, <1>12 DEF Bijection, Injection
<1>14. q \in Seq(InQueue(k)) /\ Len(q) = Cardinality(S)
  <2>1. q \in Seq(S) /\ Len(q) = Cardinality(S)
    BY <1>10, <1>13
  <2> QED BY <1>8, <2>1
<1>15. q = Fwd(k)!Copies(m)
  BY <1>2, <1>12
<1> QED BY <1>9, <1>10, <1>14, <1>15 DEF m

LEMMA StepFinish ==
  ASSUME NEW k, Fwd(k)!ForwardingAssumption, FwdInv(k), mails # <<>>, Fwd(k)!Finish(Head(mails))
  PROVE  FwdInv(k)'
<1> DEFINE m == Head(mails)
           n == Cardinality(m.fwd)
<1>1. m \in MailType(k) /\ Sane(k, m) /\ m.to \in k.addrs /\ m.line \in Nat /\ Len(dotqmail[m.to]) \in Nat
  BY HeadMail
<1>2. m.line = Len(dotqmail[m.to]) + 1 /\ UNCHANGED <<dotqmail, owner>>
  BY DEF Fwd!Finish, Fwd!Lines
<1>3. m.line # 0
  BY <1>1, <1>2
<1>4. PICK q : q = Fwd(k)!Copies(m)
  OBVIOUS
<1>5. q \in Seq(InQueue(k)) /\ Len(q) <= n /\ n \in Nat
  BY <1>3, <1>4, CopiesSane
<1>6. kills \in 0 .. k.kills /\ queued \in Nat /\ k.maxmail \in Nat /\ k.kills \in Nat
  BY DEF FwdInv, Fwd!ForwardingAssumption
<1>7. Fwd(k)!Cardinality(m.fwd) = n
  BY SameCardinality
<1> HIDE DEF n
<1>8. CASE (Fwd(k)!Temp(m) \/ Fwd(k)!Perm(m)) /\ UNCHANGED kills
  BY <1>2, <1>8, TempKeeps, PermKeeps
<1>9. CASE queued + n <= k.maxmail /\ queued' = queued + n /\ Fwd(k)!Later(q) /\ UNCHANGED kills
  <2>1. kills' \in kills .. k.kills
    BY <1>6, <1>9
  <2>2. InQueue(k) \subseteq InQueue(k)'
    BY <1>2, <2>1, QueueKeeps
  <2>3. q \in Seq(InQueue(k)') /\ Len(q) <= n + 1
    BY <1>5, <2>2
  <2>4. queued' = queued + n /\ queued' <= k.maxmail
    BY <1>9
  <2> QED BY <1>2, <1>5, <1>9, <2>1, <2>3, <2>4, QueueLater
<1>10. CASE /\ queued + n <= k.maxmail /\ queued' = queued + n
            /\ kills < k.kills /\ kills' = kills + 1 /\ m.try < k.tries
            /\ Fwd(k)!Later(q \o <<[m EXCEPT !.line = 0, !.fwd = {}, !.try = @ + 1, !.sent = @ + 1]>>)
  <2>1. kills' \in kills .. k.kills
    BY <1>6, <1>10
  <2>2. InQueue(k) \subseteq InQueue(k)'
    BY <1>2, <2>1, QueueKeeps
  <2>3. PICK x : x = [m EXCEPT !.line = 0, !.fwd = {}, !.try = @ + 1, !.sent = @ + 1]
    OBVIOUS
  <2> HIDE DEF m
  <2>4. k.tries \in Nat /\ m.try \in 1 .. k.tries /\ m.sent \in Nat
    BY <1>1 DEF MailType, Fwd!ForwardingAssumption
  <2>5. m.try + 1 \in 1 .. k.tries /\ m.sent + 1 \in Nat
    BY <1>10, <2>4
  <2> DEFINE t == m.try + 1
             e == m.sent + 1
  <2>14. x = [m EXCEPT !.line = 0, !.fwd = {}, !.try = t, !.sent = e]
    BY <2>3
  <2> HIDE DEF t, e
  <2>15. x \in MailType(k) /\ x.to = m.to /\ x.line = 0 /\ x.sent = e /\ x.hops = m.hops /\ x.dt = m.dt
        /\ x.bounces = m.bounces /\ x.sender = m.sender
    <3>1. t \in 1 .. k.tries /\ e \in Nat
      BY <2>5 DEF t, e
    <3> QED BY <1>1, <2>14, <3>1 DEF MailType
  <2>6. x \in MailType(k) /\ x.to = m.to /\ x.line = 0 /\ x.sent = m.sent + 1 /\ x.hops = m.hops /\ x.dt = m.dt
        /\ x.bounces = m.bounces /\ x.sender = m.sender
    BY <2>15 DEF e
  <2>7. Sane(k, x)'
    BY <1>1, <1>2, <1>6, <1>10, <2>4, <2>6 DEF Sane
  <2>8. x \in InQueue(k)'
    BY <2>6, <2>7 DEF InQueue
  <2>9. PICK u : u = q \o <<x>>
    OBVIOUS
  <2>10. q \in Seq(InQueue(k)')
    BY <1>5, <2>2
  <2>11. u \in Seq(InQueue(k)') /\ Len(u) <= n + 1
    BY <1>5, <2>8, <2>9, <2>10
  <2>12. Fwd(k)!Later(u)
    BY <1>10, <2>3, <2>9
  <2>13. queued' = queued + n /\ queued' <= k.maxmail
    BY <1>10
  <2> QED BY <1>2, <1>5, <2>1, <2>11, <2>12, <2>13, QueueLater
<1> QED BY <1>4, <1>7, <1>8, <1>9, <1>10 DEF Fwd!Finish

LEMMA StepFwd ==
  ASSUME NEW k, Fwd(k)!ForwardingAssumption, FwdInv(k), [Fwd(k)!Next]_(Fwd(k)!vars) PROVE FwdInv(k)'
<1>1. CASE UNCHANGED Fwd(k)!vars
  BY <1>1 DEF Fwd!vars, FwdInv, FilesSane, Sane
<1>2. CASE Fwd(k)!Next
  BY <1>2, StepBegin, StepLines, StepFinish DEF Fwd!Next, Fwd!Deliver
<1> QED BY <1>1, <1>2

-----------------------------------------------------------------------------
(* qmail-remote *)

Letters == {"K", "Z", "D"}
Asking == {"mx", "greet", "ehlo", "helo", "starttls", "ehlo2", "auth", "mail", "rcpt"}
Sending == {"data", "body", "final"}
Over == {"exited", "done"}

Whole(s) ==
  \/ s = <<"crashed">>
  \/ \E c \in {"Z", "D"} : s = <<c>>
  \/ \E c \in Letters : s = <<"r", c>>
  \/ \E c \in {"s", "h"}, e \in {"Z", "D"} : s = <<c, e>>

(* What it has written: of the recipient first, then of the message. *)
Reported ==
  /\ remote_pc \in Asking => remote_out = <<>>
  /\ remote_pc \in Sending => remote_out = <<"r">>
  /\ remote_pc = "quit" => remote_out = <<"s">> \/ remote_out = <<"h">>
  /\ remote_pc \in Over => Whole(remote_out)
Success == <<"r", "K">>

(* A server that has the message has answered the dot, and one that was       *)
(* heard to has been heard since. *)
Taken ==
  /\ remote_pc \in Asking \cup {"data", "body", "quit"} => ~accepted
  /\ remote_pc = "body" => reply = "none"
  /\ remote_pc = "final" => critical /\ (accepted <=> reply = "ok")
  /\ remote_pc \notin Over => ~heard
  /\ remote_pc \in Over /\ remote_out = Success => accepted

(* Every copy but one was excused; that one is told of or in its try still.   *)
Counted ==
  /\ remote_pc \notin Over => excuses <= tries - 1 /\ copies <= excuses + (IF accepted THEN 1 ELSE 0)
  /\ remote_pc \in Over => excuses <= tries /\ copies <= tries
       /\ copies <= excuses + (IF remote_out = Success THEN 1 ELSE 0)

Answered ==
  /\ outcome = "K" => remote_pc = "done"
  /\ remote_pc = "done" => (outcome = "K" <=> remote_out = Success)

Covered(k) ==
  /\ remote_pc = "ehlo2" => tls
  /\ Remote(k)!NotInTheClear
Truthful(k) ==
  ~k.quitfails /\ remote_pc = "exited" /\ heard => remote_out \in {<<"crashed">>, Success}
Types(k) == Remote(k)!TypeOK /\ accepted \in BOOLEAN /\ heard \in BOOLEAN
RemoteInv(k) ==
  Types(k) /\ Reported /\ Taken /\ Counted /\ Answered /\ Covered(k) /\ Truthful(k)

LEMMA Reports ==
  ASSUME NEW k
  PROVE  /\ Remote(k)!Report(<<"crashed">>) = "Z"
         /\ \A c \in {"Z", "D"} : Remote(k)!Report(<<c>>) = c
         /\ \A c \in Letters : Remote(k)!Report(<<"r", c>>) = c
         /\ \A e \in {"Z", "D"} : Remote(k)!Report(<<"s", e>>) = "Z" /\ Remote(k)!Report(<<"h", e>>) = "D"
<1>1. ASSUME NEW c \in Letters, NEW e \in {"r", "s", "h"}
      PROVE  <<e, c>>[1] = e /\ <<e, c>>[Len(<<e, c>>)] = c
  OBVIOUS
<1>2. ASSUME NEW c \in {"Z", "D"} PROVE <<c>>[1] = c /\ <<c>>[Len(<<c>>)] = c
  OBVIOUS
<1>3. <<"crashed">>[1] = "crashed"
  OBVIOUS
<1> QED BY <1>1, <1>2, <1>3 DEF Remote!Report, Letters

LEMMA InitRemote == ASSUME NEW k, Remote(k)!RemoteAssumption, Remote(k)!Init PROVE RemoteInv(k)
<1> USE DEF Remote!Init, Remote!Start
<1>1. k.hosts \in Nat \ {0} /\ k.tries \in Nat \ {0}
  BY DEF Remote!RemoteAssumption
<1>2. Types(k)
  <2>1. 1 \in 1 .. k.hosts /\ 1 \in 1 .. k.tries /\ 0 \in 0 .. k.tries
    BY <1>1
  <2> QED BY <2>1 DEF Types, Remote!TypeOK
<1>3. Reported /\ Taken /\ Counted /\ Answered
  BY DEF Reported, Taken, Counted, Answered, Asking, Sending, Over
<1>4. Covered(k) /\ Truthful(k)
  BY DEF Covered, Truthful, Remote!NotInTheClear
<1> QED BY <1>2, <1>3, <1>4 DEF RemoteInv

LEMMA RemotePromises ==
  ASSUME NEW k, Remote(k)!RemoteAssumption, RemoteInv(k)
  PROVE  /\ Remote(k)!TypeOK /\ Remote(k)!ToldIsTaken /\ Remote(k)!DuplicatesExcused /\ Remote(k)!NotInTheClear
         /\ ~k.quitfails => Remote(k)!HeardIsTold
<1> USE DEF RemoteInv
<1>1. Remote(k)!TypeOK /\ Remote(k)!NotInTheClear
  BY DEF Types, Covered
<1>2. Remote(k)!ToldIsTaken
  BY DEF Answered, Taken, Over, Remote!ToldIsTaken
<1>3. Remote(k)!DuplicatesExcused
  BY DEF Counted, Answered, Taken, Asking, Over, Types, Remote!TypeOK, Remote!DuplicatesExcused
<1>4. ASSUME ~k.quitfails PROVE Remote(k)!HeardIsTold
  <2>1. <<"crashed">>[1] = "crashed" /\ Remote(k)!Report(Success) = "K"
    BY Reports DEF Success, Letters
  <2> QED BY <1>4, <2>1 DEF Truthful, Remote!HeardIsTold
<1> QED BY <1>1, <1>2, <1>3, <1>4

NotOver == Asking \cup Sending \cup {"quit"}

(* The conversation goes on. *)
LEMMA Goes ==
  ASSUME NEW k, Remote(k)!RemoteAssumption, RemoteInv(k), remote_pc \in NotOver,
         remote_pc' \in NotOver \ {"final"}, remote_pc # "final", mx' \in 1 .. k.hosts, tls' \in BOOLEAN,
         reply' \in {"none", "ok", "temp", "perm", "odd"}, reply' = "none" \/ remote_pc' # "body",
         Reported', Covered(k)',
         UNCHANGED <<critical, accepted, heard, copies, tries, excuses, outcome>>
  PROVE  RemoteInv(k)'
<1> USE DEF RemoteInv, NotOver, Asking, Sending, Over
<1>1. Types(k)'
  BY DEF Types, Remote!TypeOK, Remote!Waiting
<1>2. Taken'
  BY DEF Taken
<1>3. Counted' /\ Answered' /\ Truthful(k)'
  BY DEF Counted, Answered, Truthful
<1> QED BY <1>1, <1>2, <1>3

(* qmail-remote ends: what a server has is told, or excused. *)
LEMMA Exits ==
  ASSUME NEW k, Remote(k)!RemoteAssumption, RemoteInv(k), remote_pc \in NotOver,
         remote_pc' = "exited", mx' \in 1 .. k.hosts, Whole(remote_out'),
         reply' \in {"none", "ok", "temp", "perm", "odd"}, critical' \in BOOLEAN, heard' \in BOOLEAN,
         NEW x \in {0, 1}, excuses' = excuses + x,
         accepted => x = 1 \/ remote_out' = Success, remote_out' = Success => accepted,
         Truthful(k)', UNCHANGED <<tls, accepted, copies, tries, outcome>>
  PROVE  RemoteInv(k)'
<1> USE DEF RemoteInv
<1>8. remote_out' # <<>>
  <2>1. CASE remote_out' = <<"crashed">>
    BY <2>1
  <2>4. CASE \E c \in {"Z", "D"} : remote_out' = <<c>>
    <3>1. PICK c \in {"Z", "D"} : remote_out' = <<c>>
      BY <2>4
    <3>2. <<c>>[1] = c /\ Len(<<c>>) = 1
      OBVIOUS
    <3>3. Len(<< >>) = 0 /\ 1 # 0
      OBVIOUS
    <3> QED BY <3>1, <3>2, <3>3, Zenon
  <2>2. CASE \E c \in Letters : remote_out' = <<"r", c>>
    BY <2>2
  <2>3. CASE \E c \in {"s", "h"}, e \in {"Z", "D"} : remote_out' = <<c, e>>
    BY <2>3
  <2> QED BY <2>1, <2>2, <2>3, <2>4 DEF Whole
<1>0. remote_pc \notin Over /\ remote_pc' \in Over
  BY DEF Over, NotOver, Asking, Sending
<1>1. excuses \in Nat /\ copies \in Nat /\ tries \in 1 .. k.tries /\ k.tries \in Nat
  BY DEF Types, Remote!TypeOK, Remote!RemoteAssumption
<1>2. /\ excuses <= tries - 1 /\ copies <= excuses + (IF accepted THEN 1 ELSE 0)
  BY <1>0 DEF Counted
<1>3. excuses' \in Nat /\ excuses' <= tries /\ copies <= tries
      /\ copies <= excuses' + (IF remote_out' = Success THEN 1 ELSE 0)
  BY <1>1, <1>2
<1>4. Types(k)'
  BY <1>0, <1>1, <1>3, <1>8 DEF Types, Remote!TypeOK
<1>5. Counted'
  BY <1>0, <1>3 DEF Counted
<1>6. Reported' /\ Taken' /\ Answered'
  BY <1>0 DEF Reported, Taken, Answered, Asking, Sending, Over, NotOver
<1>7. Covered(k)'
  BY DEF Covered, Remote!NotInTheClear
<1> QED BY <1>4, <1>5, <1>6, <1>7

LEMMA StepAnswer ==
  ASSUME NEW k, Remote(k)!RemoteAssumption, RemoteInv(k), Remote(k)!Answer PROVE RemoteInv(k)'
<1> USE DEF RemoteInv, Remote!Answer
<1>1. remote_pc \notin Over \cup {"quit", "mx", "body"} /\ remote_pc' = remote_pc
  BY DEF Over, Remote!Waiting
<1>2. CASE remote_pc = "final" /\ reply' = "ok"
  <2>1. ~accepted
    BY <1>2 DEF Taken
  <2>2. copies <= excuses /\ excuses <= tries - 1 /\ excuses \in Nat /\ copies \in Nat
        /\ tries \in 1 .. k.tries /\ k.tries \in Nat
    BY <1>1, <2>1 DEF Counted, Types, Remote!TypeOK, Remote!RemoteAssumption
  <2>3. copies' <= excuses + 1 /\ copies' \in 0 .. k.tries
    BY <1>2, <2>2
  <2>4. Types(k)'
    BY <1>1, <1>2, <2>3 DEF Types, Remote!TypeOK
  <2>5. Counted' /\ Taken'
    BY <1>1, <1>2, <2>2, <2>3 DEF Counted, Taken, Asking, Over
  <2> QED BY <1>1, <1>2, <2>4, <2>5 DEF Reported, Answered, Covered, Truthful, Over, Remote!NotInTheClear
<1>3. CASE ~(remote_pc = "final" /\ reply' = "ok")
  <2>1. UNCHANGED <<accepted, copies>>
    BY <1>3
  <2>2. reply' \in {"none", "ok", "temp", "perm", "odd"}
    OBVIOUS
  <2>3. Types(k)' /\ Counted'
    BY <1>1, <2>1, <2>2 DEF Types, Remote!TypeOK, Counted
  <2>4. Taken'
    BY <1>1, <1>3, <2>1 DEF Taken
  <2>5. Reported' /\ Answered' /\ Covered(k)' /\ Truthful(k)'
    BY <1>1, <2>1 DEF Reported, Answered, Covered, Truthful, Remote!NotInTheClear
  <2> QED BY <2>3, <2>4, <2>5
<1> QED BY <1>2, <1>3

LEMMA TwoLetters == ASSUME NEW e, NEW c PROVE Append(<<e>>, c) = <<e, c>>
<1> DEFINE s == Append(<<e>>, c)
           t == <<e, c>>
<1>1. <<e>> \in Seq({e, c}) /\ Len(<<e>>) = 1 /\ <<e>>[1] = e
  OBVIOUS
<1>2. s \in Seq({e, c}) /\ Len(s) = 2 /\ s[1] = e /\ s[2] = c
  BY <1>1
<1>3. t \in Seq({e, c}) /\ Len(t) = 2 /\ t[1] = e /\ t[2] = c
  OBVIOUS
<1> HIDE DEF s, t
<1>4. Len(s) = Len(t) /\ \A i \in 1 .. Len(s) : s[i] = t[i]
  BY <1>2, <1>3
<1>5. s = t
  BY <1>2, <1>3, <1>4, SeqEqual
<1> QED BY <1>5 DEF s, t

(* What it writes is one report of the recipient and one of the message.      *)
LEMMA Letter ==
  /\ \A c \in {"Z", "D"} : Whole(Append(<<>>, c)) /\ Append(<<>>, c) # Success
  /\ \A c \in Letters : Whole(Append(<<"r">>, c)) /\ (Append(<<"r">>, c) = Success <=> c = "K")
  /\ \A e \in {"s", "h"}, c \in {"Z", "D"} : Whole(Append(<<e>>, c)) /\ Append(<<e>>, c) # Success
  /\ Whole(<<"crashed">>) /\ <<"crashed">> # Success
<1>1. \A c \in {"Z", "D"} : Append(<<>>, c) = <<c>> /\ <<c>> # <<"r", "K">>
  OBVIOUS
<1>2. ASSUME NEW c \in Letters, NEW e \in {"r", "s", "h"} PROVE Append(<<e>>, c) = <<e, c>>
  BY TwoLetters
<1>3. \A c \in Letters : <<"r", c>> = <<"r", "K">> <=> c = "K"
  BY DEF Letters
<1>4. \A c \in Letters, e \in {"s", "h"} : <<e, c>> # <<"r", "K">>
  BY DEF Letters
<1>5. <<"crashed">> # <<"r", "K">>
  <2>1. <<"crashed">>[1] = "crashed"
    OBVIOUS
  <2>2. <<"r", "K">>[1] = "r"
    OBVIOUS
  <2>3. "r" # "crashed"
    OBVIOUS
  <2> QED BY <2>1, <2>2, <2>3, Zenon
<1>6. {"Z", "D"} \subseteq Letters
  BY DEF Letters
<1> QED BY <1>1, <1>2, <1>3, <1>4, <1>5, <1>6 DEF Whole, Success

(* Before the server answers the dot, any failure may be told.                *)
LEMMA Fails ==
  ASSUME NEW k, RemoteInv(k), remote_pc \in NotOver, NEW c \in {"Z", "D"}, remote_out' = Append(remote_out, c)
  PROVE  Whole(remote_out') /\ remote_out' # Success
<1>1. remote_out = <<>> \/ remote_out = <<"r">> \/ remote_out = <<"s">> \/ remote_out = <<"h">>
  BY DEF RemoteInv, Reported, NotOver
<1>2. c \in Letters /\ c # "K"
  BY DEF Letters
<1> QED BY <1>1, <1>2, Letter

Replies == {"none", "ok", "temp", "perm", "odd"}

(* qmail-remote gives up before the server has the message.                   *)
LEMMA GivesUp ==
  ASSUME NEW k, Remote(k)!RemoteAssumption, RemoteInv(k), remote_pc \in NotOver \ {"final"},
         NEW c \in {"Z", "D"}, Remote(k)!Exit(c), mx' \in 1 .. k.hosts, reply' \in Replies,
         NEW x \in {0, 1}, excuses' = excuses + x,
         UNCHANGED <<tls, critical, accepted, heard, copies, tries, outcome>>
  PROVE  RemoteInv(k)'
<1>1. remote_pc' = "exited" /\ remote_out' = Append(remote_out, c)
  BY DEF Remote!Exit
<1>2. Whole(remote_out') /\ remote_out' # Success
  BY <1>1, Fails
<1>3. ~accepted /\ ~heard
  BY DEF RemoteInv, Taken, NotOver, Asking, Sending, Over
<1>4. critical' \in BOOLEAN /\ heard' \in BOOLEAN /\ Truthful(k)'
  BY <1>3 DEF RemoteInv, Types, Remote!TypeOK, Truthful
<1> QED BY <1>1, <1>2, <1>3, <1>4, Exits DEF Replies

(* The same with what quit() may add.                                         *)
LEMMA QuitsBefore ==
  ASSUME NEW k, Remote(k)!RemoteAssumption, RemoteInv(k), remote_pc \in NotOver \ {"final"},
         NEW c \in {"Z", "D"}, Remote(k)!Quit(c), reply' \in Replies, Remote(k)!Rest
  PROVE  RemoteInv(k)'
<1>1. mx' \in 1 .. k.hosts
  BY DEF Remote!Rest, RemoteInv, Types, Remote!TypeOK
<1>2. excuses \in Nat
  BY DEF RemoteInv, Types, Remote!TypeOK
<1>3. CASE Remote(k)!Exit(c) /\ UNCHANGED excuses
  <2>1. excuses' = excuses + 0
    BY <1>2, <1>3
  <2> QED BY <1>1, <1>3, <2>1, GivesUp DEF Remote!Rest
<1>4. CASE Remote(k)!Exit("Z") /\ excuses' = excuses + 1
  BY <1>1, <1>4, GivesUp DEF Remote!Rest
<1> QED BY <1>3, <1>4 DEF Remote!Quit

(* A command is sent that the server is to answer.                            *)
LEMMA Asks ==
  ASSUME NEW k, Remote(k)!RemoteAssumption, RemoteInv(k), remote_pc \in Asking, NEW p \in Asking,
         Remote(k)!Send(p), reply' = "none", Remote(k)!Rest, Covered(k)'
  PROVE  RemoteInv(k)'
<1>1. mx' \in 1 .. k.hosts /\ tls' \in BOOLEAN
  BY DEF Remote!Rest, RemoteInv, Types, Remote!TypeOK
<1>2. remote_pc' = p /\ remote_pc' \in NotOver \ {"final"} /\ remote_pc # "final" /\ remote_pc \in NotOver
  BY DEF Remote!Send, NotOver, Asking
<1>3. Reported'
  BY <1>2 DEF Remote!Send, RemoteInv, Reported, Asking, Sending, Over
<1> QED BY <1>1, <1>2, <1>3, Goes DEF Remote!Send, Remote!Rest

LEMMA StepNoConnection ==
  ASSUME NEW k, Remote(k)!RemoteAssumption, RemoteInv(k), Remote(k)!NoConnection PROVE RemoteInv(k)'
<1>1. remote_pc \in NotOver \ {"final"} /\ remote_pc = "mx"
      /\ UNCHANGED <<tls, reply, critical, accepted, heard, copies, tries, excuses, outcome>>
  BY DEF Remote!NoConnection, Remote!message, NotOver, Asking
<1>2. mx \in 1 .. k.hosts /\ k.hosts \in Nat /\ excuses \in Nat /\ reply \in Replies /\ tls \in BOOLEAN
  BY DEF RemoteInv, Types, Remote!TypeOK, Remote!RemoteAssumption, Replies
<1>3. CASE mx < k.hosts /\ mx' = mx + 1 /\ UNCHANGED <<remote_pc, remote_out>>
  <2>1. mx' \in 1 .. k.hosts
    BY <1>2, <1>3
  <2>2. Reported' /\ Covered(k)'
    BY <1>1, <1>3 DEF RemoteInv, Reported, Covered, Remote!NotInTheClear
  <2> QED BY <1>1, <1>2, <1>3, <2>1, <2>2, Goes DEF Replies
<1>4. CASE Remote(k)!Exit("Z") /\ UNCHANGED mx
  <2>1. excuses' = excuses + 0
    BY <1>1, <1>2
  <2> QED BY <1>1, <1>2, <1>4, <2>1, GivesUp
<1> QED BY <1>3, <1>4 DEF Remote!NoConnection

LEMMA StepConnect ==
  ASSUME NEW k, Remote(k)!RemoteAssumption, RemoteInv(k), Remote(k)!Connect PROVE RemoteInv(k)'
<1> USE DEF Remote!Connect, Remote!conn, Remote!message
<1>1. remote_pc \in NotOver /\ remote_pc # "final" /\ remote_pc' \in NotOver \ {"final"}
  BY DEF NotOver, Asking
<1>2. mx' \in 1 .. k.hosts /\ tls' \in BOOLEAN /\ reply' \in Replies
  BY DEF RemoteInv, Types, Remote!TypeOK, Replies
<1>3. Reported' /\ Covered(k)'
  BY DEF RemoteInv, Reported, Covered, Remote!NotInTheClear, Asking, Sending, Over
<1> QED BY <1>1, <1>2, <1>3, Goes DEF Replies

LEMMA StepNoHost ==
  ASSUME NEW k, Remote(k)!RemoteAssumption, RemoteInv(k), Remote(k)!NoHost PROVE RemoteInv(k)'
<1> USE DEF Remote!NoHost, Remote!conn, Remote!message
<1>1. PICK c \in {"Z", "D"} : Remote(k)!Exit(c)
  OBVIOUS
<1>2. remote_pc \in NotOver \ {"final"}
  BY DEF NotOver, Asking
<1>3. mx' \in 1 .. k.hosts /\ reply' \in Replies /\ excuses' = excuses + 0
  BY DEF RemoteInv, Types, Remote!TypeOK, Replies
<1> QED BY <1>1, <1>2, <1>3, GivesUp

(* After the greeting comes AUTH or MAIL, over TLS if that is needed.         *)
LEMMA Introduces ==
  ASSUME NEW k, Remote(k)!RemoteAssumption, RemoteInv(k), remote_pc \in Asking,
         Remote(k)!Introduced, tls \/ ~(k.cantls /\ k.needtls), reply' = "none", Remote(k)!Rest
  PROVE  RemoteInv(k)'
<1>1. PICK p \in {"auth", "mail"} : Remote(k)!Send(p)
  BY DEF Remote!Introduced
<1>2. p \in Asking /\ remote_pc' = p
  BY <1>1 DEF Asking, Remote!Send
<1>3. Covered(k)'
  BY <1>1, <1>2 DEF Covered, Remote!NotInTheClear, Remote!Rest
<1> QED BY <1>1, <1>2, <1>3, Asks

LEMMA IntroducesInTheClear ==
  ASSUME NEW k, Remote(k)!RemoteAssumption, RemoteInv(k), remote_pc \in Asking,
         Remote(k)!InTheClear, reply' = "none", Remote(k)!Rest
  PROVE  RemoteInv(k)'
<1>1. CASE ~(k.cantls /\ k.needtls) /\ Remote(k)!Introduced
  BY <1>1, Introduces
<1>2. CASE Remote(k)!Exit("Z") /\ UNCHANGED excuses
  <2>1. mx' \in 1 .. k.hosts /\ reply' \in Replies /\ excuses' = excuses + 0
    BY <1>2 DEF RemoteInv, Types, Remote!TypeOK, Replies, Remote!Rest
  <2>2. remote_pc \in NotOver \ {"final"}
    BY DEF NotOver, Asking
  <2> QED BY <1>2, <2>1, <2>2, GivesUp DEF Remote!Rest
<1> QED BY <1>1, <1>2 DEF Remote!InTheClear

LEMMA StepGreeted ==
  ASSUME NEW k, Remote(k)!RemoteAssumption, RemoteInv(k), Remote(k)!Greeted PROVE RemoteInv(k)'
<1>1. remote_pc \in Asking /\ remote_pc = "greet" /\ remote_pc \in NotOver \ {"final"} /\ reply' = "none"
  BY DEF Remote!Greeted, Remote!Hear, Asking, NotOver
<1>2. mx \in 1 .. k.hosts /\ k.hosts \in Nat /\ excuses \in Nat /\ tls \in BOOLEAN
  BY DEF RemoteInv, Types, Remote!TypeOK, Remote!RemoteAssumption
<1>3. CASE Remote(k)!Send("ehlo") /\ Remote(k)!Rest
  <2>1. Covered(k)'
    BY <1>3 DEF Covered, Remote!NotInTheClear, Remote!Send
  <2>2. "ehlo" \in Asking
    BY DEF Asking
  <2> QED BY <1>1, <1>3, <2>1, <2>2, Asks
<1>4. CASE Remote(k)!Quit("Z") /\ Remote(k)!Rest
  BY <1>1, <1>4, QuitsBefore DEF Replies
<1>5. CASE /\ IF mx < k.hosts THEN mx' = mx + 1 /\ remote_pc' = "mx" /\ UNCHANGED remote_out
              ELSE Remote(k)!Exit("Z") /\ UNCHANGED mx
           /\ UNCHANGED <<tls, critical, Remote(k)!message, tries, excuses, outcome>>
  <2> USE DEF Remote!message
  <2>1. CASE mx < k.hosts
    <3>1. mx' \in 1 .. k.hosts
      BY <1>2, <1>5, <2>1
    <3>2. remote_pc' \in NotOver \ {"final"} /\ remote_pc' = "mx" /\ remote_pc' \in Asking
      BY <1>5, <2>1 DEF NotOver, Asking
    <3>3. Reported' /\ Covered(k)'
      BY <1>1, <1>5, <2>1, <3>2 DEF RemoteInv, Reported, Covered, Remote!NotInTheClear, Asking, Sending, Over
    <3> QED BY <1>1, <1>2, <1>5, <3>1, <3>2, <3>3, Goes
  <2>2. CASE ~(mx < k.hosts)
    <3>1. mx' \in 1 .. k.hosts /\ reply' \in Replies /\ excuses' = excuses + 0
      BY <1>1, <1>2, <1>5, <2>2 DEF Replies
    <3> QED BY <1>1, <1>5, <2>2, <3>1, GivesUp
  <2> QED BY <2>1, <2>2
<1> QED BY <1>3, <1>4, <1>5 DEF Remote!Greeted

LEMMA StepNamed ==
  ASSUME NEW k, Remote(k)!RemoteAssumption, RemoteInv(k), Remote(k)!Named PROVE RemoteInv(k)'
<1>1. remote_pc \in Asking /\ remote_pc \in NotOver \ {"final"} /\ reply' = "none" /\ Remote(k)!Rest
  BY DEF Remote!Named, Remote!Hear, Asking, NotOver
<1>2. ASSUME NEW p \in {"starttls", "helo"}, Remote(k)!Send(p) PROVE RemoteInv(k)'
  <2>1. p \in Asking /\ Covered(k)'
    BY <1>2 DEF Covered, Remote!NotInTheClear, Remote!Send, Asking
  <2> QED BY <1>1, <1>2, <2>1, Asks
<1>3. CASE Remote(k)!InTheClear
  BY <1>1, <1>3, IntroducesInTheClear
<1>4. CASE Remote(k)!Quit("Z")
  BY <1>1, <1>4, QuitsBefore DEF Replies
<1>5. CASE remote_pc = "ehlo2" /\ Remote(k)!Introduced
  <2>1. tls
    BY <1>5 DEF RemoteInv, Covered
  <2> QED BY <1>1, <1>5, <2>1, Introduces
<1> QED BY <1>2, <1>3, <1>4, <1>5 DEF Remote!Named, Remote!Hear

LEMMA StepStartTls ==
  ASSUME NEW k, Remote(k)!RemoteAssumption, RemoteInv(k), Remote(k)!StartTls PROVE RemoteInv(k)'
<1>1. remote_pc \in Asking /\ remote_pc = "starttls" /\ remote_pc \in NotOver \ {"final"} /\ reply' = "none"
  BY DEF Remote!StartTls, Remote!Hear, Asking, NotOver
<1>2. mx \in 1 .. k.hosts /\ excuses \in Nat
  BY DEF RemoteInv, Types, Remote!TypeOK
<1>3. CASE Remote(k)!Send("ehlo2") /\ tls' = TRUE /\ UNCHANGED <<mx, critical, Remote(k)!message, tries, outcome>>
  <2> USE DEF Remote!message, Remote!Send
  <2>1. remote_pc' \in NotOver \ {"final"} /\ remote_pc' \in Asking
    BY <1>3 DEF NotOver, Asking
  <2>2. Reported' /\ Covered(k)'
    BY <1>1, <1>3 DEF RemoteInv, Reported, Covered, Remote!NotInTheClear, Asking, Sending, Over
  <2> QED BY <1>1, <1>2, <1>3, <2>1, <2>2, Goes
<1>4. CASE Remote(k)!Exit("Z") /\ UNCHANGED excuses /\ Remote(k)!Rest
  <2>1. mx' \in 1 .. k.hosts /\ reply' \in Replies /\ excuses' = excuses + 0
    BY <1>1, <1>2, <1>4 DEF Replies, Remote!Rest
  <2> QED BY <1>1, <1>4, <2>1, GivesUp DEF Remote!Rest
<1>5. CASE Remote(k)!InTheClear /\ Remote(k)!Rest
  BY <1>1, <1>5, IntroducesInTheClear
<1> QED BY <1>3, <1>4, <1>5 DEF Remote!StartTls

LEMMA StepAuthenticated ==
  ASSUME NEW k, Remote(k)!RemoteAssumption, RemoteInv(k), Remote(k)!Authenticated PROVE RemoteInv(k)'
<1>1. remote_pc \in Asking /\ remote_pc = "auth" /\ remote_pc \in NotOver \ {"final"} /\ reply' = "none"
      /\ Remote(k)!Rest
  BY DEF Remote!Authenticated, Remote!Hear, Asking, NotOver
<1>2. CASE Remote(k)!Send("mail")
  <2>1. "mail" \in Asking /\ Covered(k)'
    BY <1>1, <1>2 DEF Asking, RemoteInv, Covered, Remote!NotInTheClear, Remote!Send, Remote!Rest
  <2> QED BY <1>1, <1>2, <2>1, Asks
<1>3. CASE Remote(k)!Quit("Z")
  BY <1>1, <1>3, QuitsBefore DEF Replies
<1> QED BY <1>2, <1>3 DEF Remote!Authenticated

LEMMA StepEnvelope ==
  ASSUME NEW k, Remote(k)!RemoteAssumption, RemoteInv(k), Remote(k)!Envelope PROVE RemoteInv(k)'
<1>1. remote_pc \in Asking /\ remote_pc \in {"mail", "rcpt"} /\ remote_pc \in NotOver \ {"final"}
      /\ reply' = "none" /\ Remote(k)!Rest
  BY DEF Remote!Envelope, Remote!Hear, Asking, NotOver
<1>2. Covered(k) /\ mx \in 1 .. k.hosts /\ tls \in BOOLEAN /\ remote_out = <<>>
  BY <1>1 DEF RemoteInv, Types, Remote!TypeOK, Reported
<1>3. CASE Remote(k)!Send("rcpt")
  <2>1. "rcpt" \in Asking /\ Covered(k)'
    BY <1>1, <1>2, <1>3 DEF Asking, Covered, Remote!NotInTheClear, Remote!Send, Remote!Rest
  <2> QED BY <1>1, <1>3, <2>1, Asks
<1>4. CASE Remote(k)!Quit("Z")
  BY <1>1, <1>4, QuitsBefore DEF Replies
<1>5. CASE Remote(k)!Quit("D")
  BY <1>1, <1>5, QuitsBefore DEF Replies
<1>6. ASSUME NEW p \in {"data", "quit"}, NEW c \in {"r", "s", "h"}, p = "data" <=> c = "r",
             remote_pc' = p, remote_out' = Append(remote_out, c), UNCHANGED excuses
      PROVE  RemoteInv(k)'
  <2>1. Append(<<>>, c) = <<c>>
    OBVIOUS
  <2>2. remote_out' = <<c>>
    BY <1>2, <1>6, <2>1
  <2>3. Reported' /\ Covered(k)'
    BY <1>1, <1>2, <1>6, <2>2
    DEF Reported, Covered, Remote!NotInTheClear, Remote!Rest, Asking, Sending, Over
  <2>4. remote_pc' \in NotOver \ {"final"}
    BY <1>6 DEF NotOver, Sending
  <2> QED BY <1>1, <1>2, <1>6, <2>3, <2>4, Goes DEF Remote!Rest
<1>7. CASE remote_pc' = "data" /\ remote_out' = Append(remote_out, "r") /\ UNCHANGED excuses
  BY <1>6, <1>7
<1>8. CASE remote_pc' = "quit" /\ remote_out' = Append(remote_out, "s") /\ UNCHANGED excuses
  BY <1>6, <1>8
<1>9. CASE remote_pc' = "quit" /\ remote_out' = Append(remote_out, "h") /\ UNCHANGED excuses
  BY <1>6, <1>9
<1> QED BY <1>3, <1>4, <1>5, <1>7, <1>8, <1>9 DEF Remote!Envelope

LEMMA StepNoRecipient ==
  ASSUME NEW k, Remote(k)!RemoteAssumption, RemoteInv(k), Remote(k)!NoRecipient PROVE RemoteInv(k)'
<1>1. remote_pc \in NotOver \ {"final"} /\ reply' \in Replies
  BY DEF Remote!NoRecipient, NotOver, RemoteInv, Types, Remote!TypeOK, Replies
<1> QED BY <1>1, QuitsBefore DEF Remote!NoRecipient

LEMMA StepData ==
  ASSUME NEW k, Remote(k)!RemoteAssumption, RemoteInv(k), Remote(k)!Data PROVE RemoteInv(k)'
<1>1. remote_pc = "data" /\ remote_pc \in NotOver \ {"final"} /\ reply' = "none" /\ Remote(k)!Rest
  BY DEF Remote!Data, Remote!Hear, Sending, NotOver
<1>2. Covered(k) /\ mx \in 1 .. k.hosts /\ tls \in BOOLEAN /\ remote_out = <<"r">>
  BY <1>1 DEF RemoteInv, Types, Remote!TypeOK, Reported, Sending
<1>3. CASE Remote(k)!Send("body")
  <2>1. remote_pc' = "body" /\ UNCHANGED <<remote_out, excuses>> /\ remote_pc' \in NotOver \ {"final"}
    BY <1>3 DEF Remote!Send, NotOver, Sending
  <2>2. Reported' /\ Covered(k)'
    BY <1>1, <1>2, <2>1 DEF Reported, Covered, Remote!NotInTheClear, Remote!Rest, Asking, Sending, Over
  <2> QED BY <1>1, <1>2, <2>1, <2>2, Goes DEF Remote!Rest
<1>4. CASE Remote(k)!Quit("Z")
  BY <1>1, <1>4, QuitsBefore DEF Replies
<1>5. CASE Remote(k)!Quit("D")
  BY <1>1, <1>5, QuitsBefore DEF Replies
<1> QED BY <1>3, <1>4, <1>5 DEF Remote!Data

(* From the dot on, a break may leave a copy: it is critical then.            *)
LEMMA StepBlast ==
  ASSUME NEW k, Remote(k)!RemoteAssumption, RemoteInv(k), Remote(k)!Blast PROVE RemoteInv(k)'
<1>1. remote_pc = "body" /\ UNCHANGED <<mx, tls, reply, accepted, heard, copies, tries, excuses, outcome>>
  BY DEF Remote!Blast, Remote!conn, Remote!message
<1>2. CASE remote_pc' = "final" /\ critical' = TRUE /\ UNCHANGED remote_out
  <2> USE <1>1, <1>2 DEF RemoteInv
  <2>1. Types(k)'
    BY DEF Types, Remote!TypeOK, Remote!Waiting
  <2>2. Reported' /\ Taken'
    BY DEF Reported, Taken, Asking, Sending, Over
  <2>3. Counted' /\ Answered' /\ Truthful(k)'
    BY DEF Counted, Answered, Truthful, Over
  <2>4. Covered(k)'
    BY DEF Covered, Remote!NotInTheClear
  <2> QED BY <2>1, <2>2, <2>3, <2>4
<1>3. CASE (\E c \in {"Z", "D"} : Remote(k)!Exit(c)) /\ UNCHANGED critical
  <2>1. remote_pc \in NotOver \ {"final"}
    BY <1>1 DEF NotOver, Sending
  <2>2. mx' \in 1 .. k.hosts /\ reply' \in Replies /\ excuses' = excuses + 0
    BY <1>1 DEF RemoteInv, Types, Remote!TypeOK, Replies
  <2> QED BY <1>1, <1>3, <2>1, <2>2, GivesUp
<1> QED BY <1>2, <1>3 DEF Remote!Blast

LEMMA StepFinal ==
  ASSUME NEW k, Remote(k)!RemoteAssumption, RemoteInv(k), Remote(k)!Final PROVE RemoteInv(k)'
<1> USE DEF RemoteInv
<1>1. /\ remote_pc = "final" /\ remote_pc \in NotOver /\ remote_out = <<"r">> /\ reply' = "none"
      /\ critical' = FALSE /\ UNCHANGED <<mx, tls, accepted, copies, tries, outcome>>
  BY DEF Remote!Final, Remote!Hear, NotOver, Sending, Reported
<1>2. /\ mx \in 1 .. k.hosts /\ excuses \in Nat /\ (accepted <=> reply = "ok") /\ ~heard
      /\ excuses' \in {excuses, excuses + 1}
  BY <1>1 DEF Types, Remote!TypeOK, Taken, Over, Remote!Final, Remote!Quit
<1>3. PICK x \in {0, 1} : excuses' = excuses + x
  BY <1>2
<1>4. remote_pc' = "exited"
  BY DEF Remote!Final, Remote!Quit, Remote!Exit
<1>5. CASE Remote(k)!Quit("K") /\ reply = "ok" /\ heard' = TRUE
  <2>1. CASE remote_out' = Append(remote_out, "K")
    <3>1. Whole(remote_out') /\ remote_out' = Success
      BY <1>1, <2>1, Letter DEF Letters
    <3>2. Truthful(k)'
      BY <3>1 DEF Truthful
    <3> QED BY <1>1, <1>2, <1>3, <1>4, <1>5, <3>1, <3>2, Exits
  <2>2. CASE k.quitfails /\ remote_out' = Append(remote_out, "Z") /\ excuses' = excuses + 1
    <3>1. Whole(remote_out') /\ remote_out' # Success
      BY <1>1, <2>2, Letter DEF Letters
    <3>2. Truthful(k)'
      BY <2>2 DEF Truthful
    <3> QED BY <1>1, <1>2, <1>4, <1>5, <2>2, <3>1, <3>2, Exits
  <2> QED BY <1>5, <2>1, <2>2 DEF Remote!Quit, Remote!Exit
<1>6. ASSUME NEW c \in {"Z", "D"}, Remote(k)!Quit(c), reply # "ok", UNCHANGED heard
      PROVE  RemoteInv(k)'
  <2>1. PICK d \in {"Z", "D"} : remote_out' = Append(remote_out, d)
    BY <1>6 DEF Remote!Quit, Remote!Exit
  <2>2. Whole(remote_out') /\ remote_out' # Success
    BY <1>1, <2>1, Fails
  <2>3. Truthful(k)' /\ heard' \in BOOLEAN /\ ~accepted
    BY <1>2, <1>6 DEF Truthful, Types
  <2> QED BY <1>1, <1>2, <1>3, <1>4, <2>2, <2>3, Exits
<1>7. CASE Remote(k)!Quit("Z") /\ reply = "temp" /\ UNCHANGED heard
  BY <1>6, <1>7
<1>8. CASE Remote(k)!Quit("D") /\ reply = "perm" /\ UNCHANGED heard
  BY <1>6, <1>8
<1> QED BY <1>5, <1>7, <1>8 DEF Remote!Final, Remote!Hear

(* A connection that breaks after the dot is on its way is excused.           *)
LEMMA StepBreak ==
  ASSUME NEW k, Remote(k)!RemoteAssumption, RemoteInv(k), Remote(k)!Break PROVE RemoteInv(k)'
<1> USE DEF RemoteInv
<1>1. /\ remote_pc \in NotOver /\ remote_pc' = "exited" /\ remote_out' = Append(remote_out, "Z")
      /\ remote_pc \in Remote(k)!Waiting \cup {"body"} /\ reply' = "none"
      /\ UNCHANGED <<mx, tls, critical, accepted, heard, copies, tries, outcome>>
  BY DEF Remote!Break, Remote!Exit, Remote!conn, Remote!message, Remote!Waiting, NotOver, Asking, Sending
<1>2. /\ mx \in 1 .. k.hosts /\ critical \in BOOLEAN /\ heard \in BOOLEAN /\ excuses \in Nat /\ ~heard
  BY <1>1 DEF Types, Remote!TypeOK, Taken, Over, NotOver, Asking, Sending
<1>3. Whole(remote_out') /\ remote_out' # Success
  BY <1>1, Fails
<1>4. Truthful(k)'
  BY <1>1, <1>2 DEF Truthful
<1>5. CASE tls \/ critical
  <2>1. excuses' = excuses + 1
    BY <1>5 DEF Remote!Break
  <2> QED BY <1>1, <1>2, <1>3, <1>4, <2>1, Exits
<1>6. CASE ~(tls \/ critical)
  <2>1. excuses' = excuses + 0
    BY <1>2, <1>6 DEF Remote!Break
  <2>2. ~accepted
    BY <1>1, <1>6 DEF Taken, NotOver, Asking, Sending
  <2> QED BY <1>1, <1>2, <1>3, <1>4, <2>1, <2>2, Exits
<1> QED BY <1>5, <1>6

LEMMA StepRemoteKilled ==
  ASSUME NEW k, Remote(k)!RemoteAssumption, RemoteInv(k), Remote(k)!Killed PROVE RemoteInv(k)'
<1> USE DEF RemoteInv
<1>1. /\ remote_pc \in NotOver /\ remote_pc' = "exited" /\ remote_out' = <<"crashed">> /\ reply' = "none"
      /\ excuses' = excuses + 1 /\ UNCHANGED <<mx, tls, critical, accepted, heard, copies, tries, outcome>>
  BY DEF Remote!Killed, Remote!conn, Remote!message, Remote!Waiting, NotOver, Asking, Sending, Types, Remote!TypeOK
<1>2. mx \in 1 .. k.hosts /\ critical \in BOOLEAN /\ heard \in BOOLEAN
  BY DEF Types, Remote!TypeOK
<1>3. Whole(remote_out') /\ remote_out' # Success /\ Truthful(k)'
  BY <1>1, Letter DEF Truthful
<1> QED BY <1>1, <1>2, <1>3, Exits

(* qmail-rspawn reads a success only where qmail-remote wrote one.            *)
LEMMA ReportOfWhole ==
  ASSUME NEW k, NEW s, Whole(s)
  PROVE  Remote(k)!Report(s) \in Letters /\ (Remote(k)!Report(s) = "K" <=> s = Success)
<1>1. CASE s = <<"crashed">>
  BY <1>1, Reports, Letter DEF Letters
<1>2. CASE \E c \in {"Z", "D"} : s = <<c>>
  <2>1. PICK c \in {"Z", "D"} : s = <<c>>
    BY <1>2
  <2>2. s # Success
    <3>1. Len(<<c>>) = 1 /\ Len(<<"r", "K">>) = 2
      OBVIOUS
    <3>2. 1 # 2
      OBVIOUS
    <3> QED BY <2>1, <3>1, <3>2, Zenon DEF Success
  <2>3. Remote(k)!Report(s) = c
    BY <2>1, Reports
  <2> QED BY <2>2, <2>3 DEF Letters
<1>3. CASE \E c \in Letters : s = <<"r", c>>
  <2>1. PICK c \in Letters : s = <<"r", c>>
    BY <1>3
  <2>2. Remote(k)!Report(s) = c
    BY <2>1, Reports
  <2>3. s = Success <=> c = "K"
    BY <2>1 DEF Success
  <2> QED BY <2>2, <2>3
<1>4. CASE \E c \in {"s", "h"}, e \in {"Z", "D"} : s = <<c, e>>
  <2>1. PICK c \in {"s", "h"}, e \in {"Z", "D"} : s = <<c, e>>
    BY <1>4
  <2>2. Remote(k)!Report(s) \in {"Z", "D"}
    BY <2>1, Reports
  <2>3. s # Success
    BY <2>1 DEF Success
  <2> QED BY <2>2, <2>3 DEF Letters
<1> QED BY <1>1, <1>2, <1>3, <1>4 DEF Whole

LEMMA StepTold ==
  ASSUME NEW k, Remote(k)!RemoteAssumption, RemoteInv(k), Remote(k)!Told PROVE RemoteInv(k)'
<1> USE DEF RemoteInv
<1>1. /\ remote_pc = "exited" /\ Whole(remote_out) /\ UNCHANGED <<reply, copies, excuses>>
      /\ Remote(k)!Report(remote_out) \in Letters
      /\ (Remote(k)!Report(remote_out) = "K" <=> remote_out = Success)
  BY ReportOfWhole DEF Remote!Told, Reported, Over
<1>2. /\ tries \in 1 .. k.tries /\ k.tries \in Nat /\ k.hosts \in Nat \ {0} /\ copies \in 0 .. k.tries
      /\ excuses \in 0 .. k.tries /\ excuses <= tries /\ copies <= tries
      /\ copies <= excuses + (IF remote_out = Success THEN 1 ELSE 0)
  BY <1>1 DEF Counted, Types, Remote!TypeOK, Remote!RemoteAssumption, Over
<1>3. outcome' = (IF Remote(k)!Report(remote_out) = "Z" /\ tries = k.tries THEN "D" ELSE Remote(k)!Report(remote_out))
  BY DEF Remote!Told
<1>4. CASE outcome' = "Z"
  <2>1. /\ remote_pc' = "mx" /\ mx' = 1 /\ tls' = FALSE /\ remote_out' = <<>> /\ critical' = FALSE
        /\ accepted' = FALSE /\ heard' = FALSE /\ tries' = tries + 1
    BY <1>4 DEF Remote!Told
  <2>2. Remote(k)!Report(remote_out) = "Z" /\ tries # k.tries
    BY <1>3, <1>4
  <2>3. remote_out # Success /\ tries' \in 1 .. k.tries /\ 1 \in 1 .. k.hosts
    BY <1>1, <1>2, <2>1, <2>2
  <2>4. Types(k)'
    BY <1>1, <1>2, <1>4, <2>1, <2>3 DEF Types, Remote!TypeOK
  <2>5. Counted'
    BY <1>1, <1>2, <2>1, <2>3 DEF Counted, Over
  <2>6. Reported' /\ Taken' /\ Answered'
    BY <1>4, <2>1 DEF Reported, Taken, Answered, Asking, Sending, Over
  <2>7. Covered(k)' /\ Truthful(k)'
    BY <2>1 DEF Covered, Truthful, Remote!NotInTheClear
  <2> QED BY <2>4, <2>5, <2>6, <2>7
<1>5. CASE outcome' # "Z"
  <2>1. remote_pc' = "done" /\ UNCHANGED <<mx, tls, remote_out, critical, accepted, heard, tries>>
    BY <1>5 DEF Remote!Told, Remote!conn
  <2>2. outcome' \in {"none", "K", "Z", "D"} /\ (outcome' = "K" <=> remote_out' = Success)
    BY <1>1, <1>3, <2>1 DEF Letters
  <2>3. Types(k)'
    BY <1>1, <2>1, <2>2 DEF Types, Remote!TypeOK
  <2>4. Counted'
    BY <1>1, <2>1 DEF Counted, Over
  <2>5. Reported' /\ Taken'
    BY <1>1, <2>1 DEF Reported, Taken, Asking, Sending, Over
  <2>6. Answered' /\ Covered(k)' /\ Truthful(k)'
    BY <2>1, <2>2 DEF Answered, Covered, Truthful, Remote!NotInTheClear
  <2> QED BY <2>3, <2>4, <2>5, <2>6
<1> QED BY <1>4, <1>5

LEMMA StepRemote ==
  ASSUME NEW k, Remote(k)!RemoteAssumption, RemoteInv(k), [Remote(k)!Next]_(Remote(k)!vars)
  PROVE  RemoteInv(k)'
<1>1. CASE UNCHANGED Remote(k)!vars
  <2>1. UNCHANGED <<remote_pc, mx, tls, reply, remote_out, critical, accepted, heard, copies, tries, excuses, outcome>>
    BY <1>1 DEF Remote!vars
  <2> QED BY <2>1 DEF RemoteInv, Types, Remote!TypeOK, Reported, Taken, Counted, Answered, Covered, Truthful,
          Remote!NotInTheClear
<1>2. CASE Remote(k)!Next
  BY <1>2, StepAnswer, StepNoConnection, StepConnect, StepNoHost, StepGreeted, StepNamed, StepStartTls,
     StepAuthenticated, StepEnvelope, StepNoRecipient, StepData, StepBlast, StepFinal, StepBreak, StepRemoteKilled,
     StepTold
  DEF Remote!Next
<1> QED BY <1>1, <1>2

-----------------------------------------------------------------------------
(* The table of hosts *)

TableTypes(k) ==
  /\ Table(k)!TypeOK
  /\ fails \in [k.ips -> SUBSET (0 .. tcpto_clock)]
  /\ \A p \in k.procs : tcpto_pc[p] # "idle" => ip[p] \in k.ips

(* A record is of one host, which has no other.                               *)
RecordsApart(k) ==
  /\ \A s \in k.slots : table[s].ip = k.noip => table[s].n = 0
  /\ \A s, t \in k.slots : table[s].ip = table[t].ip /\ table[s].ip # k.noip => s = t

(* What a record says of its host is so.                                      *)
Remembered(k) ==
  \A s \in k.slots :
    /\ table[s].n >= 1 => table[s].when \in fails[table[s].ip]
    /\ table[s].n >= 2 => \E t \in fails[table[s].ip] : t + k.damper <= table[s].when

(* A timeout since the last success is in the record of its host, or came     *)
(* within two minutes of the one that is.                                     *)
Known(k) ==
  HoldsAll(k) =>
    \A i \in k.ips : \A t \in fails[i] : \E s \in k.slots :
      /\ table[s].ip = i /\ table[s].n >= 1 /\ t < table[s].when + k.damper
      /\ table[s].n = 1 => table[s].when <= t

TableInv(k) == TableTypes(k) /\ RecordsApart(k) /\ Remembered(k) /\ Known(k)

LEMMA TableSets ==
  ASSUME NEW k, Table(k)!TcpToAssumption
  PROVE  /\ IsFiniteSet(k.ips) /\ IsFiniteSet(k.slots) /\ k.noip \notin k.ips
         /\ k.damper \in Nat /\ k.damper > 0 /\ k.hour \in Nat
<1>1. IsFiniteSet(k.ips) /\ IsFiniteSet(k.slots)
  <2>1. \A S : Table(k)!IsFiniteSet(S) => IsFiniteSet(S)
    BY DEF Table!IsFiniteSet, IsFiniteSet
  <2>2. Table(k)!IsFiniteSet(k.ips) /\ Table(k)!IsFiniteSet(k.slots)
    BY DEF Table!TcpToAssumption
  <2> QED BY <2>1, <2>2
<1>2. k.noip \notin k.ips /\ k.damper \in Nat /\ k.damper > 0 /\ k.hour \in Nat
  BY DEF Table!TcpToAssumption
<1> QED BY <1>1, <1>2

LEMMA InitTable == ASSUME NEW k, Table(k)!TcpToAssumption, Table(k)!Init PROVE TableInv(k)
<1>1. TableTypes(k)
  BY TableSets DEF TableTypes, Table!TypeOK, Table!Init
<1>2. RecordsApart(k) /\ Remembered(k) /\ Known(k)
  BY TableSets DEF RecordsApart, Remembered, Known, Table!Init
<1> QED BY <1>1, <1>2 DEF TableInv

(* Where the table holds every host, one that has no record finds one that    *)
(* nobody has.                                                                *)
LEMMA RoomForAll ==
  ASSUME NEW k, Table(k)!TcpToAssumption, TableInv(k), HoldsAll(k), NEW i \in k.ips, Table(k)!The(i) = {}
  PROVE  \E s \in k.slots : table[s].n = 0
<1> DEFINE f == [s \in k.slots |-> table[s].ip]
<1> SUFFICES ASSUME \A s \in k.slots : table[s].n # 0 PROVE FALSE
  OBVIOUS
<1>1. f \in Injection(k.slots, k.ips \ {i})
  BY DEF TableInv, TableTypes, RecordsApart, Table!TypeOK, Table!The, Injection, IsInjective
<1>2. /\ IsFiniteSet(k.ips \ {i}) /\ Cardinality(k.ips \ {i}) = Cardinality(k.ips) - 1
      /\ Cardinality(k.ips) \in Nat
  BY TableSets, FS_RemoveElement, FS_CardinalityType
<1>3. Cardinality(k.slots) <= Cardinality(k.ips \ {i}) /\ Cardinality(k.slots) \in Nat
  BY <1>1, <1>2, FS_Injection, FS_CardinalityType, TableSets
<1> QED BY <1>2, <1>3 DEF HoldsAll

LEMMA StepTableTick == ASSUME NEW k, TableInv(k), Table(k)!Tick PROVE TableInv(k)'
<1> USE DEF TableInv, Table!Tick
<1>1. TableTypes(k)'
  BY DEF TableTypes, Table!TypeOK
<1>2. RecordsApart(k)' /\ Remembered(k)' /\ Known(k)'
  BY DEF RecordsApart, Remembered, Known, HoldsAll
<1> QED BY <1>1, <1>2

LEMMA StepTableLook == ASSUME NEW k, NEW p \in k.procs, NEW i \in k.ips, TableInv(k), Table(k)!Look(p, i) PROVE TableInv(k)'
<1> USE DEF TableInv, Table!Look
<1>1. TableTypes(k)'
  BY DEF TableTypes, Table!TypeOK
<1>2. RecordsApart(k)' /\ Remembered(k)' /\ Known(k)'
  BY DEF RecordsApart, Remembered, Known, HoldsAll
<1> QED BY <1>1, <1>2

LEMMA StepTableLeave == ASSUME NEW k, NEW p \in k.procs, TableInv(k), Table(k)!Leave(p) PROVE TableInv(k)'
<1> USE DEF TableInv, Table!Leave, Table!Idle
<1>1. TableTypes(k)'
  BY DEF TableTypes, Table!TypeOK
<1>2. RecordsApart(k)' /\ Remembered(k)' /\ Known(k)'
  BY DEF RecordsApart, Remembered, Known, HoldsAll
<1> QED BY <1>1, <1>2

LEMMA StepTableAnswered ==
  ASSUME NEW k, Table(k)!TcpToAssumption, NEW p \in k.procs, TableInv(k), Table(k)!Answered(p)
  PROVE  TableInv(k)'
<1> USE DEF TableInv
<1>1. PICK i \in k.ips : i = ip[p]
  BY DEF Table!Answered, TableTypes
<1>2. fails' = [fails EXCEPT ![i] = IF wasthere[p] THEN {} ELSE @] /\ tcpto_clock' = tcpto_clock
  BY <1>1 DEF Table!Answered
<1>3. TableTypes(k)'
  BY <1>1, <1>2 DEF TableTypes, Table!TypeOK, Table!Answered, Table!Idle, Table!Write, Table!The
<1>4. CASE wasthere[p] /\ Table(k)!The(i) # {}
  <2>1. PICK s \in k.slots : table[s].ip = i /\ table' = [table EXCEPT ![s] = [table[s] EXCEPT !.n = 0]]
    BY <1>1, <1>4 DEF Table!Answered, Table!Write, Table!The
  <2>2. table'[s].n = 0 /\ table'[s].ip = i /\ \A t \in k.slots : t # s => table'[t] = table[t]
    BY <2>1 DEF TableTypes, Table!TypeOK
  <2>3. fails'[i] = {} /\ \A j \in k.ips : j # i => fails'[j] = fails[j]
    BY <1>2, <1>4 DEF TableTypes
  <2>4. RecordsApart(k)'
    BY <2>1, <2>2, TableSets DEF RecordsApart
  <2>5. \A t \in k.slots : t # s => table[t].ip # i
    BY <2>1, TableSets DEF RecordsApart
  <2>6. \A t \in k.slots : t # s /\ table[t].n >= 1 => table[t].ip \in k.ips
    BY DEF RecordsApart, TableTypes, Table!TypeOK
  <2>7. Remembered(k)'
    BY <2>2, <2>3, <2>5, <2>6 DEF Remembered, TableTypes, Table!TypeOK
  <2>8. Known(k)'
    BY <2>2, <2>3, <2>1 DEF Known, HoldsAll
  <2> QED BY <1>3, <2>4, <2>7, <2>8
<1>5. CASE ~(wasthere[p] /\ Table(k)!The(i) # {})
  <2>1. table' = table
    BY <1>1, <1>5 DEF Table!Answered
  <2>2. RecordsApart(k)'
    BY <2>1 DEF RecordsApart
  <2>3. \A t \in k.slots : wasthere[p] => table[t].ip # i
    BY <1>5 DEF Table!The
  <2>4. \A j \in k.ips : j # i \/ ~wasthere[p] => fails'[j] = fails[j]
    BY <1>2 DEF TableTypes
  <2>5. wasthere[p] => fails'[i] = {}
    BY <1>2 DEF TableTypes
  <2>6. \A t \in k.slots : table[t].n >= 1 => table[t].ip \in k.ips
    BY DEF RecordsApart, TableTypes, Table!TypeOK
  <2>7. Remembered(k)'
    BY <2>1, <2>3, <2>4, <2>6 DEF Remembered, TableTypes, Table!TypeOK
  <2>8. Known(k)'
    BY <2>1, <2>4, <2>5 DEF Known, HoldsAll
  <2> QED BY <1>3, <2>2, <2>7, <2>8
<1> QED BY <1>4, <1>5

LEMMA StepTableTimedOut ==
  ASSUME NEW k, Table(k)!TcpToAssumption, NEW p \in k.procs, TableInv(k), Table(k)!TimedOut(p)
  PROVE  TableInv(k)'
<1> USE DEF TableInv
<1>1. PICK i \in k.ips : i = ip[p]
  BY DEF Table!TimedOut, TableTypes
<1>2. /\ fails' = [fails EXCEPT ![i] = @ \cup {tcpto_clock}] /\ tcpto_clock' = tcpto_clock
      /\ tcpto_pc' = [tcpto_pc EXCEPT ![p] = "idle"] /\ ip' = [ip EXCEPT ![p] = k.noip]
      /\ wasthere' = [wasthere EXCEPT ![p] = FALSE]
  BY <1>1 DEF Table!TimedOut, Table!Idle
<1>3. fails'[i] = fails[i] \cup {tcpto_clock} /\ \A j \in k.ips : j # i => fails'[j] = fails[j]
  BY <1>2 DEF TableTypes
<1>4. \A t \in k.slots : table[t].n >= 1 => table[t].ip \in k.ips
  BY DEF RecordsApart, TableTypes, Table!TypeOK
<1>5. ASSUME table' \in [k.slots -> [ip : k.ips \cup {k.noip}, n : 0 .. 10, when : 0 .. tcpto_clock]]
      PROVE  TableTypes(k)'
  BY <1>2, <1>5 DEF TableTypes, Table!TypeOK
<1>6. ASSUME table' = table, NEW s \in k.slots, table[s].ip = i, table[s].n > 0, tcpto_clock < k.damper + table[s].when
      PROVE  TableInv(k)'
  <2>1. TableTypes(k)'
    BY <1>5, <1>6 DEF TableTypes, Table!TypeOK
  <2>2. RecordsApart(k)'
    BY <1>6 DEF RecordsApart
  <2>3. Remembered(k)'
    BY <1>3, <1>4, <1>6 DEF Remembered, TableTypes, Table!TypeOK
  <2>4. Known(k)'
    BY <1>3, <1>6, TableSets DEF Known, HoldsAll, TableTypes, Table!TypeOK
  <2> QED BY <2>1, <2>2, <2>3, <2>4
<1>7. ASSUME NEW s \in k.slots, NEW m \in 1 .. 10, table' = [table EXCEPT ![s] = [ip |-> i, n |-> m, when |-> tcpto_clock]],
             \A t \in k.slots : t # s => table[t].ip # i,
             m >= 2 => \E t \in fails[i] : t + k.damper <= tcpto_clock,
             m = 1 /\ HoldsAll(k) => fails[i] = {},
             HoldsAll(k) => table[s].n = 0 \/ table[s].ip = i
      PROVE  TableInv(k)'
  <2>1. TableTypes(k)'
    BY <1>5, <1>7 DEF TableTypes, Table!TypeOK
  <2>2. table'[s] = [ip |-> i, n |-> m, when |-> tcpto_clock] /\ \A t \in k.slots : t # s => table'[t] = table[t]
    BY <1>7 DEF TableTypes, Table!TypeOK
  <2>3. RecordsApart(k)'
    BY <1>7, <2>2, TableSets DEF RecordsApart
  <2>4. Remembered(k)'
    BY <1>3, <1>4, <1>7, <2>2, TableSets DEF Remembered, TableTypes, Table!TypeOK
  <2>5. ASSUME HoldsAll(k), NEW j \in k.ips, NEW t \in fails'[j]
        PROVE  \E r \in k.slots :
                 /\ table'[r].ip = j /\ table'[r].n >= 1 /\ t < table'[r].when + k.damper
                 /\ table'[r].n = 1 => table'[r].when <= t
    <3>1. CASE j = i
      <4>1. t <= tcpto_clock /\ t \in Nat /\ tcpto_clock \in Nat
        BY <1>3, <2>5, <3>1 DEF TableTypes, Table!TypeOK
      <4>2. m = 1 => t = tcpto_clock
        BY <1>3, <1>7, <2>5, <3>1
      <4> QED BY <2>2, <3>1, <4>1, <4>2, TableSets
    <3>2. CASE j # i
      <4>1. PICK r \in k.slots :
              /\ table[r].ip = j /\ table[r].n >= 1 /\ t < table[r].when + k.damper
              /\ table[r].n = 1 => table[r].when <= t
        BY <1>3, <2>5, <3>2 DEF Known
      <4>2. r # s
        BY <1>7, <2>5, <3>2, <4>1 DEF TableTypes, Table!TypeOK
      <4> QED BY <2>2, <4>1, <4>2
    <3> QED BY <3>1, <3>2
  <2>6. Known(k)'
    BY <2>5, <1>2 DEF Known, HoldsAll
  <2> QED BY <2>1, <2>3, <2>4, <2>6
<1>8. CASE Table(k)!The(i) # {}
  <2>1. PICK s \in k.slots :
          /\ table[s].ip = i
          /\ IF table[s].n > 0 /\ tcpto_clock < k.damper + table[s].when THEN table' = table
             ELSE table' = [table EXCEPT ![s] = [ip |-> i, n |-> Table(k)!CountUp(table[s].n), when |-> tcpto_clock]]
    BY <1>1, <1>8 DEF Table!TimedOut, Table!Write, Table!The
  <2>2. CASE table[s].n > 0 /\ tcpto_clock < k.damper + table[s].when
    BY <1>6, <2>1, <2>2
  <2>3. CASE ~(table[s].n > 0 /\ tcpto_clock < k.damper + table[s].when)
    <3>1. PICK m \in 1 .. 10 : m = Table(k)!CountUp(table[s].n) /\ (m = 1 <=> table[s].n = 0)
      BY DEF Table!CountUp, TableTypes, Table!TypeOK
    <3>2. \A t \in k.slots : t # s => table[t].ip # i
      BY <2>1, TableSets DEF RecordsApart
    <3>3. m >= 2 => \E t \in fails[i] : t + k.damper <= tcpto_clock
      <4> SUFFICES ASSUME m >= 2 PROVE \E t \in fails[i] : t + k.damper <= tcpto_clock
        OBVIOUS
      <4>1. table[s].n >= 1 /\ table[s].when \in Nat /\ tcpto_clock \in Nat /\ table[s].n \in Nat
        BY <3>1 DEF TableTypes, Table!TypeOK
      <4>2. table[s].when \in fails[i]
        BY <2>1, <4>1 DEF Remembered
      <4>3. table[s].when + k.damper <= tcpto_clock
        BY <2>3, <4>1, TableSets
      <4> QED BY <4>2, <4>3
    <3>4. m = 1 /\ HoldsAll(k) => fails[i] = {}
      BY <3>1, <3>2, <2>1 DEF Known
    <3>5. table' = [table EXCEPT ![s] = [ip |-> i, n |-> m, when |-> tcpto_clock]]
      BY <2>1, <2>3, <3>1
    <3>6. HoldsAll(k) => table[s].n = 0 \/ table[s].ip = i
      BY <2>1
    <3> QED BY <1>7, <3>2, <3>3, <3>4, <3>5, <3>6
  <2> QED BY <2>2, <2>3
<1>9. CASE Table(k)!The(i) = {}
  <2>1. PICK s \in k.slots :
          Table(k)!Victim(s) /\ table' = [table EXCEPT ![s] = [ip |-> i, n |-> 1, when |-> tcpto_clock]]
    BY <1>1, <1>9 DEF Table!TimedOut, Table!Write
  <2>2. \A t \in k.slots : table[t].ip # i
    BY <1>9 DEF Table!The
  <2>3. HoldsAll(k) => fails[i] = {}
    BY <2>2 DEF Known
  <2>4. HoldsAll(k) => table[s].n = 0
    BY <1>9, <2>1, RoomForAll DEF Table!Victim
  <2>5. 1 \in 1 .. 10 /\ ~(1 >= 2)
    OBVIOUS
  <2>6. \A t \in k.slots : t # s => table[t].ip # i
    BY <2>2
  <2>7. HoldsAll(k) => table[s].n = 0 \/ table[s].ip = i
    BY <2>4
  <2>8. table' = [table EXCEPT ![s] = [ip |-> i, n |-> 1, when |-> tcpto_clock]]
    BY <2>1
  <2> QED BY <1>7, <2>3, <2>5, <2>6, <2>7, <2>8
<1> QED BY <1>8, <1>9

LEMMA StepTable ==
  ASSUME NEW k, Table(k)!TcpToAssumption, TableInv(k), [Table(k)!Next]_(Table(k)!vars)
  PROVE  TableInv(k)'
<1>1. CASE Table(k)!Next
  <2>1. CASE Table(k)!Tick
    BY <2>1, StepTableTick
  <2>2. ASSUME NEW p \in k.procs, Table(k)!Proc(p) PROVE TableInv(k)'
    BY <2>2, StepTableLook, StepTableAnswered, StepTableTimedOut, StepTableLeave DEF Table!Proc
  <2> QED BY <1>1, <2>1, <2>2 DEF Table!Next
<1>2. CASE UNCHANGED Table(k)!vars
  BY <1>2 DEF Table!vars, TableInv, TableTypes, Table!TypeOK, RecordsApart, Remembered, Known, HoldsAll
<1> QED BY <1>1, <1>2

LEMMA TablePromises == ASSUME NEW k, Table(k)!TcpToAssumption, TableInv(k) PROVE Table(k)!TypeOK /\ Table(k)!OneRecordEach
<1>1. Table(k)!TypeOK
  BY DEF TableInv, TableTypes
<1>2. ASSUME NEW i \in k.ips PROVE Table(k)!Cardinality(Table(k)!The(i)) <= 1
  <2>1. Table(k)!The(i) = {} \/ \E s \in k.slots : Table(k)!The(i) = {s}
    BY TableSets DEF Table!The, TableInv, RecordsApart
  <2>2. Cardinality(Table(k)!The(i)) <= 1
    <3>1. Cardinality({}) = 0 /\ \A s \in k.slots : Cardinality({s}) = 1
      BY FS_Singleton, FS_EmptySet
    <3> QED BY <2>1, <3>1
  <2> QED BY <2>2 DEF Cardinality, Table!Cardinality, Table!IsFiniteSet, IsFiniteSet
<1> QED BY <1>1, <1>2 DEF Table!OneRecordEach

(* Only a look-up lets a process connect, or skip a host.                     *)
LEMMA OnlyLooks ==
  ASSUME NEW k, Table(k)!TcpToAssumption, TableInv(k), [Table(k)!Next]_(Table(k)!vars), NEW p \in k.procs,
         tcpto_pc'[p] # tcpto_pc[p], tcpto_pc'[p] # "idle"
  PROVE  \E i \in k.ips : Table(k)!Look(p, i)
<1>1. \A q \in k.procs : tcpto_pc' = [tcpto_pc EXCEPT ![q] = "idle"] => p = q \/ tcpto_pc'[p] = tcpto_pc[p]
  BY DEF TableInv, TableTypes, Table!TypeOK
<1>2. \A q \in k.procs : tcpto_pc' = [tcpto_pc EXCEPT ![q] = "idle"] => tcpto_pc'[p] = "idle" \/ tcpto_pc'[p] = tcpto_pc[p]
  BY DEF TableInv, TableTypes, Table!TypeOK
<1>3. ~UNCHANGED Table(k)!vars /\ ~Table(k)!Tick
  BY DEF Table!vars, Table!Tick
<1>4. PICK q \in k.procs : Table(k)!Proc(q)
  BY <1>3 DEF Table!Next
<1>5. PICK i \in k.ips : Table(k)!Look(q, i)
  BY <1>2, <1>4 DEF Table!Proc, Table!Answered, Table!TimedOut, Table!Leave, Table!Idle
<1>6. q = p
  BY <1>5 DEF Table!Look, TableInv, TableTypes, Table!TypeOK
<1> QED BY <1>5, <1>6

LEMMA TableSkips ==
  ASSUME NEW k, Table(k)!TcpToAssumption, TableInv(k), [Table(k)!Next]_(Table(k)!vars)
  PROVE  Table(k)!SkipsTheSilent
<1> SUFFICES ASSUME NEW p \in k.procs, tcpto_pc[p] # "skipped", tcpto_pc'[p] = "skipped"
             PROVE  Table(k)!Silent(fails[ip'[p]], k.hour + 3 * k.damper)
  BY DEF Table!SkipsTheSilent
<1>1. PICK i \in k.ips : Table(k)!Look(p, i)
  BY OnlyLooks
<1>2. ip'[p] = i
  BY <1>1 DEF Table!Look, TableInv, TableTypes, Table!TypeOK
<1>3. PICK rest \in {k.hour + 2 * k.damper, k.hour + 3 * k.damper}, s \in k.slots :
        table[s].ip = i /\ table[s].n >= 2 /\ tcpto_clock - table[s].when < rest
  BY <1>1 DEF Table!Look, Table!Rest, Table!The, TableInv, TableTypes, Table!TypeOK
<1>4. /\ tcpto_clock \in Nat /\ table[s].when \in Nat /\ table[s].n \in Nat
      /\ table[s].when \in fails[i] /\ \E t \in fails[i] : t + k.damper <= table[s].when
  BY <1>3 DEF TableInv, TableTypes, Table!TypeOK, Remembered
<1>5. tcpto_clock - table[s].when < k.hour + 3 * k.damper
  BY <1>3, <1>4, TableSets
<1> QED BY <1>2, <1>4, <1>5 DEF Table!Silent

LEMMA TableLeavesInPeace ==
  ASSUME NEW k, Table(k)!TcpToAssumption, TableInv(k), [Table(k)!Next]_(Table(k)!vars), HoldsAll(k)
  PROVE  Table(k)!ConnectInPeace
<1> SUFFICES ASSUME NEW p \in k.procs, tcpto_pc[p] # "connecting", tcpto_pc'[p] = "connecting",
                    Table(k)!Silent(fails[ip'[p]], k.hour)
             PROVE  FALSE
  BY DEF Table!ConnectInPeace
<1>1. PICK i \in k.ips : Table(k)!Look(p, i)
  BY OnlyLooks
<1>2. ip'[p] = i
  BY <1>1 DEF Table!Look, TableInv, TableTypes, Table!TypeOK
<1>3. PICK t1 \in fails[i], t2 \in fails[i] : t1 + k.damper <= t2 /\ tcpto_clock - t2 < k.hour
  BY <1>2 DEF Table!Silent
<1>4. PICK s \in k.slots : 
        /\ table[s].ip = i /\ table[s].n >= 1 /\ t2 < table[s].when + k.damper
        /\ table[s].n = 1 => table[s].when <= t2
  BY DEF TableInv, Known
<1>5. table[s].n = 1 => table[s].when <= t1
  <2>1. PICK r \in k.slots : table[r].ip = i /\ (table[r].n = 1 => table[r].when <= t1)
    BY DEF TableInv, Known
  <2>2. r = s
    BY <1>4, <2>1, TableSets DEF TableInv, RecordsApart
  <2> QED BY <2>1, <2>2
<1>6. t1 \in Nat /\ t2 \in Nat /\ tcpto_clock \in Nat /\ table[s].when \in Nat /\ table[s].n \in Nat
  BY DEF TableInv, TableTypes, Table!TypeOK
<1>7. table[s].n >= 2
  BY <1>3, <1>4, <1>5, <1>6, TableSets
<1>8. tcpto_clock - table[s].when < k.hour + 2 * k.damper
  BY <1>3, <1>4, <1>6, TableSets
<1>9. \A rest \in {k.hour + 2 * k.damper, k.hour + 3 * k.damper} : tcpto_clock - table[s].when < rest
  BY <1>6, <1>8, TableSets
<1> QED BY <1>1, <1>4, <1>7, <1>9 DEF Table!Look, Table!Rest, Table!The, TableInv, TableTypes, Table!TypeOK
-----------------------------------------------------------------------------
(* The deliveries together *)

DeliveryInv ==
  /\ \A k \in Maildirs : part = k.part => DirInv(k)
  /\ BoxInv
  /\ \A k \in Networks : part = k.part => FwdInv(k)
  /\ \A k \in Tables : part = k.part => TableInv(k)
  /\ \A k \in Remotes : part = k.part => RemoteInv(k)

LEMMA InitDelivery == ASSUME Init PROVE DeliveryInv
<1> USE InstancesAssumption
<1>1. ASSUME NEW k \in Maildirs, part = k.part PROVE DirInv(k)
  <2>1. PICK j \in Maildirs : May(j, Maildirs) /\ Dir(j)!Init
    BY DEF Init
  <2>2. j = k
    BY <1>1, <2>1 DEF May, PartsOf
  <2> QED BY <2>1, <2>2, InitDir
<1>2. BoxInv
  BY InitBox DEF Init
<1>3. ASSUME NEW k \in Networks, part = k.part PROVE FwdInv(k)
  <2>1. PICK j \in Networks : part = j.part /\ Fwd(j)!Init
    BY <1>3 DEF Init, PartsOf
  <2>2. j = k
    BY <1>3, <2>1
  <2> QED BY <2>1, <2>2, InitFwd
<1>4. ASSUME NEW k \in Remotes, part = k.part PROVE RemoteInv(k)
  <2>1. PICK j \in Remotes : May(j, Remotes) /\ Remote(j)!Init
    BY DEF Init
  <2>2. j = k
    BY <1>4, <2>1 DEF May, PartsOf
  <2> QED BY <2>1, <2>2, InitRemote
<1>5. ASSUME NEW k \in Tables, part = k.part PROVE TableInv(k)
  <2>1. PICK j \in Tables : May(j, Tables) /\ Table(j)!Init
    BY DEF Init
  <2>2. j = k
    BY <1>5, <2>1 DEF May, PartsOf
  <2> QED BY <2>1, <2>2, InitTable
<1> QED BY <1>1, <1>2, <1>3, <1>4, <1>5 DEF DeliveryInv

(* A step is one of the part that runs, and of no other.                      *)
LEMMA StepsApart ==
  ASSUME [Next]_vars
  PROVE  /\ part' = part
         /\ (\E k \in Maildirs : part = k.part /\ Dir(k)!Next) \/ UNCHANGED maildirVars
         /\ Box!Next \/ UNCHANGED mboxVars
         /\ (\E k \in Networks : part = k.part /\ Fwd(k)!Next) \/ UNCHANGED fwdVars
         /\ (\E k \in Tables : part = k.part /\ Table(k)!Next) \/ UNCHANGED tcptoVars
         /\ (\E k \in Remotes : part = k.part /\ Remote(k)!Next) \/ UNCHANGED remoteVars
BY DEF Next, vars, IntoMaildir, IntoMbox, Forwards, Remembers, OverSmtp, Decodes

(* In particular, of the table of hosts that is there.                        *)
LEMMA StepOfTable ==
  ASSUME [Next]_vars, NEW k \in Tables, part = k.part
  PROVE  [Table(k)!Next]_(Table(k)!vars)
<1> USE InstancesAssumption
<1>1. CASE \E j \in Tables : part = j.part /\ Table(j)!Next
  BY <1>1
<1>2. CASE UNCHANGED tcptoVars
  BY <1>2 DEF tcptoVars, Table!vars
<1> QED BY <1>1, <1>2, StepsApart

LEMMA StepDelivery == ASSUME DeliveryInv, [Next]_vars PROVE DeliveryInv'
<1> USE InstancesAssumption
<1>1. part' = part
  BY StepsApart
<1>2. ASSUME NEW k \in Maildirs, part = k.part PROVE DirInv(k)'
  <2>1. CASE \E j \in Maildirs : part = j.part /\ Dir(j)!Next
    <3>1. Dir(k)!Next
      BY <1>2, <2>1
    <3> QED BY <1>2, <3>1, StepDir DEF DeliveryInv
  <2>2. CASE UNCHANGED maildirVars
    <3>1. UNCHANGED Dir(k)!vars
      BY <2>2 DEF maildirVars, Dir!vars
    <3> QED BY <1>2, <3>1, StepDir DEF DeliveryInv
  <2> QED BY <2>1, <2>2, StepsApart
<1>3. BoxInv'
  <2>1. CASE Box!Next
    BY <2>1, StepBox DEF DeliveryInv
  <2>2. CASE UNCHANGED mboxVars
    BY <2>2 DEF mboxVars, DeliveryInv, BoxInv, Box!TypeOK, LockedToWrite, OthersTold, Others, OwnPart, SafelyIn
  <2> QED BY <2>1, <2>2, StepsApart
<1>4. ASSUME NEW k \in Networks, part = k.part PROVE FwdInv(k)'
  <2>1. CASE \E j \in Networks : part = j.part /\ Fwd(j)!Next
    <3>1. Fwd(k)!Next
      BY <1>4, <2>1
    <3> QED BY <1>4, <3>1, StepFwd DEF DeliveryInv
  <2>2. CASE UNCHANGED fwdVars
    <3>1. UNCHANGED Fwd(k)!vars
      BY <2>2 DEF fwdVars, Fwd!vars
    <3> QED BY <1>4, <3>1, StepFwd DEF DeliveryInv
  <2> QED BY <2>1, <2>2, StepsApart
<1>5. ASSUME NEW k \in Remotes, part = k.part PROVE RemoteInv(k)'
  <2>1. CASE \E j \in Remotes : part = j.part /\ Remote(j)!Next
    <3>1. Remote(k)!Next
      BY <1>5, <2>1
    <3> QED BY <1>5, <3>1, StepRemote DEF DeliveryInv
  <2>2. CASE UNCHANGED remoteVars
    <3>1. UNCHANGED Remote(k)!vars
      BY <2>2 DEF remoteVars, Remote!vars
    <3> QED BY <1>5, <3>1, StepRemote DEF DeliveryInv
  <2> QED BY <2>1, <2>2, StepsApart
<1>6. ASSUME NEW k \in Tables, part = k.part PROVE TableInv(k)'
  BY <1>6, StepOfTable, StepTable DEF DeliveryInv
<1> QED BY <1>1, <1>2, <1>3, <1>4, <1>5, <1>6 DEF DeliveryInv

THEOREM AlwaysDeliveryInv == Spec => []DeliveryInv
BY InitDelivery, StepDelivery, PTL DEF Spec

(* A file that can be read in a maildir is whole, also after a crash; what    *)
(* was reported as delivered is there until a client deletes it, in a maildir *)
(* and in a mbox; cleaning never takes the file of a delivery that goes on;   *)
(* and no session overlooks a message while another one moves it. For any     *)
(* deliveries, sessions, process ids, ages and crashes.                      *)
THEOREM AlwaysMailboxesKeep == Spec => []MailboxesKeep
<1>1. DeliveryInv => MailboxesKeep
  <2> SUFFICES ASSUME DeliveryInv PROVE MailboxesKeep
    OBVIOUS
  <2>1. \A k \in Maildirs : part = k.part =>
          Dir(k)!TypeOK /\ Dir(k)!WholeMessages /\ Dir(k)!ToldIsKept /\ Dir(k)!NothingOverlooked
          /\ Dir(k)!CleanSparesDeliveries
    BY InstancesAssumption, DirPromises DEF DeliveryInv
  <2>2. Box!TypeOK /\ Box!ToldIsWhole /\ Box!NoRemains
    BY InstancesAssumption, BoxPromises DEF DeliveryInv
  <2> QED BY <2>1, <2>2 DEF MailboxesKeep
<1> QED BY <1>1, AlwaysDeliveryInv, PTL

(* However .qmail files forward to each other: a message meets no address     *)
(* twice on its way, bounces at most twice, keeps the sender that bounces are *)
(* for, and is forwarded once however often it is tried.                      *)
THEOREM AlwaysForwardsBounded == Spec => []ForwardsBounded
<1>1. DeliveryInv => ForwardsBounded
  BY InstancesAssumption, FwdPromises DEF DeliveryInv, ForwardsBounded
<1> QED BY <1>1, AlwaysDeliveryInv, PTL

(* Whatever the hosts answer and wherever a connection breaks: K is reported  *)
(* only for what a host took, a possible duplicate is reported as one, the    *)
(* host's last word is the report, and no mail goes in the clear where TLS is *)
(* needed. For any number of hosts and tries.                                 *)
THEOREM AlwaysRemoteTells == Spec => []RemoteTells
<1>1. DeliveryInv => RemoteTells
  BY InstancesAssumption, RemotePromises DEF DeliveryInv, RemoteTells
<1> QED BY <1>1, AlwaysDeliveryInv, PTL

(* However qmail-remotes overlap at the table of hosts: a host has one        *)
(* record; it is left out only after two timeouts two minutes apart with no   *)
(* success noted in between; and if there is a record for each host, nobody   *)
(* connects then for an hour. For any processes, hosts, records and times.    *)
THEOREM AlwaysSilentHostsRest == Spec => SilentHostsRest
<1> USE InstancesAssumption
<1>1. DeliveryInv => \A k \in Tables : part = k.part => Table(k)!TypeOK /\ Table(k)!OneRecordEach
  BY TablePromises DEF DeliveryInv
<1>2. DeliveryInv /\ [Next]_vars => [\A k \in Tables : part = k.part => Table(k)!SkipsTheSilent]_vars
  BY StepOfTable, TableSkips DEF DeliveryInv
<1>3. DeliveryInv /\ [Next]_vars =>
        [\A k \in Tables : part = k.part /\ HoldsAll(k) => Table(k)!ConnectInPeace]_vars
  BY StepOfTable, TableLeavesInPeace DEF DeliveryInv
<1> QED BY <1>1, <1>2, <1>3, AlwaysDeliveryInv, PTL DEF Spec, SilentHostsRest
=============================================================================
