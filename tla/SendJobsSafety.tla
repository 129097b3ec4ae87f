--------------------------- MODULE SendJobsSafety ---------------------------
(***************************************************************************)
(* What SendJobs promises of references and channel files, for any number   *)
(* of messages, records, slots and jobs, with calls that fail or not: jobs   *)
(* are counted exactly, reports mark the record that they are about, and a   *)
(* channel file goes only when all its records were settled.  When stat()    *)
(* does not fail a message is in one place of the tables, too.               *)
(***************************************************************************)
EXTENDS SendJobs, FiniteSetTheorems, WellFoundedInduction, TLAPS

Busy(j) == jo[j].refs > 0

(* A message with a job is one that qmail-todo has finished, and no entry of *)
(* pqchan is about one that it has not.                                      *)
Preprocessed ==
  /\ \A j \in Jobs : Busy(j) => jo[j].id \in Msgs \ todo
  /\ \A m \in todo : ~BagIn(m, pqchan)

(* A record that is marked was reported.                                     *)
MarksTrue ==
  \A m \in Msgs : HasFile(m) =>
    \A r \in Records : file[m][r] = "D" => r \in reported[m]

(* S: the records that job j has counted and nobody has succeeded with yet.  *)
Counts(j, S) ==
  /\ Cardinality(S) = jo[j].numtodo
  /\ \A i \in Users(j) : d[i].pos \in S
  /\ PassUses(j) => /\ \A r \in S : r < pass.pos
                    /\ \A r \in Records : r < pass.pos /\ r \notin S => r \in reported[jo[j].id]
  /\ jo[j].hiteof => \A r \in Records \ S : r \in reported[jo[j].id]

JobsCount == \A j \in Jobs : Busy(j) => \E S \in SUBSET Records : Counts(j, S)

(* No record is in two slots of one job.                                     *)
OneSlotEach ==
  \A i, k \in Slots :
    d[i].used /\ d[k].used /\ d[i].j = d[k].j /\ d[i].pos = d[k].pos => i = k

PassPlaced == pass.id # NoMsg => pass.pos >= 1

(* The inductive invariant.                                                  *)
JobsInv ==
  /\ TypeOK /\ RefsExact /\ RightRecord /\ RemovedWhenSettled
  /\ Preprocessed /\ MarksTrue /\ JobsCount /\ OneSlotEach /\ PassPlaced

-----------------------------------------------------------------------------
(* Lemmas about the operators of SendJobs *)

(* Inserting adds one element, deleting adds none.                           *)
LEMMA Bagged == ASSUME NEW pq, NEW m PROVE
   /\ BagToSet(Insert(pq, m)) = BagToSet(pq) \cup {m}
   /\ BagToSet(Delete(pq, m)) \subseteq BagToSet(pq)
BY DEF Insert, Delete, BagToSet, SetToBag, (+), (-)

(* First() takes one of a set of jobs or slots.                              *)
LEMMA Least == ASSUME NEW N \in Nat, NEW S \in SUBSET (0 .. N), S # {} PROVE First(S) \in S
<1> DEFINE Below(s) == {k \in S : k < s}
           T == {Below(s) : s \in S}
           R == StrictSubsetOrdering(0 .. N)
<1>1. IsFiniteSet(0 .. N)
  BY FS_Interval
<1>2. IsWellFoundedOn(R, FiniteSubsetsOf(0 .. N))
  BY <1>1, FS_StrictSubsetOrderingWellFounded
<1>3. T \subseteq FiniteSubsetsOf(0 .. N) /\ T # {}
  <2>1. ASSUME NEW s \in S PROVE Below(s) \in FiniteSubsetsOf(0 .. N)
    <3>1. Below(s) \in SUBSET (0 .. N)
      OBVIOUS
    <3> QED BY <1>1, <3>1, FS_Subset DEF FiniteSubsetsOf
  <2> QED BY <2>1
<1> HIDE DEF T, R
<1>4. \E x \in T : \A y \in T : ~(<<y, x>> \in R)
  BY <1>2, <1>3, WFMin
<1>5. PICK i \in S : \A k \in S : ~(<<Below(k), Below(i)>> \in R)
  BY <1>4 DEF T
<1>6. ASSUME NEW k \in S, k < i PROVE FALSE
  <2>1. S \subseteq Int /\ i \in Int /\ k \in Int
    OBVIOUS
  <2>2. ASSUME NEW y \in S, y < k PROVE y < i
    BY <1>6, <2>1, <2>2
  <2>3. k \in Below(i) /\ k \notin Below(k)
    BY <1>6, <2>1
  <2>4. Below(k) \in SUBSET (0 .. N) /\ Below(i) \in SUBSET (0 .. N) /\ Below(k) # Below(i)
    BY <2>3
  <2> QED BY <1>5, <2>2, <2>4 DEF R, StrictSubsetOrdering
<1>7. \A k \in S : i <= k
  BY <1>6
<1> QED BY <1>7 DEF First

(* A file that is there is not the empty one.                                *)
LEMMA FileThere ==
  ASSUME JobsAssumption
  PROVE  /\ Fresh \in [Records -> {"T", "D"}]
         /\ \A f \in [Records -> {"T", "D"}] : f # <<>>
<1>1. 1 \in Records
  BY DEF JobsAssumption, Records
<1> QED BY <1>1 DEF Fresh

(* Slots and the users of a job are finite sets.                             *)
LEMMA UsersFinite ==
  ASSUME JobsAssumption
  PROVE  /\ IsFiniteSet(Slots) /\ IsFiniteSet(Records)
         /\ \A j : IsFiniteSet(Users(j)) /\ Cardinality(Users(j)) \in Nat
         /\ \A S \in SUBSET Records : IsFiniteSet(S) /\ Cardinality(S) \in Nat
<1>1. IsFiniteSet(Slots) /\ IsFiniteSet(Records)
  BY FS_Interval DEF Slots, Records, JobsAssumption
<1>2. ASSUME NEW j PROVE IsFiniteSet(Users(j)) /\ Cardinality(Users(j)) \in Nat
  <2>1. Users(j) \in SUBSET Slots
    BY DEF Users
  <2> QED BY <1>1, <2>1, FS_Subset, FS_CardinalityType
<1>3. ASSUME NEW S \in SUBSET Records PROVE IsFiniteSet(S) /\ Cardinality(S) \in Nat
  BY <1>1, FS_Subset, FS_CardinalityType
<1> QED BY <1>1, <1>2, <1>3

-----------------------------------------------------------------------------
(* Records: what the assignments to numtodo and refs of one job do.          *)

JobType == [refs : Nat, id : Msgs \cup {NoMsg}, numtodo : Nat, hiteof : BOOLEAN]

LEMMA Counted ==
  ASSUME NEW f \in [Jobs -> JobType], NEW j \in Jobs
  PROVE  [f EXCEPT ![j].numtodo = @ + 1]
           = [f EXCEPT ![j] = [refs |-> f[j].refs, id |-> f[j].id,
                               numtodo |-> f[j].numtodo + 1, hiteof |-> f[j].hiteof]]
<1>1. f[j] \in JobType
  OBVIOUS
<1>2. [f[j] EXCEPT !.numtodo = @ + 1]
        = [refs |-> f[j].refs, id |-> f[j].id, numtodo |-> f[j].numtodo + 1, hiteof |-> f[j].hiteof]
  BY <1>1 DEF JobType
<1>3. [f EXCEPT ![j].numtodo = @ + 1] = [f EXCEPT ![j] = [f[j] EXCEPT !.numtodo = @ + 1]]
  OBVIOUS
<1> QED BY <1>2, <1>3

LEMMA CountedStarted ==
  ASSUME NEW f \in [Jobs -> JobType], NEW j \in Jobs
  PROVE  [[f EXCEPT ![j].numtodo = @ + 1] EXCEPT ![j].refs = @ + 1]
           = [f EXCEPT ![j] = [refs |-> f[j].refs + 1, id |-> f[j].id,
                               numtodo |-> f[j].numtodo + 1, hiteof |-> f[j].hiteof]]
<1>1. PICK y : y = [refs |-> f[j].refs, id |-> f[j].id,
                    numtodo |-> f[j].numtodo + 1, hiteof |-> f[j].hiteof]
  OBVIOUS
<1>2. [f EXCEPT ![j].numtodo = @ + 1] = [f EXCEPT ![j] = y]
  BY <1>1, Counted
<1>3. f[j] \in JobType /\ y \in JobType
  BY <1>1 DEF JobType
<1>4. [y EXCEPT !.refs = @ + 1]
        = [refs |-> f[j].refs + 1, id |-> f[j].id,
           numtodo |-> f[j].numtodo + 1, hiteof |-> f[j].hiteof]
  BY <1>1, <1>3 DEF JobType
<1>5. [[f EXCEPT ![j] = y] EXCEPT ![j].refs = @ + 1] = [f EXCEPT ![j] = [y EXCEPT !.refs = @ + 1]]
  OBVIOUS
<1> QED BY <1>2, <1>4, <1>5

-----------------------------------------------------------------------------
LEMMA InitJobs == ASSUME JobsAssumption, NoMsgAssumption, Init PROVE JobsInv
<1> USE DEF Init, NoPass, NoJob, NoDel
<1>1. 0 \in Jobs /\ BagToSet(EmptyBag) = {}
  BY DEF JobsAssumption, Jobs, BagToSet, EmptyBag, SetToBag
<1>2. TypeOK
  BY <1>1, FileThere DEF TypeOK, JobsAssumption, Records, Slots, Jobs
<1>3. \A j : Users(j) = {}
  BY DEF Users
<1>4. RefsExact
  <2>1. \A j : Cardinality(Users(j)) = 0
    BY <1>3, FS_EmptySet
  <2> QED BY <2>1 DEF RefsExact, PassUses
<1>5. RightRecord /\ OneSlotEach /\ PassPlaced
  BY DEF RightRecord, OneSlotEach, PassPlaced
<1>6. RemovedWhenSettled /\ MarksTrue
  BY FileThere DEF RemovedWhenSettled, HasFile, MarksTrue, Fresh
<1>7. Preprocessed /\ JobsCount
  BY <1>1 DEF Preprocessed, JobsCount, Busy, BagIn
<1> QED BY <1>2, <1>4, <1>5, <1>6, <1>7 DEF JobsInv

-----------------------------------------------------------------------------
(* Entries of the priority queues: PqStart, PqRetry and MessDone *)

LEMMA EntriesKeep ==
  ASSUME JobsInv,
         todo' = todo, unseen' \subseteq unseen,
         BagToSet(pqdone') \subseteq Msgs, BagToSet(pqfail') \subseteq Msgs,
         BagToSet(pqchan') \subseteq Msgs,
         BagToSet(pqchan') \subseteq BagToSet(pqchan) \cup (Msgs \ todo),
         alive' \in BOOLEAN,
         UNCHANGED <<file, pass, jo, d, reported, running>>
  PROVE  JobsInv'
<1> USE DEF JobsInv
<1>1. TypeOK'
  BY DEF TypeOK
<1>2. RefsExact' /\ RightRecord' /\ OneSlotEach' /\ PassPlaced'
  BY DEF RefsExact, Users, PassUses, RightRecord, OneSlotEach, PassPlaced
<1>3. RemovedWhenSettled' /\ MarksTrue'
  BY DEF RemovedWhenSettled, MarksTrue, HasFile
<1>4. Preprocessed'
  BY DEF Preprocessed, Busy, BagIn
<1>5. JobsCount'
  BY DEF JobsCount, Busy, Counts, Users, PassUses
<1> QED BY <1>1, <1>2, <1>3, <1>4, <1>5

LEMMA PqAdds ==
  ASSUME NEW m \in Msgs, NEW chan, NEW done, NEW fail, PqAdd(m, chan, done, fail)
  PROVE  /\ BagToSet(pqchan') \subseteq BagToSet(chan) \cup ({m} \ todo)
         /\ BagToSet(pqdone') \subseteq BagToSet(done) \cup {m}
         /\ BagToSet(pqfail') \subseteq BagToSet(fail) \cup {m}
BY Bagged DEF PqAdd

LEMMA StepEntries ==
  ASSUME JobsInv, NEW m \in Msgs, PqStart(m) \/ PqRetry(m) \/ MessDone(m)
  PROVE  JobsInv'
<1>1. BagToSet(pqchan) \subseteq Msgs /\ BagToSet(pqfail) \subseteq Msgs /\ BagToSet(pqdone) \subseteq Msgs
      /\ alive \in BOOLEAN
  BY DEF JobsInv, TypeOK
<1>2. CASE PqStart(m)
  BY <1>1, <1>2, PqAdds, EntriesKeep DEF PqStart
<1>3. CASE PqRetry(m)
  <2>1. BagToSet(Delete(pqfail, m)) \subseteq BagToSet(pqfail)
    BY Bagged
  <2>2. PqAdd(m, pqchan, pqdone, Delete(pqfail, m))
    BY <1>3 DEF PqRetry
  <2>3. /\ BagToSet(pqchan') \subseteq BagToSet(pqchan) \cup ({m} \ todo)
        /\ BagToSet(pqdone') \subseteq BagToSet(pqdone) \cup {m}
        /\ BagToSet(pqfail') \subseteq BagToSet(pqfail) \cup {m}
    BY <2>1, <2>2, PqAdds
  <2> QED BY <1>1, <1>3, <2>3, EntriesKeep DEF PqRetry
<1>4. CASE MessDone(m)
  <2>1. BagToSet(pqdone') \subseteq BagToSet(pqdone)
    BY <1>4, Bagged DEF MessDone
  <2> QED BY <1>1, <1>4, <2>1, EntriesKeep DEF MessDone
<1> QED BY <1>2, <1>3, <1>4

LEMMA StepSpawnDied == ASSUME JobsInv, SpawnDied PROVE JobsInv'
<1>1. BagToSet(pqchan) \subseteq Msgs /\ BagToSet(pqfail) \subseteq Msgs /\ BagToSet(pqdone) \subseteq Msgs
  BY DEF JobsInv, TypeOK
<1> QED BY <1>1, EntriesKeep DEF SpawnDied

(* No job is left of a message that qmail-todo reports, so that its records  *)
(* may begin anew.                                                           *)
LEMMA StepTodoDel ==
  ASSUME JobsAssumption, JobsInv, NEW m \in Msgs, TodoDel(m)
  PROVE  JobsInv'
<1> USE DEF JobsInv, TodoDel
<1>1. BagToSet(pqchan') = BagToSet(pqchan) \cup {m}
  BY Bagged
<1>2. \A j \in Jobs : Busy(j) => jo[j].id # m
  BY DEF Preprocessed
<1>3. TypeOK'
  BY <1>1, FileThere DEF TypeOK
<1>4. RefsExact' /\ RightRecord' /\ OneSlotEach' /\ PassPlaced'
  BY DEF RefsExact, Users, PassUses, RightRecord, OneSlotEach, PassPlaced
<1>5. RemovedWhenSettled' /\ MarksTrue'
  <2>1. Fresh # <<>> /\ \A r \in Records : Fresh[r] # "D"
    BY FileThere DEF Fresh
  <2>2. \A k \in Msgs : /\ k = m => file'[k] = Fresh
                        /\ k # m => file'[k] = file[k] /\ reported'[k] = reported[k]
    BY DEF TypeOK
  <2> QED BY <2>1, <2>2 DEF RemovedWhenSettled, MarksTrue, HasFile
<1>6. Preprocessed'
  BY <1>1 DEF Preprocessed, Busy, BagIn
<1>7. JobsCount'
  <2> SUFFICES ASSUME NEW j \in Jobs, Busy(j) PROVE \E S \in SUBSET Records : Counts(j, S)'
    BY DEF JobsCount, Busy
  <2>1. PICK S \in SUBSET Records : Counts(j, S)
    BY DEF JobsCount
  <2>2. reported'[jo[j].id] = reported[jo[j].id]
    BY <1>2 DEF TypeOK, Preprocessed
  <2>3. Counts(j, S)'
    BY <2>1, <2>2 DEF Counts, Users, PassUses
  <2> QED BY <2>3
<1> QED BY <1>3, <1>4, <1>5, <1>6, <1>7

-----------------------------------------------------------------------------
(* Passes *)

(* A job whose references have gone has no users; it may be used again.      *)
LEMMA StepOpenPass ==
  ASSUME JobsAssumption, NoMsgAssumption, JobsInv, NEW m \in Msgs, OpenPass(m)
  PROVE  JobsInv'
<1> USE DEF JobsInv, OpenPass
<1>1. PICK j \in Jobs :
        /\ jo[j].refs = 0
        /\ jo' = [jo EXCEPT ![j] = [refs |-> 1, id |-> m, numtodo |-> 0, hiteof |-> FALSE]]
        /\ pass' = [id |-> m, j |-> j, pos |-> 1]
  <2>1. NJobs - 1 \in Nat /\ FreeJobs \in SUBSET (0 .. NJobs - 1) /\ FreeJobs # {}
    BY DEF JobsAssumption, FreeJobs, Jobs
  <2>2. First(FreeJobs) \in FreeJobs
    BY <2>1, Least
  <2> QED BY <2>2 DEF FreeJobs
<1>2. m # NoMsg /\ pass.id = NoMsg
  BY DEF NoMsgAssumption
<1>3. Users(j) = {}
  <2>1. IsFiniteSet(Users(j)) /\ Cardinality(Users(j)) \in Nat
    BY UsersFinite
  <2>2. Cardinality(Users(j)) = 0
    BY <1>1, <2>1 DEF RefsExact
  <2> QED BY <2>1, <2>2, FS_EmptySet
<1>4. BagToSet(pqchan') \subseteq BagToSet(pqchan) /\ m \notin todo
  BY Bagged DEF Preprocessed, BagIn
<1>5. \A k \in Jobs : /\ k # j => jo'[k] = jo[k]
                      /\ k = j => jo'[k] = [refs |-> 1, id |-> m, numtodo |-> 0, hiteof |-> FALSE]
  BY <1>1 DEF TypeOK
<1>6. TypeOK'
  <2>1. 1 \in 0 .. NRecords + 1
    BY DEF JobsAssumption
  <2>2. jo' \in [Jobs -> [refs : Nat, id : Msgs \cup {NoMsg}, numtodo : Nat, hiteof : BOOLEAN]]
    BY <1>1 DEF TypeOK
  <2>3. pass' \in [id : Msgs \cup {NoMsg}, j : Jobs, pos : 0 .. NRecords + 1]
    BY <1>1, <1>2, <2>1
  <2> QED BY <1>4, <2>2, <2>3 DEF TypeOK
<1>7. \A k : Users(k)' = Users(k)
  BY DEF Users
<1>8. RefsExact'
  <2>1. Cardinality(Users(j)) = 0
    BY <1>3, FS_EmptySet
  <2> QED BY <1>1, <1>2, <1>5, <1>7, <2>1 DEF RefsExact, PassUses
<1>9. RightRecord' /\ OneSlotEach' /\ PassPlaced'
  <2>1. \A i \in Slots : d[i].used => d[i].j \in Jobs /\ d[i].j # j
    BY <1>3 DEF TypeOK, Users
  <2> QED BY <1>1, <1>2, <1>5, <2>1 DEF RightRecord, OneSlotEach, PassPlaced
<1>10. RemovedWhenSettled' /\ MarksTrue'
  BY DEF RemovedWhenSettled, MarksTrue, HasFile
<1>11. Preprocessed'
  BY <1>4, <1>5 DEF Preprocessed, Busy, BagIn
<1>12. JobsCount'
  <2> SUFFICES ASSUME NEW k \in Jobs, Busy(k)' PROVE \E S \in SUBSET Records : Counts(k, S)'
    BY DEF JobsCount
  <2>1. CASE k = j
    <3>1. \A r \in Records : ~(r < 1)
      BY DEF Records, JobsAssumption
    <3>2. Counts(j, {})'
      BY <1>1, <1>2, <1>3, <1>5, <1>7, <2>1, <3>1, FS_EmptySet DEF Counts
    <3> QED BY <2>1, <3>2
  <2>2. CASE k # j
    <3>1. PICK S \in SUBSET Records : Counts(k, S)
      BY <1>5, <2>2 DEF JobsCount, Busy
    <3>2. Counts(k, S)'
      BY <1>1, <1>2, <1>5, <2>2, <3>1 DEF Counts, Users, PassUses
    <3> QED BY <3>2
  <2> QED BY <2>1, <2>2
<1> QED BY <1>6, <1>8, <1>9, <1>10, <1>11, <1>12

(* What every step of a pass may rely on.                                    *)
LEMMA PassFacts ==
  ASSUME JobsAssumption, NoMsgAssumption, JobsInv, pass.id # NoMsg
  PROVE  /\ pass.j \in Jobs /\ pass.id \in Msgs \ todo /\ pass.pos \in 1 .. NRecords + 1
         /\ jo[pass.j].id = pass.id /\ PassUses(pass.j)
         /\ \A k \in Jobs : PassUses(k) => k = pass.j
         /\ jo[pass.j].refs = Cardinality(Users(pass.j)) + 1 /\ Busy(pass.j)
<1> USE DEF JobsInv
<1>1. pass.j \in Jobs /\ pass.id \in Msgs /\ pass.pos \in 1 .. NRecords + 1
  BY DEF TypeOK, PassPlaced
<1>2. jo[pass.j].id = pass.id /\ PassUses(pass.j) /\ \A k \in Jobs : PassUses(k) => k = pass.j
  BY DEF RightRecord, PassUses
<1>3. jo[pass.j].refs = Cardinality(Users(pass.j)) + 1 /\ jo[pass.j].refs \in Nat
  BY <1>1, <1>2 DEF RefsExact, TypeOK
<1>4. Busy(pass.j)
  <2>1. Cardinality(Users(pass.j)) \in Nat
    BY UsersFinite
  <2> QED BY <1>3, <2>1 DEF Busy
<1> QED BY <1>1, <1>2, <1>3, <1>4 DEF Preprocessed

(* A marked record was reported before.                                      *)
LEMMA StepReadDone ==
  ASSUME JobsAssumption, NoMsgAssumption, JobsInv, ReadDone
  PROVE  JobsInv'
<1> USE DEF JobsInv, ReadDone
<1>1. pass.id # NoMsg /\ pass.pos \in 1 .. NRecords
  <2>1. pass.id # NoMsg /\ ~(pass.pos > NRecords)
    BY DEF Reading, AtEnd
  <2> QED BY <2>1, PassFacts DEF JobsAssumption
<1>2. /\ pass.j \in Jobs /\ pass.id \in Msgs /\ jo[pass.j].id = pass.id
      /\ \A k \in Jobs : PassUses(k) => k = pass.j
  BY <1>1, PassFacts
<1>3. pass' = [id |-> pass.id, j |-> pass.j, pos |-> pass.pos + 1]
  BY DEF TypeOK
<1>4. TypeOK'
  <2>1. pass.pos + 1 \in 0 .. NRecords + 1
    BY <1>1 DEF JobsAssumption
  <2>2. pass' \in [id : Msgs \cup {NoMsg}, j : Jobs, pos : 0 .. NRecords + 1]
    BY <1>2, <1>3, <2>1
  <2> QED BY <2>2 DEF TypeOK
<1>5. RefsExact' /\ RightRecord' /\ OneSlotEach' /\ PassPlaced'
  BY <1>1, <1>3 DEF RefsExact, Users, PassUses, RightRecord, OneSlotEach, PassPlaced
<1>6. RemovedWhenSettled' /\ MarksTrue' /\ Preprocessed'
  BY DEF RemovedWhenSettled, MarksTrue, HasFile, Preprocessed, Busy, BagIn
<1>7. pass.pos \in reported[pass.id]
  BY <1>1, <1>2 DEF MarksTrue, Letter, AtEnd, Records
<1>8. JobsCount'
  <2> SUFFICES ASSUME NEW k \in Jobs, Busy(k) PROVE \E S \in SUBSET Records : Counts(k, S)'
    BY DEF JobsCount, Busy
  <2>1. PICK S \in SUBSET Records : Counts(k, S)
    BY DEF JobsCount
  <2>2. /\ Cardinality(S) = jo'[k].numtodo
        /\ \A i \in Users(k)' : d'[i].pos \in S
        /\ jo'[k].hiteof => \A r \in Records \ S : r \in reported'[jo'[k].id]
    BY <2>1 DEF Counts, Users
  <2>3. ASSUME PassUses(k)'
        PROVE  /\ \A r \in S : r < pass'.pos
               /\ \A r \in Records : r < pass'.pos /\ r \notin S => r \in reported'[jo'[k].id]
    <3>1. k = pass.j /\ PassUses(k) /\ Records \subseteq Int /\ S \subseteq Int
      BY <1>1, <1>3, <2>3 DEF PassUses, Records
    <3>2. /\ \A r \in S : r < pass.pos
          /\ \A r \in Records : r < pass.pos /\ r \notin S => r \in reported[jo[k].id]
      BY <2>1, <3>1 DEF Counts
    <3>3. \A r \in Int : r < pass.pos + 1 <=> r < pass.pos \/ r = pass.pos
      BY <1>1
    <3> QED BY <1>2, <1>3, <1>7, <3>1, <3>2, <3>3
  <2> QED BY <2>2, <2>3 DEF Counts
<1> QED BY <1>4, <1>5, <1>6, <1>8

(* A record that is counted is one more than those before; no slot has it.   *)
LEMMA StepReadTodo ==
  ASSUME JobsAssumption, NoMsgAssumption, JobsInv, ReadTodo
  PROVE  JobsInv'
<1> USE DEF JobsInv
<1>1. PICK j, p, m : j = pass.j /\ p = pass.pos /\ m = pass.id
  OBVIOUS
<1>2. m # NoMsg /\ p \in 1 .. NRecords /\ p \in Records
  <2>1. pass.id # NoMsg /\ ~(pass.pos > NRecords)
    BY DEF Reading, AtEnd, ReadTodo
  <2> QED BY <1>1, <2>1, PassFacts DEF JobsAssumption, Records
<1>3. /\ j \in Jobs /\ m \in Msgs /\ jo[j].id = m /\ PassUses(j)
      /\ \A k \in Jobs : PassUses(k) => k = j
      /\ jo[j].refs = Cardinality(Users(j)) + 1 /\ Busy(j)
  BY <1>1, <1>2, PassFacts
<1>4. pass' = [id |-> m, j |-> j, pos |-> p + 1]
      /\ UNCHANGED <<todo, file, pqchan, pqfail, pqdone, alive, unseen, reported>>
  BY <1>1 DEF TypeOK, ReadTodo
<1>5. PICK i \in Slots, started \in BOOLEAN :
        /\ ~d[i].used
        /\ jo' = [jo EXCEPT ![j] = [refs |-> jo[j].refs + (IF started THEN 1 ELSE 0), id |-> m,
                                    numtodo |-> jo[j].numtodo + 1, hiteof |-> jo[j].hiteof]]
        /\ d' = IF started THEN [d EXCEPT ![i] = [used |-> TRUE, j |-> j, pos |-> p]] ELSE d
        /\ running' = IF started THEN [running EXCEPT ![i] = <<m, p>>] ELSE running
  <2>1. NSlots - 1 \in Nat /\ FreeSlots \in SUBSET (0 .. NSlots - 1) /\ FreeSlots # {}
    BY DEF JobsAssumption, FreeSlots, Slots, ReadTodo, Reading
  <2>2. First(FreeSlots) \in FreeSlots
    BY <2>1, Least
  <2>3. jo \in [Jobs -> JobType] /\ jo[j].refs \in Nat /\ jo[j].refs + 0 = jo[j].refs
    BY <1>3 DEF TypeOK, JobType
  <2>4. [jo EXCEPT ![j].numtodo = @ + 1]
          = [jo EXCEPT ![j] = [refs |-> jo[j].refs, id |-> m,
                               numtodo |-> jo[j].numtodo + 1, hiteof |-> jo[j].hiteof]]
    BY <1>3, <2>3, Counted
  <2>5. [[jo EXCEPT ![j].numtodo = @ + 1] EXCEPT ![j].refs = @ + 1]
          = [jo EXCEPT ![j] = [refs |-> jo[j].refs + 1, id |-> m,
                               numtodo |-> jo[j].numtodo + 1, hiteof |-> jo[j].hiteof]]
    BY <1>3, <2>3, CountedStarted
  <2>6. \/ /\ jo' = [[jo EXCEPT ![j].numtodo = @ + 1] EXCEPT ![j].refs = @ + 1]
           /\ d' = [d EXCEPT ![First(FreeSlots)] = [used |-> TRUE, j |-> j, pos |-> p]]
           /\ running' = [running EXCEPT ![First(FreeSlots)] = <<m, p>>]
        \/ jo' = [jo EXCEPT ![j].numtodo = @ + 1] /\ UNCHANGED <<d, running>>
    BY <1>1 DEF ReadTodo
  <2>7. First(FreeSlots) \in Slots /\ ~d[First(FreeSlots)].used
    BY <2>2 DEF FreeSlots
  <2>8. CASE jo' = [jo EXCEPT ![j].numtodo = @ + 1] /\ UNCHANGED <<d, running>>
    BY <2>3, <2>4, <2>7, <2>8, FALSE \in BOOLEAN
  <2>9. CASE /\ jo' = [[jo EXCEPT ![j].numtodo = @ + 1] EXCEPT ![j].refs = @ + 1]
             /\ d' = [d EXCEPT ![First(FreeSlots)] = [used |-> TRUE, j |-> j, pos |-> p]]
             /\ running' = [running EXCEPT ![First(FreeSlots)] = <<m, p>>]
    BY <2>5, <2>7, <2>9, TRUE \in BOOLEAN
  <2> QED BY <2>6, <2>8, <2>9
<1>6. /\ jo'[j] = [refs |-> jo[j].refs + (IF started THEN 1 ELSE 0), id |-> m,
                   numtodo |-> jo[j].numtodo + 1, hiteof |-> jo[j].hiteof]
      /\ \A k \in Jobs : k # j => jo'[k] = jo[k]
      /\ \A k \in Slots : k # i => d'[k] = d[k] /\ running'[k] = running[k]
      /\ started => d'[i] = [used |-> TRUE, j |-> j, pos |-> p] /\ running'[i] = <<m, p>>
      /\ ~started => d' = d /\ running' = running
  BY <1>3, <1>5 DEF TypeOK
<1>7. jo[j].refs \in Nat /\ jo[j].numtodo \in Nat /\ jo[j].hiteof \in BOOLEAN
  BY <1>3 DEF TypeOK
<1>8. TypeOK'
  <2>1. p + 1 \in 0 .. NRecords + 1 /\ p \in 0 .. NRecords
    BY <1>2 DEF JobsAssumption
  <2>2. pass' \in [id : Msgs \cup {NoMsg}, j : Jobs, pos : 0 .. NRecords + 1]
    BY <1>3, <1>4, <2>1
  <2>3. jo'[j] \in [refs : Nat, id : Msgs \cup {NoMsg}, numtodo : Nat, hiteof : BOOLEAN]
    BY <1>3, <1>6, <1>7
  <2>4. jo' \in [Jobs -> [refs : Nat, id : Msgs \cup {NoMsg}, numtodo : Nat, hiteof : BOOLEAN]]
    BY <1>3, <1>5, <1>6, <2>3 DEF TypeOK
  <2>5. d' \in [Slots -> [used : BOOLEAN, j : Jobs, pos : 0 .. NRecords]]
        /\ running' \in [Slots -> (Msgs \cup {NoMsg}) \X (0 .. NRecords)]
    BY <1>3, <1>5, <2>1 DEF TypeOK
  <2> QED BY <1>4, <2>2, <2>4, <2>5 DEF TypeOK
<1>9. \A k \in Jobs : (PassUses(k)' <=> PassUses(k)) /\ (Busy(k)' <=> Busy(k)) /\ jo'[k].id = jo[k].id
                      /\ jo'[k].hiteof = jo[k].hiteof
  BY <1>1, <1>2, <1>3, <1>4, <1>6, <1>7 DEF PassUses, Busy
<1>10. RemovedWhenSettled' /\ MarksTrue' /\ Preprocessed' /\ PassPlaced'
  BY <1>2, <1>4, <1>9 DEF RemovedWhenSettled, MarksTrue, HasFile, Preprocessed, BagIn, PassPlaced
<1>11. PICK S0 \in SUBSET Records : Counts(j, S0)
  BY <1>3 DEF JobsCount
<1>12. PICK S1 \in SUBSET Records :
         /\ S1 = S0 \cup {p} /\ p \notin S0 /\ Cardinality(S1) = jo[j].numtodo + 1
  <2>1. p \notin S0
    BY <1>1, <1>2, <1>3, <1>11 DEF Counts
  <2>2. IsFiniteSet(S0)
    BY UsersFinite
  <2>3. Cardinality(S0 \cup {p}) = jo[j].numtodo + 1
    BY <1>11, <2>1, <2>2, FS_AddElement DEF Counts
  <2> QED BY <1>2, <2>1, <2>3
(* The records that the pass has behind it after this one. *)
<1>13. /\ \A r \in S1 : r < p + 1
       /\ \A r \in Records : r < p + 1 /\ r \notin S1 => r \in reported[m]
  <2>1. Records \subseteq Int /\ S0 \subseteq Int
    BY DEF Records
  <2>2. /\ \A r \in S0 : r < p
        /\ \A r \in Records : r < p /\ r \notin S0 => r \in reported[m]
    BY <1>1, <1>3, <1>11 DEF Counts
  <2>3. \A r \in Int : r < p + 1 <=> r < p \/ r = p
    BY <1>2
  <2> QED BY <1>12, <2>1, <2>2, <2>3
<1>14. /\ \A k \in Jobs : k # j => Users(k)' = Users(k)
       /\ Users(j)' = IF started THEN Users(j) \cup {i} ELSE Users(j)
  BY <1>5, <1>6 DEF Users
<1>15. RefsExact'
  <2>1. i \notin Users(j) /\ IsFiniteSet(Users(j)) /\ Cardinality(Users(j)) \in Nat
    BY <1>5, UsersFinite DEF Users
  <2>2. Cardinality(Users(j) \cup {i}) = Cardinality(Users(j)) + 1
    BY <2>1, FS_AddElement
  <2>3. Cardinality(Users(j)') = Cardinality(Users(j)) + (IF started THEN 1 ELSE 0)
    BY <1>14, <2>1, <2>2
  <2>4. jo'[j].refs = Cardinality(Users(j)') + (IF PassUses(j)' THEN 1 ELSE 0)
    BY <1>3, <1>6, <1>9, <2>1, <2>3
  <2> QED BY <1>6, <1>9, <1>14, <2>4 DEF RefsExact
<1>16. RightRecord'
  <2>1. ASSUME NEW k \in Slots, d'[k].used PROVE running'[k] = <<jo'[d'[k].j].id, d'[k].pos>>
    <3>1. CASE started /\ k = i
      BY <1>3, <1>6, <1>9, <3>1
    <3>2. CASE ~(started /\ k = i)
      <4>1. d'[k] = d[k] /\ running'[k] = running[k] /\ d[k].j \in Jobs
        BY <1>6, <3>2 DEF TypeOK
      <4> QED BY <1>9, <2>1, <4>1 DEF RightRecord
    <3> QED BY <3>1, <3>2
  <2> QED BY <1>3, <1>4, <1>9, <2>1 DEF RightRecord
<1>17. OneSlotEach'
  <2>1. \A k \in Slots : d[k].used /\ d[k].j = j => d[k].pos # p
    BY <1>11, <1>12 DEF Counts, Users
  <2>2. ~d[i].used
    BY <1>5
  <2> QED BY <1>6, <2>1, <2>2 DEF OneSlotEach
<1>18. JobsCount'
  <2> SUFFICES ASSUME NEW k \in Jobs, Busy(k) PROVE \E S \in SUBSET Records : Counts(k, S)'
    BY <1>9 DEF JobsCount
  <2>1. CASE k = j
    <3>1. \A n \in Users(j)' : d'[n].pos \in S1
      BY <1>6, <1>11, <1>12, <1>14 DEF Counts, Users
    <3>2. jo[j].hiteof => \A r \in Records \ S1 : r \in reported[m]
      BY <1>3, <1>11, <1>12 DEF Counts
    <3>3. Counts(j, S1)'
      BY <1>3, <1>4, <1>6, <1>12, <1>13, <3>1, <3>2 DEF Counts
    <3> QED BY <2>1, <3>3
  <2>2. CASE k # j
    <3>1. PICK S \in SUBSET Records : Counts(k, S)
      BY DEF JobsCount
    <3>2. \A n \in Users(k) : d'[n] = d[n]
      BY <1>5, <1>6 DEF Users
    <3>3. Counts(k, S)'
      BY <1>3, <1>4, <1>6, <1>9, <1>14, <2>2, <3>1, <3>2 DEF Counts
    <3> QED BY <3>3
  <2> QED BY <2>1, <2>2
<1> QED BY <1>8, <1>10, <1>15, <1>16, <1>17, <1>18

-----------------------------------------------------------------------------
(* Closing a job *)

FileType == [Msgs -> [Records -> {"T", "D"}] \cup {<<>>}]

(* What job_close() does to the tables: the file goes only with the last     *)
(* reference of a settled job.                                               *)
LEMMA Closes ==
  ASSUME JobsAssumption, jo \in [Jobs -> JobType],
         NEW j \in Jobs, NEW job \in JobType, job.refs >= 1, job.id \in Msgs,
         NEW jobs, jobs = [jo EXCEPT ![j] = job],
         NEW f \in FileType, JobClose(j, jobs, f)
  PROVE  /\ jo' \in [Jobs -> JobType]
         /\ jo'[j] = [refs |-> job.refs - 1, id |-> job.id,
                      numtodo |-> job.numtodo, hiteof |-> job.hiteof]
         /\ \A k \in Jobs : k # j => jo'[k] = jo[k]
         /\ \/ file' = f
            \/ /\ job.refs = 1 /\ job.hiteof /\ job.numtodo = 0
               /\ file' = [f EXCEPT ![job.id] = <<>>]
         /\ BagToSet(pqchan') \subseteq BagToSet(pqchan) \cup {job.id}
         /\ BagToSet(pqdone') \subseteq BagToSet(pqdone) \cup {job.id}
<1>1. jobs[j] = job
  OBVIOUS
<1>2. PICK less : less = [refs |-> job.refs - 1, id |-> job.id,
                          numtodo |-> job.numtodo, hiteof |-> job.hiteof]
  OBVIOUS
<1>3. [job EXCEPT !.refs = @ - 1] = less /\ less \in JobType
  <2>1. job.refs - 1 \in Nat
    BY DEF JobType
  <2> QED BY <1>2, <2>1 DEF JobType
<1>4. jo' = [jo EXCEPT ![j] = less]
  <2>1. jo' = [jobs EXCEPT ![j].refs = @ - 1]
    BY DEF JobClose
  <2>2. [jobs EXCEPT ![j].refs = @ - 1] = [jobs EXCEPT ![j] = [job EXCEPT !.refs = @ - 1]]
    BY <1>1
  <2>3. [jobs EXCEPT ![j] = less] = [jo EXCEPT ![j] = less]
    OBVIOUS
  <2> QED BY <1>3, <2>1, <2>2, <2>3
<1>5. jo' \in [Jobs -> JobType] /\ jo'[j] = less /\ \A k \in Jobs : k # j => jo'[k] = jo[k]
  BY <1>3, <1>4
<1>6. \/ file' = f
      \/ /\ job.refs = 1 /\ job.hiteof /\ job.numtodo = 0
         /\ file' = [f EXCEPT ![job.id] = <<>>]
  <2>1. ~(job.refs > 1) => job.refs = 1
    BY DEF JobType
  <2> QED BY <1>1, <2>1 DEF JobClose, Settled
<1>7. /\ pqchan' = pqchan \/ pqchan' = Insert(pqchan, job.id)
      /\ pqdone' = pqdone \/ pqdone' = Insert(pqdone, job.id)
  BY <1>1 DEF JobClose
<1>8. /\ BagToSet(pqchan') \subseteq BagToSet(pqchan) \cup {job.id}
      /\ BagToSet(pqdone') \subseteq BagToSet(pqdone) \cup {job.id}
  BY <1>7, Bagged
<1> QED BY <1>2, <1>5, <1>6, <1>8

(* One user of job j leaves, a pass or a slot, and job_close() is called.    *)
(* S: the records that the job then counts.                                  *)
LEMMA Closing ==
  ASSUME JobsAssumption, NoMsgAssumption, JobsInv,
         NEW j \in Jobs, Busy(j),
         NEW job \in JobType, job.refs = jo[j].refs, job.id = jo[j].id,
         NEW jobs, jobs = [jo EXCEPT ![j] = job],
         NEW f \in FileType, JobClose(j, jobs, f),
         \A m \in Msgs : f[m] = <<>> <=> file[m] = <<>>,
         \A m \in Msgs : f[m] # <<>> =>
           \A r \in Records : f[m][r] = "D" => r \in reported'[m],
         reported' \in [Msgs -> SUBSET Records],
         \A m \in Msgs : reported[m] \subseteq reported'[m],
         NEW S \in SUBSET Records,
         Cardinality(S) = job.numtodo,
         \A i \in Users(j)' : d'[i].pos \in S,
         PassUses(j)' =>
           /\ \A r \in S : r < pass'.pos
           /\ \A r \in Records : r < pass'.pos /\ r \notin S => r \in reported'[job.id],
         job.hiteof => \A r \in Records \ S : r \in reported'[job.id],
         d' \in [Slots -> [used : BOOLEAN, j : Jobs, pos : 0 .. NRecords]],
         running' \in [Slots -> (Msgs \cup {NoMsg}) \X (0 .. NRecords)],
         \A i \in Slots : d'[i].used => d'[i] = d[i] /\ running'[i] = running[i],
         \A i \in Slots : d[i].used /\ d[i].j # j => d'[i].used,
         pass' = pass \/ (pass' = NoPass /\ pass.j = j),
         jo[j].refs = Cardinality(Users(j)') + (IF PassUses(j)' THEN 1 ELSE 0) + 1,
         UNCHANGED <<todo, pqfail, alive, unseen>>
  PROVE  JobsInv'
<1> USE DEF JobsInv
<1>1. job.id \in Msgs /\ job.id \notin todo /\ job.refs >= 1 /\ job.refs \in Nat
  BY DEF Preprocessed, Busy, JobType
<1>2. jo \in [Jobs -> JobType] /\ file \in FileType
  BY DEF TypeOK, JobType, FileType
<1>3. /\ jo' \in [Jobs -> JobType]
      /\ jo'[j] = [refs |-> job.refs - 1, id |-> job.id,
                   numtodo |-> job.numtodo, hiteof |-> job.hiteof]
      /\ \A k \in Jobs : k # j => jo'[k] = jo[k]
      /\ \/ file' = f
         \/ /\ job.refs = 1 /\ job.hiteof /\ job.numtodo = 0
            /\ file' = [f EXCEPT ![job.id] = <<>>]
      /\ BagToSet(pqchan') \subseteq BagToSet(pqchan) \cup {job.id}
      /\ BagToSet(pqdone') \subseteq BagToSet(pqdone) \cup {job.id}
  BY <1>1, <1>2, Closes
<1>4. TypeOK'
  <2>1. file' \in FileType
    BY <1>1, <1>3 DEF FileType
  <2>2. pass' \in [id : Msgs \cup {NoMsg}, j : Jobs, pos : 0 .. NRecords + 1]
    BY DEF TypeOK, NoPass, Jobs, JobsAssumption
  <2>3. BagToSet(pqchan') \subseteq Msgs /\ BagToSet(pqdone') \subseteq Msgs /\ BagToSet(pqfail') \subseteq Msgs
    BY <1>1, <1>3 DEF TypeOK
  <2>4. todo' \subseteq Msgs /\ unseen' \subseteq Msgs /\ alive' \in BOOLEAN
    BY DEF TypeOK
  <2> QED BY <1>3, <2>1, <2>2, <2>3, <2>4 DEF TypeOK, JobType, FileType
<1>5. \A k \in Jobs : jo'[k].id = jo[k].id /\ (k # j => (Busy(k)' <=> Busy(k)))
  BY <1>3 DEF Busy
<1>6. \A k \in Jobs : k # j => Users(k)' = Users(k) /\ (PassUses(k)' <=> PassUses(k))
  <2>1. ASSUME NEW k \in Jobs, k # j PROVE Users(k)' = Users(k)
    <3>1. \A i \in Slots : d'[i].used /\ d'[i].j = k <=> d[i].used /\ d[i].j = k
      BY <2>1
    <3> QED BY <3>1 DEF Users
  <2>2. ASSUME NEW k \in Jobs, k # j PROVE PassUses(k)' <=> PassUses(k)
    BY <2>2 DEF PassUses, NoPass
  <2> QED BY <2>1, <2>2
<1>7. RefsExact'
  <2>1. Cardinality(Users(j)') \in Nat
    <3>1. Users(j)' \in SUBSET Slots
      BY DEF Users
    <3> QED BY <3>1, UsersFinite, FS_Subset, FS_CardinalityType
  <2>2. jo'[j].refs = jo[j].refs - 1
    BY <1>3
  <2>3. PICK n \in Nat, b \in Nat :
          n = Cardinality(Users(j)') /\ b = IF PassUses(j)' THEN 1 ELSE 0
    BY <2>1
  <2>4. jo'[j].refs = n + b
    BY <2>2, <2>3
  <2>5. jo'[j].refs = Cardinality(Users(j)') + (IF PassUses(j)' THEN 1 ELSE 0)
    BY <2>3, <2>4
  <2> QED BY <1>3, <1>6, <2>5 DEF RefsExact
<1>8. RightRecord'
  <2>1. \A i \in Slots : d'[i].used => running'[i] = <<jo'[d'[i].j].id, d'[i].pos>>
    BY <1>5 DEF RightRecord, TypeOK
  <2>2. pass'.id # NoMsg => jo'[pass'.j].id = pass'.id
    BY <1>5 DEF RightRecord, TypeOK, NoPass
  <2> QED BY <2>1, <2>2 DEF RightRecord
<1>9. OneSlotEach' /\ PassPlaced'
  <2>1. OneSlotEach'
    <3> SUFFICES ASSUME NEW i \in Slots, NEW k \in Slots, d'[i].used, d'[k].used,
                        d'[i].j = d'[k].j, d'[i].pos = d'[k].pos
                 PROVE  i = k
      BY DEF OneSlotEach
    <3>1. d'[i] = d[i] /\ d'[k] = d[k]
      OBVIOUS
    <3> QED BY <3>1 DEF OneSlotEach
  <2>2. PassPlaced'
    BY DEF PassPlaced, NoPass
  <2> QED BY <2>1, <2>2
<1>10. RemovedWhenSettled'
  <2> SUFFICES ASSUME NEW m \in Msgs, file'[m] = <<>> PROVE reported'[m] = Records
    BY DEF RemovedWhenSettled, HasFile
  <2>1. CASE file[m] = <<>>
    <3>1. reported[m] = Records /\ reported'[m] \in SUBSET Records
      BY <2>1 DEF RemovedWhenSettled, HasFile
    <3>2. reported[m] \subseteq reported'[m]
      OBVIOUS
    <3> QED BY <3>1, <3>2
  <2>2. CASE file[m] # <<>>
    <3>1. m = job.id /\ job.hiteof /\ job.numtodo = 0
      BY <1>1, <1>3, <2>2 DEF FileType
    <3>2. S = {}
      BY <3>1, UsersFinite, FS_EmptySet
    <3>3. reported'[m] \in SUBSET Records
      OBVIOUS
    <3>4. \A r \in Records : r \in reported'[m]
      BY <3>1, <3>2
    <3> QED BY <3>3, <3>4
  <2> QED BY <2>1, <2>2
<1>11. MarksTrue'
  <2>1. \A m \in Msgs : file'[m] # <<>> => file'[m] = f[m]
    BY <1>1, <1>3 DEF FileType
  <2> QED BY <2>1 DEF MarksTrue, HasFile
<1>12. Preprocessed'
  <2>1. \A k \in Jobs : Busy(k)' => jo'[k].id \in Msgs \ todo'
    BY <1>1, <1>3, <1>5 DEF Preprocessed
  <2> QED BY <1>1, <1>3, <2>1 DEF Preprocessed, BagIn
<1>13. JobsCount'
  <2> SUFFICES ASSUME NEW k \in Jobs, Busy(k)' PROVE \E T \in SUBSET Records : Counts(k, T)'
    BY DEF JobsCount
  <2>1. CASE k = j
    <3>1. Counts(j, S)'
      BY <1>3 DEF Counts
    <3> QED BY <2>1, <3>1
  <2>2. CASE k # j
    <3>1. PICK T \in SUBSET Records : Counts(k, T)
      BY <1>5, <2>2 DEF JobsCount
    <3>2. \A i \in Users(k) : d'[i].pos \in T
      BY <1>6, <2>2, <3>1 DEF Counts, Users
    <3>3. jo'[k] = jo[k] /\ Users(k)' = Users(k) /\ (PassUses(k)' <=> PassUses(k))
      BY <1>3, <1>6, <2>2
    <3>4. reported[jo[k].id] \subseteq reported'[jo[k].id]
      BY <1>5, <2>2 DEF Preprocessed
    <3>5. PassUses(k)' => pass' = pass
      BY DEF PassUses, NoPass
    <3>6. Counts(k, T)'
      BY <3>1, <3>2, <3>3, <3>4, <3>5 DEF Counts
    <3> QED BY <3>6
  <2> QED BY <2>1, <2>2
<1> QED BY <1>4, <1>7, <1>8, <1>9, <1>10, <1>11, <1>12, <1>13

(* At its end a pass calls job_close(), with hiteof if that is the end of   *)
(* the file.                                                                 *)
LEMMA EndPassCloses ==
  ASSUME NEW j \in Jobs, j = pass.j, jo \in [Jobs -> JobType], EndPass
  PROVE  \E job, jobs :
           /\ jobs = [jo EXCEPT ![j] = job] /\ job \in JobType
           /\ job.refs = jo[j].refs /\ job.id = jo[j].id /\ job.numtodo = jo[j].numtodo
           /\ job.hiteof => AtEnd \/ jo[j].hiteof
           /\ JobClose(j, jobs, file)
<1> jo[j] \in JobType
  OBVIOUS
<1>1. CASE AtEnd /\ JobClose(pass.j, [jo EXCEPT ![pass.j].hiteof = TRUE], file)
  <2>1. PICK job : job = [jo[j] EXCEPT !.hiteof = TRUE]
    OBVIOUS
  <2>2. job \in JobType /\ job.refs = jo[j].refs /\ job.id = jo[j].id /\ job.numtodo = jo[j].numtodo
    BY <2>1 DEF JobType
  <2>3. [jo EXCEPT ![j].hiteof = TRUE] = [jo EXCEPT ![j] = [jo[j] EXCEPT !.hiteof = TRUE]]
    OBVIOUS
  <2>4. PICK jobs : jobs = [jo EXCEPT ![j] = job]
    OBVIOUS
  <2>5. JobClose(j, jobs, file)
    BY <1>1, <2>1, <2>3, <2>4
  <2> QED BY <1>1, <2>2, <2>4, <2>5
<1>2. CASE JobClose(pass.j, jo, file)
  <2>1. PICK jobs : jobs = jo
    OBVIOUS
  <2>2. PICK job : job = jo[j]
    OBVIOUS
  <2>3. jobs = [jo EXCEPT ![j] = job]
    BY <2>1, <2>2
  <2>4. JobClose(j, jobs, file)
    BY <1>2, <2>1
  <2> QED BY <2>2, <2>3, <2>4
<1> QED BY <1>1, <1>2 DEF EndPass

(* The end of a pass: when it met the end of the file, all records that the  *)
(* job does not count were marked, or the file has gone with all reported.   *)
LEMMA StepEndPass ==
  ASSUME JobsAssumption, NoMsgAssumption, JobsInv, EndPass
  PROVE  JobsInv'
<1> USE DEF JobsInv
<1>1. PICK j, m, p : j = pass.j /\ m = pass.id /\ p = pass.pos
  OBVIOUS
<1>2. pass.id # NoMsg
  BY DEF EndPass, Reading
<1>3. /\ j \in Jobs /\ m \in Msgs /\ p \in 1 .. NRecords + 1 /\ jo[j].id = m
      /\ PassUses(j) /\ jo[j].refs = Cardinality(Users(j)) + 1 /\ Busy(j)
  BY <1>1, <1>2, PassFacts
<1>4. jo[j] \in JobType /\ jo \in [Jobs -> JobType] /\ file \in FileType
  BY <1>3 DEF TypeOK, JobType, FileType
<1>5. PICK job, jobs :
        /\ jobs = [jo EXCEPT ![j] = job] /\ job \in JobType
        /\ job.refs = jo[j].refs /\ job.id = jo[j].id /\ job.numtodo = jo[j].numtodo
        /\ job.hiteof => AtEnd \/ jo[j].hiteof
        /\ JobClose(j, jobs, file)
  BY <1>1, <1>3, <1>4, EndPassCloses
<1>6. PICK S \in SUBSET Records : Counts(j, S)
  BY <1>3 DEF JobsCount
<1>7. job.hiteof => \A r \in Records \ S : r \in reported[m]
  <2>1. CASE jo[j].hiteof
    BY <1>3, <1>6, <2>1 DEF Counts
  <2>2. CASE AtEnd /\ HasFile(m)
    <3>1. p > NRecords
      BY <1>1, <2>2 DEF AtEnd
    <3>2. \A r \in Records : r < p
      BY <1>3, <3>1 DEF Records, JobsAssumption
    <3> QED BY <1>1, <1>3, <1>6, <3>2 DEF Counts
  <2>3. CASE ~HasFile(m)
    BY <1>3, <2>3 DEF RemovedWhenSettled
  <2> QED BY <1>5, <2>1, <2>2, <2>3
<1>8. pass' = NoPass /\ ~PassUses(j)' /\ Users(j)' = Users(j)
      /\ UNCHANGED <<todo, pqfail, d, alive, unseen, reported, running>>
  BY DEF EndPass, PassUses, NoPass, Users
<1>9. jo[j].refs = Cardinality(Users(j)') + (IF PassUses(j)' THEN 1 ELSE 0) + 1
  <2>1. Cardinality(Users(j)) \in Nat
    BY UsersFinite
  <2> QED BY <1>3, <1>8, <2>1
<1>10. /\ Cardinality(S) = job.numtodo
       /\ \A i \in Users(j)' : d'[i].pos \in S
       /\ job.hiteof => \A r \in Records \ S : r \in reported'[job.id]
  BY <1>3, <1>5, <1>6, <1>7, <1>8 DEF Counts
<1>11. /\ \A k \in Msgs : file[k] # <<>> =>
            \A r \in Records : file[k][r] = "D" => r \in reported'[k]
       /\ reported' \in [Msgs -> SUBSET Records]
       /\ \A k \in Msgs : reported[k] \subseteq reported'[k]
       /\ d' \in [Slots -> [used : BOOLEAN, j : Jobs, pos : 0 .. NRecords]]
       /\ running' \in [Slots -> (Msgs \cup {NoMsg}) \X (0 .. NRecords)]
  BY <1>8 DEF MarksTrue, HasFile, TypeOK
<1>12. PICK f : f = file
  OBVIOUS
<1>13. f \in FileType /\ JobClose(j, jobs, f) /\ (\A k \in Msgs : f[k] = <<>> <=> file[k] = <<>>)
       /\ \A k \in Msgs : f[k] # <<>> => \A r \in Records : f[k][r] = "D" => r \in reported'[k]
  BY <1>4, <1>5, <1>11, <1>12
<1>14. /\ \A i \in Slots : d'[i].used => d'[i] = d[i] /\ running'[i] = running[i]
       /\ \A i \in Slots : d[i].used /\ d[i].j # j => d'[i].used
       /\ pass' = NoPass /\ pass.j = j
  BY <1>1, <1>8
<1> HIDE DEF JobsInv
<1>15. /\ j \in Jobs /\ Busy(j) /\ job \in JobType /\ job.refs = jo[j].refs /\ job.id = jo[j].id
       /\ jobs = [jo EXCEPT ![j] = job] /\ UNCHANGED <<todo, pqfail, alive, unseen>>
       /\ PassUses(j)' =>
           /\ \A r \in S : r < pass'.pos
           /\ \A r \in Records : r < pass'.pos /\ r \notin S => r \in reported'[job.id]
       /\ pass' = pass \/ (pass' = NoPass /\ pass.j = j)
  BY <1>3, <1>5, <1>8, <1>14
<1> QED BY <1>9, <1>10, <1>11, <1>13, <1>14, <1>15, Closing, Zenon

-----------------------------------------------------------------------------
(* Reports *)

(* A slot that is answered has left its job.                                 *)
LEMMA SlotFacts ==
  ASSUME JobsAssumption, NoMsgAssumption, JobsInv,
         NEW i \in Slots, d[i].used, d' = [d EXCEPT ![i] = NoDel],
         running' = [running EXCEPT ![i] = <<NoMsg, 0>>], pass' = pass,
         NEW j, j = d[i].j
  PROVE  /\ j \in Jobs /\ Busy(j) /\ jo[j].id \in Msgs
         /\ running[i] = <<jo[j].id, d[i].pos>>
         /\ Users(j)' = Users(j) \ {i}
         /\ jo[j].refs = Cardinality(Users(j)') + (IF PassUses(j)' THEN 1 ELSE 0) + 1
         /\ d' \in [Slots -> [used : BOOLEAN, j : Jobs, pos : 0 .. NRecords]]
         /\ running' \in [Slots -> (Msgs \cup {NoMsg}) \X (0 .. NRecords)]
         /\ \A k \in Slots : d'[k].used => k # i /\ d'[k] = d[k] /\ running'[k] = running[k]
         /\ \A k \in Slots : d[k].used /\ d[k].j # j => d'[k].used
<1> USE DEF JobsInv
<1>1. j \in Jobs /\ running[i] = <<jo[j].id, d[i].pos>>
  BY DEF TypeOK, RightRecord
<1>2. /\ d' \in [Slots -> [used : BOOLEAN, j : Jobs, pos : 0 .. NRecords]]
      /\ running' \in [Slots -> (Msgs \cup {NoMsg}) \X (0 .. NRecords)]
      /\ ~d'[i].used
      /\ \A k \in Slots : k # i => d'[k] = d[k] /\ running'[k] = running[k]
  <2>1. NoDel \in [used : BOOLEAN, j : Jobs, pos : 0 .. NRecords] /\ ~NoDel.used
    BY DEF NoDel, Jobs, JobsAssumption
  <2>2. <<NoMsg, 0>> \in (Msgs \cup {NoMsg}) \X (0 .. NRecords)
    BY DEF JobsAssumption
  <2> QED BY <2>1, <2>2 DEF TypeOK
<1>3. i \in Users(j) /\ Users(j)' = Users(j) \ {i}
  BY <1>2 DEF Users
<1>4. PICK n \in Nat, b \in Nat :
        n = Cardinality(Users(j)') /\ b = IF PassUses(j)' THEN 1 ELSE 0
  <2>1. Users(j)' \in SUBSET Slots
    BY DEF Users
  <2>2. Cardinality(Users(j)') \in Nat
    BY <2>1, UsersFinite, FS_Subset, FS_CardinalityType
  <2> QED BY <2>2
<1>5. Cardinality(Users(j)) = n + 1
  <2>1. IsFiniteSet(Users(j)) /\ Cardinality(Users(j)) \in Nat
    BY UsersFinite
  <2>2. Cardinality(Users(j) \ {i}) = Cardinality(Users(j)) - 1
    BY <1>3, <2>1, FS_RemoveElement
  <2> QED BY <1>3, <1>4, <2>1, <2>2
<1>6. PassUses(j)' <=> PassUses(j)
  BY DEF PassUses
<1>7. jo[j].refs = n + 1 + b
  BY <1>1, <1>4, <1>5, <1>6 DEF RefsExact
<1>8. jo[j].refs = Cardinality(Users(j)') + (IF PassUses(j)' THEN 1 ELSE 0) + 1
  BY <1>4, <1>7
<1>9. Busy(j) /\ jo[j].id \in Msgs
  <2>1. Busy(j)
    BY <1>7 DEF Busy
  <2> QED BY <1>1, <2>1 DEF Preprocessed
<1> QED BY <1>1, <1>2, <1>3, <1>8, <1>9

(* A report other than success leaves the record counted.                    *)
LEMMA StepDeferral ==
  ASSUME JobsAssumption, NoMsgAssumption, JobsInv, NEW i \in Slots, Deferral(i)
  PROVE  JobsInv'
<1>1. PICK j, job, jobs, f : j = d[i].j /\ job = jo[j] /\ jobs = jo /\ f = file
  OBVIOUS
<1>2. /\ d[i].used /\ d' = [d EXCEPT ![i] = NoDel] /\ running' = [running EXCEPT ![i] = <<NoMsg, 0>>]
      /\ JobClose(j, jobs, f) /\ UNCHANGED <<todo, pqfail, pass, alive, unseen, reported>>
  BY <1>1 DEF Deferral
<1>3. /\ j \in Jobs /\ Busy(j) /\ jo[j].id \in Msgs
      /\ running[i] = <<jo[j].id, d[i].pos>>
      /\ Users(j)' = Users(j) \ {i}
      /\ jo[j].refs = Cardinality(Users(j)') + (IF PassUses(j)' THEN 1 ELSE 0) + 1
      /\ d' \in [Slots -> [used : BOOLEAN, j : Jobs, pos : 0 .. NRecords]]
      /\ running' \in [Slots -> (Msgs \cup {NoMsg}) \X (0 .. NRecords)]
      /\ \A k \in Slots : d'[k].used => k # i /\ d'[k] = d[k] /\ running'[k] = running[k]
      /\ \A k \in Slots : d[k].used /\ d[k].j # j => d'[k].used
  BY <1>1, <1>2, SlotFacts
<1>4. PICK S \in SUBSET Records : Counts(j, S)
  BY <1>3 DEF JobsInv, JobsCount
<1>5. /\ job \in JobType /\ job.refs = jo[j].refs /\ job.id = jo[j].id
      /\ jobs = [jo EXCEPT ![j] = job] /\ f \in FileType
      /\ (\A m \in Msgs : f[m] = <<>> <=> file[m] = <<>>)
      /\ \A m \in Msgs : f[m] # <<>> => \A r \in Records : f[m][r] = "D" => r \in reported'[m]
  BY <1>1, <1>2, <1>3 DEF JobsInv, TypeOK, JobType, FileType, MarksTrue, HasFile
<1>6. reported' \in [Msgs -> SUBSET Records] /\ \A m \in Msgs : reported[m] \subseteq reported'[m]
  BY <1>2 DEF JobsInv, TypeOK
<1>7. /\ Cardinality(S) = job.numtodo
      /\ \A k \in Users(j)' : d'[k].pos \in S
      /\ PassUses(j)' =>
           /\ \A r \in S : r < pass'.pos
           /\ \A r \in Records : r < pass'.pos /\ r \notin S => r \in reported'[job.id]
      /\ job.hiteof => \A r \in Records \ S : r \in reported'[job.id]
  BY <1>1, <1>2, <1>3, <1>4 DEF Counts, PassUses, Users
<1>8. /\ \A k \in Slots : d'[k].used => d'[k] = d[k] /\ running'[k] = running[k]
      /\ pass' = pass \/ (pass' = NoPass /\ pass.j = j)
      /\ UNCHANGED <<todo, pqfail, alive, unseen>>
  BY <1>2, <1>3
<1>9. /\ j \in Jobs /\ Busy(j) /\ JobClose(j, jobs, f)
      /\ jo[j].refs = Cardinality(Users(j)') + (IF PassUses(j)' THEN 1 ELSE 0) + 1
      /\ d' \in [Slots -> [used : BOOLEAN, j : Jobs, pos : 0 .. NRecords]]
      /\ running' \in [Slots -> (Msgs \cup {NoMsg}) \X (0 .. NRecords)]
      /\ \A k \in Slots : d[k].used /\ d[k].j # j => d'[k].used
  BY <1>2, <1>3
<1> QED BY <1>5, <1>6, <1>7, <1>8, <1>9, Closing, Zenon

(* markdone() marks one record, or nothing.                                  *)
LEMMA MarkFacts ==
  ASSUME JobsAssumption, file \in FileType, NEW m \in Msgs, NEW r \in Records, NEW f \in Marked(m, r)
  PROVE  /\ f \in FileType
         /\ \A k \in Msgs : f[k] = <<>> <=> file[k] = <<>>
         /\ \A k \in Msgs : f[k] # <<>> =>
              \A s \in Records : f[k][s] = "D" => file[k][s] = "D" \/ (k = m /\ s = r)
<1>1. CASE f = file \/ ~HasFile(m)
  <2>1. f = file
    BY <1>1 DEF Marked, FileType
  <2> QED BY <2>1
<1>2. CASE f # file /\ HasFile(m)
  <2>1. file[m] \in [Records -> {"T", "D"}]
    BY <1>2 DEF FileType, HasFile
  <2>2. PICK g : g = [file[m] EXCEPT ![r] = "D"]
    OBVIOUS
  <2>3. f = [file EXCEPT ![m] = g]
    BY <1>2, <2>2 DEF Marked
  <2>4. g \in [Records -> {"T", "D"}] /\ \A s \in Records : s # r => g[s] = file[m][s]
    BY <2>1, <2>2
  <2>5. g # <<>> /\ file[m] # <<>>
    BY <1>2, <2>4, FileThere DEF HasFile
  <2>6. f[m] = g /\ \A k \in Msgs : k # m => f[k] = file[k]
    BY <2>3 DEF FileType
  <2>7. f \in FileType
    BY <2>3, <2>4 DEF FileType
  <2> QED BY <2>4, <2>5, <2>6, <2>7
<1> QED BY <1>1, <1>2

(* A success counts numtodo of its job down.                                *)
LEMMA SuccessCloses ==
  ASSUME NEW j \in Jobs, jo \in [Jobs -> JobType], jo[j].numtodo - 1 \in Nat,
         NEW f, JobClose(j, [jo EXCEPT ![j].numtodo = @ - 1], f)
  PROVE  \E job, jobs :
           /\ jobs = [jo EXCEPT ![j] = job] /\ job \in JobType
           /\ job.refs = jo[j].refs /\ job.id = jo[j].id
           /\ job.numtodo = jo[j].numtodo - 1 /\ job.hiteof = jo[j].hiteof
           /\ JobClose(j, jobs, f)
<1>1. PICK job : job = [jo[j] EXCEPT !.numtodo = @ - 1]
  OBVIOUS
<1>2. jo[j] \in JobType
  OBVIOUS
<1>3. /\ job \in JobType /\ job.refs = jo[j].refs /\ job.id = jo[j].id
      /\ job.numtodo = jo[j].numtodo - 1 /\ job.hiteof = jo[j].hiteof
  BY <1>1, <1>2 DEF JobType
<1>4. [jo EXCEPT ![j].numtodo = @ - 1] = [jo EXCEPT ![j] = [jo[j] EXCEPT !.numtodo = @ - 1]]
  OBVIOUS
<1>5. PICK jobs : jobs = [jo EXCEPT ![j] = job]
  OBVIOUS
<1>6. JobClose(j, jobs, f)
  BY <1>1, <1>4, <1>5
<1> QED BY <1>3, <1>5, <1>6

(* A success is about the record that its slot was started for; the record   *)
(* is no longer counted and was reported, marked or not.                     *)
LEMMA StepSuccess ==
  ASSUME JobsAssumption, NoMsgAssumption, JobsInv, NEW i \in Slots, Success(i)
  PROVE  JobsInv'
<1>1. PICK j, p, m : j = d[i].j /\ p = d[i].pos /\ m = jo[j].id
  OBVIOUS
<1>2. PICK f \in Marked(m, p) :
        /\ JobClose(j, [jo EXCEPT ![j].numtodo = @ - 1], f)
        /\ reported' = [reported EXCEPT ![running[i][1]] = @ \cup {running[i][2]}]
        /\ d[i].used /\ d' = [d EXCEPT ![i] = NoDel] /\ running' = [running EXCEPT ![i] = <<NoMsg, 0>>]
        /\ UNCHANGED <<todo, pqfail, pass, alive, unseen>>
  BY <1>1 DEF Success
<1>3. /\ j \in Jobs /\ Busy(j) /\ jo[j].id \in Msgs
      /\ running[i] = <<jo[j].id, d[i].pos>>
      /\ Users(j)' = Users(j) \ {i}
      /\ jo[j].refs = Cardinality(Users(j)') + (IF PassUses(j)' THEN 1 ELSE 0) + 1
      /\ d' \in [Slots -> [used : BOOLEAN, j : Jobs, pos : 0 .. NRecords]]
      /\ running' \in [Slots -> (Msgs \cup {NoMsg}) \X (0 .. NRecords)]
      /\ \A k \in Slots : d'[k].used => k # i /\ d'[k] = d[k] /\ running'[k] = running[k]
      /\ \A k \in Slots : d[k].used /\ d[k].j # j => d'[k].used
  BY <1>1, <1>2, SlotFacts
<1>4. PICK S0 \in SUBSET Records : Counts(j, S0)
  BY <1>3 DEF JobsInv, JobsCount
<1>5. p \in S0 /\ p \in Records
  BY <1>1, <1>2, <1>4 DEF Counts, Users
<1>6. PICK S \in SUBSET Records :
        S = S0 \ {p} /\ Cardinality(S) = jo[j].numtodo - 1 /\ jo[j].numtodo - 1 \in Nat
  <2>1. IsFiniteSet(S0) /\ S0 \ {p} \in SUBSET Records
    BY UsersFinite
  <2>2. Cardinality(S0 \ {p}) = jo[j].numtodo - 1
    BY <1>4, <1>5, <2>1, FS_RemoveElement DEF Counts
  <2>3. Cardinality(S0 \ {p}) \in Nat
    BY <2>1, UsersFinite
  <2> QED BY <2>1, <2>2, <2>3
<1>7. PICK job, jobs :
        /\ jobs = [jo EXCEPT ![j] = job] /\ job \in JobType
        /\ job.refs = jo[j].refs /\ job.id = jo[j].id
        /\ job.numtodo = jo[j].numtodo - 1 /\ job.hiteof = jo[j].hiteof
        /\ JobClose(j, jobs, f)
  <2>1. jo \in [Jobs -> JobType]
    BY DEF JobsInv, TypeOK, JobType
  <2> QED BY <1>2, <1>3, <1>6, <2>1, SuccessCloses
(* What was reported, and what the file then says. *)
<1>8. /\ reported' \in [Msgs -> SUBSET Records]
      /\ reported'[m] = reported[m] \cup {p}
      /\ \A k \in Msgs : k # m => reported'[k] = reported[k]
  <2>1. reported' = [reported EXCEPT ![m] = @ \cup {p}]
    BY <1>1, <1>2, <1>3
  <2> QED BY <1>1, <1>3, <1>5, <2>1 DEF JobsInv, TypeOK
<1>9. \A k \in Msgs : reported[k] \subseteq reported'[k]
  BY <1>8
<1>10. /\ f \in FileType
       /\ \A k \in Msgs : f[k] = <<>> <=> file[k] = <<>>
       /\ \A k \in Msgs : f[k] # <<>> => \A r \in Records : f[k][r] = "D" => r \in reported'[k]
  <2>1. file \in FileType /\ m \in Msgs
    BY <1>1, <1>3 DEF JobsInv, TypeOK, FileType
  <2>2. /\ f \in FileType
        /\ \A k \in Msgs : f[k] = <<>> <=> file[k] = <<>>
        /\ \A k \in Msgs : f[k] # <<>> =>
             \A r \in Records : f[k][r] = "D" => file[k][r] = "D" \/ (k = m /\ r = p)
    BY <1>2, <1>5, <2>1, MarkFacts
  <2>3. \A k \in Msgs : file[k] # <<>> => \A r \in Records : file[k][r] = "D" => r \in reported[k]
    BY DEF JobsInv, MarksTrue, HasFile
  <2> QED BY <1>8, <1>9, <2>2, <2>3
<1>11. \A k \in Users(j)' : d'[k].pos \in S
  <2> SUFFICES ASSUME NEW k \in Slots, d'[k].used, d'[k].j = j PROVE d'[k].pos \in S
    BY DEF Users
  <2>1. k # i /\ d'[k] = d[k]
    BY <1>3
  <2>2. d[k].pos \in S0
    BY <1>4, <2>1 DEF Counts, Users
  <2>3. d[k].pos # p
    BY <1>1, <1>2, <2>1 DEF JobsInv, OneSlotEach
  <2> QED BY <1>6, <2>1, <2>2, <2>3
<1>12. /\ PassUses(j)' =>
            /\ \A r \in S : r < pass'.pos
            /\ \A r \in Records : r < pass'.pos /\ r \notin S => r \in reported'[job.id]
       /\ job.hiteof => \A r \in Records \ S : r \in reported'[job.id]
  BY <1>1, <1>2, <1>4, <1>6, <1>7, <1>8 DEF Counts, PassUses
<1>13. /\ \A k \in Slots : d'[k].used => d'[k] = d[k] /\ running'[k] = running[k]
       /\ pass' = pass \/ (pass' = NoPass /\ pass.j = j)
       /\ UNCHANGED <<todo, pqfail, alive, unseen>>
  BY <1>2, <1>3
<1>14. /\ j \in Jobs /\ Busy(j) /\ Cardinality(S) = job.numtodo
       /\ jobs = [jo EXCEPT ![j] = job] /\ job \in JobType
       /\ job.refs = jo[j].refs /\ job.id = jo[j].id /\ JobClose(j, jobs, f)
       /\ jo[j].refs = Cardinality(Users(j)') + (IF PassUses(j)' THEN 1 ELSE 0) + 1
       /\ d' \in [Slots -> [used : BOOLEAN, j : Jobs, pos : 0 .. NRecords]]
       /\ running' \in [Slots -> (Msgs \cup {NoMsg}) \X (0 .. NRecords)]
       /\ \A k \in Slots : d[k].used /\ d[k].j # j => d'[k].used
  BY <1>3, <1>6, <1>7
<1> QED BY <1>8, <1>9, <1>10, <1>11, <1>12, <1>13, <1>14, Closing, Zenon

-----------------------------------------------------------------------------
(* Theorems *)

LEMMA StepJobs ==
  ASSUME JobsAssumption, NoMsgAssumption, JobsInv, [Next]_vars
  PROVE  JobsInv'
<1>1. ASSUME NEW m \in Msgs, PqStart(m) \/ PqRetry(m) \/ TodoDel(m) \/ MessDone(m) \/ OpenPass(m)
      PROVE  JobsInv'
  BY <1>1, StepEntries, StepTodoDel, StepOpenPass
<1>2. CASE ReadDone \/ ReadTodo \/ EndPass
  BY <1>2, StepReadDone, StepReadTodo, StepEndPass
<1>3. ASSUME NEW i \in Slots, Success(i) \/ Deferral(i) PROVE JobsInv'
  BY <1>3, StepSuccess, StepDeferral
<1>4. CASE SpawnDied
  BY <1>4, StepSpawnDied
<1>5. CASE UNCHANGED vars
  <2>1. /\ UNCHANGED <<todo, file, pqchan, pqfail, pqdone, pass, jo, d, alive, unseen, reported, running>>
        /\ alive \in BOOLEAN
        /\ BagToSet(pqchan) \subseteq Msgs /\ BagToSet(pqfail) \subseteq Msgs /\ BagToSet(pqdone) \subseteq Msgs
    BY <1>5 DEF vars, JobsInv, TypeOK
  <2> QED BY <2>1, EntriesKeep
<1> QED BY <1>1, <1>2, <1>3, <1>4, <1>5 DEF Next

(* The inductive invariant, whatever calls fail: a job counts its users and  *)
(* the records that nobody has succeeded with, and marks are true.           *)
THEOREM AlwaysJobsInv ==
  ASSUME JobsAssumption, NoMsgAssumption PROVE Spec => []JobsInv
<1>1. Init => JobsInv
  BY InitJobs
<1>2. JobsInv /\ [Next]_vars => JobsInv'
  BY StepJobs
<1> QED BY <1>1, <1>2, PTL DEF Spec

(* The tables of jobs, slots and queues keep their types. *)
THEOREM AlwaysTypeOK ==
  ASSUME JobsAssumption, NoMsgAssumption PROVE Spec => []TypeOK
<1>1. JobsInv => TypeOK
  BY DEF JobsInv
<1> QED BY <1>1, AlwaysJobsInv, PTL

(* job_open() never takes a job that a pass or a delivery still refers to:   *)
(* refs is the number of those that do.                                      *)
THEOREM AlwaysRefsExact ==
  ASSUME JobsAssumption, NoMsgAssumption PROVE Spec => []RefsExact
<1>1. JobsInv => RefsExact
  BY DEF JobsInv
<1> QED BY <1>1, AlwaysJobsInv, PTL

(* The report of a slot is taken for the message and the record that the     *)
(* spawner was given with it.                                                *)
THEOREM AlwaysRightRecord ==
  ASSUME JobsAssumption, NoMsgAssumption PROVE Spec => []RightRecord
<1>1. JobsInv => RightRecord
  BY DEF JobsInv
<1> QED BY <1>1, AlwaysJobsInv, PTL

(* job_close() removes a channel file only when a K or D report has come for *)
(* each of its records.                                                      *)
THEOREM AlwaysRemovedWhenSettled ==
  ASSUME JobsAssumption, NoMsgAssumption PROVE Spec => []RemovedWhenSettled
<1>1. JobsInv => RemovedWhenSettled
  BY DEF JobsInv
<1> QED BY <1>1, AlwaysJobsInv, PTL

-----------------------------------------------------------------------------
(* One place for each message *)

Workers(m) == {j \in Jobs : jo[j].refs > 0 /\ jo[j].id = m}

(* What is in which table: a job has a file, an entry of pqdone has none.    *)
TablesRight ==
  /\ IsABag(pqchan) /\ IsABag(pqdone) /\ BagToSet(pqfail) = {}
  /\ \A m \in Msgs : BagIn(m, pqdone) => ~HasFile(m)
  /\ \A j \in Jobs : Busy(j) => HasFile(jo[j].id)

(* The inductive invariant when stat() does not fail.                        *)
PlaceInv == JobsInv /\ OnePlace /\ QueueLegend /\ TablesRight

LEMMA InsertCopies ==
  ASSUME NEW pq, IsABag(pq), NEW m
  PROVE  /\ IsABag(Insert(pq, m))
         /\ Copies(m, Insert(pq, m)) = Copies(m, pq) + 1
         /\ \A k : k # m => Copies(k, Insert(pq, m)) = Copies(k, pq)
<1>1. PICK b : b = Insert(pq, m)
  OBVIOUS
<1>2. b = [e \in DOMAIN pq \cup {m} |->
             (IF e \in DOMAIN pq THEN pq[e] ELSE 0) + (IF e \in {m} THEN 1 ELSE 0)]
  <2>1. DOMAIN SetToBag({m}) = {m} /\ SetToBag({m})[m] = 1
    BY DEF SetToBag
  <2> QED BY <1>1, <2>1 DEF Insert, (+)
<1>3. \A e \in DOMAIN pq : pq[e] \in Nat /\ pq[e] > 0
  BY DEF IsABag
<1>4. DOMAIN b = DOMAIN pq \cup {m}
  BY <1>2
<1>5. b[m] = (IF m \in DOMAIN pq THEN pq[m] ELSE 0) + 1
  BY <1>2
<1>6. \A e \in DOMAIN pq : e # m => b[e] = pq[e]
  BY <1>2, <1>3
<1>7. \A e \in DOMAIN b : b[e] \in Nat /\ b[e] > 0
  BY <1>3, <1>4, <1>5, <1>6
<1>8. IsABag(b)
  BY <1>2, <1>4, <1>7 DEF IsABag
<1> QED BY <1>1, <1>4, <1>5, <1>6, <1>8 DEF Copies, BagIn, BagToSet

LEMMA Inserted ==
  ASSUME NEW pq, IsABag(pq), NEW m, Copies(m, pq) = 0, NEW q, q = Insert(pq, m)
  PROVE  IsABag(q) /\ Copies(m, q) = 1 /\ \A k : k # m => Copies(k, q) = Copies(k, pq)
<1>1. /\ IsABag(Insert(pq, m)) /\ Copies(m, Insert(pq, m)) = Copies(m, pq) + 1
      /\ \A k : k # m => Copies(k, Insert(pq, m)) = Copies(k, pq)
  BY InsertCopies
<1> QED BY <1>1

LEMMA DeleteCopies ==
  ASSUME NEW pq, IsABag(pq), NEW m, BagIn(m, pq)
  PROVE  /\ IsABag(Delete(pq, m))
         /\ Copies(m, Delete(pq, m)) = Copies(m, pq) - 1
         /\ \A k : k # m => Copies(k, Delete(pq, m)) = Copies(k, pq)
<1>1. PICK b : b = Delete(pq, m)
  OBVIOUS
<1>2. PICK c : c = [e \in DOMAIN pq |-> IF e \in {m} THEN pq[e] - 1 ELSE pq[e]]
  OBVIOUS
<1>3. b = [e \in {x \in DOMAIN c : c[x] > 0} |-> c[e]]
  <2>1. DOMAIN SetToBag({m}) = {m} /\ SetToBag({m})[m] = 1
    BY DEF SetToBag
  <2>2. c = [e \in DOMAIN pq |-> IF e \in DOMAIN SetToBag({m}) THEN pq[e] - SetToBag({m})[e] ELSE pq[e]]
    BY <1>2, <2>1
  <2> QED BY <1>1, <2>2 DEF Delete, (-)
<1>4. \A e \in DOMAIN pq : pq[e] \in Nat /\ pq[e] > 0
  BY DEF IsABag
<1>5. DOMAIN c = DOMAIN pq /\ c[m] = pq[m] - 1 /\ \A e \in DOMAIN pq : e # m => c[e] = pq[e]
  BY <1>2 DEF BagIn, BagToSet
<1>6. \A e \in DOMAIN pq : c[e] \in Nat
  BY <1>4, <1>5 DEF BagIn, BagToSet
<1>7. DOMAIN b = {x \in DOMAIN pq : c[x] > 0} /\ \A e \in DOMAIN b : b[e] = c[e]
  BY <1>3, <1>5
<1>8. IsABag(b)
  BY <1>3, <1>6, <1>7 DEF IsABag
<1>9. Copies(m, b) = pq[m] - 1
  <2>1. m \in DOMAIN pq /\ pq[m] \in Nat /\ pq[m] > 0
    BY <1>4 DEF BagIn, BagToSet
  <2>2. CASE c[m] > 0
    BY <1>5, <1>7, <2>1, <2>2 DEF Copies, BagIn, BagToSet
  <2>3. CASE ~(c[m] > 0)
    BY <1>5, <1>7, <2>1, <2>3 DEF Copies, BagIn, BagToSet
  <2> QED BY <2>2, <2>3
<1>10. ASSUME NEW k, k # m PROVE Copies(k, b) = Copies(k, pq)
  BY <1>4, <1>5, <1>7, <1>10 DEF Copies, BagIn, BagToSet
<1> QED BY <1>1, <1>8, <1>9, <1>10 DEF Copies

LEMMA Deleted ==
  ASSUME NEW pq, IsABag(pq), NEW m, Copies(m, pq) = 1, NEW q, q = Delete(pq, m)
  PROVE  IsABag(q) /\ Copies(m, q) = 0 /\ \A k : k # m => Copies(k, q) = Copies(k, pq)
<1>1. BagIn(m, pq)
  BY DEF Copies
<1>2. /\ IsABag(Delete(pq, m)) /\ Copies(m, Delete(pq, m)) = Copies(m, pq) - 1
      /\ \A k : k # m => Copies(k, Delete(pq, m)) = Copies(k, pq)
  BY <1>1, DeleteCopies
<1> QED BY <1>2

(* The number of copies tells whether there is one.                          *)
LEMMA CopiesNat ==
  ASSUME NEW pq, IsABag(pq), NEW m
  PROVE  Copies(m, pq) \in Nat /\ (Copies(m, pq) > 0 <=> BagIn(m, pq))
BY DEF IsABag, Copies, BagIn, BagToSet

(* All that Owners() adds up.                                                *)
LEMMA Terms ==
  ASSUME JobsAssumption, TablesRight, NEW m \in Msgs
  PROVE  /\ Copies(m, pqchan) \in Nat /\ Copies(m, pqdone) \in Nat /\ Copies(m, pqfail) = 0
         /\ Copies(m, pqchan) > 0 <=> BagIn(m, pqchan)
         /\ Copies(m, pqdone) > 0 <=> BagIn(m, pqdone)
         /\ IsFiniteSet(Workers(m)) /\ Cardinality(Workers(m)) \in Nat
         /\ (Cardinality(Workers(m)) = 0 <=> Workers(m) = {})
         /\ Owners(m) = Copies(m, pqchan) + Copies(m, pqdone) + Cardinality(Workers(m))
                        + (IF m \in todo \cup unseen THEN 1 ELSE 0)
<1>1. Copies(m, pqfail) = 0
  BY DEF TablesRight, Copies, BagIn
<1>2. IsFiniteSet(Workers(m)) /\ Cardinality(Workers(m)) \in Nat /\ (Cardinality(Workers(m)) = 0 <=> Workers(m) = {})
  <2>1. IsFiniteSet(Jobs) /\ Workers(m) \in SUBSET Jobs
    <3>1. 0 \in Int /\ NJobs - 1 \in Int
      BY DEF JobsAssumption
    <3> QED BY <3>1, FS_Interval DEF Jobs, Workers
  <2>2. IsFiniteSet(Workers(m))
    BY <2>1, FS_Subset
  <2> QED BY <2>2, FS_CardinalityType, FS_EmptySet
<1>3. PICK a \in Nat, b \in Nat, c \in Nat :
        a = Copies(m, pqchan) /\ b = Copies(m, pqdone) /\ c = Cardinality(Workers(m))
  BY <1>2, CopiesNat DEF TablesRight
<1>4. Owners(m) = a + 0 + b + c + (IF m \in todo THEN 1 ELSE 0) + (IF m \in unseen \ todo THEN 1 ELSE 0)
  BY <1>1, <1>3 DEF Owners, Workers
<1>5. Owners(m) = a + b + c + (IF m \in todo \cup unseen THEN 1 ELSE 0)
  BY <1>4
<1> QED BY <1>1, <1>2, <1>3, <1>5, CopiesNat DEF TablesRight

LEMMA NewOwners ==
  ASSUME NEW m, NEW a \in Nat, NEW b \in Nat, NEW c \in Nat, NEW u \in Nat,
         Copies(m, pqchan') = a, Copies(m, pqdone') = b, Copies(m, pqfail') = 0,
         Cardinality(Workers(m)') = c,
         u = IF m \in todo' \cup unseen' THEN 1 ELSE 0
  PROVE  Owners(m)' = a + b + c + u
<1>1. Owners(m)' = a + 0 + b + c + (IF m \in todo' THEN 1 ELSE 0) + (IF m \in unseen' \ todo' THEN 1 ELSE 0)
  BY DEF Owners, Workers
<1> QED BY <1>1

(* A step moves one message; the others stay where they are.                 *)
LEMMA OneMoves ==
  ASSUME OnePlace, NEW m \in Msgs,
         \A k \in Msgs \ {m} :
           /\ Copies(k, pqchan') = Copies(k, pqchan) /\ Copies(k, pqfail') = Copies(k, pqfail)
           /\ Copies(k, pqdone') = Copies(k, pqdone) /\ Workers(k)' = Workers(k)
           /\ (k \in todo' <=> k \in todo) /\ (k \in unseen' <=> k \in unseen)
           /\ (HasFile(k)' <=> HasFile(k)),
         Owners(m)' = 1 \/ (~HasFile(m)' /\ Owners(m)' = 0)
  PROVE  OnePlace'
<1>1. ASSUME NEW k \in Msgs \ {m} PROVE Owners(k)' = Owners(k)
  BY DEF Owners, Workers
<1> QED BY <1>1 DEF OnePlace

(* Steps that leave the queues and the users of files alone.                 *)
LEMMA PlacesStay ==
  ASSUME PlaceInv, JobsInv', UNCHANGED <<todo, file, pqchan, pqfail, pqdone, unseen>>,
         \A j \in Jobs : (Busy(j)' <=> Busy(j)) /\ jo'[j].id = jo[j].id
  PROVE  PlaceInv'
<1> USE DEF PlaceInv
<1>1. \A m : Workers(m)' = Workers(m)
  BY DEF Workers, Busy
<1>2. OnePlace'
  BY <1>1 DEF OnePlace, Owners, Workers, HasFile
<1>3. QueueLegend' /\ TablesRight'
  BY DEF QueueLegend, TablesRight, HasFile, BagIn
<1> QED BY <1>2, <1>3

(* pqadd() puts a message that nobody has into one queue.                    *)
LEMMA PlacePqStart ==
  ASSUME JobsAssumption, ~StatFails, PlaceInv, JobsInv', NEW m \in Msgs, PqStart(m)
  PROVE  PlaceInv'
<1> USE DEF PlaceInv, PqStart
<1>1. PICK a \in Nat, b \in Nat, c \in Nat :
        /\ a = Copies(m, pqchan) /\ b = Copies(m, pqdone) /\ c = Cardinality(Workers(m))
        /\ Owners(m) = a + b + c + 1
  BY Terms
<1>2. \A k : Workers(k)' = Workers(k) /\ (HasFile(k)' <=> HasFile(k))
  BY DEF Workers, HasFile
<1>3. a = 0 /\ b = 0 /\ c = 0
  BY <1>1 DEF OnePlace
<1>4. IsABag(pqchan) /\ IsABag(pqdone) /\ \A k \in Msgs : Copies(k, pqfail) = 0
  BY Terms DEF TablesRight
<1>5. CASE m \in todo /\ UNCHANGED <<pqchan, pqdone, pqfail>>
  <2>1. Owners(m)' = 0 + 0 + 0 + 1
    <3>1. /\ Copies(m, pqchan') = 0 /\ Copies(m, pqdone') = 0 /\ Copies(m, pqfail') = 0
          /\ Cardinality(Workers(m)') = 0 /\ m \in todo' \cup unseen'
      BY <1>1, <1>2, <1>3, <1>4, <1>5
    <3> QED BY <3>1, NewOwners
  <2>2. OnePlace'
    BY <1>2, <1>5, <2>1, OneMoves
  <2>3. QueueLegend' /\ TablesRight'
    BY <1>5 DEF QueueLegend, TablesRight, HasFile, BagIn, Busy
  <2> QED BY <2>2, <2>3
<1>6. CASE m \notin todo /\ HasFile(m) /\ pqchan' = Insert(pqchan, m) /\ UNCHANGED <<pqdone, pqfail>>
  <2>1. /\ IsABag(pqchan') /\ Copies(m, pqchan') = 1
        /\ \A k : k # m => Copies(k, pqchan') = Copies(k, pqchan)
    <3>1. Copies(m, pqchan) = 0
      BY <1>1, <1>3
    <3> QED BY <1>4, <1>6, <3>1, Inserted
  <2>2. Owners(m)' = 1 + 0 + 0 + 0
    <3>1. /\ Copies(m, pqchan') = 1 /\ Copies(m, pqdone') = 0 /\ Copies(m, pqfail') = 0
          /\ Cardinality(Workers(m)') = 0 /\ m \notin todo' \cup unseen'
      BY <1>1, <1>2, <1>3, <1>4, <1>6, <2>1
    <3> QED BY <3>1, NewOwners
  <2>3. OnePlace'
    BY <1>2, <1>6, <2>1, <2>2, OneMoves
  <2>4. BagToSet(pqchan') = BagToSet(pqchan) \cup {m}
    BY <1>6, Bagged
  <2>5. QueueLegend' /\ TablesRight'
    BY <1>6, <2>1, <2>4 DEF QueueLegend, TablesRight, HasFile, BagIn, Busy
  <2> QED BY <2>3, <2>5
<1>7. CASE m \notin todo /\ ~HasFile(m) /\ pqdone' = Insert(pqdone, m) /\ UNCHANGED <<pqchan, pqfail>>
  <2>1. /\ IsABag(pqdone') /\ Copies(m, pqdone') = 1
        /\ \A k : k # m => Copies(k, pqdone') = Copies(k, pqdone)
    <3>1. Copies(m, pqdone) = 0
      BY <1>1, <1>3
    <3> QED BY <1>4, <1>7, <3>1, Inserted
  <2>2. Owners(m)' = 0 + 1 + 0 + 0
    <3>1. /\ Copies(m, pqchan') = 0 /\ Copies(m, pqdone') = 1 /\ Copies(m, pqfail') = 0
          /\ Cardinality(Workers(m)') = 0 /\ m \notin todo' \cup unseen'
      BY <1>1, <1>2, <1>3, <1>4, <1>7, <2>1
    <3> QED BY <3>1, NewOwners
  <2>3. OnePlace'
    BY <1>2, <1>7, <2>1, <2>2, OneMoves
  <2>4. BagToSet(pqdone') = BagToSet(pqdone) \cup {m}
    BY <1>7, Bagged
  <2>5. QueueLegend' /\ TablesRight'
    BY <1>7, <2>1, <2>4 DEF QueueLegend, TablesRight, HasFile, BagIn, Busy
  <2> QED BY <2>3, <2>5
<1> QED BY <1>5, <1>6, <1>7 DEF PqAdd

LEMMA PlaceTodoDel ==
  ASSUME JobsAssumption, PlaceInv, JobsInv', NEW m \in Msgs, TodoDel(m)
  PROVE  PlaceInv'
<1> USE DEF PlaceInv, TodoDel
<1>1. PICK a \in Nat, b \in Nat, c \in Nat :
        /\ a = Copies(m, pqchan) /\ b = Copies(m, pqdone) /\ c = Cardinality(Workers(m))
        /\ Owners(m) = a + b + c + 1
        /\ (b > 0 <=> BagIn(m, pqdone)) /\ (c = 0 <=> Workers(m) = {})
  BY Terms
<1>2. a = 0 /\ b = 0 /\ c = 0 /\ ~BagIn(m, pqdone) /\ Workers(m) = {}
  BY <1>1 DEF OnePlace
<1>3. IsABag(pqchan) /\ IsABag(pqdone) /\ \A k \in Msgs : Copies(k, pqfail) = 0
  BY Terms DEF TablesRight
<1>4. \A k : Workers(k)' = Workers(k)
  BY DEF Workers
<1>5. HasFile(m)' /\ \A k \in Msgs : k # m => (HasFile(k)' <=> HasFile(k))
  BY FileThere DEF HasFile, JobsInv, TypeOK
<1>6. /\ IsABag(pqchan') /\ Copies(m, pqchan') = 1
      /\ \A k : k # m => Copies(k, pqchan') = Copies(k, pqchan)
  <2>1. Copies(m, pqchan) = 0 /\ pqchan' = Insert(pqchan, m)
    BY <1>1, <1>2
  <2> QED BY <1>3, <2>1, Inserted
<1>7. Owners(m)' = 1 + 0 + 0 + 0
  <2>1. /\ Copies(m, pqchan') = 1 /\ Copies(m, pqdone') = 0 /\ Copies(m, pqfail') = 0
        /\ Cardinality(Workers(m)') = 0 /\ m \notin todo' \cup unseen'
    BY <1>1, <1>2, <1>3, <1>4, <1>6
  <2> QED BY <2>1, NewOwners
<1>8. OnePlace'
  BY <1>4, <1>5, <1>6, <1>7, OneMoves
<1>9. BagToSet(pqchan') = BagToSet(pqchan) \cup {m}
  BY Bagged
<1>10. QueueLegend'
  <2>1. BagToSet(pqchan) \subseteq Msgs
    BY DEF JobsInv, TypeOK
  <2> QED BY <1>5, <1>9, <2>1 DEF QueueLegend
<1>11. TablesRight'
  <2>1. \A k \in Msgs : BagIn(k, pqdone') => ~HasFile(k)'
    BY <1>2, <1>5 DEF TablesRight
  <2>2. \A j \in Jobs : Busy(j) => jo[j].id \in Msgs \ {m}
    BY <1>2 DEF Workers, Busy, JobsInv, Preprocessed
  <2> QED BY <1>3, <1>5, <1>6, <2>1, <2>2 DEF TablesRight, Busy
<1> QED BY <1>8, <1>10, <1>11

(* messdone() takes the last entry of a message that has no file left.       *)
LEMMA PlaceMessDone ==
  ASSUME JobsAssumption, PlaceInv, JobsInv', NEW m \in Msgs, MessDone(m)
  PROVE  PlaceInv'
<1> USE DEF PlaceInv, MessDone
<1>1. PICK a \in Nat, b \in Nat, c \in Nat, u \in Nat :
        /\ a = Copies(m, pqchan) /\ b = Copies(m, pqdone) /\ c = Cardinality(Workers(m))
        /\ u = (IF m \in todo \cup unseen THEN 1 ELSE 0)
        /\ Owners(m) = a + b + c + u /\ b > 0
  BY Terms
<1>2. a = 0 /\ b = 1 /\ c = 0 /\ u = 0 /\ ~HasFile(m)
  BY <1>1 DEF OnePlace, TablesRight
<1>3. IsABag(pqchan) /\ IsABag(pqdone) /\ \A k \in Msgs : Copies(k, pqfail) = 0
  BY Terms DEF TablesRight
<1>4. \A k : Workers(k)' = Workers(k) /\ (HasFile(k)' <=> HasFile(k))
  BY DEF Workers, HasFile
<1>5. /\ IsABag(pqdone') /\ Copies(m, pqdone') = 0
      /\ \A k : k # m => Copies(k, pqdone') = Copies(k, pqdone)
  <2>1. Copies(m, pqdone) = 1 /\ pqdone' = Delete(pqdone, m)
    BY <1>1, <1>2
  <2> QED BY <1>3, <2>1, Deleted
<1>6. Owners(m)' = 0 + 0 + 0 + 0
  <2>1. /\ Copies(m, pqchan') = 0 /\ Copies(m, pqdone') = 0 /\ Copies(m, pqfail') = 0
        /\ Cardinality(Workers(m)') = 0 /\ m \notin todo' \cup unseen'
    <3>1. m \notin todo \cup unseen
      BY <1>1, <1>2
    <3> QED BY <1>1, <1>2, <1>3, <1>4, <1>5, <3>1
  <2> QED BY <2>1, NewOwners
<1>7. OnePlace'
  BY <1>2, <1>4, <1>5, <1>6, OneMoves
<1>8. BagToSet(pqdone') \subseteq BagToSet(pqdone)
  BY Bagged
<1>9. QueueLegend' /\ TablesRight'
  BY <1>5, <1>8 DEF QueueLegend, TablesRight, HasFile, BagIn, Busy
<1> QED BY <1>7, <1>9

(* job_open(): from pqchan to a job that nobody has.                         *)
LEMMA PlaceOpenPass ==
  ASSUME JobsAssumption, PlaceInv, JobsInv', NEW m \in Msgs, OpenPass(m)
  PROVE  PlaceInv'
<1> USE DEF PlaceInv, OpenPass
<1>1. PICK j \in Jobs :
        /\ jo[j].refs = 0
        /\ jo' = [jo EXCEPT ![j] = [refs |-> 1, id |-> m, numtodo |-> 0, hiteof |-> FALSE]]
  <2>1. NJobs - 1 \in Nat /\ FreeJobs \in SUBSET (0 .. NJobs - 1) /\ FreeJobs # {}
    BY DEF JobsAssumption, FreeJobs, Jobs
  <2>2. First(FreeJobs) \in FreeJobs
    BY <2>1, Least
  <2> QED BY <2>2 DEF FreeJobs
<1>2. /\ \A k \in Jobs : k # j => jo'[k] = jo[k]
      /\ jo'[j] = [refs |-> 1, id |-> m, numtodo |-> 0, hiteof |-> FALSE]
  BY <1>1 DEF JobsInv, TypeOK
<1>3. PICK a \in Nat, b \in Nat, c \in Nat, u \in Nat :
        /\ a = Copies(m, pqchan) /\ b = Copies(m, pqdone) /\ c = Cardinality(Workers(m))
        /\ u = (IF m \in todo \cup unseen THEN 1 ELSE 0)
        /\ Owners(m) = a + b + c + u /\ a > 0
  BY Terms
<1>4. a = 1 /\ b = 0 /\ c = 0 /\ u = 0
  BY <1>3 DEF OnePlace
<1>5. IsABag(pqchan) /\ IsABag(pqdone) /\ \A k \in Msgs : Copies(k, pqfail) = 0
  BY Terms DEF TablesRight
<1>6. \A k \in Msgs : k # m => Workers(k)' = Workers(k)
  BY <1>1, <1>2 DEF Workers
<1>7. Cardinality(Workers(m)') = 1
  <2>1. Workers(m) = {}
    BY <1>3, <1>4, Terms
  <2>2. Workers(m)' = {j}
    BY <1>2, <2>1 DEF Workers
  <2> QED BY <2>2, FS_Singleton
<1>8. /\ IsABag(pqchan') /\ Copies(m, pqchan') = 0
      /\ \A k : k # m => Copies(k, pqchan') = Copies(k, pqchan)
  <2>1. Copies(m, pqchan) = 1 /\ pqchan' = Delete(pqchan, m)
    BY <1>3, <1>4
  <2> QED BY <1>5, <2>1, Deleted
<1>9. Owners(m)' = 0 + 0 + 1 + 0
  <2>1. /\ Copies(m, pqchan') = 0 /\ Copies(m, pqdone') = 0 /\ Copies(m, pqfail') = 0
        /\ Cardinality(Workers(m)') = 1 /\ m \notin todo' \cup unseen'
    BY <1>3, <1>4, <1>5, <1>7, <1>8
  <2> QED BY <2>1, NewOwners
<1>10. \A k : HasFile(k)' <=> HasFile(k)
  BY DEF HasFile
<1>11. OnePlace'
  BY <1>6, <1>8, <1>9, <1>10, OneMoves
<1>12. BagToSet(pqchan') \subseteq BagToSet(pqchan)
  BY Bagged
<1>13. QueueLegend' /\ TablesRight'
  BY <1>1, <1>2, <1>8, <1>10, <1>12 DEF QueueLegend, TablesRight, BagIn, Busy
<1> QED BY <1>11, <1>13

(* job_close(): the last reference puts the message back into pqchan, or into *)
(* pqdone without its file.                                                  *)
LEMMA PlaceClose ==
  ASSUME JobsAssumption, PlaceInv, JobsInv',
         NEW j \in Jobs, Busy(j), NEW job \in JobType, job.refs = jo[j].refs, job.id = jo[j].id,
         NEW jobs, jobs = [jo EXCEPT ![j] = job], NEW f \in FileType, JobClose(j, jobs, f),
         \A m \in Msgs : f[m] = <<>> <=> file[m] = <<>>,
         UNCHANGED <<todo, pqfail, alive, unseen>>
  PROVE  PlaceInv'
<1> USE DEF PlaceInv
<1>1. PICK m : m = jo[j].id
  OBVIOUS
<1>2. m \in Msgs \ todo /\ jo \in [Jobs -> JobType] /\ job.refs \in Nat /\ job.refs >= 1 /\ HasFile(m)
  BY <1>1 DEF JobsInv, TypeOK, JobType, Preprocessed, Busy, TablesRight
<1>3. jobs[j] = job /\ jobs[j].refs = jo[j].refs /\ jobs[j].id = m
  BY <1>1, <1>2
<1>4. /\ jo'[j] = [refs |-> job.refs - 1, id |-> job.id, numtodo |-> job.numtodo, hiteof |-> job.hiteof]
      /\ \A k \in Jobs : k # j => jo'[k] = jo[k]
  BY <1>1, <1>2, Closes
<1>5. \A k \in Jobs : jo'[k].id = jo[k].id
  BY <1>4
<1>6. \A k \in Msgs : f[k] # <<>> <=> HasFile(k)
  BY DEF HasFile
<1>7. CASE job.refs > 1
  <2>1. file' = f /\ UNCHANGED <<pqchan, pqdone>>
    BY <1>3, <1>7 DEF JobClose
  <2>2. \A k \in Jobs : Busy(k)' <=> Busy(k)
    BY <1>2, <1>4, <1>7 DEF Busy
  <2>3. \A k \in Msgs : Workers(k)' = Workers(k) /\ (HasFile(k)' <=> HasFile(k))
    BY <1>5, <1>6, <2>1, <2>2 DEF Workers, Busy, HasFile
  <2>4. OnePlace'
    <3>1. \A k \in Msgs : Owners(k)' = Owners(k)
      BY <2>1, <2>3 DEF Owners, Workers
    <3> QED BY <2>3, <3>1 DEF OnePlace
  <2>5. \A k \in Jobs : Busy(k) => jo[k].id \in Msgs
    BY DEF JobsInv, Preprocessed
  <2>6. QueueLegend' /\ TablesRight'
    <3>1. BagToSet(pqchan) \subseteq Msgs
      BY DEF JobsInv, TypeOK
    <3> QED BY <1>5, <2>1, <2>2, <2>3, <2>5, <3>1 DEF QueueLegend, TablesRight, BagIn
  <2> QED BY <2>4, <2>6
(* The last reference. *)
<1>8. PICK a, b, c, u :
        /\ a = Copies(m, pqchan) /\ b = Copies(m, pqdone) /\ c = Cardinality(Workers(m))
        /\ u = IF m \in todo \cup unseen THEN 1 ELSE 0
  OBVIOUS
<1>8a. /\ a \in Nat /\ b \in Nat /\ c \in Nat /\ u \in Nat /\ Owners(m) = a + b + c + u
       /\ (c = 0 <=> Workers(m) = {})
  <2>1. /\ Copies(m, pqchan) \in Nat /\ Copies(m, pqdone) \in Nat /\ Cardinality(Workers(m)) \in Nat
        /\ (Cardinality(Workers(m)) = 0 <=> Workers(m) = {})
        /\ Owners(m) = Copies(m, pqchan) + Copies(m, pqdone) + Cardinality(Workers(m))
                        + (IF m \in todo \cup unseen THEN 1 ELSE 0)
    BY <1>2, Terms
  <2> QED BY <1>8, <2>1
<1>9. j \in Workers(m)
  BY <1>1 DEF Workers, Busy
<1>10. a = 0 /\ b = 0 /\ c = 1 /\ u = 0 /\ Workers(m) = {j}
  <2>1. a = 0 /\ b = 0 /\ c = 1 /\ u = 0
    <3>1. Owners(m) = 1
      BY <1>2 DEF OnePlace
    <3>2. c > 0
      BY <1>9, <1>8a
    <3> QED BY <1>8a, <3>1, <3>2
  <2>2. IsFiniteSet(Workers(m)) /\ Cardinality(Workers(m)) = 1
    BY <1>2, <1>8, <2>1, Terms
  <2>3. Cardinality(Workers(m) \ {j}) = 0 /\ IsFiniteSet(Workers(m) \ {j})
    BY <1>9, <2>2, FS_RemoveElement
  <2>4. Workers(m) \ {j} = {}
    BY <2>3, FS_EmptySet
  <2> QED BY <1>9, <2>1, <2>4
<1>11. IsABag(pqchan) /\ IsABag(pqdone) /\ (\A k \in Msgs : Copies(k, pqfail) = 0)
       /\ Copies(m, pqchan) = 0 /\ Copies(m, pqdone) = 0 /\ m \notin todo' \cup unseen'
  BY <1>8, <1>10, Terms DEF TablesRight
<1>12. CASE job.refs = 1
  <2>1. \A k \in Msgs : /\ k # m => Workers(k)' = Workers(k)
                        /\ k = m => Workers(k)' = {}
    BY <1>1, <1>4, <1>5, <1>10, <1>12 DEF Workers
  <2>2. Cardinality(Workers(m)') = 0
    BY <1>2, <2>1, FS_EmptySet
  <2>3. \A k \in Jobs : Busy(k)' => jo'[k].id \in Msgs /\ jo'[k].id # m /\ Busy(k)
    <3>1. \A k \in Jobs : Busy(k)' => jo'[k].id \in Msgs /\ k # j
      BY <1>4, <1>12 DEF JobsInv, Preprocessed, Busy
    <3>2. \A k \in Jobs : k # j /\ Busy(k) => jo[k].id # m
      BY <1>10 DEF Workers, Busy
    <3> QED BY <1>4, <3>1, <3>2 DEF Busy
  <2>4. CASE file' = f /\ pqchan' = Insert(pqchan, m) /\ UNCHANGED pqdone
    <3>1. /\ IsABag(pqchan') /\ Copies(m, pqchan') = 1
          /\ \A k : k # m => Copies(k, pqchan') = Copies(k, pqchan)
      BY <1>11, <2>4, Inserted
    <3>2. \A k \in Msgs : HasFile(k)' <=> HasFile(k)
      BY <1>6, <2>4 DEF HasFile
    <3>3. Owners(m)' = 1 + 0 + 0 + 0
      <4>1. Copies(m, pqfail') = 0 /\ Copies(m, pqdone') = 0
        BY <1>2, <1>11, <2>4
      <4> QED BY <1>11, <2>2, <3>1, <4>1, NewOwners
    <3>4. OnePlace'
      <4>1. Owners(m)' = 1
        BY <3>3
      <4> QED BY <1>2, <2>1, <2>4, <3>1, <3>2, <4>1, OneMoves
    <3>5. BagToSet(pqchan') = BagToSet(pqchan) \cup {m}
      BY <2>4, Bagged
    <3>6. BagToSet(pqchan) \subseteq Msgs
      BY DEF JobsInv, TypeOK
    <3>7. QueueLegend' /\ TablesRight'
      BY <1>2, <1>5, <2>3, <2>4, <3>1, <3>2, <3>5, <3>6 DEF QueueLegend, TablesRight, BagIn
    <3> QED BY <3>4, <3>7
  <2>5. CASE file' = [f EXCEPT ![m] = <<>>] /\ pqdone' = Insert(pqdone, m) /\ UNCHANGED pqchan
    <3>1. /\ IsABag(pqdone') /\ Copies(m, pqdone') = 1
          /\ \A k : k # m => Copies(k, pqdone') = Copies(k, pqdone)
      BY <1>11, <2>5, Inserted
    <3>2. ~HasFile(m)' /\ \A k \in Msgs : k # m => (HasFile(k)' <=> HasFile(k))
      BY <1>2, <1>6, <2>5 DEF HasFile, FileType
    <3>3. Owners(m)' = 0 + 1 + 0 + 0
      <4>1. Copies(m, pqfail') = 0 /\ Copies(m, pqchan') = 0
        BY <1>2, <1>11, <2>5
      <4> QED BY <1>11, <2>2, <3>1, <4>1, NewOwners
    <3>4. OnePlace'
      <4>1. Owners(m)' = 1
        BY <3>3
      <4> QED BY <1>2, <2>1, <2>5, <3>1, <3>2, <4>1, OneMoves
    <3>5. BagToSet(pqdone') = BagToSet(pqdone) \cup {m}
      BY <2>5, Bagged
    <3>6. ~BagIn(m, pqchan) /\ BagToSet(pqchan) \subseteq Msgs
      BY <1>11, CopiesNat DEF JobsInv, TypeOK
    <3>7. QueueLegend' /\ TablesRight'
      BY <1>2, <1>5, <2>3, <2>5, <3>1, <3>2, <3>5, <3>6 DEF QueueLegend, TablesRight, BagIn
    <3> QED BY <3>4, <3>7
  <2> QED BY <1>3, <1>12, <2>4, <2>5 DEF JobClose
<1> QED BY <1>2, <1>7, <1>12

LEMMA PlacePasses ==
  ASSUME JobsAssumption, NoMsgAssumption, PlaceInv, JobsInv', ReadDone \/ ReadTodo \/ EndPass
  PROVE  PlaceInv'
<1>1. CASE ReadDone
  <2>1. UNCHANGED <<todo, file, pqchan, pqfail, pqdone, unseen, jo>>
    BY <1>1 DEF ReadDone
  <2> QED BY <2>1, PlacesStay DEF Busy
<1>2. pass.id # NoMsg
  BY <1>1 DEF ReadTodo, EndPass, ReadDone, Reading
<1>3. /\ pass.j \in Jobs /\ Busy(pass.j) /\ jo \in [Jobs -> JobType]
  BY <1>2, PassFacts DEF PlaceInv, JobsInv, TypeOK, JobType
<1>4. CASE ReadTodo
  <2>1. PICK j : j = pass.j
    OBVIOUS
  <2>2. j \in Jobs /\ Busy(j) /\ jo[j].refs \in Nat
    BY <1>3, <2>1 DEF JobType
  <2>3. /\ UNCHANGED <<todo, file, pqchan, pqfail, pqdone, unseen>>
        /\ \/ jo' = [jo EXCEPT ![j].numtodo = @ + 1]
           \/ jo' = [[jo EXCEPT ![j].numtodo = @ + 1] EXCEPT ![j].refs = @ + 1]
    BY <1>4, <2>1 DEF ReadTodo
  <2>4. \/ jo' = [jo EXCEPT ![j] = [refs |-> jo[j].refs, id |-> jo[j].id,
                                    numtodo |-> jo[j].numtodo + 1, hiteof |-> jo[j].hiteof]]
        \/ jo' = [jo EXCEPT ![j] = [refs |-> jo[j].refs + 1, id |-> jo[j].id,
                                    numtodo |-> jo[j].numtodo + 1, hiteof |-> jo[j].hiteof]]
    BY <1>3, <2>2, <2>3, Counted, CountedStarted
  <2>5. \A k \in Jobs : (Busy(k)' <=> Busy(k)) /\ jo'[k].id = jo[k].id
    BY <1>3, <2>2, <2>4 DEF Busy
  <2> QED BY <2>3, <2>5, PlacesStay
<1>5. CASE EndPass
  <2>1. PICK j, f : j = pass.j /\ f = file
    OBVIOUS
  <2>2. PICK job, jobs :
          /\ jobs = [jo EXCEPT ![j] = job] /\ job \in JobType
          /\ job.refs = jo[j].refs /\ job.id = jo[j].id
          /\ JobClose(j, jobs, f)
    BY <1>3, <1>5, <2>1, EndPassCloses
  <2>3. f \in FileType /\ \A m \in Msgs : f[m] = <<>> <=> file[m] = <<>>
    BY <2>1 DEF PlaceInv, JobsInv, TypeOK, FileType
  <2>4. UNCHANGED <<todo, pqfail, alive, unseen>>
    BY <1>5 DEF EndPass
  <2> QED BY <1>3, <2>1, <2>2, <2>3, <2>4, PlaceClose
<1> QED BY <1>1, <1>4, <1>5

LEMMA PlaceReports ==
  ASSUME JobsAssumption, NoMsgAssumption, PlaceInv, JobsInv',
         NEW i \in Slots, Success(i) \/ Deferral(i)
  PROVE  PlaceInv'
<1>1. PICK j, p, m : j = d[i].j /\ p = d[i].pos /\ m = jo[j].id
  OBVIOUS
<1>2. d[i].used /\ i \in Users(j) /\ j \in Jobs /\ UNCHANGED <<todo, pqfail, alive, unseen>>
  BY <1>1 DEF Success, Deferral, Users, PlaceInv, JobsInv, TypeOK
<1>3. Busy(j) /\ m \in Msgs /\ jo \in [Jobs -> JobType] /\ file \in FileType
  <2>1. Cardinality(Users(j)) # 0 /\ Cardinality(Users(j)) \in Nat
    BY <1>2, UsersFinite, FS_EmptySet
  <2>2. Busy(j)
    BY <1>2, <2>1 DEF Busy, PlaceInv, JobsInv, RefsExact
  <2> QED BY <1>1, <1>2, <2>2 DEF PlaceInv, JobsInv, Preprocessed, TypeOK, JobType, FileType
<1>4. CASE Deferral(i)
  <2>1. PICK job, jobs, f : job = jo[j] /\ jobs = jo /\ f = file
    OBVIOUS
  <2>2. JobClose(j, jobs, f) /\ jobs = [jo EXCEPT ![j] = job] /\ job \in JobType
        /\ job.refs = jo[j].refs /\ job.id = jo[j].id
        /\ f \in FileType /\ \A k \in Msgs : f[k] = <<>> <=> file[k] = <<>>
    BY <1>1, <1>2, <1>3, <1>4, <2>1 DEF Deferral
  <2> QED BY <1>2, <1>3, <2>2, PlaceClose
<1>5. CASE Success(i)
  <2>1. PICK f \in Marked(m, p) : JobClose(j, [jo EXCEPT ![j].numtodo = @ - 1], f)
    BY <1>1, <1>5 DEF Success
  <2>2. PICK S \in SUBSET Records : Counts(j, S)
    BY <1>2, <1>3 DEF PlaceInv, JobsInv, JobsCount
  <2>3. p \in S /\ p \in Records /\ IsFiniteSet(S) /\ Cardinality(S) = jo[j].numtodo
    BY <1>1, <1>2, <2>2, UsersFinite DEF Counts
  <2>4. jo[j].numtodo - 1 \in Nat
    <3>1. Cardinality(S) # 0 /\ Cardinality(S) \in Nat
      BY <2>3, FS_EmptySet, FS_CardinalityType
    <3> QED BY <2>3, <3>1
  <2>5. PICK job, jobs :
          /\ jobs = [jo EXCEPT ![j] = job] /\ job \in JobType
          /\ job.refs = jo[j].refs /\ job.id = jo[j].id
          /\ JobClose(j, jobs, f)
    BY <1>2, <1>3, <2>1, <2>4, SuccessCloses
  <2>6. f \in FileType /\ \A k \in Msgs : f[k] = <<>> <=> file[k] = <<>>
    BY <1>3, <2>3, MarkFacts
  <2> QED BY <1>2, <1>3, <2>5, <2>6, PlaceClose
<1> QED BY <1>4, <1>5

LEMMA InitPlace ==
  ASSUME JobsAssumption, NoMsgAssumption, Init PROVE PlaceInv
<1> USE DEF Init
<1>1. JobsInv
  BY InitJobs
<1>2. IsABag(EmptyBag) /\ BagToSet(EmptyBag) = {}
  BY DEF IsABag, EmptyBag, SetToBag, BagToSet
<1>3. TablesRight
  BY <1>2 DEF TablesRight, BagIn, Busy, NoJob
<1>4. ASSUME NEW m \in Msgs PROVE Owners(m) = 1
  <2>1. Copies(m, EmptyBag) = 0
    BY <1>2 DEF Copies, BagIn
  <2>2. Workers(m) = {}
    BY DEF Workers, NoJob
  <2>3. Cardinality(Workers(m)) = 0
    BY <2>2, FS_EmptySet
  <2>4. Owners(m) = 0 + 0 + 0 + 1
    BY <1>3, <2>1, <2>3, Terms
  <2> QED BY <2>4
<1>5. QueueLegend
  BY <1>2 DEF QueueLegend
<1> QED BY <1>1, <1>3, <1>4, <1>5 DEF PlaceInv, OnePlace

LEMMA StepPlace ==
  ASSUME JobsAssumption, NoMsgAssumption, ~StatFails, PlaceInv, [Next]_vars
  PROVE  PlaceInv'
<1>1. JobsInv'
  BY StepJobs DEF PlaceInv
<1>2. ASSUME NEW m \in Msgs, PqStart(m) \/ PqRetry(m) \/ TodoDel(m) \/ MessDone(m) \/ OpenPass(m)
      PROVE  PlaceInv'
  <2>1. ~PqRetry(m)
    BY DEF PqRetry, PlaceInv, TablesRight, BagIn
  <2> QED BY <1>1, <1>2, <2>1, PlacePqStart, PlaceTodoDel, PlaceMessDone, PlaceOpenPass
<1>3. CASE ReadDone \/ ReadTodo \/ EndPass
  BY <1>1, <1>3, PlacePasses
<1>4. ASSUME NEW i \in Slots, Success(i) \/ Deferral(i) PROVE PlaceInv'
  BY <1>1, <1>4, PlaceReports
<1>5. CASE SpawnDied \/ UNCHANGED vars
  <2>1. UNCHANGED <<todo, file, pqchan, pqfail, pqdone, unseen, jo>>
    BY <1>5 DEF SpawnDied, vars
  <2> QED BY <1>1, <2>1, PlacesStay DEF Busy
<1> QED BY <1>2, <1>3, <1>4, <1>5 DEF Next

-----------------------------------------------------------------------------
(* When stat() tells the truth, a message that is not finished is in exactly *)
(* one queue, job or report to come, whatever else fails: it is never        *)
(* forgotten and never in two passes.                                        *)
THEOREM AlwaysOnePlace ==
  ASSUME JobsAssumption, NoMsgAssumption, ~StatFails PROVE Spec => []OnePlace
<1>1. Init => PlaceInv
  BY InitPlace
<1>2. PlaceInv /\ [Next]_vars => PlaceInv'
  BY StepPlace
<1>3. PlaceInv => OnePlace
  BY DEF PlaceInv
<1> QED BY <1>1, <1>2, <1>3, PTL DEF Spec

(* "pqchan 0: -todo +info +local ?remote" (qmail-send.c:390).                *)
THEOREM AlwaysQueueLegend ==
  ASSUME JobsAssumption, NoMsgAssumption, ~StatFails PROVE Spec => []QueueLegend
<1>1. Init => PlaceInv
  BY InitPlace
<1>2. PlaceInv /\ [Next]_vars => PlaceInv'
  BY StepPlace
<1>3. PlaceInv => QueueLegend
  BY DEF PlaceInv
<1> QED BY <1>1, <1>2, <1>3, PTL DEF Spec
=============================================================================
