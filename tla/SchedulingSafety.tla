--------------------------- MODULE SchedulingSafety ---------------------------
(* The invariants of the daemons around the queue, for any number of them, of *)
(* messages, of slots and of kills: each from the inductive invariant of its  *)
(* component, taken to the part that runs. The trigger has no module of       *)
(* proofs: its own invariant is here.                                         *)
EXTENDS MCScheduling, FiniteSetTheorems, SequenceTheorems, TLAPS

-----------------------------------------------------------------------------
(* The loop of qmail-lspawn and qmail-rspawn: a report is about the delivery  *)
(* that has the slot, and tells how the child of that very delivery ended.    *)

Commands == 1 .. Len(cmds)
Told == 1 .. Len(reports)

(* A slot in use has a child that runs or was not forgotten; as long as the  *)
(* child was not waited for, the spawner holds the write end.                *)
SlotsTell(w) ==
  \A i \in SpawnSlots :
    /\ used[i] => del[i] \in Spawner(w)!Dels /\ child[i] # "none"
    /\ child[i] \in {"forked", "running", "zombie"} => used[i] /\ holdsown[i]

(* How a delivery ended is known when its child has ended, not before.       *)
TruthTells(w) ==
  /\ \A i \in SpawnSlots : used[i] =>
       /\ child[i] \in {"forked", "running"} => truth[del[i]] = Spawner(w)!Running
       /\ child[i] \in {"zombie", "reaped"} => truth[del[i]] \in w.endings
       /\ child[i] = "reaped" => wstat[i] = truth[del[i]]
  /\ \A k \in Commands : truth[cmds[k][2]] = Spawner(w)!Running
  /\ \A n \in Spawner(w)!Dels : n >= delid => truth[n] = Spawner(w)!Running

(* A delivery is in one command, or in one slot, or was reported.            *)
NumbersApart(w) ==
  /\ \A k \in Commands : cmds[k][2] < delid
  /\ \A k \in Told : reports[k][3] < delid
  /\ \A i \in SpawnSlots : used[i] => del[i] < delid
  /\ \A k, l \in Commands : cmds[k][2] = cmds[l][2] => k = l
  /\ \A i, j \in SpawnSlots : used[i] /\ used[j] /\ del[i] = del[j] => i = j
  /\ \A i \in SpawnSlots, k \in Commands : used[i] => del[i] # cmds[k][2]
  /\ \A k \in Told, l \in Commands : reports[k][3] # cmds[l][2]
  /\ \A k \in Told, i \in SpawnSlots : used[i] => reports[k][3] # del[i]

(* InOnePlace without counting.                                              *)
Place(w, i) ==
  /\ \A k \in Commands : cmds[k][1] = i =>
       /\ want[i] # 0 /\ ~used[i]
       /\ \A l \in Commands : cmds[l][1] = i => l = k
       /\ \A l \in Told : reports[l][1] # i
  /\ \A k \in Told : reports[k][1] = i =>
       /\ want[i] # 0 /\ ~used[i] /\ reports[k][3] = want[i]
       /\ \A l \in Told : reports[l][1] = i => l = k
  /\ used[i] => want[i] # 0 /\ del[i] = want[i]
  /\ want[i] # 0 =>
       \/ used[i]
       \/ \E k \in Commands : cmds[k][1] = i
       \/ \E k \in Told : reports[k][1] = i
  /\ \A k \in Commands : cmds[k][1] = i => cmds[k][2] = want[i]

Places(w) == client => \A i \in SpawnSlots : Place(w, i)

(* The inductive invariant.                                                  *)
SpawnInv(w) == Spawner(w)!TypeOK /\ SlotsTell(w) /\ TruthTells(w) /\ NumbersApart(w) /\ Spawner(w)!TrueReports /\ Places(w)

-----------------------------------------------------------------------------
(* The pipes *)

(* Reading a command moves the others one place forward.                     *)
LEMMA CommandTaken ==
  ASSUME NEW w, Spawner(w)!TypeOK, cmds # <<>>, cmds' = Tail(cmds)
  PROVE  /\ cmds' \in Seq(SpawnSlots \X Spawner(w)!Dels)
         /\ Head(cmds) = cmds[1] /\ 1 \in Commands
         /\ cmds[1][1] \in SpawnSlots /\ cmds[1][2] \in Spawner(w)!Dels
         /\ \A k \in Commands' : k + 1 \in Commands /\ cmds'[k] = cmds[k + 1]
         /\ \A k \in Commands : k # 1 => k - 1 \in Commands' /\ cmds'[k - 1] = cmds[k]
<1> DEFINE T == SpawnSlots \X Spawner(w)!Dels
<1>1. cmds \in Seq(T)
  BY DEF Spawner!TypeOK
<1> HIDE DEF T
<1>2. /\ Head(cmds) \in T /\ Tail(cmds) \in Seq(T) /\ Len(Tail(cmds)) = Len(cmds) - 1
      /\ \A i \in 1 .. Len(Tail(cmds)) : Tail(cmds)[i] = cmds[i + 1]
  BY <1>1, HeadTailProperties
<1>3. Len(cmds) \in Nat /\ Len(cmds) >= 1 /\ Head(cmds) = cmds[1]
  BY <1>1, EmptySeq, LenProperties, SMT
<1>4. cmds[1][1] \in SpawnSlots /\ cmds[1][2] \in Spawner(w)!Dels
  BY <1>2, <1>3 DEF T
<1> QED BY <1>2, <1>3, <1>4 DEF Commands, T

(* A report goes to the end of the pipe, if the client is there to read it.  *)
LEMMA ReportMade ==
  ASSUME NEW w, Spawner(w)!TypeOK, NEW i \in SpawnSlots, NEW v \in {"K", "Z", "D"}, NEW n \in Spawner(w)!Dels, Spawner(w)!Answer(i, v, n)
  PROVE  /\ reports' \in Seq(SpawnSlots \X {"K", "Z", "D"} \X Spawner(w)!Dels)
         /\ answers' \in [Spawner(w)!Dels -> Nat]
         /\ ~client => reports' = reports
         /\ client => /\ Len(reports') \in Told' /\ Len(reports') \notin Told
                      /\ Told' = Told \cup {Len(reports')}
                      /\ reports'[Len(reports')] = <<i, v, n>>
                      /\ \A k \in Told : reports'[k] = reports[k]
<1> DEFINE T == SpawnSlots \X {"K", "Z", "D"} \X Spawner(w)!Dels
<1>1. reports \in Seq(T) /\ <<i, v, n>> \in T
  BY DEF Spawner!TypeOK
<1> HIDE DEF T
<1>2. Len(reports) \in Nat
  BY <1>1, LenProperties
<1>3. CASE client
  <2>1. reports' = Append(reports, <<i, v, n>>)
    BY <1>3 DEF Spawner!Answer
  <2>2. /\ reports' \in Seq(T) /\ Len(reports') = Len(reports) + 1
        /\ \A k \in 1 .. Len(reports) : reports'[k] = reports[k]
        /\ reports'[Len(reports) + 1] = <<i, v, n>>
    BY <1>1, <2>1, AppendProperties
  <2>3. answers' \in [Spawner(w)!Dels -> Nat]
    BY DEF Spawner!Answer, Spawner!TypeOK
  <2> QED BY <1>2, <1>3, <2>2, <2>3 DEF Told, T
<1>4. CASE ~client
  <2>1. reports' = reports /\ answers' \in [Spawner(w)!Dels -> Nat]
    BY <1>4 DEF Spawner!Answer, Spawner!TypeOK
  <2> QED BY <1>1, <1>4, <2>1 DEF T
<1> QED BY <1>3, <1>4 DEF Spawner!TypeOK

(* The client reads the first report.                                        *)
LEMMA ReportTaken ==
  ASSUME NEW w, Spawner(w)!TypeOK, reports # <<>>, reports' = Tail(reports)
  PROVE  /\ reports' \in Seq(SpawnSlots \X {"K", "Z", "D"} \X Spawner(w)!Dels)
         /\ Head(reports) = reports[1] /\ 1 \in Told
         /\ reports[1][1] \in SpawnSlots
         /\ \A k \in Told' : k + 1 \in Told /\ reports'[k] = reports[k + 1]
         /\ \A k \in Told : k # 1 => k - 1 \in Told' /\ reports'[k - 1] = reports[k]
<1> DEFINE T == SpawnSlots \X {"K", "Z", "D"} \X Spawner(w)!Dels
<1>1. reports \in Seq(T)
  BY DEF Spawner!TypeOK
<1> HIDE DEF T
<1>2. /\ Head(reports) \in T /\ Tail(reports) \in Seq(T) /\ Len(Tail(reports)) = Len(reports) - 1
      /\ \A i \in 1 .. Len(Tail(reports)) : Tail(reports)[i] = reports[i + 1]
  BY <1>1, HeadTailProperties
<1>3. Len(reports) \in Nat /\ Len(reports) >= 1 /\ Head(reports) = reports[1]
  BY <1>1, EmptySeq, LenProperties, SMT
<1>4. reports[1][1] \in SpawnSlots
  BY <1>2, <1>3 DEF T
<1> QED BY <1>2, <1>3, <1>4 DEF Told, T

(* What the elements of the pipes are.                                       *)
LEMMA PipeTypes ==
  ASSUME NEW w, Spawner(w)!TypeOK
  PROVE  /\ Len(cmds) \in Nat /\ Len(reports) \in Nat
         /\ \A k \in Commands : cmds[k][1] \in SpawnSlots /\ cmds[k][2] \in Spawner(w)!Dels
         /\ \A k \in Told : reports[k][1] \in SpawnSlots /\ reports[k][2] \in {"K", "Z", "D"} /\ reports[k][3] \in Spawner(w)!Dels
<1>1. \A k \in Commands : cmds[k] \in SpawnSlots \X Spawner(w)!Dels
  BY ElementOfSeq DEF Spawner!TypeOK, Commands
<1>2. \A k \in Told : reports[k] \in SpawnSlots \X {"K", "Z", "D"} \X Spawner(w)!Dels
  BY ElementOfSeq DEF Spawner!TypeOK, Told
<1> QED BY <1>1, <1>2, LenProperties DEF Spawner!TypeOK

(* A verdict is K exactly when the message was handed over.                  *)
LEMMA VerdictTells ==
  ASSUME NEW w, Spawner(w)!SpawnAssumption, NEW e \in w.endings
  PROVE  /\ Spawner(w)!Verdict(e, e.out) \in {"K", "Z", "D"}
         /\ Spawner(w)!Verdict(e, e.out) = "K" <=>
              ~e.crashed /\ e.code = 0 /\ (w.service = "remote" => e.out = "rK")
         /\ e # Spawner(w)!Running
<1>1. e.crashed \in BOOLEAN /\ e.code \in Nat /\ e # Spawner(w)!Running
  BY DEF Spawner!SpawnAssumption
<1>2. CASE w.service = "local"
  <2>1. Spawner(w)!Verdict(e, e.out) = Spawner(w)!LocalVerdict(e)
    BY <1>2 DEF Spawner!Verdict
  <2> QED BY <1>1, <1>2, <2>1 DEF Spawner!LocalVerdict
<1>3. CASE w.service = "remote"
  <2>1. Spawner(w)!Verdict(e, e.out) = Spawner(w)!RemoteVerdict(e, e.out)
    BY <1>3 DEF Spawner!Verdict
  <2> DEFINE c == e.crashed
             n == e.code
             o == e.out
  <2>2. /\ c \in BOOLEAN /\ n \in Nat
        /\ Spawner(w)!RemoteVerdict(e, o) =
             CASE c \/ n = 111 \/ (n = 0 /\ o = "") -> "Z"
               [] ~c /\ n = 0 /\ o = "rK" -> "K"
               [] ~c /\ n = 0 /\ o \in {"rZ", "s", "sK", "sZ", "sD", "Z"} -> "Z"
               [] OTHER -> "D"
    BY <1>1 DEF Spawner!RemoteVerdict
  <2> HIDE DEF c, n, o
  <2>3. Spawner(w)!RemoteVerdict(e, o) \in {"K", "Z", "D"} /\ (Spawner(w)!RemoteVerdict(e, o) = "K" <=> ~c /\ n = 0 /\ o = "rK")
    <3>1. CASE c \/ n = 111 \/ (n = 0 /\ o = "")
      <4>1. CASE c
        BY <2>2, <4>1
      <4>2. CASE n = 111
        BY <2>2, <4>2
      <4>3. CASE n = 0 /\ o = ""
        BY <2>2, <4>3
      <4> QED BY <3>1, <4>1, <4>2, <4>3
    <3>2. CASE ~(c \/ n = 111 \/ (n = 0 /\ o = "")) /\ n = 0 /\ o = "rK"
      BY <2>2, <3>2
    <3>3. CASE ~(c \/ n = 111 \/ (n = 0 /\ o = "")) /\ ~(n = 0 /\ o = "rK")
      BY <2>2, <3>3
    <3> QED BY <3>1, <3>2, <3>3
  <2> QED BY <1>1, <1>3, <2>1, <2>3 DEF c, n, o
<1> QED BY <1>2, <1>3 DEF Spawner!SpawnAssumption

-----------------------------------------------------------------------------
(* The inductive invariant *)

LEMMA InitSpawn == ASSUME NEW w, Spawner(w)!SpawnAssumption, Spawner(w)!Init PROVE SpawnInv(w)
<1> USE DEF Spawner!Init
<1>1. Len(cmds) = 0 /\ Len(reports) = 0 /\ Commands = {} /\ Told = {}
  BY EmptySeq DEF Commands, Told
<1>2. Spawner(w)!TypeOK
  <2>1. cmds \in Seq(SpawnSlots \X Spawner(w)!Dels) /\ reports \in Seq(SpawnSlots \X {"K", "Z", "D"} \X Spawner(w)!Dels)
    BY EmptySeq
  <2>2. delid \in 1 .. Deliveries + 1
    BY DEF Spawner!SpawnAssumption
  <2> QED BY <2>1, <2>2 DEF Spawner!TypeOK
<1>3. SlotsTell(w) /\ TruthTells(w) /\ NumbersApart(w) /\ Places(w)
  BY <1>1 DEF SlotsTell, TruthTells, NumbersApart, Places, Place
<1>4. Spawner(w)!TrueReports
  BY <1>1 DEF Spawner!TrueReports, Told
<1> QED BY <1>2, <1>3, <1>4 DEF SpawnInv

(* What a step keeps that changes nothing but children and write ends, and   *)
(* how deliveries ended.                                                     *)
LEMMA PlacesKeep ==
  ASSUME NEW w, SpawnInv(w), UNCHANGED <<want, delid, cmds, reports, used, del>>, client' = client \/ ~client'
  PROVE  NumbersApart(w)' /\ Places(w)'
<1>1. NumbersApart(w)'
  BY DEF SpawnInv, NumbersApart, Commands, Told
<1>2. Places(w)'
  <2>1. ASSUME client' PROVE client /\ client'
    BY <2>1
  <2> QED BY <2>1 DEF SpawnInv, Places, Place, Commands, Told
<1> QED BY <1>1, <1>2

(* Reports stay true when no other delivery is about to end.                 *)
LEMMA ReportsKeep ==
  ASSUME NEW w, SpawnInv(w), reports' = reports, \A k \in Told : truth'[reports[k][3]] = truth[reports[k][3]]
  PROVE  Spawner(w)!TrueReports'
BY DEF SpawnInv, Spawner!TrueReports, Told, Spawner!Delivered, Spawner!Started

LEMMA StepAsk ==
  ASSUME NEW w, Spawner(w)!SpawnAssumption, SpawnInv(w), NEW i \in SpawnSlots, Spawner(w)!Ask(i)
  PROVE  SpawnInv(w)'
<1> SUFFICES ASSUME Spawner(w)!TypeOK, SlotsTell(w), TruthTells(w), NumbersApart(w), Spawner(w)!TrueReports, Places(w)
PROVE  SpawnInv(w)'
  BY DEF SpawnInv
<1>1. /\ client /\ delid \in Spawner(w)!Dels /\ want[i] = 0
      /\ want' = [want EXCEPT ![i] = delid] /\ delid' = delid + 1
      /\ cmds' = Append(cmds, <<i, delid>>)
      /\ UNCHANGED <<client, Spawner(w)!slotVars, reports, truth, answers, reading>>
  BY DEF Spawner!Ask, Spawner!TypeOK, Spawner!Dels, Spawner!SpawnAssumption
<1>2. /\ cmds' \in Seq(SpawnSlots \X Spawner(w)!Dels) /\ Len(cmds') = Len(cmds) + 1 /\ Len(cmds) \in Nat
      /\ \A k \in 1 .. Len(cmds) : cmds'[k] = cmds[k]
      /\ cmds'[Len(cmds) + 1] = <<i, delid>>
  <2> DEFINE T == SpawnSlots \X Spawner(w)!Dels
  <2>1. cmds \in Seq(T) /\ <<i, delid>> \in T
    BY <1>1 DEF Spawner!TypeOK
  <2> HIDE DEF T
  <2>2. /\ cmds' \in Seq(T) /\ Len(cmds') = Len(cmds) + 1 /\ Len(cmds) \in Nat
        /\ \A k \in 1 .. Len(cmds) : cmds'[k] = cmds[k]
        /\ cmds'[Len(cmds) + 1] = <<i, delid>>
    BY <1>1, <2>1, AppendProperties, LenProperties
  <2> QED BY <2>2 DEF T
<1>3. /\ Told' = Told
      /\ \A k \in Commands : k \in Commands' /\ k # Len(cmds) + 1
      /\ Len(cmds) + 1 \in Commands'
      /\ \A k \in Commands' : \/ k \in Commands /\ cmds'[k] = cmds[k]
                              \/ k = Len(cmds) + 1 /\ cmds'[k][1] = i /\ cmds'[k][2] = delid
  BY <1>1, <1>2 DEF Commands, Told
<1>4. /\ \A k \in Commands : cmds[k][1] \in SpawnSlots /\ cmds[k][2] \in Spawner(w)!Dels
      /\ \A k \in Told : reports[k][1] \in SpawnSlots /\ reports[k][3] \in Spawner(w)!Dels
  BY PipeTypes
<1>5. Spawner(w)!TypeOK'
  <2>1. delid' \in 1 .. Deliveries + 1
    BY <1>1 DEF Spawner!Dels, Spawner!SpawnAssumption
  <2>2. want' \in [SpawnSlots -> Spawner(w)!Dels \cup {0}]
    BY <1>1 DEF Spawner!TypeOK
  <2> QED BY <1>1, <1>2, <2>1, <2>2 DEF Spawner!TypeOK, Spawner!slotVars
<1>6. SlotsTell(w)' /\ Spawner(w)!TrueReports'
  BY <1>1 DEF SlotsTell, Spawner!TrueReports, Spawner!Delivered, Spawner!Started, Spawner!slotVars
<1> DEFINE u == Len(cmds) + 1
<1> HIDE DEF u
<1>10. /\ Told' = Told /\ reports' = reports /\ used' = used /\ del' = del /\ truth' = truth
       /\ child' = child /\ wstat' = wstat /\ delid' = delid + 1 /\ delid \in Nat
       /\ \A k \in Commands : k \in Commands' /\ k # u
       /\ u \in Commands'
       /\ \A k \in Commands' : \/ k \in Commands /\ cmds'[k] = cmds[k]
                               \/ k = u /\ cmds'[k][1] = i /\ cmds'[k][2] = delid
       /\ \A n \in Spawner(w)!Dels : n \in Nat
  <2>1. /\ Told' = Told /\ reports' = reports /\ used' = used /\ del' = del /\ truth' = truth
        /\ child' = child /\ wstat' = wstat /\ delid' = delid + 1
    BY <1>1, <1>3 DEF Spawner!slotVars
  <2>2. delid \in Nat /\ \A n \in Spawner(w)!Dels : n \in Nat
    BY <1>1 DEF Spawner!Dels
  <2> QED BY <1>3, <2>1, <2>2 DEF u
<1>7. TruthTells(w)'
  <2>1. TruthTells(w) /\ truth[delid] = Spawner(w)!Running
    BY <1>1 DEF TruthTells, Spawner!Dels
  <2>2. \A k \in Commands' : truth'[cmds'[k][2]] = Spawner(w)!Running
    BY <1>10, <2>1 DEF TruthTells
  <2>3. \A n \in Spawner(w)!Dels : n >= delid' => truth'[n] = Spawner(w)!Running
    BY <1>10, <2>1 DEF TruthTells
  <2> QED BY <1>10, <2>1, <2>2, <2>3 DEF TruthTells
<1>8. NumbersApart(w)'
  <2>1. NumbersApart(w)
    OBVIOUS
  <2>2. \A k \in Commands : cmds[k][2] \in Nat /\ cmds[k][2] < delid
    BY <1>4, <1>10, <2>1 DEF NumbersApart
  <2>3. \A k \in Told : reports[k][3] \in Nat /\ reports[k][3] < delid
    BY <1>4, <1>10, <2>1 DEF NumbersApart
  <2>4. \A j \in SpawnSlots : used[j] => del[j] \in Nat /\ del[j] < delid
    BY <1>10, <2>1 DEF NumbersApart, SlotsTell
  <2>5. /\ \A k \in Commands' : cmds'[k][2] < delid'
        /\ \A k \in Told' : reports'[k][3] < delid'
        /\ \A j \in SpawnSlots : used'[j] => del'[j] < delid'
    BY <1>10, <2>2, <2>3, <2>4
  <2>6. \A k, l \in Commands' : cmds'[k][2] = cmds'[l][2] => k = l
    BY <1>10, <2>1, <2>2 DEF NumbersApart
  <2>7. \A j \in SpawnSlots, k \in Commands' : used'[j] => del'[j] # cmds'[k][2]
    BY <1>10, <2>1, <2>4 DEF NumbersApart
  <2>8. \A k \in Told', l \in Commands' : reports'[k][3] # cmds'[l][2]
    BY <1>10, <2>1, <2>3 DEF NumbersApart
  <2>9. /\ \A j, k \in SpawnSlots : used'[j] /\ used'[k] /\ del'[j] = del'[k] => j = k
        /\ \A k \in Told', j \in SpawnSlots : used'[j] => reports'[k][3] # del'[j]
    BY <1>10, <2>1 DEF NumbersApart
  <2> QED BY <2>5, <2>6, <2>7, <2>8, <2>9 DEF NumbersApart
<1>9. Places(w)'
  <2>1. \A j \in SpawnSlots : Place(w, j)
    BY <1>1 DEF Places
  <2>2. delid # 0
    BY <1>1 DEF Spawner!Dels
  <2>3. ASSUME NEW j \in SpawnSlots, j # i PROVE Place(w, j)'
    <3>1. want'[j] = want[j] /\ used' = used /\ del' = del /\ reports' = reports
      BY <1>1, <2>3 DEF Spawner!TypeOK, Spawner!slotVars
    <3> QED BY <1>3, <2>1, <2>3, <3>1 DEF Place
  <2>4. Place(w, i)'
    <3>1. want'[i] = delid /\ used' = used /\ del' = del /\ reports' = reports
      BY <1>1 DEF Spawner!TypeOK, Spawner!slotVars
    <3>2. ~used[i] /\ (\A k \in Commands : cmds[k][1] # i) /\ (\A k \in Told : reports[k][1] # i)
      BY <1>1, <2>1 DEF Place
    <3> QED BY <1>3, <2>2, <3>1, <3>2 DEF Place
  <2> QED BY <2>3, <2>4 DEF Places
<1> QED BY <1>5, <1>6, <1>7, <1>8, <1>9 DEF SpawnInv

LEMMA StepHear == ASSUME NEW w, Spawner(w)!SpawnAssumption, SpawnInv(w), Spawner(w)!Hear PROVE SpawnInv(w)'
<1> USE DEF SpawnInv
<1>1. /\ client /\ reports # <<>> /\ reports' = Tail(reports)
      /\ want' = [want EXCEPT ![Head(reports)[1]] = 0]
      /\ UNCHANGED <<delid, client, Spawner(w)!slotVars, cmds, truth, answers, reading>>
  BY DEF Spawner!Hear
<1>2. /\ reports' \in Seq(SpawnSlots \X {"K", "Z", "D"} \X Spawner(w)!Dels)
      /\ Head(reports) = reports[1] /\ 1 \in Told /\ reports[1][1] \in SpawnSlots
      /\ \A k \in Told' : k + 1 \in Told /\ reports'[k] = reports[k + 1]
      /\ \A k \in Told : k # 1 => k - 1 \in Told' /\ reports'[k - 1] = reports[k]
  BY <1>1, ReportTaken
<1>3. Commands' = Commands /\ Told' \subseteq Nat /\ (\A k \in Told' : k + 1 # 1)
  BY <1>1 DEF Commands, Told
<1>4. Spawner(w)!TypeOK'
  <2>1. want' \in [SpawnSlots -> Spawner(w)!Dels \cup {0}]
    BY <1>1, <1>2 DEF Spawner!TypeOK
  <2> QED BY <1>1, <1>2, <2>1 DEF Spawner!TypeOK, Spawner!slotVars
<1>5. SlotsTell(w)' /\ TruthTells(w)'
  BY <1>1, <1>3 DEF SlotsTell, TruthTells, Spawner!slotVars
<1>9. \A k \in Told' : \E l \in Told : reports'[k] = reports[l]
  BY <1>2
<1>6. NumbersApart(w)'
  <2>1. used' = used /\ del' = del /\ cmds' = cmds /\ delid' = delid
    BY <1>1 DEF Spawner!slotVars
  <2> QED BY <1>3, <1>9, <2>1 DEF NumbersApart
<1>7. Spawner(w)!TrueReports'
  <2>1. \A k \in Told : /\ reports[k][2] = "K" <=> Spawner(w)!Delivered(reports[k][3])
                        /\ Spawner(w)!Started(reports[k][3]) => reports[k][2] = Spawner(w)!Verdict(truth[reports[k][3]], truth[reports[k][3]].out)
    BY DEF Spawner!TrueReports, Told
  <2>2. \A k \in Told' : /\ reports'[k][2] = "K" <=> Spawner(w)!Delivered(reports'[k][3])
                         /\ Spawner(w)!Started(reports'[k][3]) => reports'[k][2] = Spawner(w)!Verdict(truth[reports'[k][3]], truth[reports'[k][3]].out)
    BY <1>2, <2>1
  <2> QED BY <1>1, <2>2 DEF Spawner!TrueReports, Told, Spawner!Delivered, Spawner!Started
<1>8. Places(w)'
  <2> PICK i \in SpawnSlots : i = reports[1][1]
    BY <1>2
  <2>1. \A j \in SpawnSlots : Place(w, j)
    BY <1>1 DEF Places
  <2>2. ASSUME NEW j \in SpawnSlots, j # i PROVE Place(w, j)'
    <3>1. want'[j] = want[j] /\ used' = used /\ del' = del /\ cmds' = cmds
      BY <1>1, <1>2, <2>2 DEF Spawner!TypeOK, Spawner!slotVars
    <3>2. (\E k \in Told : reports[k][1] = j) => \E k \in Told' : reports'[k][1] = j
      BY <1>2, <2>2
    <3>3. ASSUME NEW k \in Told', NEW l \in Told', reports'[k][1] = j, reports'[l][1] = j PROVE l = k
      <4>1. k + 1 \in Told /\ l + 1 \in Told /\ reports[k + 1][1] = j /\ reports[l + 1][1] = j
        BY <1>2, <3>3
      <4>2. l + 1 = k + 1
        BY <2>1, <4>1 DEF Place
      <4> QED BY <1>3, <4>2
    <3> QED BY <1>2, <1>3, <2>1, <2>2, <3>1, <3>2, <3>3 DEF Place
  <2>3. Place(w, i)'
    <3>1. want'[i] = 0 /\ used' = used /\ del' = del /\ cmds' = cmds
      BY <1>1, <1>2 DEF Spawner!TypeOK, Spawner!slotVars
    <3>2. ~used[i] /\ (\A k \in Commands : cmds[k][1] # i) /\ (\A k \in Told : reports[k][1] = i => k = 1)
      BY <1>2, <2>1 DEF Place
    <3>3. \A k \in Told' : reports'[k][1] # i
      BY <1>2, <1>3, <3>2
    <3> QED BY <1>3, <3>1, <3>2, <3>3 DEF Place
  <2> QED BY <2>2, <2>3 DEF Places
<1> QED BY <1>4, <1>5, <1>6, <1>7, <1>8

(* The client dies, the spawner reads an end of file, or ends.               *)
LEMMA StepEnds ==
  ASSUME NEW w, Spawner(w)!SpawnAssumption, SpawnInv(w), Spawner(w)!ClientDies \/ Spawner(w)!NoMoreCommands \/ Spawner(w)!Exit
  PROVE  SpawnInv(w)'
<1>1. /\ UNCHANGED <<want, delid, Spawner(w)!slotVars, cmds, reports, truth, answers>>
      /\ client' \in BOOLEAN /\ reading' \in {"yes", "no", "exited"}
      /\ client' = client \/ ~client'
  BY DEF Spawner!ClientDies, Spawner!NoMoreCommands, Spawner!Exit, Spawner!clientVars, SpawnInv, Spawner!TypeOK
<1>2. /\ want' = want /\ delid' = delid /\ cmds' = cmds /\ reports' = reports /\ used' = used /\ del' = del
      /\ child' = child /\ wstat' = wstat /\ holdsown' = holdsown /\ inherited' = inherited
      /\ lingers' = lingers /\ truth' = truth /\ answers' = answers
  BY <1>1 DEF Spawner!slotVars
<1>3. Spawner(w)!TypeOK' /\ SlotsTell(w)' /\ TruthTells(w)'
  BY <1>1, <1>2 DEF SpawnInv, Spawner!TypeOK, SlotsTell, TruthTells, Commands
<1>4. NumbersApart(w)' /\ Places(w)'
  BY <1>1, <1>2, PlacesKeep
<1>5. Spawner(w)!TrueReports'
  BY <1>2, ReportsKeep
<1> QED BY <1>3, <1>4, <1>5 DEF SpawnInv

(* An exec, and the end of what a child has left behind.                     *)
LEMMA StepExec ==
  ASSUME NEW w, Spawner(w)!SpawnAssumption, SpawnInv(w), NEW i \in SpawnSlots, Spawner(w)!Exec(i) \/ Spawner(w)!LingerEnds(i)
  PROVE  SpawnInv(w)'
<1>1. /\ want' = want /\ delid' = delid /\ client' = client /\ cmds' = cmds /\ reports' = reports
      /\ used' = used /\ del' = del /\ wstat' = wstat /\ holdsown' = holdsown /\ truth' = truth
      /\ answers' = answers /\ reading' = reading
  BY DEF Spawner!Exec, Spawner!LingerEnds, Spawner!clientVars
<1>2. /\ child' = child /\ inherited' = inherited /\ lingers' = [lingers EXCEPT ![i] = FALSE]
      \/ /\ child[i] = "forked" /\ child' = [child EXCEPT ![i] = "running"]
         /\ inherited' = [inherited EXCEPT ![i] = {}] /\ lingers' = lingers
  BY DEF Spawner!Exec, Spawner!LingerEnds
<1>3. Spawner(w)!TypeOK'
  <2>1. Spawner(w)!TypeOK
    BY DEF SpawnInv
  <2>2. child' \in [SpawnSlots -> {"none", "forked", "running", "zombie", "reaped"}]
    BY <1>2, <2>1 DEF Spawner!TypeOK
  <2>3. inherited' \in [SpawnSlots -> SUBSET SpawnSlots] /\ lingers' \in [SpawnSlots -> BOOLEAN]
    BY <1>2, <2>1 DEF Spawner!TypeOK
  <2> QED BY <1>1, <2>1, <2>2, <2>3 DEF Spawner!TypeOK
<1>4. \A j \in SpawnSlots : child'[j] = child[j] \/ (child[j] = "forked" /\ child'[j] = "running")
  BY <1>2 DEF SpawnInv, Spawner!TypeOK
<1>5. SlotsTell(w)' /\ TruthTells(w)'
  BY <1>1, <1>4 DEF SpawnInv, SlotsTell, TruthTells, Commands
<1>6. NumbersApart(w)' /\ Places(w)'
  BY <1>1, PlacesKeep
<1>7. Spawner(w)!TrueReports'
  BY <1>1, ReportsKeep
<1> QED BY <1>3, <1>5, <1>6, <1>7 DEF SpawnInv

(* Nobody has reported, or waits to carry out, the delivery of a child.      *)
LEMMA StepChildEnds ==
  ASSUME NEW w, Spawner(w)!SpawnAssumption, SpawnInv(w), NEW i \in SpawnSlots, Spawner(w)!ChildEnds(i)
  PROVE  SpawnInv(w)'
<1>1. /\ want' = want /\ delid' = delid /\ client' = client /\ cmds' = cmds /\ reports' = reports
      /\ used' = used /\ del' = del /\ wstat' = wstat /\ holdsown' = holdsown
      /\ answers' = answers /\ reading' = reading
  BY DEF Spawner!ChildEnds, Spawner!clientVars
<1>2. PICK e \in w.endings : truth' = [truth EXCEPT ![del[i]] = e]
  BY DEF Spawner!ChildEnds
<1>3. /\ child[i] \in {"forked", "running"} /\ child' = [child EXCEPT ![i] = "zombie"]
      /\ inherited' = [inherited EXCEPT ![i] = {}]
      /\ \E l \in BOOLEAN : lingers' = [lingers EXCEPT ![i] = l]
  BY DEF Spawner!ChildEnds
<1>4. used[i] /\ del[i] \in Spawner(w)!Dels /\ holdsown[i]
  BY <1>3 DEF SpawnInv, SlotsTell
<1>5. /\ \A n \in Spawner(w)!Dels : truth'[n] = IF n = del[i] THEN e ELSE truth[n]
      /\ \A j \in SpawnSlots : child'[j] = IF j = i THEN "zombie" ELSE child[j]
  BY <1>2, <1>3, <1>4 DEF SpawnInv, Spawner!TypeOK
<1>6. /\ \A k \in Commands : cmds[k][2] \in Spawner(w)!Dels /\ cmds[k][2] # del[i]
      /\ \A k \in Told : reports[k][3] \in Spawner(w)!Dels /\ reports[k][3] # del[i]
      /\ \A j \in SpawnSlots : used[j] => del[j] \in Spawner(w)!Dels /\ (del[j] = del[i] => j = i)
      /\ \A n \in Spawner(w)!Dels : n >= delid => n # del[i]
  <2>1. del[i] < delid /\ delid \in Nat /\ \A n \in Spawner(w)!Dels : n \in Nat
    BY <1>4 DEF SpawnInv, NumbersApart, Spawner!TypeOK, Spawner!Dels
  <2>2. \A n \in Spawner(w)!Dels : n >= delid => n # del[i]
    BY <1>4, <2>1
  <2> QED BY <1>4, <2>2, PipeTypes DEF SpawnInv, NumbersApart, SlotsTell
<1>7. Spawner(w)!TypeOK'
  <2>1. Spawner(w)!TypeOK
    BY DEF SpawnInv
  <2>2. child' \in [SpawnSlots -> {"none", "forked", "running", "zombie", "reaped"}]
    BY <1>3, <2>1 DEF Spawner!TypeOK
  <2>3. inherited' \in [SpawnSlots -> SUBSET SpawnSlots] /\ lingers' \in [SpawnSlots -> BOOLEAN]
    BY <1>3, <2>1 DEF Spawner!TypeOK
  <2>4. truth' \in [Spawner(w)!Dels -> w.endings \cup {Spawner(w)!Running}]
    BY <1>2, <2>1 DEF Spawner!TypeOK
  <2> QED BY <1>1, <2>1, <2>2, <2>3, <2>4 DEF Spawner!TypeOK
<1>8. SlotsTell(w)'
  BY <1>1, <1>4, <1>5 DEF SpawnInv, SlotsTell
<1>9. TruthTells(w)'
  <2>1. TruthTells(w)
    BY DEF SpawnInv
  <2>2. \A j \in SpawnSlots : used'[j] =>
          /\ child'[j] \in {"forked", "running"} => truth'[del'[j]] = Spawner(w)!Running
          /\ child'[j] \in {"zombie", "reaped"} => truth'[del'[j]] \in w.endings
          /\ child'[j] = "reaped" => wstat'[j] = truth'[del'[j]]
    BY <1>1, <1>4, <1>5, <1>6, <2>1 DEF TruthTells
  <2>3. \A k \in Commands' : truth'[cmds'[k][2]] = Spawner(w)!Running
    BY <1>1, <1>5, <1>6, <2>1 DEF TruthTells, Commands
  <2>4. \A n \in Spawner(w)!Dels : n >= delid' => truth'[n] = Spawner(w)!Running
    BY <1>1, <1>5, <1>6, <2>1 DEF TruthTells
  <2> QED BY <2>2, <2>3, <2>4 DEF TruthTells
<1>10. NumbersApart(w)' /\ Places(w)'
  BY <1>1, PlacesKeep
<1>11. Spawner(w)!TrueReports'
  BY <1>1, <1>5, <1>6, ReportsKeep
<1> QED BY <1>7, <1>8, <1>9, <1>10, <1>11 DEF SpawnInv

LEMMA StepSigchld ==
  ASSUME NEW w, Spawner(w)!SpawnAssumption, SpawnInv(w), NEW i \in SpawnSlots, Spawner(w)!Sigchld(i)
  PROVE  SpawnInv(w)'
<1>1. /\ want' = want /\ delid' = delid /\ client' = client /\ cmds' = cmds /\ reports' = reports
      /\ used' = used /\ del' = del /\ truth' = truth /\ inherited' = inherited /\ lingers' = lingers
      /\ answers' = answers /\ reading' = reading
  BY DEF Spawner!Sigchld, Spawner!clientVars
<1>2. /\ child[i] = "zombie" /\ child' = [child EXCEPT ![i] = "reaped"]
      /\ wstat' = [wstat EXCEPT ![i] = truth[del[i]]] /\ holdsown' = [holdsown EXCEPT ![i] = FALSE]
  BY DEF Spawner!Sigchld
<1>3. used[i] /\ del[i] \in Spawner(w)!Dels
  BY <1>2 DEF SpawnInv, SlotsTell
<1>4. \A j \in SpawnSlots : /\ child'[j] = IF j = i THEN "reaped" ELSE child[j]
                            /\ wstat'[j] = IF j = i THEN truth[del[i]] ELSE wstat[j]
                            /\ holdsown'[j] = IF j = i THEN FALSE ELSE holdsown[j]
  <2>1. DOMAIN child = SpawnSlots /\ DOMAIN wstat = SpawnSlots /\ DOMAIN holdsown = SpawnSlots
    BY DEF SpawnInv, Spawner!TypeOK
  <2> QED BY <1>2, <2>1
<1>5. Spawner(w)!TypeOK'
  <2>1. Spawner(w)!TypeOK
    BY DEF SpawnInv
  <2>2. child' \in [SpawnSlots -> {"none", "forked", "running", "zombie", "reaped"}]
    BY <1>2, <2>1 DEF Spawner!TypeOK
  <2>3. wstat' \in [SpawnSlots -> w.endings \cup {Spawner(w)!Running}] /\ holdsown' \in [SpawnSlots -> BOOLEAN]
    BY <1>2, <1>3, <2>1 DEF Spawner!TypeOK
  <2> QED BY <1>1, <2>1, <2>2, <2>3 DEF Spawner!TypeOK
<1>6. SlotsTell(w)'
  <2>1. SlotsTell(w)
    BY DEF SpawnInv
  <2> QED BY <1>1, <1>3, <1>4, <2>1 DEF SlotsTell
<1>7. TruthTells(w)'
  <2>1. TruthTells(w) /\ truth[del[i]] \in w.endings
    BY <1>2, <1>3 DEF SpawnInv, TruthTells
  <2>2. \A j \in SpawnSlots : used[j] =>
          /\ child'[j] \in {"forked", "running"} => truth[del[j]] = Spawner(w)!Running
          /\ child'[j] \in {"zombie", "reaped"} => truth[del[j]] \in w.endings
          /\ child'[j] = "reaped" => wstat'[j] = truth[del[j]]
    BY <1>3, <1>4, <2>1 DEF TruthTells
  <2> QED BY <1>1, <2>1, <2>2 DEF TruthTells, Commands
<1>8. NumbersApart(w)' /\ Places(w)'
  BY <1>1, PlacesKeep
<1>9. Spawner(w)!TrueReports'
  BY <1>1, ReportsKeep
<1> QED BY <1>5, <1>6, <1>7, <1>8, <1>9 DEF SpawnInv

LEMMA ReportAt ==
  ASSUME NEW w, SpawnInv(w), NEW a \in SpawnSlots, NEW b \in Spawner(w)!Dels, NEW v \in {"K", "Z", "D"},
         Spawner(w)!Answer(a, v, b)
  PROVE  /\ reports' \in Seq(SpawnSlots \X {"K", "Z", "D"} \X Spawner(w)!Dels)
         /\ answers' \in [Spawner(w)!Dels -> Nat]
         /\ ~client => reports' = reports
         /\ client => /\ Told' = Told \cup {Len(reports')} /\ Len(reports') \notin Told
                      /\ reports'[Len(reports')] = <<a, v, b>>
                      /\ \A k \in Told : reports'[k] = reports[k]
<1>1. Spawner(w)!TypeOK
  BY DEF SpawnInv
<1>2. reports' \in Seq(SpawnSlots \X {"K", "Z", "D"} \X Spawner(w)!Dels)
  BY <1>1, ReportMade
<1>3. answers' \in [Spawner(w)!Dels -> Nat]
  BY <1>1, ReportMade
<1>4. ~client => reports' = reports
  BY <1>1, ReportMade
<1>5. client => /\ Told' = Told \cup {Len(reports')} /\ Len(reports') \notin Told
  BY <1>1, ReportMade
<1>6. client => reports'[Len(reports')] = <<a, v, b>>
  BY <1>1, ReportMade
<1>7. client => \A k \in Told : reports'[k] = reports[k]
  BY <1>1, ReportMade
<1> QED BY <1>2, <1>3, <1>4, <1>5, <1>6, <1>7

(* A report takes the place of the command, or of the child, it answers.     *)
LEMMA Reported ==
  ASSUME NEW w, SpawnInv(w), NEW a \in SpawnSlots, NEW b \in Spawner(w)!Dels, NEW v \in {"K", "Z", "D"}, Spawner(w)!Answer(a, v, b),
         want' = want, delid' = delid, client' = client, del' = del, b < delid,
         \A k \in Commands' : cmds'[k][2] # b /\ \E l \in Commands : cmds'[k] = cmds[l],
         \A k, l \in Commands' : cmds'[k][2] = cmds'[l][2] => k = l,
         \A l \in Commands : cmds[l][1] = a \/ \E k \in Commands' : cmds'[k] = cmds[l],
         \A j \in SpawnSlots : used'[j] => used[j] /\ del[j] # b,
         \A j \in SpawnSlots : used[j] /\ j # a => used'[j],
         client => /\ want[a] = b /\ ~used'[a]
                   /\ \A k \in Commands' : cmds'[k][1] # a
                   /\ \A k \in Told : reports[k][1] # a
  PROVE  NumbersApart(w)' /\ Places(w)'
<1> DEFINE m == Len(reports')
<1>1. /\ ~client => reports' = reports
      /\ client => /\ Told' = Told \cup {m} /\ m \notin Told
                   /\ reports'[m] = <<a, v, b>>
                   /\ \A k \in Told : reports'[k] = reports[k]
  BY ONLY ReportAt, SpawnInv(w), a \in SpawnSlots, b \in Spawner(w)!Dels, v \in {"K", "Z", "D"},
          Spawner(w)!Answer(a, v, b)
<1> HIDE DEF m
<1>2. client => /\ Told' = Told \cup {m} /\ m \notin Told
                /\ reports'[m][1] = a /\ reports'[m][3] = b
                /\ \A k \in Told : reports'[k] = reports[k]
  BY <1>1
<1>3. \A k \in Told' : reports'[k][3] = b \/ \E l \in Told : reports'[k] = reports[l]
  <2>1. CASE client
    BY <1>2, <2>1
  <2>2. CASE ~client
    <3>1. reports' = reports /\ Told' = Told
      BY <1>1, <2>2 DEF Told
    <3> QED BY <3>1
  <2> QED BY <2>1, <2>2
<1>4. NumbersApart(w)'
  <2>1. NumbersApart(w)
    BY DEF SpawnInv
  <2>2. \A k \in Commands' : cmds'[k][2] < delid'
    BY <2>1 DEF NumbersApart
  <2>3. \A k \in Told' : reports'[k][3] < delid'
    BY <1>3, <2>1 DEF NumbersApart
  <2>4. /\ \A i \in SpawnSlots : used'[i] => del'[i] < delid'
        /\ \A i, j \in SpawnSlots : used'[i] /\ used'[j] /\ del'[i] = del'[j] => i = j
    BY <2>1 DEF NumbersApart
  <2>5. \A i \in SpawnSlots, k \in Commands' : used'[i] => del'[i] # cmds'[k][2]
    BY <2>1 DEF NumbersApart
  <2>6. \A k \in Told', l \in Commands' : reports'[k][3] # cmds'[l][2]
    BY <1>3, <2>1 DEF NumbersApart
  <2>7. \A k \in Told', i \in SpawnSlots : used'[i] => reports'[k][3] # del'[i]
    BY <1>3, <2>1 DEF NumbersApart
  <2> QED BY <2>2, <2>3, <2>4, <2>5, <2>6, <2>7 DEF NumbersApart
<1>5. ASSUME client, NEW j \in SpawnSlots, j # a PROVE Place(w, j)'
  <2>1. Place(w, j)
    BY <1>5 DEF SpawnInv, Places
  <2>2. /\ Told' = Told \cup {m} /\ reports'[m][1] = a
        /\ \A k \in Told : reports'[k] = reports[k]
        /\ used'[j] <=> used[j]
    BY <1>2, <1>5
  <2>3. \A k \in Told' : reports'[k][1] = j => k \in Told /\ reports[k][1] = j /\ reports'[k] = reports[k]
    BY <1>5, <2>2
  <2>4. \A k \in Commands' : \E l \in Commands : cmds'[k] = cmds[l]
    OBVIOUS
  <2>5. ASSUME NEW k \in Commands', NEW l \in Commands', cmds'[k][1] = j, cmds'[l][1] = j PROVE l = k
    <3>1. cmds'[k][2] = want[j] /\ cmds'[l][2] = want[j]
      BY <2>1, <2>4, <2>5 DEF Place
    <3> QED BY <3>1
  <2>6. \A k \in Commands' : cmds'[k][1] = j =>
          /\ want[j] # 0 /\ ~used[j] /\ cmds'[k][2] = want[j]
          /\ \A l \in Told : reports[l][1] # j
    BY <2>1, <2>4 DEF Place
  <2>7. \A k \in Told : reports[k][1] = j =>
          /\ want[j] # 0 /\ ~used[j] /\ reports[k][3] = want[j]
          /\ \A l \in Told : reports[l][1] = j => l = k
    BY <2>1 DEF Place
  <2>8. /\ used[j] => want[j] # 0 /\ del[j] = want[j]
        /\ want[j] # 0 => \/ used[j]
                          \/ \E k \in Commands' : cmds'[k][1] = j
                          \/ \E k \in Told' : reports'[k][1] = j
    BY <1>5, <2>1, <2>2 DEF Place
  <2> QED BY <2>2, <2>3, <2>5, <2>6, <2>7, <2>8 DEF Place
<1>6. ASSUME client PROVE Place(w, a)'
  <2>1. /\ \A k \in Told' : reports'[k][1] = a => k = m
        /\ m \in Told' /\ reports'[m][1] = a /\ reports'[m][3] = want'[a]
    BY <1>2, <1>6
  <2>2. want'[a] # 0 /\ ~used'[a] /\ \A k \in Commands' : cmds'[k][1] # a
    BY <1>6 DEF Spawner!Dels
  <2> QED BY <2>1, <2>2 DEF Place
<1>7. Places(w)'
  BY <1>5, <1>6 DEF Places
<1> QED BY <1>4, <1>7

(* A report that tells the truth keeps all of them true.                     *)
LEMMA ReportTrue ==
  ASSUME NEW w, SpawnInv(w), NEW i \in SpawnSlots, NEW v \in {"K", "Z", "D"}, NEW n \in Spawner(w)!Dels, Spawner(w)!Answer(i, v, n),
         truth' = truth, v = "K" <=> Spawner(w)!Delivered(n),
         Spawner(w)!Started(n) => v = Spawner(w)!Verdict(truth[n], truth[n].out)
  PROVE  Spawner(w)!TrueReports'
<1>1. CASE ~client
  <2>1. reports' = reports
    BY <1>1 DEF Spawner!Answer
  <2> QED BY <2>1, ReportsKeep
<1>2. CASE client
  <2> DEFINE m == Len(reports')
  <2>1. /\ Told' = Told \cup {m} /\ reports'[m] = <<i, v, n>>
        /\ \A k \in Told : reports'[k] = reports[k]
    BY <1>2, ReportMade DEF SpawnInv
  <2> HIDE DEF m
  <2>2. reports'[m][2] = v /\ reports'[m][3] = n
    BY <2>1
  <2>3. \A k \in Told : /\ reports[k][2] = "K" <=> Spawner(w)!Delivered(reports[k][3])
                        /\ Spawner(w)!Started(reports[k][3]) => reports[k][2] = Spawner(w)!Verdict(truth[reports[k][3]], truth[reports[k][3]].out)
    BY DEF SpawnInv, Spawner!TrueReports, Told
  <2>4. \A k \in Told' : /\ reports'[k][2] = "K" <=> Spawner(w)!Delivered(reports'[k][3])
                         /\ Spawner(w)!Started(reports'[k][3]) => reports'[k][2] = Spawner(w)!Verdict(truth[reports'[k][3]], truth[reports'[k][3]].out)
    BY <2>1, <2>2, <2>3
  <2> QED BY <2>4 DEF Spawner!TrueReports, Told, Spawner!Delivered, Spawner!Started
<1> QED BY <1>1, <1>2

(* Of the commands one is taken, for delivery n in slot i, and the others     *)
(* are left.                                                                 *)
Takes(w, i, n) ==
  /\ i \in SpawnSlots /\ n \in Spawner(w)!Dels /\ truth[n] = Spawner(w)!Running /\ n < delid
  /\ \E k \in Commands : cmds[k][1] = i /\ cmds[k][2] = n
  /\ \A j \in SpawnSlots : used[j] => del[j] # n
  /\ \A k \in Told : reports[k][3] # n
  /\ \A k \in Commands' : cmds'[k][2] # n /\ \E l \in Commands : cmds'[k] = cmds[l]
  /\ \A k, l \in Commands' : cmds'[k][2] = cmds'[l][2] => k = l
  /\ \A l \in Commands :
       (cmds[l][1] = i /\ cmds[l][2] = n) \/ (\E k \in Commands' : cmds'[k] = cmds[l])

(* What is left of the commands when the first is taken.                     *)
LEMMA CommandsLeft ==
  ASSUME NEW w, SpawnInv(w), cmds # <<>>, cmds' = Tail(cmds), NEW i, NEW n, i = Head(cmds)[1], n = Head(cmds)[2]
  PROVE  Takes(w, i, n)
<1>1. /\ cmds[1][1] = i /\ cmds[1][2] = n /\ 1 \in Commands /\ i \in SpawnSlots /\ n \in Spawner(w)!Dels
      /\ \A k \in Commands' : k + 1 \in Commands /\ cmds'[k] = cmds[k + 1]
      /\ \A k \in Commands : k # 1 => k - 1 \in Commands' /\ cmds'[k - 1] = cmds[k]
  BY CommandTaken DEF SpawnInv
<1>2. truth[n] = Spawner(w)!Running /\ n < delid
  BY <1>1 DEF SpawnInv, TruthTells, NumbersApart
<1>3. \A k \in Commands' : k \in Nat /\ k + 1 # 1
  BY DEF Commands
<1>4. \A k, l \in Commands : cmds[k][2] = cmds[l][2] => k = l
  BY DEF SpawnInv, NumbersApart
<1>5. ASSUME NEW k \in Commands' PROVE cmds'[k][2] # n
  <2>1. k + 1 \in Commands /\ k + 1 # 1 /\ cmds'[k][2] = cmds[k + 1][2]
    BY <1>1, <1>3
  <2>2. cmds[k + 1][2] # cmds[1][2]
    BY <1>1, <1>4, <2>1
  <2> QED BY <1>1, <2>1, <2>2
<1>6. ASSUME NEW k \in Commands', NEW l \in Commands', cmds'[k][2] = cmds'[l][2] PROVE k = l
  <2>1. k + 1 \in Commands /\ l + 1 \in Commands /\ cmds[k + 1][2] = cmds[l + 1][2]
    BY <1>1, <1>6
  <2>2. k + 1 = l + 1
    BY <1>4, <2>1
  <2> QED BY <1>3, <2>2
<1>7. /\ \A j \in SpawnSlots : used[j] => del[j] # n
      /\ \A k \in Told : reports[k][3] # n
  BY <1>1 DEF SpawnInv, NumbersApart
<1>8. \A k \in Commands' : \E l \in Commands : cmds'[k] = cmds[l]
  BY <1>1
<1>9. \A l \in Commands : (cmds[l][1] = i /\ cmds[l][2] = n) \/ \E k \in Commands' : cmds'[k] = cmds[l]
  BY <1>1
<1> QED BY <1>1, <1>2, <1>5, <1>6, <1>7, <1>8, <1>9 DEF Takes

LEMMA StepRefuse == ASSUME NEW w, Spawner(w)!SpawnAssumption, SpawnInv(w), Spawner(w)!Refuse PROVE SpawnInv(w)'
<1> DEFINE i == Head(cmds)[1]
           n == Head(cmds)[2]
<1>1. /\ want' = want /\ delid' = delid /\ client' = client /\ used' = used /\ del' = del
      /\ child' = child /\ wstat' = wstat /\ holdsown' = holdsown /\ inherited' = inherited
      /\ lingers' = lingers /\ truth' = truth /\ reading' = reading
      /\ cmds # <<>> /\ cmds' = Tail(cmds) /\ \E v \in {"Z", "D"} : Spawner(w)!Answer(i, v, n)
  BY DEF Spawner!Refuse, Spawner!clientVars
<1>2. PICK v \in {"Z", "D"} : Spawner(w)!Answer(i, v, n)
  BY <1>1
<1>3. PICK a, b : a = i /\ b = n
  OBVIOUS
<1>20. Takes(w, a, b)
  BY <1>1, <1>3, CommandsLeft
<1>4. /\ a \in SpawnSlots /\ b \in Spawner(w)!Dels /\ truth[b] = Spawner(w)!Running /\ b < delid
      /\ \E k \in Commands : cmds[k][1] = a /\ cmds[k][2] = b
      /\ \A j \in SpawnSlots : used[j] => del[j] # b
      /\ \A k \in Told : reports[k][3] # b
      /\ \A k \in Commands' : cmds'[k][2] # b /\ \E l \in Commands : cmds'[k] = cmds[l]
      /\ \A k, l \in Commands' : cmds'[k][2] = cmds'[l][2] => k = l
      /\ \A l \in Commands : (cmds[l][1] = a /\ cmds[l][2] = b) \/ \E k \in Commands' : cmds'[k] = cmds[l]
  BY <1>20 DEF Takes
<1>5. Spawner(w)!Answer(a, v, b) /\ v \in {"K", "Z", "D"} /\ v # "K"
  BY <1>2, <1>3
<1>6. cmds' \in Seq(SpawnSlots \X Spawner(w)!Dels)
  BY <1>1, CommandTaken DEF SpawnInv
<1> HIDE DEF i, n
<1>7. /\ reports' \in Seq(SpawnSlots \X {"K", "Z", "D"} \X Spawner(w)!Dels) /\ answers' \in [Spawner(w)!Dels -> Nat]
      /\ ~client => reports' = reports
      /\ client => /\ Told' = Told \cup {Len(reports')} /\ reports'[Len(reports')] = <<a, v, b>>
                   /\ Len(reports') \notin Told
                   /\ \A k \in Told : reports'[k] = reports[k]
  <2>1. a \in SpawnSlots /\ b \in Spawner(w)!Dels /\ v \in {"K", "Z", "D"} /\ Spawner(w)!Answer(a, v, b)
    BY <1>4, <1>5
  <2> QED BY ONLY ReportAt, SpawnInv(w), <2>1
<1>8. Spawner(w)!TypeOK' /\ SlotsTell(w)'
  BY <1>1, <1>6, <1>7 DEF SpawnInv, Spawner!TypeOK, SlotsTell
<1>9. TruthTells(w)'
  <2>1. TruthTells(w)
    BY DEF SpawnInv
  <2>2. ASSUME NEW k \in Commands' PROVE truth'[cmds'[k][2]] = Spawner(w)!Running
    <3>1. PICK l \in Commands : cmds'[k] = cmds[l]
      BY <1>4
    <3>2. truth[cmds[l][2]] = Spawner(w)!Running /\ truth' = truth
      BY <1>1, <2>1 DEF TruthTells
    <3> QED BY <3>1, <3>2
  <2>3. used' = used /\ child' = child /\ del' = del /\ truth' = truth /\ wstat' = wstat /\ delid' = delid
    BY <1>1
  <2> QED BY <2>1, <2>2, <2>3 DEF TruthTells
<1>10. Spawner(w)!TrueReports'
  <2>1. ~Spawner(w)!Started(b) /\ ~Spawner(w)!Delivered(b)
    BY <1>4 DEF Spawner!Started, Spawner!Delivered
  <2> QED BY <1>1, <1>4, <1>5, <2>1, ReportTrue
<1>11. NumbersApart(w)' /\ Places(w)'
  <2>1. ASSUME client
        PROVE  /\ want[a] = b /\ ~used[a]
               /\ \A k \in Commands' : cmds'[k][1] # a
               /\ \A k \in Told : reports[k][1] # a
    <3>1. Place(w, a)
      BY <1>4, <2>1 DEF SpawnInv, Places
    <3>2. want[a] = b /\ ~used[a] /\ \A k \in Told : reports[k][1] # a
      BY <1>4, <3>1 DEF Place
    <3>3. \A k \in Commands : cmds[k][1] = a => cmds[k][2] = b
      BY <3>1, <3>2 DEF Place
    <3> QED BY <1>4, <3>2, <3>3
  <2>2. \A j \in SpawnSlots : (used'[j] => used[j] /\ del[j] # b) /\ (used[j] /\ j # a => used'[j])
    BY <1>1, <1>4
  <2>3. /\ want' = want /\ delid' = delid /\ client' = client /\ del' = del /\ b < delid
        /\ \A k \in Commands' : cmds'[k][2] # b /\ \E l \in Commands : cmds'[k] = cmds[l]
        /\ \A k, l \in Commands' : cmds'[k][2] = cmds'[l][2] => k = l
        /\ \A l \in Commands : cmds[l][1] = a \/ \E k \in Commands' : cmds'[k] = cmds[l]
        /\ a \in SpawnSlots /\ b \in Spawner(w)!Dels
    BY <1>1, <1>4
  <2>4. client => /\ want[a] = b /\ ~used'[a]
                  /\ \A k \in Commands' : cmds'[k][1] # a
                  /\ \A k \in Told : reports[k][1] # a
    BY <1>1, <2>1
  <2> QED BY <1>5, <2>2, <2>3, <2>4, Reported
<1> QED BY <1>8, <1>9, <1>10, <1>11 DEF SpawnInv

LEMMA StepFork == ASSUME NEW w, Spawner(w)!SpawnAssumption, SpawnInv(w), Spawner(w)!Fork PROVE SpawnInv(w)'
<1>1. PICK a, b : a = Head(cmds)[1] /\ b = Head(cmds)[2]
  OBVIOUS
<1>2. /\ want' = want /\ delid' = delid /\ client' = client /\ reports' = reports /\ truth' = truth
      /\ wstat' = wstat /\ answers' = answers /\ reading' = reading
      /\ cmds # <<>> /\ cmds' = Tail(cmds)
      /\ ~used[a] /\ used' = [used EXCEPT ![a] = TRUE] /\ del' = [del EXCEPT ![a] = b]
      /\ child' = [child EXCEPT ![a] = IF w.service = "local" THEN "forked" ELSE "running"]
      /\ holdsown' = [holdsown EXCEPT ![a] = TRUE]
      /\ inherited' = [inherited EXCEPT ![a] = {j \in SpawnSlots : holdsown[j]}]
      /\ lingers' = [lingers EXCEPT ![a] = FALSE]
  BY <1>1 DEF Spawner!Fork, Spawner!clientVars
<1>3. Takes(w, a, b)
  BY <1>1, <1>2, CommandsLeft
<1>4. /\ a \in SpawnSlots /\ b \in Spawner(w)!Dels /\ truth[b] = Spawner(w)!Running /\ b < delid
      /\ \E k \in Commands : cmds[k][1] = a /\ cmds[k][2] = b
      /\ \A j \in SpawnSlots : used[j] => del[j] # b
      /\ \A k \in Told : reports[k][3] # b
      /\ \A k \in Commands' : cmds'[k][2] # b /\ \E l \in Commands : cmds'[k] = cmds[l]
      /\ \A k, l \in Commands' : cmds'[k][2] = cmds'[l][2] => k = l
      /\ \A l \in Commands : (cmds[l][1] = a /\ cmds[l][2] = b) \/ \E k \in Commands' : cmds'[k] = cmds[l]
  BY <1>3 DEF Takes
<1>5. PICK c \in {"forked", "running"} : child' = [child EXCEPT ![a] = c]
  BY <1>2
<1>6. Spawner(w)!TypeOK'
  <2>1. Spawner(w)!TypeOK
    BY DEF SpawnInv
  <2>2. cmds' \in Seq(SpawnSlots \X Spawner(w)!Dels)
    BY <1>2, <2>1, CommandTaken
  <2>3. /\ used' \in [SpawnSlots -> BOOLEAN] /\ del' \in [SpawnSlots -> Spawner(w)!Dels \cup {0}]
        /\ holdsown' \in [SpawnSlots -> BOOLEAN] /\ lingers' \in [SpawnSlots -> BOOLEAN]
    BY <1>2, <1>4, <2>1 DEF Spawner!TypeOK
  <2>4. inherited' \in [SpawnSlots -> SUBSET SpawnSlots]
    BY <1>2, <2>1 DEF Spawner!TypeOK
  <2>5. child' \in [SpawnSlots -> {"none", "forked", "running", "zombie", "reaped"}]
    BY <1>5, <2>1 DEF Spawner!TypeOK
  <2> QED BY <1>2, <2>1, <2>2, <2>3, <2>4, <2>5 DEF Spawner!TypeOK
<1>7. /\ used'[a] /\ del'[a] = b /\ child'[a] = c /\ holdsown'[a]
      /\ \A j \in SpawnSlots : j # a => /\ used'[j] = used[j] /\ del'[j] = del[j] /\ child'[j] = child[j]
                                  /\ holdsown'[j] = holdsown[j]
  BY <1>2, <1>4, <1>5 DEF SpawnInv, Spawner!TypeOK
<1>8. SlotsTell(w)'
  <2>1. SlotsTell(w)
    BY DEF SpawnInv
  <2> QED BY <1>4, <1>7, <2>1 DEF SlotsTell
<1>9. TruthTells(w)'
  <2>1. TruthTells(w)
    BY DEF SpawnInv
  <2>2. ASSUME NEW k \in Commands' PROVE truth'[cmds'[k][2]] = Spawner(w)!Running
    <3>1. PICK l \in Commands : cmds'[k] = cmds[l]
      BY <1>4
    <3>2. truth[cmds[l][2]] = Spawner(w)!Running /\ truth' = truth
      BY <1>2, <2>1 DEF TruthTells
    <3> QED BY <3>1, <3>2
  <2>3. \A j \in SpawnSlots : used'[j] =>
          /\ child'[j] \in {"forked", "running"} => truth'[del'[j]] = Spawner(w)!Running
          /\ child'[j] \in {"zombie", "reaped"} => truth'[del'[j]] \in w.endings
          /\ child'[j] = "reaped" => wstat'[j] = truth'[del'[j]]
    BY <1>2, <1>4, <1>7, <2>1 DEF TruthTells
  <2>4. \A n \in Spawner(w)!Dels : n >= delid' => truth'[n] = Spawner(w)!Running
    BY <1>2, <2>1 DEF TruthTells
  <2> QED BY <2>2, <2>3, <2>4 DEF TruthTells
<1>10. NumbersApart(w)'
  <2>1. NumbersApart(w)
    BY DEF SpawnInv
  <2>2. Told' = Told
    BY <1>2 DEF Told
  <2>3. \A k \in Commands' : cmds'[k][2] < delid'
    BY <1>2, <1>4, <2>1 DEF NumbersApart
  <2>4. \A k \in Told' : reports'[k][3] < delid'
    BY <1>2, <2>1, <2>2 DEF NumbersApart
  <2>5. \A j \in SpawnSlots : used'[j] => del'[j] < delid'
    BY <1>2, <1>4, <1>7, <2>1 DEF NumbersApart
  <2>6. \A i, j \in SpawnSlots : used'[i] /\ used'[j] /\ del'[i] = del'[j] => i = j
    BY <1>4, <1>7, <2>1 DEF NumbersApart
  <2>7. \A j \in SpawnSlots, k \in Commands' : used'[j] => del'[j] # cmds'[k][2]
    BY <1>4, <1>7, <2>1 DEF NumbersApart
  <2>8. ASSUME NEW k \in Told', NEW l \in Commands' PROVE reports'[k][3] # cmds'[l][2]
    <3>1. PICK m \in Commands : cmds'[l] = cmds[m]
      BY <1>4
    <3> QED BY <1>2, <2>1, <2>2, <3>1 DEF NumbersApart
  <2>9. \A k \in Told', j \in SpawnSlots : used'[j] => reports'[k][3] # del'[j]
    BY <1>2, <1>4, <1>7, <2>1, <2>2 DEF NumbersApart
  <2> QED BY <1>4, <2>3, <2>4, <2>5, <2>6, <2>7, <2>8, <2>9 DEF NumbersApart
<1>11. Spawner(w)!TrueReports'
  BY <1>2, ReportsKeep
<1>12. ASSUME client, NEW j \in SpawnSlots PROVE Place(w, j)'
  <2>1. Place(w, j) /\ Place(w, a)
    BY <1>4, <1>12 DEF SpawnInv, Places
  <2>2. want' = want /\ reports' = reports /\ Told' = Told
    BY <1>2 DEF Told
  <2>3. want[a] = b /\ want[a] # 0 /\ \A k \in Told : reports[k][1] # a
    BY <1>4, <2>1 DEF Place
  <2>4. \A k \in Commands : cmds[k][1] = a => cmds[k][2] = b
    BY <2>1, <2>3 DEF Place
  <2>5. \A k \in Commands' : cmds'[k][1] # a
    BY <1>4, <2>4
  <2>6. CASE j = a
    BY <1>7, <2>2, <2>3, <2>5, <2>6 DEF Place
  <2>7. CASE j # a
    <3>1. used'[j] = used[j] /\ del'[j] = del[j]
      BY <1>7, <2>7
    <3>2. ASSUME NEW k \in Commands', cmds'[k][1] = j
          PROVE  /\ want[j] # 0 /\ ~used[j] /\ cmds'[k][2] = want[j]
                 /\ \A l \in Told : reports[l][1] # j
      <4>1. PICK l \in Commands : cmds'[k] = cmds[l]
        BY <1>4
      <4> QED BY <2>1, <3>2, <4>1 DEF Place
    <3>3. \A k, l \in Commands' : cmds'[k][1] = j /\ cmds'[l][1] = j => k = l
      BY <1>4, <3>2
    <3>4. (\E l \in Commands : cmds[l][1] = j) => \E k \in Commands' : cmds'[k][1] = j
      BY <1>4, <2>7
    <3> QED BY <2>1, <2>2, <3>1, <3>2, <3>3, <3>4 DEF Place
  <2> QED BY <2>6, <2>7
<1>13. Places(w)'
  BY <1>2, <1>12 DEF Places
<1> QED BY <1>6, <1>8, <1>9, <1>10, <1>11, <1>13 DEF SpawnInv

(* A slot without a writer has a child that was waited for: the report is     *)
(* made of how that child ended.                                             *)
LEMMA StepEndOfOutput ==
  ASSUME NEW w, Spawner(w)!SpawnAssumption, SpawnInv(w), NEW i \in SpawnSlots, Spawner(w)!EndOfOutput(i)
  PROVE  SpawnInv(w)'
<1>1. /\ want' = want /\ delid' = delid /\ client' = client /\ cmds' = cmds /\ truth' = truth
      /\ del' = del /\ child' = child /\ wstat' = wstat /\ holdsown' = holdsown
      /\ inherited' = inherited /\ lingers' = lingers /\ reading' = reading
      /\ used' = [used EXCEPT ![i] = FALSE] /\ used[i] /\ ~Spawner(w)!HasWriter(i)
      /\ Spawner(w)!Answer(i, Spawner(w)!Verdict(wstat[i], wstat[i].out), del[i])
  BY DEF Spawner!EndOfOutput, Spawner!clientVars
<1>2. /\ del[i] \in Spawner(w)!Dels /\ child[i] = "reaped" /\ wstat[i] = truth[del[i]] /\ truth[del[i]] \in w.endings
  <2>1. child[i] # "none" /\ ~holdsown[i] /\ del[i] \in Spawner(w)!Dels
    BY <1>1 DEF SpawnInv, SlotsTell, Spawner!HasWriter
  <2>2. child[i] = "reaped"
    BY <2>1 DEF SpawnInv, SlotsTell, Spawner!TypeOK
  <2> QED BY <1>1, <2>1, <2>2 DEF SpawnInv, TruthTells
<1>3. PICK n \in Spawner(w)!Dels : n = del[i]
  BY <1>2
<1>4. PICK v \in {"K", "Z", "D"} :
        /\ v = Spawner(w)!Verdict(truth[n], truth[n].out)
        /\ v = "K" <=> Spawner(w)!Delivered(n)
  <2>1. truth[n] \in w.endings
    BY <1>2, <1>3
  <2>2. /\ Spawner(w)!Verdict(truth[n], truth[n].out) \in {"K", "Z", "D"}
        /\ Spawner(w)!Verdict(truth[n], truth[n].out) = "K" <=>
              ~truth[n].crashed /\ truth[n].code = 0 /\ (w.service = "remote" => truth[n].out = "rK")
        /\ truth[n] # Spawner(w)!Running
    BY <2>1, VerdictTells
  <2> QED BY <2>2 DEF Spawner!Delivered, Spawner!Started
<1>5. Spawner(w)!Answer(i, v, n)
  BY <1>1, <1>2, <1>3, <1>4
<1>6. Spawner(w)!TrueReports'
  BY <1>1, <1>4, <1>5, ReportTrue
<1>7. \A j \in SpawnSlots : used'[j] = IF j = i THEN FALSE ELSE used[j]
  BY <1>1 DEF SpawnInv, Spawner!TypeOK
<1>8. Spawner(w)!TypeOK'
  <2>1. Spawner(w)!TypeOK
    BY DEF SpawnInv
  <2>2. used' \in [SpawnSlots -> BOOLEAN]
    BY <1>1, <2>1 DEF Spawner!TypeOK
  <2>3. reports' \in Seq(SpawnSlots \X {"K", "Z", "D"} \X Spawner(w)!Dels) /\ answers' \in [Spawner(w)!Dels -> Nat]
    BY <1>5, <2>1, ReportMade
  <2> QED BY <1>1, <2>1, <2>2, <2>3 DEF Spawner!TypeOK
<1>9. SlotsTell(w)'
  <2>1. SlotsTell(w)
    BY DEF SpawnInv
  <2>2. child[i] = "reaped" /\ child' = child /\ del' = del /\ holdsown' = holdsown
    BY <1>1, <1>2
  <2> QED BY <1>7, <2>1, <2>2 DEF SlotsTell
<1>10. TruthTells(w)'
  <2>1. TruthTells(w)
    BY DEF SpawnInv
  <2>2. child' = child /\ del' = del /\ truth' = truth /\ wstat' = wstat /\ delid' = delid /\ cmds' = cmds
        /\ Commands' = Commands
    BY <1>1 DEF Commands
  <2> QED BY <1>7, <2>1, <2>2 DEF TruthTells
<1>11. NumbersApart(w)' /\ Places(w)'
  <2>1. NumbersApart(w)
    BY DEF SpawnInv
  <2>2. cmds' = cmds /\ Commands' = Commands
    BY <1>1 DEF Commands
  <2>3. /\ want' = want /\ delid' = delid /\ client' = client /\ del' = del /\ n < delid
        /\ \A k \in Commands' : cmds'[k][2] # n /\ \E l \in Commands : cmds'[k] = cmds[l]
        /\ \A k, l \in Commands' : cmds'[k][2] = cmds'[l][2] => k = l
        /\ \A l \in Commands : cmds[l][1] = i \/ \E k \in Commands' : cmds'[k] = cmds[l]
    BY <1>1, <1>3, <2>1, <2>2 DEF NumbersApart
  <2>4. /\ \A j \in SpawnSlots : used'[j] => used[j] /\ del[j] # n
        /\ \A j \in SpawnSlots : used[j] /\ j # i => used'[j]
    BY <1>1, <1>3, <1>7, <2>1 DEF NumbersApart
  <2>5. client => /\ want[i] = n /\ ~used'[i]
                  /\ \A k \in Commands' : cmds'[k][1] # i
                  /\ \A k \in Told : reports[k][1] # i
    <3>1. ASSUME client PROVE Place(w, i)
      BY <3>1 DEF SpawnInv, Places
    <3> QED BY <1>1, <1>3, <1>7, <2>2, <3>1 DEF Place
  <2> QED BY <1>5, <2>3, <2>4, <2>5, Reported
<1> QED BY <1>6, <1>8, <1>9, <1>10, <1>11 DEF SpawnInv

(* Each step of the client, the spawner and the children keeps it.           *)
LEMMA StepSpawn ==
  ASSUME NEW w, Spawner(w)!SpawnAssumption, SpawnInv(w), [Spawner(w)!Next]_(Spawner(w)!vars)
  PROVE  SpawnInv(w)'
<1>1. ASSUME NEW i \in SpawnSlots, Spawner(w)!Ask(i) PROVE SpawnInv(w)'
  BY <1>1, StepAsk
<1>2. CASE Spawner(w)!Hear
  BY <1>2, StepHear
<1>3. CASE Spawner(w)!ClientDies \/ Spawner(w)!NoMoreCommands \/ Spawner(w)!Exit
  BY <1>3, StepEnds
<1>4. CASE Spawner(w)!Refuse
  BY <1>4, StepRefuse
<1>5. CASE Spawner(w)!Fork
  BY <1>5, StepFork
<1>6. ASSUME NEW i \in SpawnSlots, Spawner(w)!Sigchld(i) PROVE SpawnInv(w)'
  BY <1>6, StepSigchld
<1>7. ASSUME NEW i \in SpawnSlots, Spawner(w)!EndOfOutput(i) PROVE SpawnInv(w)'
  BY <1>7, StepEndOfOutput
<1>8. ASSUME NEW i \in SpawnSlots, Spawner(w)!Exec(i) \/ Spawner(w)!LingerEnds(i) PROVE SpawnInv(w)'
  BY <1>8, StepExec
<1>9. ASSUME NEW i \in SpawnSlots, Spawner(w)!ChildEnds(i) PROVE SpawnInv(w)'
  BY <1>9, StepChildEnds
<1>10. CASE UNCHANGED Spawner(w)!vars
  <2>1. /\ want' = want /\ delid' = delid /\ client' = client /\ cmds' = cmds /\ reports' = reports
        /\ used' = used /\ del' = del /\ child' = child /\ wstat' = wstat /\ holdsown' = holdsown
        /\ inherited' = inherited /\ lingers' = lingers /\ truth' = truth /\ answers' = answers
        /\ reading' = reading
    BY <1>10 DEF Spawner!vars, Spawner!clientVars, Spawner!slotVars
  <2>2. NumbersApart(w)' /\ Places(w)' /\ Spawner(w)!TrueReports'
    BY <2>1, PlacesKeep, ReportsKeep
  <2>3. Spawner(w)!TypeOK' /\ SlotsTell(w)' /\ TruthTells(w)'
    BY <2>1 DEF SpawnInv, Spawner!TypeOK, SlotsTell, TruthTells, Commands
  <2> QED BY <2>2, <2>3 DEF SpawnInv
<1> QED BY <1>1, <1>2, <1>3, <1>4, <1>5, <1>6, <1>7, <1>8, <1>9, <1>10 DEF Spawner!Next, Spawner!Spawner, Spawner!Children

(* The cardinality that the module of the spawner counts with.               *)
LEMMA SpawnerCounts == ASSUME NEW w, NEW S PROVE Spawner(w)!Cardinality(S) = Cardinality(S)
BY DEF Cardinality, Spawner!Cardinality, Spawner!IsFiniteSet, IsFiniteSet

(* InOnePlace counts what Places tells.                                      *)
LEMMA PlacesCount == ASSUME NEW w, SpawnInv(w) PROVE Spawner(w)!InOnePlace
<1> SUFFICES ASSUME client, NEW i \in SpawnSlots
             PROVE  /\ Spawner(w)!Cardinality({k \in Commands : cmds[k][1] = i})
                          + Spawner(w)!Cardinality({k \in Told : reports[k][1] = i}) + (IF used[i] THEN 1 ELSE 0)
                         = (IF want[i] = 0 THEN 0 ELSE 1)
                    /\ \A k \in {k \in Told : reports[k][1] = i} : reports[k][3] = want[i]
                    /\ used[i] => del[i] = want[i]
  BY DEF Spawner!InOnePlace, Commands, Told
<1> SUFFICES /\ Cardinality({k \in Commands : cmds[k][1] = i})
                  + Cardinality({k \in Told : reports[k][1] = i}) + (IF used[i] THEN 1 ELSE 0)
                = (IF want[i] = 0 THEN 0 ELSE 1)
             /\ \A k \in {k \in Told : reports[k][1] = i} : reports[k][3] = want[i]
             /\ used[i] => del[i] = want[i]
  BY SpawnerCounts, Zenon
<1> DEFINE asked == {k \in Commands : cmds[k][1] = i}
           told  == {k \in Told : reports[k][1] = i}
<1>1. Place(w, i)
  BY DEF SpawnInv, Places
<1>2. /\ \A k \in told : reports[k][3] = want[i]
      /\ used[i] => del[i] = want[i]
  BY <1>1 DEF Place
<1>3. Cardinality({}) = 0
  BY FS_EmptySet
<1>4. CASE used[i]
  <2>1. asked = {} /\ told = {} /\ want[i] # 0
    BY <1>1, <1>4 DEF Place
  <2>2. Cardinality(asked) = 0 /\ Cardinality(told) = 0
    BY <1>3, <2>1, Zenon
  <2> HIDE DEF asked, told
  <2> QED BY <1>2, <1>4, <2>1, <2>2 DEF asked, told
<1>5. CASE ~used[i] /\ asked # {}
  <2>1. PICK k \in asked : TRUE
    BY <1>5
  <2>2. asked = {k} /\ told = {} /\ want[i] # 0
    BY <1>1, <2>1 DEF Place
  <2>3. Cardinality(asked) = 1
    BY <2>2, FS_Singleton
  <2>4. Cardinality(told) = 0
    BY <1>3, <2>2, Zenon
  <2> QED BY <1>2, <1>5, <2>2, <2>3, <2>4
<1>6. CASE ~used[i] /\ asked = {} /\ told # {}
  <2>1. PICK k \in told : TRUE
    BY <1>6
  <2>2. told = {k} /\ want[i] # 0
    BY <1>1, <2>1 DEF Place
  <2>3. Cardinality(told) = 1
    BY <2>2, FS_Singleton
  <2> QED BY <1>2, <1>3, <1>6, <2>2, <2>3
<1>7. CASE ~used[i] /\ asked = {} /\ told = {}
  <2>1. want[i] = 0
    BY <1>1, <1>7 DEF Place
  <2>2. Cardinality(asked) = 0 /\ Cardinality(told) = 0
    BY <1>3, <1>7, Zenon
  <2> QED BY <1>2, <1>7, <2>1, <2>2
<1> QED BY <1>4, <1>5, <1>6, <1>7

-----------------------------------------------------------------------------
LEMMA SpawnerParts ==
  ASSUME NEW v \in Spawners, NEW w \in Spawners
  PROVE  /\ v.part = w.part => v = w
         /\ v.part # "rspawn" => v = LocalSpawner
<1>1. LocalSpawner.part = "lspawn" /\ RemoteSpawner.part = "rspawn"
  BY DEF LocalSpawner, RemoteSpawner
<1>2. v \in {LocalSpawner, RemoteSpawner} /\ w \in {LocalSpawner, RemoteSpawner}
  BY DEF Spawners
<1> QED BY <1>1, <1>2

(* The spawner that runs, if one does.                                        *)
SpawnersInv == \A w \in Spawners : part = w.part => SpawnInv(w)

(* Whatever children, slots and clients do, both spawners keep their records  *)
(* of who is at work, for any number of slots and deliveries.                 *)
THEOREM AlwaysSpawnersInv == Spec => []SpawnersInv
<1> USE InstancesAssumption
<1>1. Init => SpawnersInv
  <2> SUFFICES ASSUME Init, NEW w \in Spawners, part = w.part PROVE SpawnInv(w)
    BY DEF SpawnersInv
  <2>1. Spawner(w)!Init
    <3>1. PICK v \in Spawners : (v.part = part \/ (part # "rspawn" /\ v = LocalSpawner)) /\ Spawner(v)!Init
      BY DEF Init
    <3>2. v = w
      BY <3>1, SpawnerParts
    <3> QED BY <3>1, <3>2
  <2> QED BY <2>1, InitSpawn
<1>2. SpawnersInv /\ [Next]_vars => SpawnersInv'
  <2> SUFFICES ASSUME SpawnersInv, [Next]_vars, NEW w \in Spawners, part' = w.part PROVE SpawnInv(w)'
    BY DEF SpawnersInv
  <2>1. part' = part
    BY DEF Next, vars, Lives, Spawns, SendsJobs, Queues, Retries, Pulls
  <2>2. (\E v \in Spawners : part = v.part /\ Spawner(v)!Next) \/ UNCHANGED spawnVars
    BY DEF Next, vars, Lives, Spawns, SendsJobs, Queues, Retries, Pulls
  <2>3. CASE UNCHANGED spawnVars
    <3>1. UNCHANGED Spawner(w)!vars
      BY <2>3 DEF spawnVars, Spawner!vars, Spawner!clientVars, Spawner!slotVars
    <3> QED BY <2>1, <3>1, StepSpawn DEF SpawnersInv
  <2>4. CASE \E v \in Spawners : part = v.part /\ Spawner(v)!Next
    <3>1. PICK v \in Spawners : part = v.part /\ Spawner(v)!Next
      BY <2>4
    <3>2. v = w
      BY <2>1, <3>1, SpawnerParts
    <3> QED BY <2>1, <3>1, <3>2, StepSpawn DEF SpawnersInv
  <2> QED BY <2>2, <2>3, <2>4
<1> QED BY <1>1, <1>2, PTL DEF Spec

(* A report of qmail-lspawn or qmail-rspawn is about the child of its slot,   *)
(* whatever else has died since, and a delivery number is in one place, for   *)
(* any number of slots and deliveries.                                        *)
THEOREM AlwaysReportsTrue == Spec => []ReportsTrue
<1>1. SpawnersInv => ReportsTrue
  BY PlacesCount DEF SpawnersInv, ReportsTrue, SpawnInv
<1> QED BY <1>1, AlwaysSpawnersInv, PTL

-----------------------------------------------------------------------------
JobsPartInv == part = "jobs" => Jobs!JobsInv /\ Jobs!PlaceInv

(* Whatever calls on the channel files fail: a job counts its users, a mark   *)
(* is true, and a message is in one of the queues, jobs and reports, for any  *)
(* number of messages, records, slots and jobs.                               *)
THEOREM AlwaysJobsExact == Spec => []JobsExact
<1> USE InstancesAssumption
<1>1. Init => JobsPartInv
  BY Jobs!InitJobs, Jobs!InitPlace DEF Init, JobsPartInv
<1>2. JobsPartInv /\ [Next]_vars => JobsPartInv'
  <2> SUFFICES ASSUME JobsPartInv, [Next]_vars, part' = "jobs" PROVE (Jobs!JobsInv /\ Jobs!PlaceInv)'
    BY DEF JobsPartInv
  <2>1. part = "jobs"
    BY DEF Next, vars, Lives, Spawns, SendsJobs, Queues, Retries, Pulls
  <2>2. Jobs!Next \/ UNCHANGED jobVars
    BY <2>1 DEF Next, vars, Lives, Spawns, SendsJobs, Queues, Retries, Pulls
  <2>3. [Jobs!Next]_Jobs!vars
    BY <2>2 DEF jobVars, Jobs!vars
  <2> QED BY <2>1, <2>3, Jobs!StepJobs, Jobs!StepPlace DEF JobsPartInv
<1>3. JobsPartInv => JobsExact
  BY DEF JobsPartInv, JobsExact, Jobs!JobsInv, Jobs!PlaceInv
<1> QED BY <1>1, <1>2, <1>3, PTL DEF Spec

-----------------------------------------------------------------------------
LivesInv ==
  /\ part = "lifecycle" => Lifecycle!HandoverInv
  /\ part = "double" => Double!OwnerInv

(* Whatever daemons are killed and started again, qmail-send forgets no       *)
(* message and hears of none twice; and of two at one time, only one          *)
(* delivers. For any number of messages, of starts and of deaths.             *)
THEOREM AlwaysHandover == Spec => []Handover
<1> USE InstancesAssumption
<1>1. Init => LivesInv
  <2>1. Lifecycle!Init => Double!Init
    BY DEF Lifecycle!Init, Double!Init
  <2> QED BY <2>1, Lifecycle!HandoverInit, Double!OwnerInit DEF Init, LivesInv
<1>2. LivesInv /\ [Next]_vars => LivesInv'
  <2> SUFFICES ASSUME LivesInv, [Next]_vars PROVE LivesInv'
    OBVIOUS
  <2>1. part' = part
    BY DEF Next, vars, Lives, Spawns, SendsJobs, Queues, Retries, Pulls
  <2>2. \/ part = "lifecycle" /\ Lifecycle!Next
        \/ part = "double" /\ Double!Next
        \/ UNCHANGED lifeVars
    BY DEF Next, vars, Lives, Spawns, SendsJobs, Queues, Retries, Pulls
  <2>3. ASSUME part = "lifecycle" PROVE Lifecycle!HandoverInv'
    <3>1. [Lifecycle!Next]_Lifecycle!vars
      BY <2>2, <2>3 DEF lifeVars, Lifecycle!vars, Lifecycle!queueVars, Lifecycle!sendVars,
                        Lifecycle!todoVars, Lifecycle!pipeVars
    <3> QED BY <2>3, <3>1, Lifecycle!HandoverStep DEF LivesInv
  <2>4. ASSUME part = "double" PROVE Double!OwnerInv'
    <3>1. [Double!Next]_Double!vars
      BY <2>2, <2>4 DEF lifeVars, Double!vars, Double!queueVars, Double!sendVars,
                        Double!todoVars, Double!pipeVars
    <3>2. Double!TypeOK' /\ Double!OneOwner'
      BY <2>4, <3>1, Double!OwnerStep, Double!StepTypes DEF LivesInv, Double!OwnerInv
    <3> QED BY <3>2 DEF Double!OwnerInv
  <2> QED BY <2>1, <2>3, <2>4 DEF LivesInv
<1>3. LivesInv => Handover
  BY Lifecycle!HandoverTold, Double!OwnerDelivers
  DEF LivesInv, Handover, Lifecycle!HandoverInv, Double!OwnerInv
<1> QED BY <1>1, <1>2, <1>3, PTL DEF Spec

-----------------------------------------------------------------------------
(* What cannot wait for the timer: qmail-todo is about to look, or will read  *)
(* the entry in the scan that goes on.                                        *)
Covered(w) ==
  \/ due
  \/ phase \in {"init", "closed", "open"}
  \/ phase = "scan" /\ w \in left

(* A byte that was written stays until qmail-todo has closed the FIFO, and    *)
(* then it is about to scan: no entry is between the two.                     *)
Pulled == \A w \in trigger_todo : writer[w] \in {"close", "end"} => Covered(w) \/ byte
PullInv == Timed!TypeOK /\ Pulled

LEMMA KillsNat == TriggerKills \in Nat
BY InstancesAssumption DEF Timed!TriggerAssumption

LEMMA InitPull == ASSUME Timed!Init PROVE PullInv
<1>1. holders = {v \in Injectors : writer[v] \in {"write", "close"}}
  BY DEF Timed!Init
<1>2. kills \in 0 .. TriggerKills /\ trigger_todo \subseteq Injectors /\ left \subseteq trigger_todo
  BY KillsNat DEF Timed!Init
<1>3. reader = (phase \notin {"init", "closed"})
  BY DEF Timed!Init
<1>4. Timed!TypeOK
  BY <1>1, <1>2, <1>3 DEF Timed!Init, Timed!TypeOK
<1> QED BY <1>4 DEF Timed!Init, PullInv, Pulled

LEMMA StepPull == ASSUME PullInv, Timed!Next PROVE PullInv'
<1> USE KillsNat DEF Timed!TypeOK, Timed!fifo, Timed!daemon
<1>0. Timed!TypeOK /\ Pulled
  BY DEF PullInv
<1>1. ASSUME NEW v \in Injectors, Timed!Link(v) PROVE PullInv'
  BY <1>0, <1>1 DEF Timed!Link, PullInv, Pulled, Covered
<1>2. ASSUME NEW v \in Injectors, Timed!OpenFifo(v) PROVE PullInv'
  BY <1>0, <1>2 DEF Timed!OpenFifo, PullInv, Pulled, Covered
<1>3. ASSUME NEW v \in Injectors, Timed!WriteFifo(v) PROVE PullInv'
  BY <1>0, <1>3 DEF Timed!WriteFifo, PullInv, Pulled, Covered
<1>4. ASSUME NEW v \in Injectors, Timed!CloseFifo(v) PROVE PullInv'
  BY <1>0, <1>4 DEF Timed!CloseFifo, Timed!CloseForWriting, PullInv, Pulled, Covered
<1>5. ASSUME NEW v \in Injectors, Timed!WriterDies(v) PROVE PullInv'
  BY <1>0, <1>5 DEF Timed!WriterDies, Timed!CloseForWriting, PullInv, Pulled, Covered
<1>6. CASE Timed!Start
  BY <1>0, <1>6 DEF Timed!Start, Timed!OpenForReading, PullInv, Pulled, Covered
<1>7. CASE Timed!Wake
  BY <1>0, <1>7 DEF Timed!Wake, Timed!CloseForReading, PullInv, Pulled, Covered
<1>8. CASE Timed!Reopen
  BY <1>0, <1>8 DEF Timed!Reopen, Timed!OpenForReading, PullInv, Pulled, Covered
<1>9. CASE Timed!OpenDir \/ Timed!CloseDir \/ Timed!TimeComes
  BY <1>0, <1>9 DEF Timed!OpenDir, Timed!CloseDir, Timed!TimeComes, PullInv, Pulled, Covered
<1>10. ASSUME NEW v \in Injectors, Timed!Preprocess(v) PROVE PullInv'
  BY <1>0, <1>10 DEF Timed!Preprocess, PullInv, Pulled, Covered
<1>11. CASE Timed!TodoDies
  <2>1. reader' = (phase' \notin {"init", "closed"}) /\ left' \subseteq trigger_todo'
    BY <1>0, <1>11 DEF Timed!TodoDies, Timed!CloseForReading
  <2>2. kills' \in 0 .. TriggerKills /\ byte' \in BOOLEAN
    BY <1>0, <1>11 DEF Timed!TodoDies, Timed!CloseForReading
  <2>3. Timed!TypeOK'
    BY <1>0, <1>11, <2>1, <2>2 DEF Timed!TodoDies, Timed!CloseForReading
  <2> QED BY <1>11, <2>3 DEF Timed!TodoDies, PullInv, Pulled, Covered
<1>12. ~Timed!OpenDirFails
  BY DEF Timed!OpenDirFails
<1> QED
  BY <1>1, <1>2, <1>3, <1>4, <1>5, <1>6, <1>7, <1>8, <1>9, <1>10, <1>11, <1>12
  DEF Timed!Next, Timed!Queue, Timed!Daemon

LEMMA PulledResponds == ASSUME PullInv PROVE Timed!RespondInstantly
BY DEF PullInv, Pulled, Covered, Timed!TypeOK, Timed!RespondInstantly, Timed!Readable

PartPulled == part = "trigger" => PullInv

(* For any number of processes of qmail-queue and of kills: an entry whose    *)
(* writer pulled the trigger keeps qmail-todo from sleeping until it is read. *)
THEOREM AlwaysRespondInstantly == Spec => []RespondInstantly
<1>1. Init => PartPulled
  BY InitPull DEF Init, PartPulled
<1>2. PartPulled /\ [Next]_vars => PartPulled'
  <2> SUFFICES ASSUME PartPulled, [Next]_vars, part' = "trigger" PROVE PullInv'
    BY DEF PartPulled
  <2>1. part = "trigger"
    BY DEF Next, vars, Lives, Spawns, SendsJobs, Queues, Retries, Pulls
  <2>2. Timed!Next \/ UNCHANGED triggerVars
    BY <2>1 DEF Next, vars, Lives, Spawns, SendsJobs, Queues, Retries, Pulls
  <2>3. CASE UNCHANGED triggerVars
    BY <2>1, <2>3 DEF triggerVars, PartPulled, PullInv, Pulled, Covered, Timed!TypeOK
  <2> QED BY <2>1, <2>2, <2>3, StepPull DEF PartPulled
<1>3. PartPulled => RespondInstantly
  BY PulledResponds DEF PartPulled, PullInv, RespondInstantly
<1> QED BY <1>1, <1>2, <1>3, PTL DEF Spec
=============================================================================
