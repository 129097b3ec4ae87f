--------------------------- MODULE LifecycleSafety ---------------------------
(***************************************************************************)
(* What generations of the qmail daemons promise each other, for any number  *)
(* of generations and messages: with a restart that waits for every daemon   *)
(* of the last generation, no preprocessed message is forgotten and none is  *)
(* told twice, whoever dies; and when nobody is killed lock/sendmutex keeps   *)
(* deliveries apart, however qmail-start is started again.                   *)
(***************************************************************************)
EXTENDS DaemonLifecycle, SequenceTheorems, TLAPS

(* What qmail-todo of generation g has told, in the pipe or its buffer, and   *)
(* qmail-send has not read.                                                  *)
Line(g) == up[g] \o cbuf[g]
Places(g) == 1 .. Len(Line(g))
Told(g) == {Line(g)[i] : i \in Places(g)}
Once(g) == \A i, j \in Places(g) : Line(g)[i] # Stop /\ Line(g)[i] = Line(g)[j] => i = j
D(m) == [type |-> "D", msg |-> m]

(* A generation that was not started has done nothing, one that comes up      *)
(* has not woken its qmail-todo, and only a qmail-todo that runs is inside    *)
(* todo_do().                                                                *)
Stages ==
  \A g \in Gens :
    /\ send[g] = "none" => todo[g] = "none" /\ spawn[g] = "none"
    /\ send[g] \in {"none", "start", "scan"} =>
         /\ todo[g] \in {"none", "wait", "dead"} /\ down[g] = <<>>
         /\ up[g] = <<>> /\ cbuf[g] = <<>> /\ known[g] = {}
    /\ todo[g] = "wait" => cbuf[g] = <<>>
    /\ handling[g] # NoMsg => todo[g] = "run" /\ handling[g] \in queued

(* The restart waits for every daemon of the generations before.              *)
OneGeneration ==
  \A g, h \in Gens : h < g /\ send[g] # "none" =>
    send[h] = "dead" /\ todo[h] = "dead" /\ spawn[h] = "dead"

(* What is still in todo/ was not told to anybody and nobody knows it; what   *)
(* was told is told once, and not known yet.                                 *)
Untold ==
  /\ queued \cap info = {}
  /\ \A g \in Gens : known[g] \cap queued = {}
  /\ \A g \in Gens : \A m \in Msgs : D(m) \in Told(g) => m \notin queued /\ m \notin known[g]
  /\ \A g \in Gens : Once(g)

(* While pqstart() reads the directories nothing is preprocessed.             *)
Scanning == \A g \in Gens : send[g] = "scan" => seen[g] = info

(* The inductive invariant, for a restart that waits.                        *)
HandoverInv == TypeOK /\ Stages /\ OneGeneration /\ Untold /\ Scanning /\ NobodyForgotten

(* The inductive invariant when nobody is killed, however restarts go: who    *)
(* has lock/sendmutex delivers, and its spawners outlive it.                 *)
OneOwner ==
  /\ crashes = 0
  /\ \A g \in Gens :
       /\ send[g] \in {"scan", "up"} => mutex = g
       /\ flight[g] # {} => send[g] = "up"
       /\ send[g] = "up" => spawnalive[g]
       /\ spawn[g] = "dead" => send[g] = "dead"

OwnerInv == TypeOK /\ OneOwner

-----------------------------------------------------------------------------
(* Types *)

LEMMA PipesAreSeqs ==
  ASSUME TypeOK, NEW g \in Gens
  PROVE  /\ up[g] \in Seq(Reports \cup {Stop}) /\ cbuf[g] \in Seq(Reports \cup {Stop})
         /\ down[g] \in Seq({"S", "X"})
         /\ \A m \in Msgs : Append(cbuf[g], D(m)) \in Seq(Reports \cup {Stop})
         /\ <<Stop>> \in Seq(Reports \cup {Stop}) /\ <<>> \in Seq(Reports \cup {Stop})
         /\ up[g] \o cbuf[g] \in Seq(Reports \cup {Stop})
         /\ up[g] # <<>> => Tail(up[g]) \in Seq(Reports \cup {Stop}) /\ Head(up[g]) \in Reports \cup {Stop}
         /\ \A c \in {"S", "X"} : Append(down[g], c) \in Seq({"S", "X"})
         /\ down[g] # <<>> => Tail(down[g]) \in Seq({"S", "X"}) /\ Head(down[g]) \in {"S", "X"}
<1> DEFINE T == Reports \cup {Stop}
           C == {"S", "X"}
<1>1. up[g] \in Seq(T) /\ cbuf[g] \in Seq(T) /\ down[g] \in Seq(C)
  BY DEF TypeOK
<1>2. (\A m \in Msgs : D(m) \in T) /\ Stop \in T
  BY DEF D, Reports
<1> HIDE DEF T, C
<1>3. \A m \in Msgs : Append(cbuf[g], D(m)) \in Seq(T)
  BY <1>1, <1>2, AppendProperties
<1>4. <<>> \in Seq(T) /\ <<Stop>> \in Seq(T)
  BY <1>2, EmptySeq
<1>5. up[g] \o cbuf[g] \in Seq(T)
  BY <1>1, ConcatProperties
<1>6. up[g] # <<>> => Tail(up[g]) \in Seq(T) /\ Head(up[g]) \in T
  BY <1>1, HeadTailProperties
<1>7. \A c \in C : Append(down[g], c) \in Seq(C)
  BY <1>1, AppendProperties
<1>8. down[g] # <<>> => Tail(down[g]) \in Seq(C) /\ Head(down[g]) \in C
  BY <1>1, HeadTailProperties
<1> QED BY <1>1, <1>3, <1>4, <1>5, <1>6, <1>7, <1>8 DEF T, C

(* The steps of qmail-send, of qmail-todo, and of the spawners, and deaths.  *)
Sends(g) ==
  \/ SendLock(g) \/ SendUp(g) \/ SendTerm(g) \/ SendTurn(g)
  \/ \E m \in Msgs : Deliver(g, m)
  \/ \E m \in Msgs, success \in BOOLEAN : DeliveryEnds(g, m, success)
Todos(g) == TodoTurn(g) \/ \E m \in Msgs : TodoTake(g, m)
SomeDeath(g) == SendDies(g) \/ TodoDies(g) \/ TodoCleanDies(g) \/ SpawnDies(g) \/ SpawnExit(g)

LEMMA TypesOutside ==
  ASSUME LifecycleAssumption, TypeOK, (\E g \in Gens : QmailStart(g)) \/ (\E m \in Msgs : Inject(m))
  PROVE  TypeOK'
<1>1. ASSUME NEW g \in Gens, QmailStart(g) PROVE TypeOK'
  BY <1>1 DEF QmailStart, TypeOK, queueVars, pipeVars
<1>2. ASSUME NEW m \in Msgs, Inject(m) PROVE TypeOK'
  BY <1>2 DEF Inject, TypeOK, sendVars, todoVars, pipeVars
<1> QED BY <1>1, <1>2

LEMMA TypesSends == ASSUME LifecycleAssumption, TypeOK, NEW g \in Gens, Sends(g) PROVE TypeOK'
<1> USE DEF queueVars, todoVars, pipeVars
<1>1. CASE SendLock(g)
  BY <1>1 DEF SendLock, SendGone, TypeOK
<1>2. CASE SendUp(g)
  <2>1. PICK late \in SUBSET (info \ seen[g]) : known' = [known EXCEPT ![g] = (seen[g] \cap info) \cup late]
    BY <1>2 DEF SendUp
  <2>2. known' \in [Gens -> SUBSET Msgs]
    BY <2>1 DEF TypeOK
  <2>3. Append(down[g], "S") \in Seq({"S", "X"})
    BY PipesAreSeqs
  <2>4. down' \in [Gens -> Seq({"S", "X"})]
    BY <1>2, <2>3 DEF SendUp, TypeOK
  <2>5. /\ send' \in [Gens -> {"none", "start", "scan", "up", "dead"}]
        /\ exitasap' \in [Gens -> BOOLEAN] /\ todoalive' \in [Gens -> BOOLEAN]
        /\ spawnalive' \in [Gens -> BOOLEAN]
    BY <1>2 DEF SendUp, TypeOK
  <2> QED BY <1>2, <2>2, <2>4, <2>5 DEF SendUp, TypeOK
<1>3. CASE SendTerm(g)
  BY <1>3 DEF SendTerm, TypeOK
<1>4. CASE SendStop(g)
  <2>1. Append(down[g], "X") \in Seq({"S", "X"})
    BY PipesAreSeqs
  <2> QED BY <1>4, <2>1 DEF SendStop, TypeOK, sendVars
<1>5. CASE SendRead(g)
  <2>1. Tail(up[g]) \in Seq(Reports \cup {Stop}) /\ Head(up[g]) \in Reports \cup {Stop}
    BY <1>5, PipesAreSeqs DEF SendRead
  <2>2. up' \in [Gens -> Seq(Reports \cup {Stop})]
    BY <1>5, <2>1 DEF SendRead, TypeOK
  <2>3. known' \in [Gens -> SUBSET Msgs]
    <3>1. CASE known' = known
      BY <3>1 DEF TypeOK
    <3>2. CASE Head(up[g]).type = "D" /\ known' = [known EXCEPT ![g] = @ \cup {Head(up[g]).msg}]
      <4>1. Head(up[g]).msg \in Msgs
        BY <2>1, <3>2 DEF Reports, Stop
      <4> QED BY <3>2, <4>1 DEF TypeOK
    <3> QED BY <1>5, <3>1, <3>2 DEF SendRead
  <2>4. todoalive' \in [Gens -> BOOLEAN] /\ exitasap' \in [Gens -> BOOLEAN]
    BY <1>5 DEF SendRead, TypeOK
  <2> QED BY <1>5, <2>2, <2>3, <2>4 DEF SendRead, TypeOK
<1>6. CASE SendSeesTodoEnd(g) \/ SendSeesSpawnEnd(g)
  BY <1>6 DEF SendSeesTodoEnd, SendSeesSpawnEnd, TypeOK
<1>7. CASE SendExit(g)
  BY <1>7 DEF SendExit, SendGone, TypeOK
<1>8. ASSUME NEW m \in Msgs, Deliver(g, m) PROVE TypeOK'
  BY <1>8 DEF Deliver, TypeOK
<1>9. ASSUME NEW m \in Msgs, NEW success \in BOOLEAN, DeliveryEnds(g, m, success) PROVE TypeOK'
  <2>1. info' \subseteq Msgs
    BY <1>9 DEF DeliveryEnds, TypeOK
  <2>2. known' = known \/ known' = [known EXCEPT ![g] = @ \ {m}]
    BY <1>9 DEF DeliveryEnds
  <2>3. known' \in [Gens -> SUBSET Msgs]
    BY <2>2 DEF TypeOK
  <2>4. flight' \in [Gens -> SUBSET Msgs]
    BY <1>9 DEF DeliveryEnds, TypeOK
  <2> QED BY <1>9, <2>1, <2>3, <2>4 DEF DeliveryEnds, TypeOK
<1> QED BY <1>1, <1>2, <1>3, <1>4, <1>5, <1>6, <1>7, <1>8, <1>9 DEF Sends, SendTurn

LEMMA TypesTodos == ASSUME LifecycleAssumption, TypeOK, NEW g \in Gens, Todos(g) PROVE TypeOK'
<1> USE DEF queueVars, sendVars, pipeVars
<1>1. CASE TodoStart(g) \/ TodoRead(g)
  <2>1. down' = down \/ (down[g] # <<>> /\ down' = [down EXCEPT ![g] = Tail(@)])
    BY <1>1 DEF TodoStart, TodoRead
  <2>2. down[g] # <<>> => Tail(down[g]) \in Seq({"S", "X"})
    BY PipesAreSeqs
  <2>3. down' \in [Gens -> Seq({"S", "X"})]
    BY <2>1, <2>2 DEF TypeOK
  <2>4. /\ todo' \in [Gens -> {"none", "wait", "run", "dead"}]
        /\ stopasap' \in [Gens -> BOOLEAN]
    BY <1>1 DEF TodoStart, TodoRead, TypeOK
  <2> QED BY <1>1, <2>3, <2>4 DEF TodoStart, TodoRead, TypeOK
<1>2. CASE TodoDone(g)
  <2>1. handling[g] \in Msgs
    BY <1>2 DEF TodoDone, TypeOK
  <2>2. Append(cbuf[g], D(handling[g])) \in Seq(Reports \cup {Stop})
    BY <2>1, PipesAreSeqs
  <2>3. cbuf' \in [Gens -> Seq(Reports \cup {Stop})]
    BY <1>2, <2>2 DEF TodoDone, TypeOK, D
  <2> QED BY <1>2, <2>1, <2>3 DEF TodoDone, TypeOK
<1>3. CASE TodoWrite(g)
  <2>1. up[g] \o cbuf[g] \in Seq(Reports \cup {Stop}) /\ <<>> \in Seq(Reports \cup {Stop})
    BY PipesAreSeqs
  <2>2. up' \in [Gens -> Seq(Reports \cup {Stop})] /\ cbuf' \in [Gens -> Seq(Reports \cup {Stop})]
    BY <1>3, <2>1 DEF TodoWrite, TypeOK
  <2>3. todo' \in [Gens -> {"none", "wait", "run", "dead"}]
    BY <1>3 DEF TodoWrite, TypeOK
  <2> QED BY <1>3, <2>2, <2>3 DEF TodoWrite, TypeOK
<1>4. CASE TodoStop(g)
  <2>1. <<Stop>> \in Seq(Reports \cup {Stop})
    BY PipesAreSeqs
  <2>2. cbuf' \in [Gens -> Seq(Reports \cup {Stop})]
    BY <1>4, <2>1 DEF TodoStop, TypeOK
  <2> QED BY <1>4, <2>2 DEF TodoStop, TypeOK
<1>5. ASSUME NEW m \in Msgs, TodoTake(g, m) PROVE TypeOK'
  BY <1>5 DEF TodoTake, TypeOK
<1> QED BY <1>1, <1>2, <1>3, <1>4, <1>5 DEF Todos, TodoTurn

LEMMA TypesDeaths == ASSUME LifecycleAssumption, TypeOK, NEW g \in Gens, SomeDeath(g) PROVE TypeOK'
<1> USE DEF queueVars, sendVars, todoVars, pipeVars, LifecycleAssumption
<1>1. Crash => crashes' \in 0 .. MaxCrashes
  BY DEF Crash, TypeOK
<1>2. CASE SendDies(g)
  BY <1>1, <1>2 DEF SendDies, SendGone, TypeOK
<1>3. CASE TodoDies(g)
  BY <1>1, <1>3 DEF TodoDies, TypeOK
<1>4. CASE TodoCleanDies(g)
  BY <1>1, <1>4 DEF TodoCleanDies, TypeOK
<1>5. CASE SpawnDies(g)
  BY <1>1, <1>5 DEF SpawnDies, TypeOK
<1>6. CASE SpawnExit(g)
  BY <1>6 DEF SpawnExit, TypeOK
<1> QED BY <1>2, <1>3, <1>4, <1>5, <1>6 DEF SomeDeath

LEMMA TypesInit == ASSUME LifecycleAssumption, Init PROVE TypeOK
<1>1. <<>> \in Seq(Reports \cup {Stop}) /\ <<>> \in Seq({"S", "X"})
  BY EmptySeq
<1> QED BY <1>1 DEF Init, TypeOK, LifecycleAssumption

(* Who takes a step.                                                         *)
LEMMA WhoSteps ==
  ASSUME Next
  PROVE  \/ \E m \in Msgs : Inject(m)
         \/ \E g \in Gens : QmailStart(g) \/ Sends(g) \/ Todos(g) \/ SomeDeath(g)
BY Zenon DEF Next, Sends, Todos, SomeDeath

LEMMA StepTypes == ASSUME LifecycleAssumption, TypeOK, [Next]_vars PROVE TypeOK'
<1>1. CASE Next
  BY <1>1, WhoSteps, TypesOutside, TypesSends, TypesTodos, TypesDeaths
<1>2. CASE UNCHANGED vars
  BY <1>2 DEF TypeOK, vars, queueVars, sendVars, todoVars, pipeVars
<1> QED BY <1>1, <1>2

-----------------------------------------------------------------------------
(* Who owns lock/sendmutex delivers *)

LEMMA OwnerStep ==
  ASSUME LifecycleAssumption, MaxCrashes = 0, OwnerInv, [Next]_vars PROVE OneOwner'
<1> USE DEF OwnerInv
<1>0. mutex \in Gens \cup {0} /\ (\A g \in Gens : g # 0) /\ ~Crash
  BY DEF TypeOK, LifecycleAssumption, OneOwner, Crash
<1>1. CASE UNCHANGED vars
  BY <1>1 DEF OneOwner, vars, sendVars
<1>2. ASSUME NEW m \in Msgs, Inject(m) PROVE OneOwner'
  BY <1>2 DEF Inject, OneOwner, sendVars
<1>3. ASSUME NEW g \in Gens, QmailStart(g) PROVE OneOwner'
  BY <1>3 DEF QmailStart, OneOwner, TypeOK
<1>4. ASSUME NEW g \in Gens, Sends(g) PROVE OneOwner'
  <2>1. CASE SendLock(g)
    BY <1>0, <2>1 DEF SendLock, SendGone, OneOwner, TypeOK
  <2>2. CASE SendUp(g)
    BY <2>2 DEF SendUp, OneOwner, TypeOK
  <2>3. CASE SendTerm(g) \/ SendStop(g) \/ SendRead(g) \/ SendSeesTodoEnd(g)
    BY <2>3 DEF SendTerm, SendStop, SendRead, SendSeesTodoEnd, OneOwner, sendVars
  <2>4. CASE SendSeesSpawnEnd(g)
    BY <2>4 DEF SendSeesSpawnEnd, OneOwner
  <2>5. CASE SendExit(g)
    BY <1>0, <2>5 DEF SendExit, SendGone, OneOwner, TypeOK
  <2>6. ASSUME NEW m \in Msgs, Deliver(g, m) PROVE OneOwner'
    BY <2>6 DEF Deliver, OneOwner, TypeOK
  <2>7. ASSUME NEW m \in Msgs, NEW success \in BOOLEAN, DeliveryEnds(g, m, success) PROVE OneOwner'
    <3>1. \A h \in Gens : flight'[h] \subseteq flight[h]
      BY <2>7 DEF DeliveryEnds, TypeOK
    <3>2. UNCHANGED <<mutex, send, spawnalive, spawn, crashes>>
      BY <2>7 DEF DeliveryEnds
    <3> QED BY <3>1, <3>2 DEF OneOwner
  <2> QED BY <1>4, <2>1, <2>2, <2>3, <2>4, <2>5, <2>6, <2>7 DEF Sends, SendTurn
<1>5. ASSUME NEW g \in Gens, Todos(g) PROVE OneOwner'
  BY <1>5 DEF Todos, TodoTurn, TodoStart, TodoRead, TodoDone, TodoWrite, TodoStop, TodoTake, OneOwner,
              sendVars
<1>6. ASSUME NEW g \in Gens, SomeDeath(g) PROVE OneOwner'
  <2>1. SpawnExit(g)
    BY <1>0, <1>6 DEF SomeDeath, SendDies, TodoDies, TodoCleanDies, SpawnDies
  <2> QED BY <2>1 DEF SpawnExit, OneOwner, TypeOK, sendVars
<1> QED BY <1>1, <1>2, <1>3, <1>4, <1>5, <1>6, WhoSteps

LEMMA OwnerInit == ASSUME LifecycleAssumption, Init PROVE OwnerInv
BY TypesInit DEF Init, OwnerInv, OneOwner

LEMMA OwnerDelivers == ASSUME LifecycleAssumption, OwnerInv PROVE OneDeliverer
BY DEF OwnerInv, OneOwner, OneDeliverer

(* lock/sendmutex: when no daemon is killed, a second qmail-start never        *)
(* delivers a message that the first one is delivering, whether it waits for  *)
(* the first or not.                                                         *)
THEOREM AlwaysOneDeliverer ==
  ASSUME LifecycleAssumption, MaxCrashes = 0 PROVE Spec => []OneDeliverer
<1>1. Init => OwnerInv
  BY OwnerInit
<1>2. OwnerInv /\ [Next]_vars => OwnerInv'
  BY OwnerStep, StepTypes DEF OwnerInv
<1>3. OwnerInv => OneDeliverer
  BY OwnerDelivers
<1> QED BY <1>1, <1>2, <1>3, PTL DEF Spec

(* The daemons, their pipes and the queue keep their types.                  *)
THEOREM AlwaysTypeOK == ASSUME LifecycleAssumption PROVE Spec => []TypeOK
<1>1. Init => TypeOK
  BY TypesInit
<1>2. TypeOK /\ [Next]_vars => TypeOK'
  BY StepTypes
<1> QED BY <1>1, <1>2, PTL DEF Spec

-----------------------------------------------------------------------------
(* What qmail-todo tells *)

LEMMA LineTypes ==
  ASSUME TypeOK, NEW g \in Gens
  PROVE  /\ Line(g) \in Seq(Reports \cup {Stop}) /\ Len(Line(g)) \in Nat
         /\ Told(g) \subseteq Reports \cup {Stop}
         /\ \A x \in Reports : \E m \in Msgs : x = D(m)
<1>1. Line(g) \in Seq(Reports \cup {Stop})
  BY PipesAreSeqs DEF Line
<1>2. \A i \in Places(g) : Line(g)[i] \in Reports \cup {Stop}
  BY <1>1, ElementOfSeq DEF Places
<1>3. \A x \in Reports : \E m \in Msgs : x = D(m)
  BY DEF Reports, D
<1> QED BY <1>1, <1>2, <1>3, LenProperties DEF Told

LEMMA ReportedTold ==
  ASSUME NEW g \in Gens, NEW m \in Msgs PROVE Reported(g, m) <=> D(m) \in Told(g)
BY DEF Reported, Told, Line, Places, D

(* A report goes into the buffer.                                            *)
LEMMA LineGrows ==
  ASSUME TypeOK, NEW g \in Gens, NEW x \in Reports \cup {Stop},
         up'[g] = up[g], cbuf'[g] = Append(cbuf[g], x)
  PROVE  /\ Told(g)' = Told(g) \cup {x}
         /\ Once(g) /\ (x = Stop \/ x \notin Told(g)) => Once(g)'
<1> DEFINE T == Reports \cup {Stop}
           u == up[g]
           c == cbuf[g]
           a == Append(c, x)
           n == Len(u) + Len(c)
<1>1. u \in Seq(T) /\ c \in Seq(T) /\ x \in T
  BY PipesAreSeqs
<1>2. Line(g) = u \o c /\ Line(g)' = u \o a
  BY DEF Line
<1> HIDE DEF T, u, c
<1>3. Len(u) \in Nat /\ Len(c) \in Nat
  BY <1>1, LenProperties
<1>4. /\ a \in Seq(T) /\ Len(a) = Len(c) + 1
      /\ \A i \in 1 .. Len(c) : a[i] = c[i]
      /\ a[Len(c) + 1] = x
  BY <1>1, AppendProperties
<1> HIDE DEF a
<1>5. /\ Len(u \o c) = n
      /\ \A i \in 1 .. n : (u \o c)[i] = IF i <= Len(u) THEN u[i] ELSE c[i - Len(u)]
  BY <1>1, ConcatProperties
<1>6. /\ Len(u \o a) = n + 1
      /\ \A i \in 1 .. n + 1 :
           (u \o a)[i] = IF i <= Len(u) THEN u[i] ELSE a[i - Len(u)]
  <2>1. /\ Len(u \o a) = Len(u) + Len(a)
        /\ \A i \in 1 .. Len(u) + Len(a) : (u \o a)[i] = IF i <= Len(u) THEN u[i] ELSE a[i - Len(u)]
    BY <1>1, <1>4, ConcatProperties
  <2>2. Len(u) + Len(a) = n + 1
    BY <1>3, <1>4
  <2> QED BY <2>1, <2>2
<1>7. ASSUME NEW i \in 1 .. n PROVE (u \o a)[i] = (u \o c)[i]
  <2>1. i \in 1 .. n + 1 /\ (i <= Len(u) \/ i - Len(u) \in 1 .. Len(c))
    BY <1>3
  <2> QED BY <1>4, <1>5, <1>6, <2>1
<1>8. (u \o a)[n + 1] = x
  <2>1. n + 1 \in 1 .. n + 1 /\ ~(n + 1 <= Len(u)) /\ (n + 1) - Len(u) = Len(c) + 1
    BY <1>3
  <2> QED BY <1>4, <1>6, <2>1
<1>9. /\ Places(g) = 1 .. n /\ Places(g)' = Places(g) \cup {n + 1} /\ n + 1 \notin Places(g)
      /\ Line(g)'[n + 1] = x
      /\ \A i \in Places(g) : Line(g)'[i] = Line(g)[i]
  BY <1>2, <1>3, <1>5, <1>6, <1>7, <1>8 DEF Places
<1> HIDE DEF n
<1> QED BY <1>9 DEF Told, Once

(* comm_write() passes the buffer on.                                        *)
LEMMA LineFlushed ==
  ASSUME TypeOK, NEW g \in Gens, up'[g] = up[g] \o cbuf[g], cbuf'[g] = <<>>
  PROVE  Told(g)' = Told(g) /\ Once(g)' = Once(g)
<1>1. Line(g)' = up[g] \o cbuf[g]
  BY PipesAreSeqs, ConcatEmptySeq DEF Line
<1> QED BY <1>1 DEF Line, Places, Told, Once

LEMMA LineKept ==
  ASSUME NEW g \in Gens, up'[g] = up[g], cbuf'[g] = cbuf[g]
  PROVE  Told(g)' = Told(g) /\ Once(g)' = Once(g)
BY DEF Line, Places, Told, Once

(* qmail-send reads the first report.                                        *)
LEMMA LineRead ==
  ASSUME TypeOK, NEW g \in Gens, up[g] # <<>>, up'[g] = Tail(up[g]), cbuf'[g] = cbuf[g]
  PROVE  /\ Told(g) = Told(g)' \cup {Head(up[g])}
         /\ Once(g) => Once(g)' /\ (Head(up[g]) # Stop => Head(up[g]) \notin Told(g)')
<1> DEFINE T == Reports \cup {Stop}
           u == up[g]
           c == cbuf[g]
           t == Tail(u)
           n == Len(u) + Len(c)
<1>1. u \in Seq(T) /\ c \in Seq(T) /\ u # <<>>
  BY PipesAreSeqs
<1>2. Line(g) = u \o c /\ Line(g)' = t \o c
  BY DEF Line
<1> HIDE DEF T, u, c
<1>3. Len(u) \in Nat \ {0} /\ Len(c) \in Nat /\ Head(u) = u[1]
  BY <1>1, LenProperties, EmptySeq
<1>4. t \in Seq(T) /\ Len(t) = Len(u) - 1 /\ \A i \in 1 .. Len(t) : t[i] = u[i + 1]
  BY <1>1, HeadTailProperties
<1> HIDE DEF t
<1>5. /\ Len(u \o c) = n
      /\ \A i \in 1 .. n : (u \o c)[i] = IF i <= Len(u) THEN u[i] ELSE c[i - Len(u)]
  BY <1>1, ConcatProperties
<1>6. /\ Len(t \o c) = Len(t) + Len(c)
      /\ \A i \in 1 .. Len(t) + Len(c) : (t \o c)[i] = IF i <= Len(t) THEN t[i] ELSE c[i - Len(t)]
  BY <1>1, <1>4, ConcatProperties
<1>7. Len(t) + Len(c) = n - 1 /\ n \in Nat /\ n >= 1
  BY <1>3, <1>4
<1>8. ASSUME NEW i \in 1 .. n - 1 PROVE (t \o c)[i] = (u \o c)[i + 1]
  <2>1. i + 1 \in 1 .. n /\ i \in 1 .. Len(t) + Len(c)
    BY <1>7
  <2>2. CASE i <= Len(t)
    <3>1. i \in 1 .. Len(t) /\ i + 1 <= Len(u)
      BY <1>3, <1>4, <2>2
    <3> QED BY <1>4, <1>5, <1>6, <2>1, <2>2, <3>1
  <2>3. CASE ~(i <= Len(t))
    <3>1. ~(i + 1 <= Len(u)) /\ (i + 1) - Len(u) = i - Len(t)
      BY <1>3, <1>4, <2>3
    <3> QED BY <1>5, <1>6, <2>1, <2>3, <3>1
  <2> QED BY <2>2, <2>3
<1>9. /\ Places(g) = 1 .. n /\ Places(g)' = 1 .. n - 1 /\ 1 \in Places(g) /\ Line(g)[1] = Head(u)
      /\ \A i \in Places(g)' : Line(g)'[i] = Line(g)[i + 1]
  BY <1>2, <1>3, <1>5, <1>6, <1>7, <1>8 DEF Places
<1>10. /\ \A i \in Places(g)' : i + 1 \in Places(g) /\ i + 1 # 1
       /\ \A i \in Places(g) : i = 1 \/ (i - 1 \in Places(g)' /\ (i - 1) + 1 = i)
       /\ \A i, j \in Places(g)' : i + 1 = j + 1 => i = j
  BY <1>7, <1>9
<1>11. Told(g) = Told(g)' \cup {Head(u)}
  <2>1. ASSUME NEW i \in Places(g) PROVE Line(g)[i] = Head(u) \/ Line(g)[i] \in Told(g)'
    <3>1. CASE i = 1
      BY <1>9, <3>1
    <3>2. CASE i - 1 \in Places(g)' /\ (i - 1) + 1 = i
      <4>1. Line(g)'[i - 1] = Line(g)[i]
        BY <1>9, <3>2
      <4> QED BY <3>2, <4>1 DEF Told
    <3> QED BY <1>10, <3>1, <3>2
  <2>2. ASSUME NEW i \in Places(g)' PROVE Line(g)'[i] \in Told(g)
    <3>1. i + 1 \in Places(g) /\ Line(g)'[i] = Line(g)[i + 1]
      BY <1>9, <1>10
    <3> QED BY <3>1 DEF Told
  <2>3. Head(u) \in Told(g)
    BY <1>9 DEF Told
  <2> QED BY <2>1, <2>2, <2>3 DEF Told
<1>12. ASSUME Once(g) PROVE Once(g)'
  <2> SUFFICES ASSUME NEW i \in Places(g)', NEW j \in Places(g)', Line(g)'[i] # Stop,
                      Line(g)'[i] = Line(g)'[j]
               PROVE  i = j
    BY DEF Once
  <2>1. /\ i + 1 \in Places(g) /\ j + 1 \in Places(g)
        /\ Line(g)[i + 1] # Stop /\ Line(g)[i + 1] = Line(g)[j + 1]
    BY <1>9, <1>10
  <2>2. i + 1 = j + 1
    BY <1>12, <2>1 DEF Once
  <2> QED BY <1>10, <2>2
<1>13. ASSUME Once(g), Head(u) # Stop, NEW i \in Places(g)' PROVE Line(g)'[i] # Head(u)
  <2>1. i + 1 \in Places(g) /\ 1 \in Places(g) /\ i + 1 # 1 /\ Line(g)'[i] = Line(g)[i + 1]
        /\ Line(g)[1] = Head(u)
    BY <1>9, <1>10
  <2> QED BY <1>13, <2>1 DEF Once
<1>14. Once(g) /\ Head(u) # Stop => Head(u) \notin Told(g)'
  BY <1>13 DEF Told
<1> QED BY <1>11, <1>12, <1>14 DEF u

-----------------------------------------------------------------------------
(* What the generations hand over *)

Quiet == UNCHANGED <<queued, info, known, up, cbuf>>

LEMMA UntoldKeeps == ASSUME Untold, Quiet PROVE Untold'
BY DEF Untold, Quiet, Told, Once, Line, Places

(* A qmail-send that is up and told to go on was so before.                  *)
LEMMA ForgottenKeeps ==
  ASSUME NobodyForgotten, Quiet,
         \A g \in Gens : send'[g] = "up" /\ ~exitasap'[g] /\ todo'[g] # "dead" =>
           send[g] = "up" /\ ~exitasap[g] /\ todo[g] # "dead"
  PROVE  NobodyForgotten'
BY DEF NobodyForgotten, Quiet, Reported

LEMMA GenerationKeeps ==
  ASSUME OneGeneration,
         \A g \in Gens : /\ send'[g] # "none" => send[g] # "none"
                         /\ send[g] = "dead" => send'[g] = "dead"
                         /\ todo[g] = "dead" => todo'[g] = "dead"
                         /\ spawn[g] = "dead" => spawn'[g] = "dead"
  PROVE  OneGeneration'
BY DEF OneGeneration

LEMMA ScanningKeeps ==
  ASSUME Scanning, info' = info,
         \A g \in Gens : send'[g] = "scan" => send[g] = "scan" /\ seen'[g] = seen[g]
  PROVE  Scanning'
BY DEF Scanning

(* While a qmail-send or a qmail-todo lives, those of other generations do    *)
(* not.                                                                      *)
LEMMA OneLive ==
  ASSUME LifecycleAssumption, OneGeneration, NEW g \in Gens, NEW h \in Gens, g # h,
         send[g] # "none", send[g] # "dead" \/ todo[g] # "dead"
  PROVE  send[h] = "none" \/ (send[h] = "dead" /\ todo[h] = "dead")
<1>1. g < h \/ h < g
  BY DEF LifecycleAssumption
<1> QED BY <1>1 DEF OneGeneration

LEMMA HandoverStart ==
  ASSUME LifecycleAssumption, Restart = "clean", HandoverInv, NEW g \in Gens, QmailStart(g)
  PROVE  Stages' /\ OneGeneration' /\ Untold' /\ Scanning' /\ NobodyForgotten'
<1> USE DEF HandoverInv
<1>1. /\ Quiet /\ send[g] = "none" /\ send' = [send EXCEPT ![g] = "start"]
      /\ todo' = [todo EXCEPT ![g] = "wait"] /\ spawn' = [spawn EXCEPT ![g] = "up"]
      /\ UNCHANGED <<exitasap, handling, seen, down>>
  BY DEF QmailStart, Quiet, queueVars, pipeVars
<1>2. \A h \in Gens : h < g => send[h] = "dead" /\ todo[h] = "dead" /\ spawn[h] = "dead"
  BY DEF QmailStart, MayStart
<1>3. \A h \in Gens : /\ send'[h] = IF h = g THEN "start" ELSE send[h]
                      /\ todo'[h] = IF h = g THEN "wait" ELSE todo[h]
                      /\ spawn'[h] = IF h = g THEN "up" ELSE spawn[h]
  BY <1>1 DEF TypeOK
<1>4. Stages'
  BY <1>1, <1>3 DEF Stages, Quiet
<1>5. OneGeneration'
  <2>1. \A h \in Gens : ~(h < h)
    BY DEF LifecycleAssumption
  <2> QED BY <1>1, <1>2, <1>3, <2>1 DEF OneGeneration
<1>6. Untold'
  BY <1>1, UntoldKeeps
<1>7. NobodyForgotten' /\ Scanning'
  BY <1>1, <1>3, ForgottenKeeps, ScanningKeeps DEF Quiet
<1> QED BY <1>4, <1>5, <1>6, <1>7

LEMMA HandoverInject ==
  ASSUME LifecycleAssumption, HandoverInv, NEW m \in Msgs, Inject(m)
  PROVE  Stages' /\ OneGeneration' /\ Untold' /\ Scanning' /\ NobodyForgotten'
<1> USE DEF HandoverInv
<1>1. /\ queued' = queued \cup {m} /\ m \notin info
      /\ \A g \in Gens : m \notin known[g]
      /\ UNCHANGED <<info, send, seen, known, exitasap, todo, handling, down, up, cbuf, spawn>>
  BY DEF Inject, sendVars, todoVars, pipeVars
<1>2. ASSUME NEW g \in Gens PROVE D(m) \notin Told(g)
  <2> DEFINE T == Reports \cup {Stop}
             u == up[g]
             c == cbuf[g]
  <2>1. u \in Seq(T) /\ c \in Seq(T)
    BY PipesAreSeqs
  <2>2. (\A i \in 1 .. Len(u) : u[i].msg # m) /\ (\A i \in 1 .. Len(c) : c[i].msg # m)
    BY DEF Inject
  <2>3. Line(g) = u \o c
    BY DEF Line
  <2> HIDE DEF T, u, c
  <2>4. Len(u) \in Nat /\ Len(c) \in Nat
    BY <2>1, LenProperties
  <2>5. /\ Len(u \o c) = Len(u) + Len(c)
        /\ \A i \in 1 .. Len(u) + Len(c) : (u \o c)[i] = IF i <= Len(u) THEN u[i] ELSE c[i - Len(u)]
    BY <2>1, ConcatProperties
  <2>6. ASSUME NEW i \in Places(g) PROVE Line(g)[i].msg # m
    <3>1. i \in 1 .. Len(u) + Len(c) /\ (i \in 1 .. Len(u) \/ (~(i <= Len(u)) /\ i - Len(u) \in 1 .. Len(c)))
      BY <2>3, <2>4, <2>5 DEF Places
    <3> QED BY <2>2, <2>3, <2>5, <3>1
  <2>7. D(m).msg = m
    BY DEF D
  <2> QED BY <2>6, <2>7 DEF Told
<1>3. \A g \in Gens : Told(g)' = Told(g) /\ Once(g)' = Once(g)
  BY <1>1, LineKept
<1>4. ASSUME NEW x \in Msgs, D(x) = D(m) PROVE x = m
  BY <1>4 DEF D
<1>5. Untold'
  BY <1>1, <1>2, <1>3, <1>4 DEF Untold
<1>6. Stages' /\ OneGeneration' /\ Scanning' /\ NobodyForgotten'
  BY <1>1 DEF Stages, OneGeneration, Scanning, NobodyForgotten, Reported
<1> QED BY <1>5, <1>6

(* Steps after which the queue, the queues of qmail-send and what was told   *)
(* are what they were.                                                       *)
LEMMA HandoverQuietSend ==
  ASSUME LifecycleAssumption, HandoverInv, NEW g \in Gens,
         \/ SendLock(g) \/ SendTerm(g) \/ SendStop(g) \/ SendSeesTodoEnd(g) \/ SendSeesSpawnEnd(g)
         \/ SendExit(g) \/ SendDies(g)
         \/ \E m \in Msgs : Deliver(g, m)
  PROVE  Stages' /\ OneGeneration' /\ Untold' /\ Scanning' /\ NobodyForgotten'
<1> USE DEF HandoverInv, queueVars, sendVars, todoVars, pipeVars
<1>1. /\ Quiet /\ UNCHANGED <<todo, handling, spawn>>
      /\ \/ down' = down
         \/ send[g] = "up" /\ down' = [down EXCEPT ![g] = Append(@, "X")]
      /\ \/ send' = send /\ seen' = seen
         \/ send' = [send EXCEPT ![g] = "dead"] /\ send[g] # "none" /\ seen' = seen
         \/ /\ send' = [send EXCEPT ![g] = "scan"] /\ send[g] = "start"
            /\ seen' = [seen EXCEPT ![g] = info]
      /\ exitasap' = exitasap \/ exitasap' = [exitasap EXCEPT ![g] = TRUE]
  <2>1. CASE SendLock(g)
    BY <2>1 DEF SendLock, SendGone, Quiet
  <2>2. CASE SendTerm(g) \/ SendStop(g)
    BY <2>2 DEF SendTerm, SendStop, Quiet
  <2>3. CASE SendSeesTodoEnd(g) \/ SendSeesSpawnEnd(g)
    BY <2>3 DEF SendSeesTodoEnd, SendSeesSpawnEnd, Quiet
  <2>4. CASE SendExit(g) \/ SendDies(g)
    BY <2>4 DEF SendExit, SendDies, SendGone, Quiet
  <2>5. CASE \E m \in Msgs : Deliver(g, m)
    BY <2>5 DEF Deliver, Quiet
  <2> QED BY <2>1, <2>2, <2>3, <2>4, <2>5
<1>2. /\ \A h \in Gens : \/ send'[h] = send[h] /\ seen'[h] = seen[h]
                         \/ h = g /\ send'[h] = "dead" /\ send[h] # "none"
                         \/ h = g /\ send'[h] = "scan" /\ send[h] = "start" /\ seen'[h] = info
      /\ \A h \in Gens : down'[h] = down[h] \/ send'[h] \in {"up", "dead"}
      /\ \A h \in Gens : exitasap[h] => exitasap'[h]
  <2>1. \A h \in Gens : \/ send'[h] = send[h] /\ seen'[h] = seen[h]
                        \/ h = g /\ send'[h] = "dead" /\ send[h] # "none"
                        \/ h = g /\ send'[h] = "scan" /\ send[h] = "start" /\ seen'[h] = info
    BY <1>1 DEF TypeOK
  <2>2. \A h \in Gens : exitasap[h] => exitasap'[h]
    BY <1>1 DEF TypeOK
  <2>3. \A h \in Gens : down'[h] = down[h] \/ send'[h] \in {"up", "dead"}
    BY <1>1, <2>1 DEF TypeOK
  <2> QED BY <2>1, <2>2, <2>3
<1>3. Stages'
  BY <1>1, <1>2 DEF Stages, Quiet
<1>4. OneGeneration'
  BY <1>1, <1>2, GenerationKeeps
<1>5. Untold'
  BY <1>1, UntoldKeeps
<1>6. Scanning'
  BY <1>1, <1>2 DEF Scanning, Quiet
<1>7. NobodyForgotten'
  BY <1>1, <1>2, ForgottenKeeps
<1> QED BY <1>3, <1>4, <1>5, <1>6, <1>7

LEMMA HandoverQuietTodo ==
  ASSUME LifecycleAssumption, HandoverInv, NEW g \in Gens,
         \/ TodoStart(g) \/ TodoRead(g) \/ TodoDies(g) \/ TodoCleanDies(g) \/ SpawnDies(g) \/ SpawnExit(g)
         \/ \E m \in Msgs : TodoTake(g, m)
         \/ TodoWrite(g) /\ send[g] = "dead"
  PROVE  Stages' /\ OneGeneration' /\ Untold' /\ Scanning' /\ NobodyForgotten'
<1> USE DEF HandoverInv, queueVars, sendVars, todoVars, pipeVars
<1>1. /\ Quiet /\ UNCHANGED <<send, seen, exitasap>>
      /\ \/ down' = down
         \/ down[g] # <<>> /\ todo[g] \in {"wait", "run"} /\ down' = [down EXCEPT ![g] = Tail(@)]
      /\ \/ todo' = todo /\ handling' = handling
         \/ /\ todo[g] = "wait" /\ todo' = [todo EXCEPT ![g] = "run"] /\ handling' = handling
            /\ down[g] # <<>> \/ send[g] = "dead"
         \/ /\ todo[g] \in {"wait", "run"} /\ todo' = [todo EXCEPT ![g] = "dead"]
            /\ handling' = [handling EXCEPT ![g] = NoMsg] \/ (handling[g] = NoMsg /\ handling' = handling)
         \/ /\ todo[g] = "run" /\ todo' = todo
            /\ \E m \in queued : handling' = [handling EXCEPT ![g] = m]
      /\ spawn' = spawn \/ (spawn[g] = "up" /\ spawn' = [spawn EXCEPT ![g] = "dead"])
  <2>1. CASE TodoStart(g)
    BY <2>1 DEF TodoStart, Quiet
  <2>2. CASE TodoRead(g)
    BY <2>2 DEF TodoRead, Quiet
  <2>3. CASE TodoDies(g) \/ TodoCleanDies(g)
    BY <2>3 DEF TodoDies, TodoCleanDies, Quiet
  <2>4. CASE SpawnDies(g) \/ SpawnExit(g)
    BY <2>4 DEF SpawnDies, SpawnExit, Quiet
  <2>5. CASE \E m \in Msgs : TodoTake(g, m)
    BY <2>5 DEF TodoTake, Quiet
  <2>6. CASE TodoWrite(g) /\ send[g] = "dead"
    BY <2>6 DEF TodoWrite, Quiet
  <2> QED BY <2>1, <2>2, <2>3, <2>4, <2>5, <2>6
<1>2. \A h \in Gens :
        /\ down'[h] = down[h] \/ down[h] # <<>>
        /\ spawn'[h] = spawn[h] \/ (spawn[h] = "up" /\ spawn'[h] = "dead")
        /\ \/ todo'[h] = todo[h] /\ handling'[h] = handling[h]
           \/ todo[h] = "wait" /\ todo'[h] = "run" /\ handling'[h] = handling[h]
              /\ (down[h] # <<>> \/ send[h] = "dead")
           \/ todo[h] \in {"wait", "run"} /\ todo'[h] = "dead" /\ handling'[h] = NoMsg
           \/ todo[h] = "run" /\ todo'[h] = "run" /\ handling'[h] \in queued
  <2>1. \A h \in Gens : down'[h] = down[h] \/ down[h] # <<>>
    BY <1>1 DEF TypeOK
  <2>2. \A h \in Gens : spawn'[h] = spawn[h] \/ (spawn[h] = "up" /\ spawn'[h] = "dead")
    BY <1>1 DEF TypeOK
  <2>3. \A h \in Gens :
           \/ todo'[h] = todo[h] /\ handling'[h] = handling[h]
           \/ todo[h] = "wait" /\ todo'[h] = "run" /\ handling'[h] = handling[h]
              /\ (down[h] # <<>> \/ send[h] = "dead")
           \/ todo[h] \in {"wait", "run"} /\ todo'[h] = "dead" /\ handling'[h] = NoMsg
           \/ todo[h] = "run" /\ todo'[h] = "run" /\ handling'[h] \in queued
    BY <1>1 DEF TypeOK
  <2> QED BY <2>1, <2>2, <2>3
<1>3. Stages'
  BY <1>1, <1>2 DEF Stages, Quiet
<1>4. OneGeneration'
  BY <1>1, <1>2, GenerationKeeps
<1>5. Untold'
  BY <1>1, UntoldKeeps
<1>6. Scanning' /\ NobodyForgotten'
  BY <1>1, <1>2, ScanningKeeps, ForgottenKeeps DEF Quiet
<1> QED BY <1>3, <1>4, <1>5, <1>6

(* pqstart() has read everything that is preprocessed.                       *)
LEMMA HandoverUp ==
  ASSUME LifecycleAssumption, HandoverInv, NEW g \in Gens, SendUp(g)
  PROVE  Stages' /\ OneGeneration' /\ Untold' /\ Scanning' /\ NobodyForgotten'
<1> USE DEF HandoverInv
<1>1. /\ send[g] = "scan" /\ send' = [send EXCEPT ![g] = "up"]
      /\ UNCHANGED <<queued, info, seen, todo, handling, up, cbuf, spawn>>
      /\ down' = down \/ down' = [down EXCEPT ![g] = Append(@, "S")]
      /\ exitasap' = exitasap \/ exitasap' = [exitasap EXCEPT ![g] = TRUE]
  BY DEF SendUp, queueVars, todoVars
<1>2. known' = [known EXCEPT ![g] = info]
  <2>1. PICK late \in SUBSET (info \ seen[g]) : known' = [known EXCEPT ![g] = (seen[g] \cap info) \cup late]
    BY DEF SendUp
  <2>2. seen[g] = info
    BY <1>1 DEF Scanning
  <2> QED BY <2>1, <2>2
<1>3. /\ \A h \in Gens : /\ send'[h] = IF h = g THEN "up" ELSE send[h]
                         /\ known'[h] = IF h = g THEN info ELSE known[h]
                         /\ exitasap[h] => exitasap'[h]
      /\ \A h \in Gens : h # g => down'[h] = down[h]
  <2>1. \A h \in Gens : /\ send'[h] = IF h = g THEN "up" ELSE send[h]
                        /\ known'[h] = IF h = g THEN info ELSE known[h]
    BY <1>1, <1>2 DEF TypeOK
  <2>2. \A h \in Gens : exitasap[h] => exitasap'[h]
    BY <1>1 DEF TypeOK
  <2>3. \A h \in Gens : h # g => down'[h] = down[h]
    BY <1>1 DEF TypeOK
  <2> QED BY <2>1, <2>2, <2>3
<1>4. Stages'
  BY <1>1, <1>3 DEF Stages
<1>5. OneGeneration' /\ Scanning'
  BY <1>1, <1>3, GenerationKeeps, ScanningKeeps
<1>6. \A h \in Gens : Told(h)' = Told(h) /\ Once(h)' = Once(h)
  BY <1>1, LineKept
<1>7. Told(g) = {}
  <2>1. up[g] = <<>> /\ cbuf[g] = <<>>
    BY <1>1 DEF Stages
  <2>2. Line(g) = <<>>
    BY <2>1, PipesAreSeqs, ConcatEmptySeq DEF Line
  <2> QED BY <2>2, EmptySeq DEF Told, Places
<1>8. Untold'
  BY <1>1, <1>3, <1>6, <1>7 DEF Untold
<1>9. NobodyForgotten'
  <2>1. \A h \in Gens, m \in Msgs : Reported(h, m)' <=> Reported(h, m)
    BY <1>1 DEF Reported
  <2>2. info \subseteq Msgs
    BY DEF TypeOK
  <2>3. ASSUME NEW h \in Gens, send'[h] = "up", ~exitasap'[h], todo'[h] # "dead", NEW n \in info'
        PROVE  n \in known'[h] \/ Reported(h, n)'
    <3>1. CASE h = g
      BY <1>1, <1>3, <2>3, <3>1
    <3>2. CASE h # g
      BY <1>1, <1>3, <2>1, <2>2, <2>3, <3>2 DEF NobodyForgotten
    <3> QED BY <3>1, <3>2
  <2> QED BY <2>3 DEF NobodyForgotten
<1> QED BY <1>4, <1>5, <1>8, <1>9

(* A D puts its message into the queues of qmail-send, an X ends.            *)
LEMMA HandoverRead ==
  ASSUME LifecycleAssumption, HandoverInv, NEW g \in Gens, SendRead(g)
  PROVE  Stages' /\ OneGeneration' /\ Untold' /\ Scanning' /\ NobodyForgotten'
<1> USE DEF HandoverInv
<1>1. /\ send[g] = "up" /\ up[g] # <<>> /\ up' = [up EXCEPT ![g] = Tail(@)]
      /\ UNCHANGED <<queued, info, send, seen, todo, handling, cbuf, down, spawn>>
  BY DEF SendRead, queueVars, todoVars
<1>2. PICK x : x = Head(up[g])
  OBVIOUS
<1>3. /\ x \in Reports \cup {Stop}
      /\ Told(g) = Told(g)' \cup {x}
      /\ Once(g)' /\ (x # Stop => x \notin Told(g)')
  <2>1. up'[g] = Tail(up[g]) /\ cbuf'[g] = cbuf[g]
    BY <1>1 DEF TypeOK
  <2> QED BY <1>1, <1>2, <2>1, LineRead, PipesAreSeqs DEF Untold
<1>4. \A h \in Gens : h # g => up'[h] = up[h] /\ cbuf'[h] = cbuf[h]
  BY <1>1 DEF TypeOK
<1>5. \A h \in Gens : h # g => Told(h)' = Told(h) /\ Once(h)' = Once(h)
  BY <1>4, LineKept
<1>6. OneGeneration' /\ Scanning'
  BY <1>1 DEF OneGeneration, Scanning
<1>7. \A h \in Gens, m \in Msgs : /\ Reported(h, m) <=> D(m) \in Told(h)
                                  /\ Reported(h, m)' <=> D(m) \in Told(h)'
  <2>1. \A h \in Gens, m \in Msgs : Reported(h, m) <=> D(m) \in Told(h)
    BY ReportedTold
  <2>2. \A h \in Gens, m \in Msgs : Reported(h, m)' <=> D(m) \in Told(h)'
    BY DEF Reported, Told, Line, Places, D
  <2> QED BY <2>1, <2>2
<1>8. CASE x \in Reports
  <2>1. PICK m \in Msgs : x = D(m)
    BY <1>8, LineTypes
  <2>2. x.type = "D" /\ x.msg = m /\ x # Stop
    BY <2>1 DEF D, Stop
  <2>3. /\ known' = IF exitasap[g] THEN known ELSE [known EXCEPT ![g] = @ \cup {m}]
        /\ exitasap' = exitasap
    BY <1>2, <2>2 DEF SendRead
  <2>4. D(m) \in Told(g) /\ D(m) \notin Told(g)' /\ m \notin queued
    BY <1>3, <2>1, <2>2 DEF Untold
  <2>5. \A n \in Msgs : D(n) = D(m) => n = m
    BY DEF D
  <2>6. /\ \A h \in Gens : h # g => known'[h] = known[h]
        /\ known[g] \subseteq known'[g] /\ known'[g] \subseteq known[g] \cup {m}
        /\ ~exitasap[g] => m \in known'[g]
    BY <2>3 DEF TypeOK
  <2>7. Stages'
    BY <1>1, <1>4, <2>6 DEF Stages
  <2>8. Untold'
    <3>1. queued' \cap info' = {} /\ \A h \in Gens : known'[h] \cap queued' = {}
      BY <1>1, <2>4, <2>6 DEF Untold
    <3>2. ASSUME NEW h \in Gens, NEW n \in Msgs, D(n) \in Told(h)' PROVE n \notin queued' /\ n \notin known'[h]
      <4>1. D(n) \in Told(h) /\ n \notin queued /\ n \notin known[h]
        BY <1>3, <1>5, <3>2 DEF Untold
      <4>2. h = g => n # m
        BY <2>4, <3>2
      <4> QED BY <1>1, <2>6, <4>1, <4>2
    <3>3. \A h \in Gens : Once(h)'
      BY <1>3, <1>5 DEF Untold
    <3> QED BY <3>1, <3>2, <3>3 DEF Untold
  <2>9. NobodyForgotten'
    <3> SUFFICES ASSUME NEW h \in Gens, send'[h] = "up", ~exitasap'[h], todo'[h] # "dead", NEW n \in info'
                 PROVE  n \in known'[h] \/ Reported(h, n)'
      BY DEF NobodyForgotten
    <3>1. n \in Msgs /\ n \in info /\ (n \in known[h] \/ D(n) \in Told(h))
      BY <1>1, <1>7, <2>3 DEF NobodyForgotten, TypeOK
    <3>2. CASE h # g
      BY <1>5, <1>7, <2>6, <3>1, <3>2
    <3>3. CASE h = g
      <4>1. n \in known[g] \/ D(n) \in Told(g)' \/ n = m
        BY <1>3, <2>1, <2>5, <3>1, <3>3
      <4> QED BY <1>7, <2>3, <2>6, <3>1, <3>3, <4>1
    <3> QED BY <3>2, <3>3
  <2> QED BY <1>6, <2>7, <2>8, <2>9
<1>9. CASE x = Stop
  <2>1. x.type # "D"
    BY <1>9 DEF Stop
  <2>2. known' = known /\ exitasap' = [exitasap EXCEPT ![g] = TRUE]
    BY <1>2, <2>1 DEF SendRead
  <2>3. Stages'
    BY <1>1, <1>4, <2>2 DEF Stages
  <2>4. Untold'
    <3>1. \A h \in Gens : Told(h)' \subseteq Told(h) /\ Once(h)'
      BY <1>3, <1>5 DEF Untold
    <3> QED BY <1>1, <2>2, <3>1 DEF Untold
  <2>5. \A h \in Gens : ~exitasap'[h] => h # g /\ ~exitasap[h]
    BY <2>2 DEF TypeOK
  <2>6. NobodyForgotten'
    <3> SUFFICES ASSUME NEW h \in Gens, send'[h] = "up", ~exitasap'[h], todo'[h] # "dead", NEW n \in info'
                 PROVE  n \in known'[h] \/ Reported(h, n)'
      BY DEF NobodyForgotten
    <3>1. n \in Msgs /\ n \in info /\ (n \in known[h] \/ D(n) \in Told(h)) /\ h # g
      BY <1>1, <1>7, <2>5 DEF NobodyForgotten, TypeOK
    <3> QED BY <1>5, <1>7, <2>2, <3>1
  <2> QED BY <1>6, <2>3, <2>4, <2>6
<1> QED BY <1>3, <1>8, <1>9

(* A message that was delivered is eliminated by the qmail-send that is up,   *)
(* and by no other.                                                          *)
LEMMA HandoverDelivered ==
  ASSUME LifecycleAssumption, HandoverInv, NEW g \in Gens, NEW m \in Msgs, NEW success \in BOOLEAN,
         DeliveryEnds(g, m, success)
  PROVE  Stages' /\ OneGeneration' /\ Untold' /\ Scanning' /\ NobodyForgotten'
<1> USE DEF HandoverInv
<1>1. /\ UNCHANGED <<queued, send, seen, exitasap, todo, handling, down, up, cbuf, spawn>>
      /\ \/ known' = known /\ info' = info
         \/ send[g] = "up" /\ known' = [known EXCEPT ![g] = @ \ {m}] /\ info' = info \ {m}
  BY DEF DeliveryEnds, todoVars, pipeVars
<1>2. CASE known' = known /\ info' = info
  <2>1. Quiet
    BY <1>1, <1>2 DEF Quiet
  <2>2. Untold'
    BY <2>1, UntoldKeeps
  <2>3. Stages' /\ OneGeneration' /\ Scanning'
    BY <1>1, <1>2 DEF Stages, OneGeneration, Scanning
  <2>4. NobodyForgotten'
    BY <1>1, <2>1, ForgottenKeeps
  <2> QED BY <2>2, <2>3, <2>4
<1>3. CASE send[g] = "up" /\ known' = [known EXCEPT ![g] = @ \ {m}] /\ info' = info \ {m}
  <2>1. \A h \in Gens : h # g => send[h] \in {"none", "dead"}
    BY <1>3, OneLive
  <2>2. \A h \in Gens : known'[h] = IF h = g THEN known[g] \ {m} ELSE known[h]
    BY <1>3 DEF TypeOK
  <2>3. \A h \in Gens : Told(h)' = Told(h) /\ Once(h)' = Once(h)
    BY <1>1, LineKept
  <2>4. Untold'
    BY <1>1, <1>3, <2>2, <2>3 DEF Untold
  <2>5. Stages' /\ OneGeneration'
    BY <1>1, <2>2 DEF Stages, OneGeneration
  <2>6. Scanning'
    BY <1>1, <1>3, <2>1 DEF Scanning
  <2>7. NobodyForgotten'
    <3>1. \A h \in Gens, n \in Msgs : Reported(h, n)' <=> Reported(h, n)
      BY <1>1 DEF Reported
    <3>2. info \subseteq Msgs
      BY DEF TypeOK
    <3>3. ASSUME NEW h \in Gens, send'[h] = "up", ~exitasap'[h], todo'[h] # "dead", NEW n \in info'
          PROVE  n \in known'[h] \/ Reported(h, n)'
      <4>1. h = g /\ n \in info /\ n # m
        BY <1>1, <1>3, <2>1, <3>3
      <4> QED BY <1>1, <2>2, <3>1, <3>2, <3>3, <4>1 DEF NobodyForgotten
    <3> QED BY <3>3 DEF NobodyForgotten
  <2> QED BY <2>4, <2>5, <2>6, <2>7
<1> QED BY <1>1, <1>2, <1>3

(* todo_do() moves a message from todo/ to info/ and buffers its D.          *)
LEMMA HandoverDone ==
  ASSUME LifecycleAssumption, HandoverInv, NEW g \in Gens, TodoDone(g)
  PROVE  Stages' /\ OneGeneration' /\ Untold' /\ Scanning' /\ NobodyForgotten'
<1> USE DEF HandoverInv
<1>1. /\ todo[g] = "run" /\ handling[g] # NoMsg /\ handling' = [handling EXCEPT ![g] = NoMsg]
      /\ UNCHANGED <<send, seen, known, exitasap, todo, down, up, spawn>>
  BY DEF TodoDone, sendVars, pipeVars
<1>2. PICK m \in Msgs : m = handling[g]
  BY <1>1 DEF TypeOK
<1>3. m \in queued /\ send[g] \notin {"none", "start", "scan"}
  BY <1>1, <1>2 DEF Stages
<1>4. \A h \in Gens : h # g => send[h] = "none" \/ (send[h] = "dead" /\ todo[h] = "dead")
  BY <1>1, <1>3, OneLive
<1>5. \A h \in Gens : h # g => handling[h] = NoMsg
  BY <1>4 DEF Stages
<1>6. \A h \in Gens : handling'[h] = NoMsg
  BY <1>1, <1>5 DEF TypeOK
<1>7. CASE UNCHANGED <<queued, info, cbuf>>
  <2>1. Quiet
    BY <1>1, <1>7 DEF Quiet
  <2>2. Untold'
    BY <2>1, UntoldKeeps
  <2>3. Stages'
    BY <1>1, <1>6, <1>7 DEF Stages
  <2>4. OneGeneration' /\ Scanning' /\ NobodyForgotten'
    BY <1>1, <1>7 DEF OneGeneration, Scanning, NobodyForgotten, Reported
  <2> QED BY <2>2, <2>3, <2>4
<1>8. CASE /\ queued' = queued \ {m} /\ info' = info \cup {m}
           /\ cbuf' = [cbuf EXCEPT ![g] = Append(@, D(m))]
  <2>1. /\ cbuf'[g] = Append(cbuf[g], D(m))
        /\ \A h \in Gens : h # g => cbuf'[h] = cbuf[h]
    BY <1>8 DEF TypeOK
  <2>2. D(m) \in Reports /\ D(m) \notin Told(g)
    BY <1>3 DEF Untold, D, Reports
  <2>3. Told(g)' = Told(g) \cup {D(m)} /\ Once(g)'
    BY <1>1, <2>1, <2>2, LineGrows DEF Untold
  <2>4. \A h \in Gens : h # g => Told(h)' = Told(h) /\ Once(h)' = Once(h)
    BY <1>1, <2>1, LineKept
  <2>5. \A n \in Msgs : D(n) = D(m) => n = m
    BY DEF D
  <2>6. Untold'
    <3>1. queued' \cap info' = {} /\ \A h \in Gens : known'[h] \cap queued' = {} /\ m \notin known[h]
      BY <1>1, <1>3, <1>8 DEF Untold
    <3>2. ASSUME NEW h \in Gens, NEW n \in Msgs, D(n) \in Told(h)' PROVE n \notin queued' /\ n \notin known'[h]
      <4>1. D(n) \in Told(h) \/ n = m
        BY <2>3, <2>4, <2>5, <3>2
      <4>2. D(n) \in Told(h) => n \notin queued /\ n \notin known[h]
        BY DEF Untold
      <4> QED BY <1>1, <1>8, <3>1, <4>1, <4>2
    <3>3. \A h \in Gens : Once(h)'
      BY <2>3, <2>4 DEF Untold
    <3> QED BY <3>1, <3>2, <3>3 DEF Untold
  <2>7. Stages'
    BY <1>1, <1>3, <1>6, <2>1 DEF Stages
  <2>8. OneGeneration'
    BY <1>1 DEF OneGeneration
  <2>9. Scanning'
    BY <1>1, <1>3, <1>4 DEF Scanning
  <2>10. NobodyForgotten'
    <3> SUFFICES ASSUME NEW h \in Gens, send'[h] = "up", ~exitasap'[h], todo'[h] # "dead", NEW n \in info'
                 PROVE  n \in known'[h] \/ Reported(h, n)'
      BY DEF NobodyForgotten
    <3>1. h = g
      BY <1>1, <1>4
    <3>2. n \in Msgs /\ (n = m \/ n \in known[g] \/ D(n) \in Told(g))
      BY <1>1, <1>8, <3>1, ReportedTold DEF NobodyForgotten, TypeOK
    <3>3. Reported(g, n)' <=> D(n) \in Told(g)'
      BY DEF Reported, Told, Line, Places, D
    <3> QED BY <1>1, <2>3, <3>1, <3>2, <3>3
  <2> QED BY <2>6, <2>7, <2>8, <2>9, <2>10
<1> QED BY <1>2, <1>7, <1>8 DEF TodoDone, D

(* comm_do() writes the buffer to the pipe, or puts an X into it.            *)
LEMMA HandoverWrite ==
  ASSUME LifecycleAssumption, HandoverInv, NEW g \in Gens,
         (TodoWrite(g) /\ send[g] # "dead") \/ TodoStop(g)
  PROVE  Stages' /\ OneGeneration' /\ Untold' /\ Scanning' /\ NobodyForgotten'
<1> USE DEF HandoverInv
<1>1. /\ todo[g] = "run"
      /\ UNCHANGED <<queued, info, send, seen, known, exitasap, todo, handling, down, spawn>>
      /\ \/ up' = [up EXCEPT ![g] = @ \o cbuf[g]] /\ cbuf' = [cbuf EXCEPT ![g] = <<>>]
         \/ up' = up /\ cbuf[g] = <<>> /\ cbuf' = [cbuf EXCEPT ![g] = <<Stop>>]
  BY DEF TodoWrite, TodoStop, queueVars, sendVars, pipeVars
<1>2. \A h \in Gens : h # g => up'[h] = up[h] /\ cbuf'[h] = cbuf[h]
  BY <1>1 DEF TypeOK
<1>3. \A h \in Gens : h # g => Told(h)' = Told(h) /\ Once(h)' = Once(h)
  BY <1>2, LineKept
<1>4. (Told(g)' = Told(g) \/ Told(g)' = Told(g) \cup {Stop}) /\ Once(g)'
  <2>1. Once(g)
    BY DEF Untold
  <2>2. CASE up' = [up EXCEPT ![g] = @ \o cbuf[g]] /\ cbuf' = [cbuf EXCEPT ![g] = <<>>]
    <3>1. up'[g] = up[g] \o cbuf[g] /\ cbuf'[g] = <<>>
      BY <2>2 DEF TypeOK
    <3> QED BY <2>1, <3>1, LineFlushed
  <2>3. CASE up' = up /\ cbuf[g] = <<>> /\ cbuf' = [cbuf EXCEPT ![g] = <<Stop>>]
    <3>1. up'[g] = up[g] /\ cbuf'[g] = Append(cbuf[g], Stop)
      BY <2>3 DEF TypeOK
    <3> QED BY <2>1, <3>1, LineGrows
  <2> QED BY <1>1, <2>2, <2>3
<1>5. \A m \in Msgs : D(m) # Stop
  BY DEF D, Stop
<1>6. \A h \in Gens : \A m \in Msgs : D(m) \in Told(h)' <=> D(m) \in Told(h)
  BY <1>3, <1>4, <1>5
<1>7. Untold'
  BY <1>1, <1>3, <1>4, <1>6 DEF Untold
<1>8. Stages'
  BY <1>1, <1>2 DEF Stages
<1>9. OneGeneration' /\ Scanning'
  BY <1>1 DEF OneGeneration, Scanning
<1>10. NobodyForgotten'
  <2>1. \A h \in Gens, m \in Msgs : Reported(h, m) <=> D(m) \in Told(h)
    BY ReportedTold
  <2>2. \A h \in Gens, m \in Msgs : Reported(h, m)' <=> D(m) \in Told(h)'
    BY DEF Reported, Told, Line, Places, D
  <2>3. info \subseteq Msgs
    BY DEF TypeOK
  <2> QED BY <1>1, <1>6, <2>1, <2>2, <2>3 DEF NobodyForgotten
<1> QED BY <1>7, <1>8, <1>9, <1>10

LEMMA HandoverStep ==
  ASSUME LifecycleAssumption, Restart = "clean", HandoverInv, [Next]_vars PROVE HandoverInv'
<1> SUFFICES Stages' /\ OneGeneration' /\ Untold' /\ Scanning' /\ NobodyForgotten'
  BY StepTypes DEF HandoverInv
<1>1. CASE UNCHANGED vars
  <2>1. Quiet
    BY <1>1 DEF Quiet, vars, queueVars, sendVars, todoVars, pipeVars
  <2>2. Untold'
    BY <2>1, UntoldKeeps DEF HandoverInv
  <2>3. Stages' /\ OneGeneration' /\ Scanning' /\ NobodyForgotten'
    BY <1>1 DEF HandoverInv, Stages, OneGeneration, Scanning, NobodyForgotten, Reported,
                vars, queueVars, sendVars, todoVars, pipeVars
  <2> QED BY <2>2, <2>3
<1>2. ASSUME NEW m \in Msgs, Inject(m) PROVE Stages' /\ OneGeneration' /\ Untold' /\ Scanning' /\ NobodyForgotten'
  BY <1>2, HandoverInject
<1>3. ASSUME NEW g \in Gens, QmailStart(g) PROVE Stages' /\ OneGeneration' /\ Untold' /\ Scanning' /\ NobodyForgotten'
  BY <1>3, HandoverStart
<1>4. ASSUME NEW g \in Gens, Sends(g) PROVE Stages' /\ OneGeneration' /\ Untold' /\ Scanning' /\ NobodyForgotten'
  <2>1. CASE SendUp(g)
    BY <2>1, HandoverUp
  <2>2. CASE SendRead(g)
    BY <2>2, HandoverRead
  <2>3. CASE \E m \in Msgs, success \in BOOLEAN : DeliveryEnds(g, m, success)
    BY <2>3, HandoverDelivered
  <2>4. CASE \/ SendLock(g) \/ SendTerm(g) \/ SendStop(g) \/ SendSeesTodoEnd(g) \/ SendSeesSpawnEnd(g)
             \/ SendExit(g)
             \/ \E m \in Msgs : Deliver(g, m)
    BY <2>4, HandoverQuietSend
  <2> QED BY <1>4, <2>1, <2>2, <2>3, <2>4 DEF Sends, SendTurn
<1>5. ASSUME NEW g \in Gens, Todos(g) PROVE Stages' /\ OneGeneration' /\ Untold' /\ Scanning' /\ NobodyForgotten'
  <2>1. CASE TodoDone(g)
    BY <2>1, HandoverDone
  <2>2. CASE (TodoWrite(g) /\ send[g] # "dead") \/ TodoStop(g)
    BY <2>2, HandoverWrite
  <2>3. CASE \/ TodoStart(g) \/ TodoRead(g)
             \/ \E m \in Msgs : TodoTake(g, m)
             \/ TodoWrite(g) /\ send[g] = "dead"
    BY <2>3, HandoverQuietTodo
  <2> QED BY <1>5, <2>1, <2>2, <2>3 DEF Todos, TodoTurn
<1>6. ASSUME NEW g \in Gens, SomeDeath(g) PROVE Stages' /\ OneGeneration' /\ Untold' /\ Scanning' /\ NobodyForgotten'
  <2>1. CASE SendDies(g)
    BY <2>1, HandoverQuietSend
  <2>2. CASE TodoDies(g) \/ TodoCleanDies(g) \/ SpawnDies(g) \/ SpawnExit(g)
    BY <2>2, HandoverQuietTodo
  <2> QED BY <1>6, <2>1, <2>2 DEF SomeDeath
<1> QED BY <1>1, <1>2, <1>3, <1>4, <1>5, <1>6, WhoSteps

LEMMA HandoverInit == ASSUME LifecycleAssumption, Init PROVE HandoverInv
<1>1. TypeOK
  BY TypesInit
<1>2. ASSUME NEW g \in Gens PROVE Told(g) = {} /\ Once(g)
  <2>1. Line(g) = <<>>
    BY <1>1, PipesAreSeqs, ConcatEmptySeq DEF Line, Init
  <2> QED BY <2>1, EmptySeq DEF Told, Once, Places
<1>3. Untold
  BY <1>2 DEF Init, Untold
<1>4. Stages /\ OneGeneration /\ Scanning /\ NobodyForgotten
  BY DEF Init, Stages, OneGeneration, Scanning, NobodyForgotten
<1> QED BY <1>1, <1>3, <1>4 DEF HandoverInv

(* What is known was not told again: the two of Untold, by Reported.         *)
LEMMA HandoverTold == ASSUME HandoverInv PROVE ToldOnce
<1>1. \A g \in Gens, m \in Msgs : Reported(g, m) <=> D(m) \in Told(g)
  BY ReportedTold
<1>2. \A g \in Gens : known[g] \subseteq Msgs
  BY DEF HandoverInv, TypeOK
<1> QED BY <1>1, <1>2 DEF HandoverInv, Untold, ToldOnce

(* Whoever is killed and started again: a qmail-send that is up knows each    *)
(* preprocessed message, or its qmail-todo has the D of it on the way.        *)
THEOREM AlwaysNobodyForgotten ==
  ASSUME LifecycleAssumption, Restart = "clean" PROVE Spec => []NobodyForgotten
<1>1. Init => HandoverInv
  BY HandoverInit
<1>2. HandoverInv /\ [Next]_vars => HandoverInv'
  BY HandoverStep
<1>3. HandoverInv => NobodyForgotten
  BY DEF HandoverInv
<1> QED BY <1>1, <1>2, <1>3, PTL DEF Spec

(* qmail-send never hears a second D for a message that is in its queues,     *)
(* which would give the message two jobs.                                    *)
THEOREM AlwaysToldOnce ==
  ASSUME LifecycleAssumption, Restart = "clean" PROVE Spec => []ToldOnce
<1>1. Init => HandoverInv
  BY HandoverInit
<1>2. HandoverInv /\ [Next]_vars => HandoverInv'
  BY HandoverStep
<1>3. HandoverInv => ToldOnce
  BY HandoverTold
<1> QED BY <1>1, <1>2, <1>3, PTL DEF Spec

=============================================================================
