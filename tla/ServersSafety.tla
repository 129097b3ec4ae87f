----------------------------- MODULE ServersSafety -----------------------------
(* The invariants of the servers, for any limits, ages and sizes and for any  *)
(* clients. multilog has its proofs in a module of its own.                   *)
EXTENDS MCServers, FiniteSetTheorems, TLAPS

(* A step is one of the part that runs, and of no other.                      *)
LEMMA PartKept == ASSUME [Next]_vars PROVE part' = part
BY DEF Next, vars, Supervises, Scans, Logs, TakesConnections, LooksUp, TalksSmtp, Greylists, TalksBack

-----------------------------------------------------------------------------
(* tcpserver *)

(* A connection is in one place: the backlog, the parent's hand, or a child. *)
InOnePlace(k) ==
  /\ waiting \in Seq(k.clients)
  /\ \A i, j \in DOMAIN waiting : waiting[i] = waiting[j] => i = j
  /\ \A i \in DOMAIN waiting : tcp_child[waiting[i]] = "none" /\ tcp_verdict[waiting[i]] = "none" /\ waiting[i] # t
  /\ tcp_pc = "accepted" <=> t # None
  /\ t # None => tcp_child[t] = "none" /\ tcp_verdict[t] = "none"

(* The rules of now are among those that were seen since the accept.         *)
SeenNow(k) == \A c \in k.clients : t = c \/ tcp_child[c] = "new" => rules \in seen[c]

TcpTables(k) ==
  /\ tcp_child \in [k.clients -> {"none", "new", "run", "dead", "gone"}]
  /\ seen \in [k.clients -> SUBSET {"allow", "deny", "bad"}]
  /\ tcp_verdict \in [k.clients -> {"none", "served", "denied", "dropped"}]
  /\ rules \in {"allow", "deny", "bad"}
  /\ numchildren \in Nat

RoomFor(k) == tcp_pc \in {"accept", "accepted"} => numchildren < k.limit

(* The inductive invariant.                                                  *)
TcpInv(k) ==
  /\ Tcp(k)!TypeOK /\ TcpTables(k) /\ InOnePlace(k) /\ SeenNow(k) /\ RoomFor(k) /\ Tcp(k)!CountExact /\ Tcp(k)!JudgedByTheRules

-----------------------------------------------------------------------------
LEMMA TcpCounts ==
  ASSUME NEW k, NEW S
  PROVE  Tcp(k)!Cardinality(S) = Cardinality(S) /\ (Tcp(k)!IsFiniteSet(S) <=> IsFiniteSet(S))
<1>1. Tcp(k)!Cardinality(S) = Cardinality(S)
  BY DEF Cardinality, Tcp!Cardinality, Tcp!IsFiniteSet, IsFiniteSet
<1>2. Tcp(k)!IsFiniteSet(S) <=> IsFiniteSet(S)
  BY DEF Tcp!IsFiniteSet, IsFiniteSet
<1> QED BY <1>1, <1>2

LEMMA TcpFinite ==
  ASSUME NEW k, Tcp(k)!TcpServerAssumption, NEW S \in SUBSET k.clients
  PROVE  IsFiniteSet(S) /\ Tcp(k)!Cardinality(S) \in Nat
BY FS_Subset, FS_CardinalityType, TcpCounts DEF Tcp!TcpServerAssumption

(* sigchld() counts exactly those down that it waits for.                    *)
LEMMA SigchldCounts ==
  ASSUME NEW k, Tcp(k)!TcpServerAssumption, TcpInv(k), Tcp(k)!Handler
  PROVE  /\ pending' = FALSE /\ Tcp(k)!Dead' = {} /\ Tcp(k)!Children' = Tcp(k)!Children
         /\ numchildren' = Tcp(k)!Cardinality(Tcp(k)!Children) /\ numchildren' <= numchildren
         /\ numchildren' \in 0 .. k.limit
         /\ tcp_child' \in [k.clients -> {"none", "new", "run", "dead", "gone"}]
         /\ \A c \in k.clients : /\ tcp_child'[c] = tcp_child[c] \/ (tcp_child[c] = "dead" /\ tcp_child'[c] = "gone")
<1>1. Tcp(k)!Children \in SUBSET k.clients /\ Tcp(k)!Dead \in SUBSET k.clients /\ Tcp(k)!Children \cap Tcp(k)!Dead = {}
  BY DEF Tcp!Children, Tcp!Dead
<1>2. PICK n \in Nat, j \in Nat : n = Tcp(k)!Cardinality(Tcp(k)!Children) /\ j = Tcp(k)!Cardinality(Tcp(k)!Dead)
  BY <1>1, TcpFinite
<1>3. numchildren = n + j
  <2>1. Tcp(k)!Cardinality(Tcp(k)!Children \cup Tcp(k)!Dead) = Tcp(k)!Cardinality(Tcp(k)!Children) + Tcp(k)!Cardinality(Tcp(k)!Dead) - Tcp(k)!Cardinality(Tcp(k)!Children \cap Tcp(k)!Dead)
    BY <1>1, TcpFinite, FS_Union, TcpCounts
  <2>2. Tcp(k)!Cardinality(Tcp(k)!Children \cap Tcp(k)!Dead) = 0
    BY <1>1, FS_EmptySet, TcpCounts
  <2> QED BY <1>2, <2>1, <2>2 DEF TcpInv, Tcp!CountExact
<1>4. numchildren' = n
  BY <1>2, <1>3 DEF Tcp!Handler
<1>5. tcp_child' = [c \in k.clients |-> IF tcp_child[c] = "dead" THEN "gone" ELSE tcp_child[c]] /\ pending' = FALSE
  BY DEF Tcp!Handler
<1>6. Tcp(k)!Children' = Tcp(k)!Children /\ Tcp(k)!Dead' = {}
  BY <1>5 DEF Tcp!Children, Tcp!Dead
<1>7. numchildren' <= numchildren /\ numchildren' \in 0 .. k.limit
  BY <1>2, <1>3, <1>4 DEF TcpInv, Tcp!TypeOK, Tcp!TcpServerAssumption
<1>8. tcp_child' \in [k.clients -> {"none", "new", "run", "dead", "gone"}]
  BY <1>5 DEF TcpInv, TcpTables
<1> QED BY <1>2, <1>4, <1>5, <1>6, <1>7, <1>8

LEMMA InitTcp == ASSUME NEW k, Tcp(k)!TcpServerAssumption, Tcp(k)!Init PROVE TcpInv(k)
<1> USE DEF Tcp!Init
<1>1. Tcp(k)!Children = {} /\ Tcp(k)!Dead = {} /\ Tcp(k)!Cardinality({}) = 0
  BY FS_EmptySet, TcpCounts DEF Tcp!Children, Tcp!Dead
<1>2. Tcp(k)!TypeOK
  <2>1. k.limit \in Nat /\ 0 \in 0 .. k.limit
    BY DEF Tcp!TcpServerAssumption
  <2> QED BY <1>1, <2>1 DEF Tcp!TypeOK
<1>6. TcpTables(k) /\ RoomFor(k)
  BY DEF TcpTables, RoomFor
<1>3. InOnePlace(k)
  BY DEF InOnePlace, Tcp!TcpServerAssumption
<1>4. Tcp(k)!CountExact
  BY <1>1 DEF Tcp!CountExact
<1>5. SeenNow(k) /\ Tcp(k)!JudgedByTheRules
  BY DEF SeenNow, Tcp!JudgedByTheRules, Tcp!TcpServerAssumption
<1> QED BY <1>2, <1>3, <1>4, <1>5, <1>6 DEF TcpInv

-----------------------------------------------------------------------------
(* The handler, wherever it runs *)

LEMMA SigchldKeeps ==
  ASSUME NEW k, Tcp(k)!TcpServerAssumption, TcpInv(k), Tcp(k)!Handler,
         tcp_pc' = tcp_pc \/ (tcp_pc' = "top" /\ tcp_pc = "accept"),
         UNCHANGED <<t, waiting, rules, seen, tcp_verdict>>
  PROVE  TcpInv(k)'
<1>1. /\ pending' = FALSE /\ Tcp(k)!Dead' = {} /\ Tcp(k)!Children' = Tcp(k)!Children
      /\ numchildren' = Tcp(k)!Cardinality(Tcp(k)!Children) /\ numchildren' <= numchildren
      /\ numchildren' \in 0 .. k.limit
      /\ tcp_child' \in [k.clients -> {"none", "new", "run", "dead", "gone"}]
      /\ \A c \in k.clients : /\ tcp_child'[c] = tcp_child[c] \/ (tcp_child[c] = "dead" /\ tcp_child'[c] = "gone")
  BY SigchldCounts
<1> USE DEF TcpInv
<1>2. Tcp(k)!TypeOK' /\ TcpTables(k)' /\ RoomFor(k)'
  <2>1. Tcp(k)!TypeOK'
    BY <1>1 DEF Tcp!TypeOK
  <2>2. TcpTables(k)'
    BY <1>1 DEF Tcp!TypeOK, TcpTables, Tcp!TcpServerAssumption
  <2>3. k.limit \in Nat /\ numchildren \in Nat /\ numchildren' \in Nat
    BY <1>1 DEF Tcp!TypeOK, Tcp!TcpServerAssumption
  <2>4. RoomFor(k)'
    BY <1>1, <2>3 DEF RoomFor
  <2> QED BY <2>1, <2>2, <2>4
<1>3. InOnePlace(k)'
  <2>1. \A i \in DOMAIN waiting : waiting[i] \in k.clients
    BY DEF InOnePlace
  <2>2. t # None => t \in k.clients
    BY DEF Tcp!TypeOK
  <2> QED BY <1>1, <2>1, <2>2 DEF InOnePlace
<1>4. SeenNow(k)' /\ Tcp(k)!JudgedByTheRules'
  BY <1>1 DEF SeenNow, Tcp!JudgedByTheRules
<1>5. Tcp(k)!CountExact'
  <2>1. Tcp(k)!Children \cup {} = Tcp(k)!Children
    OBVIOUS
  <2> QED BY <1>1, <2>1 DEF Tcp!CountExact
<1> QED BY <1>2, <1>3, <1>4, <1>5

-----------------------------------------------------------------------------
(* The parent *)

LEMMA StepTcpParent ==
  ASSUME NEW k, Tcp(k)!TcpServerAssumption, TcpInv(k), Tcp(k)!Top \/ Tcp(k)!Pause \/ Tcp(k)!Signal \/ Tcp(k)!AcceptFails
  PROVE  TcpInv(k)'
<1>1. CASE Tcp(k)!Pause \/ Tcp(k)!Signal
  <2>1. Tcp(k)!Handler /\ tcp_pc' = tcp_pc /\ UNCHANGED <<t, waiting, rules, seen, tcp_verdict>>
    BY <1>1 DEF Tcp!Pause, Tcp!Signal
  <2> QED BY <2>1, SigchldKeeps
<1>2. CASE Tcp(k)!Top
  <2> USE <1>2 DEF TcpInv, Tcp!Top
  <2>1. Tcp(k)!TypeOK' /\ TcpTables(k)' /\ RoomFor(k)'
    BY DEF Tcp!TypeOK, TcpTables, RoomFor, Tcp!Dead
  <2>2. InOnePlace(k)' /\ SeenNow(k)' /\ Tcp(k)!JudgedByTheRules'
    BY DEF InOnePlace, SeenNow, Tcp!JudgedByTheRules
  <2>3. Tcp(k)!CountExact'
    BY DEF Tcp!CountExact, Tcp!Children, Tcp!Dead
  <2> QED BY <2>1, <2>2, <2>3
<1>3. CASE Tcp(k)!AcceptFails
  <2>1. CASE Tcp(k)!Handler
    BY <1>3, <2>1, SigchldKeeps DEF Tcp!AcceptFails
  <2>2. CASE ~Tcp(k)!Handler
    <3> USE <1>3, <2>2 DEF TcpInv, Tcp!AcceptFails
    <3>1. Tcp(k)!TypeOK' /\ TcpTables(k)' /\ RoomFor(k)'
      BY DEF Tcp!TypeOK, TcpTables, RoomFor, Tcp!Dead
    <3>2. InOnePlace(k)' /\ SeenNow(k)' /\ Tcp(k)!JudgedByTheRules'
      BY DEF InOnePlace, SeenNow, Tcp!JudgedByTheRules
    <3>3. Tcp(k)!CountExact'
      BY DEF Tcp!CountExact, Tcp!Children, Tcp!Dead
    <3> QED BY <3>1, <3>2, <3>3
  <2> QED BY <2>1, <2>2
<1> QED BY <1>1, <1>2, <1>3

(* What Head and Tail leave of a backlog. *)
LEMMA BacklogTail ==
  ASSUME NEW k, NEW q \in Seq(k.clients), q # <<>>
  PROVE  /\ Head(q) = q[1] /\ Head(q) \in k.clients /\ Tail(q) \in Seq(k.clients)
         /\ 1 \in DOMAIN q
         /\ \A i \in DOMAIN Tail(q) : i \in Nat /\ i + 1 \in DOMAIN q /\ i + 1 # 1 /\ Tail(q)[i] = q[i + 1]
<1>1. Head(q) = q[1] /\ Head(q) \in k.clients /\ Tail(q) \in Seq(k.clients) /\ Len(q) \in Nat /\ Len(q) >= 1
      /\ Len(Tail(q)) = Len(q) - 1
  OBVIOUS
<1>2. DOMAIN q = 1 .. Len(q) /\ DOMAIN Tail(q) = 1 .. Len(q) - 1
  BY <1>1
<1>3. ASSUME NEW i \in 1 .. Len(q) - 1 PROVE i \in Nat /\ i + 1 \in 1 .. Len(q) /\ i + 1 # 1 /\ Tail(q)[i] = q[i + 1]
  BY <1>1
<1> QED BY <1>1, <1>2, <1>3

LEMMA StepTcpAccept ==
  ASSUME NEW k, Tcp(k)!TcpServerAssumption, TcpInv(k), Tcp(k)!Accept
  PROVE  TcpInv(k)'
<1> USE DEF TcpInv, Tcp!Accept
<1>1. PICK h, q : h = Head(waiting) /\ q = waiting
  OBVIOUS
<1>2. h \in k.clients /\ h # None /\ h = q[1] /\ 1 \in DOMAIN q /\ tcp_child[h] = "none" /\ tcp_verdict[h] = "none"
  BY <1>1, BacklogTail DEF InOnePlace, Tcp!TcpServerAssumption
<1>3. t' = h /\ waiting' = Tail(q) /\ seen' = [seen EXCEPT ![h] = {rules}] /\ tcp_pc' = "accepted"
      /\ UNCHANGED <<numchildren, tcp_child, pending, rules, tcp_verdict, faults>>
  BY <1>1
<1>4. Tcp(k)!TypeOK' /\ TcpTables(k)' /\ RoomFor(k)'
  BY <1>2, <1>3 DEF Tcp!TypeOK, TcpTables, RoomFor, Tcp!Dead
<1>5. InOnePlace(k)'
  <2>1. /\ Tail(q) \in Seq(k.clients)
        /\ \A i \in DOMAIN Tail(q) : i \in Nat /\ i + 1 \in DOMAIN q /\ i + 1 # 1 /\ Tail(q)[i] = q[i + 1]
    BY <1>1, BacklogTail DEF InOnePlace
  <2>2. /\ \A i, j \in DOMAIN q : q[i] = q[j] => i = j
        /\ \A i \in DOMAIN q : tcp_child[q[i]] = "none" /\ tcp_verdict[q[i]] = "none"
    BY <1>1 DEF InOnePlace
  <2>3. ASSUME NEW i \in DOMAIN Tail(q), NEW j \in DOMAIN Tail(q), Tail(q)[i] = Tail(q)[j]
        PROVE  i = j
    <3>1. i + 1 = j + 1
      BY <2>1, <2>2, <2>3
    <3> QED BY <2>1, <3>1
  <2>4. \A i \in DOMAIN Tail(q) : tcp_child[Tail(q)[i]] = "none" /\ tcp_verdict[Tail(q)[i]] = "none" /\ Tail(q)[i] # h
    BY <1>2, <2>1, <2>2
  <2> QED BY <1>2, <1>3, <2>1, <2>3, <2>4 DEF InOnePlace
<1>6. SeenNow(k)' /\ Tcp(k)!JudgedByTheRules'
  BY <1>2, <1>3 DEF SeenNow, Tcp!JudgedByTheRules, TcpTables, InOnePlace, Tcp!TypeOK
<1>7. Tcp(k)!CountExact'
  BY DEF Tcp!CountExact, Tcp!Children, Tcp!Dead
<1> QED BY <1>4, <1>5, <1>6, <1>7

(* A child is counted before it is forked, and no longer when that failed.   *)
LEMMA StepTcpFork ==
  ASSUME NEW k, Tcp(k)!TcpServerAssumption, TcpInv(k), Tcp(k)!Fork
  PROVE  TcpInv(k)'
<1> USE DEF TcpInv, Tcp!Fork
<1>1. PICK c : c = t
  OBVIOUS
<1>2. c \in k.clients /\ c # None /\ tcp_child[c] = "none" /\ tcp_verdict[c] = "none" /\ rules \in seen[c]
  BY <1>1 DEF InOnePlace, Tcp!TypeOK, SeenNow
<1>3. \A i \in DOMAIN waiting : waiting[i] \in k.clients /\ waiting[i] # c
  BY <1>1 DEF InOnePlace
<1>4. None \notin k.clients
  BY DEF Tcp!TcpServerAssumption
<1>5. CASE /\ numchildren' = numchildren + 1 /\ tcp_child' = [tcp_child EXCEPT ![c] = "new"]
           /\ UNCHANGED <<tcp_verdict, faults>>
  <2>1. /\ tcp_child' \in [k.clients -> {"none", "new", "run", "dead", "gone"}]
        /\ tcp_child'[c] = "new" /\ \A j \in k.clients : j # c => tcp_child'[j] = tcp_child[j]
    BY <1>2, <1>5 DEF TcpTables
  <2>2. Tcp(k)!Children' = Tcp(k)!Children \cup {c} /\ Tcp(k)!Dead' = Tcp(k)!Dead /\ c \notin Tcp(k)!Children \cup Tcp(k)!Dead
    BY <1>2, <2>1 DEF Tcp!Children, Tcp!Dead
  <2>3. numchildren + 1 \in 0 .. k.limit
    BY DEF Tcp!TypeOK, RoomFor, Tcp!TcpServerAssumption
  <2>4. Tcp(k)!TypeOK' /\ TcpTables(k)' /\ RoomFor(k)'
    BY <1>5, <2>1, <2>2, <2>3 DEF Tcp!TypeOK, TcpTables, RoomFor
  <2>5. InOnePlace(k)'
    BY <1>3, <1>4, <1>5, <2>1 DEF InOnePlace
  <2>6. SeenNow(k)' /\ Tcp(k)!JudgedByTheRules'
    BY <1>2, <1>4, <1>5, <2>1 DEF SeenNow, Tcp!JudgedByTheRules
  <2>7. Tcp(k)!CountExact'
    <3>1. IsFiniteSet(Tcp(k)!Children \cup Tcp(k)!Dead)
      BY TcpFinite DEF Tcp!Children, Tcp!Dead
    <3>2. Tcp(k)!Cardinality((Tcp(k)!Children \cup Tcp(k)!Dead) \cup {c}) = numchildren + 1
      BY <2>2, <3>1, FS_AddElement, TcpCounts DEF Tcp!CountExact
    <3>3. (Tcp(k)!Children \cup {c}) \cup Tcp(k)!Dead = (Tcp(k)!Children \cup Tcp(k)!Dead) \cup {c}
      OBVIOUS
    <3> QED BY <1>5, <2>2, <3>2, <3>3 DEF Tcp!CountExact
  <2> QED BY <2>4, <2>5, <2>6, <2>7
<1>6. CASE tcp_verdict' = [tcp_verdict EXCEPT ![c] = "dropped"] /\ UNCHANGED <<numchildren, tcp_child>>
  <2>1. Tcp(k)!TypeOK' /\ TcpTables(k)' /\ RoomFor(k)'
    BY <1>6 DEF Tcp!TypeOK, TcpTables, RoomFor, Tcp!Dead
  <2>2. InOnePlace(k)' /\ SeenNow(k)' /\ Tcp(k)!JudgedByTheRules'
    BY <1>2, <1>3, <1>4, <1>6 DEF InOnePlace, SeenNow, Tcp!JudgedByTheRules, TcpTables
  <2>3. Tcp(k)!CountExact'
    BY <1>6 DEF Tcp!CountExact, Tcp!Children, Tcp!Dead
  <2> QED BY <2>1, <2>2, <2>3
<1> QED BY <1>1, <1>5, <1>6

-----------------------------------------------------------------------------
(* The children *)

(* What does not change when a child ends or goes on.                        *)
LEMMA TcpChildMoves ==
  ASSUME NEW k, Tcp(k)!TcpServerAssumption, TcpInv(k), NEW c \in k.clients, tcp_child[c] \in {"new", "run"},
         NEW s \in {"run", "dead"}, tcp_child' = [tcp_child EXCEPT ![c] = s],
         pending' \in BOOLEAN, (pending' = pending \/ pending'), s = "dead" => pending',
         UNCHANGED <<tcp_pc, t, numchildren, waiting, rules, seen>>,
         tcp_verdict' \in [k.clients -> {"none", "served", "denied", "dropped"}],
         \A j \in k.clients : j # c => tcp_verdict'[j] = tcp_verdict[j],
         Tcp(k)!JudgedByTheRules'
  PROVE  TcpInv(k)'
<1> USE DEF TcpInv
<1>1. /\ tcp_child' \in [k.clients -> {"none", "new", "run", "dead", "gone"}]
      /\ tcp_child'[c] = s /\ \A j \in k.clients : j # c => tcp_child'[j] = tcp_child[j]
  BY DEF TcpTables
<1>2. Tcp(k)!Children' \cup Tcp(k)!Dead' = Tcp(k)!Children \cup Tcp(k)!Dead /\ Tcp(k)!Dead' \subseteq Tcp(k)!Dead \cup (IF s = "dead" THEN {c} ELSE {})
  BY <1>1 DEF Tcp!Children, Tcp!Dead
<1>3. Tcp(k)!TypeOK'
  <2>1. Tcp(k)!Dead' # {} => pending'
    BY <1>2 DEF Tcp!TypeOK
  <2> QED BY <2>1 DEF Tcp!TypeOK
<1>4. TcpTables(k)' /\ RoomFor(k)'
  BY <1>1 DEF TcpTables, RoomFor
<1>5. InOnePlace(k)'
  <2>1. /\ \A i \in DOMAIN waiting : waiting[i] \in k.clients /\ waiting[i] # c
        /\ t # None => t \in k.clients /\ t # c
    BY DEF InOnePlace, Tcp!TypeOK
  <2> QED BY <1>1, <2>1 DEF InOnePlace
<1>6. SeenNow(k)'
  BY <1>1 DEF SeenNow
<1>7. Tcp(k)!CountExact'
  BY <1>2 DEF Tcp!CountExact
<1> QED BY <1>3, <1>4, <1>5, <1>6, <1>7

(* A verdict is given by rules that were seen. *)
LEMMA StepTcpDoit ==
  ASSUME NEW k, Tcp(k)!TcpServerAssumption, TcpInv(k), Tcp(k)!Doit
  PROVE  TcpInv(k)'
<1>1. PICK c \in k.clients, s \in {"run", "dead"}, v \in {"served", "denied", "dropped"} :
        /\ tcp_child[c] = "new" /\ tcp_child' = [tcp_child EXCEPT ![c] = s]
        /\ tcp_verdict' = [tcp_verdict EXCEPT ![c] = v]
        /\ v = "served" => rules = "allow"
        /\ v = "denied" => rules = "deny"
        /\ IF s = "dead" THEN pending' = TRUE ELSE pending' = pending
        /\ UNCHANGED <<tcp_pc, t, numchildren, waiting, rules, seen>>
  BY DEF Tcp!Doit, Tcp!End
<1>2. /\ tcp_verdict' \in [k.clients -> {"none", "served", "denied", "dropped"}]
      /\ tcp_verdict'[c] = v /\ \A j \in k.clients : j # c => tcp_verdict'[j] = tcp_verdict[j]
  BY <1>1 DEF TcpInv, TcpTables
<1>3. Tcp(k)!JudgedByTheRules'
  BY <1>1, <1>2 DEF TcpInv, Tcp!JudgedByTheRules, SeenNow
<1>4. pending' \in BOOLEAN /\ (pending' = pending \/ pending') /\ (s = "dead" => pending')
  BY <1>1 DEF TcpInv, Tcp!TypeOK
<1> QED BY <1>1, <1>2, <1>3, <1>4, TcpChildMoves

LEMMA StepTcpEnds ==
  ASSUME NEW k, Tcp(k)!TcpServerAssumption, TcpInv(k), Tcp(k)!Ends
  PROVE  TcpInv(k)'
<1>1. PICK c \in k.clients : tcp_child[c] = "run" /\ tcp_child' = [tcp_child EXCEPT ![c] = "dead"] /\ pending' = TRUE
  BY DEF Tcp!Ends, Tcp!End
<1>2. UNCHANGED <<tcp_pc, t, numchildren, waiting, rules, seen, tcp_verdict>>
  BY DEF Tcp!Ends
<1>3. Tcp(k)!JudgedByTheRules' /\ tcp_verdict' \in [k.clients -> {"none", "served", "denied", "dropped"}]
  BY <1>2 DEF TcpInv, Tcp!JudgedByTheRules, TcpTables
<1> QED BY <1>1, <1>2, <1>3, TcpChildMoves

-----------------------------------------------------------------------------
(* The world around *)

LEMMA StepTcpConnect ==
  ASSUME NEW k, Tcp(k)!TcpServerAssumption, TcpInv(k), Tcp(k)!Connect
  PROVE  TcpInv(k)'
<1> USE DEF TcpInv
<1>1. PICK c \in k.clients :
        /\ tcp_child[c] = "none" /\ tcp_verdict[c] = "none" /\ t # c
        /\ c \notin {waiting[i] : i \in DOMAIN waiting}
        /\ waiting' = Append(waiting, c)
  BY DEF Tcp!Connect
<1>2. UNCHANGED <<tcp_pc, t, numchildren, tcp_child, pending, rules, seen, tcp_verdict, faults>>
  BY DEF Tcp!Connect
<1>3. Tcp(k)!TypeOK' /\ TcpTables(k)' /\ RoomFor(k)'
  BY <1>2 DEF Tcp!TypeOK, TcpTables, RoomFor, Tcp!Dead
<1>4. SeenNow(k)' /\ Tcp(k)!JudgedByTheRules'
  BY <1>2 DEF SeenNow, Tcp!JudgedByTheRules
<1>5. Tcp(k)!CountExact'
  BY <1>2 DEF Tcp!CountExact, Tcp!Children, Tcp!Dead
<1>6. InOnePlace(k)'
  <2>1. PICK q \in Seq(k.clients) : q = waiting
    BY DEF InOnePlace
  <2>2. /\ Append(q, c) \in Seq(k.clients) /\ Len(q) \in Nat
        /\ DOMAIN q = 1 .. Len(q) /\ DOMAIN Append(q, c) = 1 .. Len(q) + 1
        /\ Append(q, c)[Len(q) + 1] = c
        /\ \A i \in 1 .. Len(q) : Append(q, c)[i] = q[i]
    OBVIOUS
  <2>3. \A i \in 1 .. Len(q) + 1 : i \in 1 .. Len(q) \/ i = Len(q) + 1
    BY <2>2
  <2>4. \A i \in 1 .. Len(q) : q[i] # c /\ tcp_child[q[i]] = "none" /\ tcp_verdict[q[i]] = "none" /\ q[i] # t
    BY <1>1, <2>1, <2>2 DEF InOnePlace
  <2>5. \A i, j \in 1 .. Len(q) : q[i] = q[j] => i = j
    BY <2>1, <2>2 DEF InOnePlace
  <2>6. \A i, j \in 1 .. Len(q) + 1 : Append(q, c)[i] = Append(q, c)[j] => i = j
    BY <2>2, <2>3, <2>4, <2>5
  <2>7. \A i \in 1 .. Len(q) + 1 :
          LET w == Append(q, c)[i] IN tcp_child[w] = "none" /\ tcp_verdict[w] = "none" /\ w # t
    BY <1>1, <2>2, <2>3, <2>4
  <2>8. waiting' = Append(q, c)
    BY <1>1, <2>1
  <2> QED BY <1>2, <2>2, <2>6, <2>7, <2>8 DEF InOnePlace
<1> QED BY <1>3, <1>4, <1>5, <1>6

(* Rules that change are seen by those that are not judged yet.              *)
LEMMA StepTcprules ==
  ASSUME NEW k, Tcp(k)!TcpServerAssumption, TcpInv(k), Tcp(k)!Tcprules
  PROVE  TcpInv(k)'
<1> USE DEF TcpInv
<1>1. PICK r \in {"allow", "deny", "bad"} :
        /\ rules' = r
        /\ seen' = [c \in k.clients |-> IF t = c \/ tcp_child[c] = "new" THEN seen[c] \cup {r} ELSE seen[c]]
        /\ UNCHANGED <<tcp_pc, t, numchildren, tcp_child, pending, waiting, tcp_verdict, faults>>
  BY DEF Tcp!Tcprules
<1>2. seen' \in [k.clients -> SUBSET {"allow", "deny", "bad"}]
  BY <1>1 DEF TcpTables
<1>3. \A c \in k.clients : seen[c] \subseteq seen'[c] /\ (t = c \/ tcp_child[c] = "new" => r \in seen'[c])
  BY <1>1
<1>4. Tcp(k)!TypeOK' /\ TcpTables(k)' /\ RoomFor(k)'
  BY <1>1, <1>2 DEF Tcp!TypeOK, TcpTables, RoomFor, Tcp!Dead
<1>5. InOnePlace(k)'
  BY <1>1 DEF InOnePlace
<1>6. SeenNow(k)' /\ Tcp(k)!JudgedByTheRules'
  BY <1>1, <1>3 DEF SeenNow, Tcp!JudgedByTheRules
<1>7. Tcp(k)!CountExact'
  BY <1>1 DEF Tcp!CountExact, Tcp!Children, Tcp!Dead
<1> QED BY <1>4, <1>5, <1>6, <1>7

LEMMA StepTcp ==
  ASSUME NEW k, Tcp(k)!TcpServerAssumption, TcpInv(k), [Tcp(k)!Next]_(Tcp(k)!vars)
  PROVE  TcpInv(k)'
<1>1. CASE Tcp(k)!Parent
  BY <1>1, StepTcpParent, StepTcpAccept, StepTcpFork DEF Tcp!Parent
<1>2. CASE Tcp(k)!Doit \/ Tcp(k)!Ends \/ Tcp(k)!Connect \/ Tcp(k)!Tcprules
  BY <1>2, StepTcpDoit, StepTcpEnds, StepTcpConnect, StepTcprules
<1>3. CASE UNCHANGED Tcp(k)!vars
  <2> USE <1>3 DEF TcpInv, Tcp!vars
  <2>1. Tcp(k)!TypeOK' /\ TcpTables(k)' /\ RoomFor(k)'
    BY DEF Tcp!TypeOK, TcpTables, RoomFor, Tcp!Dead
  <2>2. InOnePlace(k)' /\ SeenNow(k)' /\ Tcp(k)!JudgedByTheRules'
    BY DEF InOnePlace, SeenNow, Tcp!JudgedByTheRules
  <2>3. Tcp(k)!CountExact'
    BY DEF Tcp!CountExact, Tcp!Children, Tcp!Dead
  <2> QED BY <2>1, <2>2, <2>3
<1> QED BY <1>1, <1>2, <1>3 DEF Tcp!Next

LEMMA TcpPromises ==
  ASSUME NEW k, Tcp(k)!TcpServerAssumption, TcpInv(k)
  PROVE  Tcp(k)!TypeOK /\ Tcp(k)!CountExact /\ Tcp(k)!LimitKept /\ Tcp(k)!JudgedByTheRules
BY DEF TcpInv, Tcp!CountExact, Tcp!LimitKept, RoomFor, Tcp!TypeOK, TcpTables, Tcp!TcpServerAssumption

TcpServersInv == \A k \in Tcpservers : part = k.part => TcpInv(k)

(* However signals, failures and accept() interleave: tcpserver knows how     *)
(* many children it has, no more than its limit run, and no client is served  *)
(* against the rules. For any limit and any clients.                          *)
THEOREM AlwaysConnectionsCounted == Spec => []ConnectionsCounted
<1> USE InstancesAssumption
<1>1. Init => TcpServersInv
  <2> SUFFICES ASSUME Init, NEW k \in Tcpservers, part = k.part PROVE TcpInv(k)
    BY DEF TcpServersInv
  <2>1. PICK j \in Tcpservers : MayBeTcp(j) /\ Tcp(j)!Init
    BY DEF Init
  <2>2. j = k
    BY <2>1 DEF MayBeTcp, TcpParts
  <2> QED BY <2>1, <2>2, InitTcp
<1>2. TcpServersInv /\ [Next]_vars => TcpServersInv'
  <2> SUFFICES ASSUME TcpServersInv, [Next]_vars, NEW k \in Tcpservers, part = k.part PROVE TcpInv(k)'
    BY PartKept DEF TcpServersInv
  <2>1. (\E j \in Tcpservers : part = j.part /\ Tcp(j)!Next) \/ UNCHANGED tcpVars
    BY DEF Next, vars, Supervises, Scans, Logs, TakesConnections, LooksUp, TalksSmtp, Greylists,
           TalksBack
  <2>2. CASE \E j \in Tcpservers : part = j.part /\ Tcp(j)!Next
    <3>1. Tcp(k)!Next
      BY <2>2
    <3> QED BY <3>1, StepTcp DEF TcpServersInv
  <2>3. CASE UNCHANGED tcpVars
    <3>1. UNCHANGED Tcp(k)!vars
      BY <2>3 DEF tcpVars, Tcp!vars
    <3> QED BY <3>1, StepTcp DEF TcpServersInv
  <2> QED BY <2>1, <2>2, <2>3
<1>3. TcpServersInv => ConnectionsCounted
  BY TcpPromises DEF TcpServersInv, ConnectionsCounted
<1> QED BY <1>1, <1>2, <1>3, PTL DEF Spec

-----------------------------------------------------------------------------
(* jgreylist *)

EntryTypes ==
  /\ now \in Nat /\ dir \in BOOLEAN /\ met \in SUBSET Nat
  /\ grey_file \in [there : BOOLEAN, mtime : Nat, atime : Nat]
  /\ grey_pc \in [Connections -> {"mkdir", "stat", "create", "time", "tstat", "utime", "grey",
                                  "okay", "died"}]
  /\ sb \in [Connections -> Nat] /\ at \in [Connections -> Nat]
  /\ grey_verdict \in [Connections -> {"none", "grey", "okay"}]

(* The modification time is one at which a first connection was refused, also *)
(* the one that a process has read and will write back.                       *)
FromTheFirst ==
  /\ grey_file.there => grey_file.mtime \in met
  /\ \A p \in Connections : grey_pc[p] \in {"time", "tstat", "utime"} => sb[p] \in met

(* A verdict counts from such a time.                                         *)
Judged ==
  \A p \in Connections :
    /\ grey_verdict[p] = "okay" => \E s \in met : s + HoldTime <= at[p]
    /\ grey_verdict[p] = "grey" => \E s \in met : at[p] < s + HoldTime
    /\ grey_pc[p] = "okay" => grey_verdict[p] = "okay"
    /\ grey_pc[p] \in {"tstat", "utime"} => grey_verdict[p] \in {"grey", "okay"}

(* What a process has seen is still there, or the cleaner has come.           *)
Unswept ==
  \A p \in Connections : p \notin swept =>
    /\ grey_pc[p] # "died"
    /\ grey_pc[p] \in {"stat", "create", "time", "tstat", "utime"} => dir
    /\ grey_pc[p] \in {"time", "tstat", "utime"} => grey_file.there

EntryInv == EntryTypes /\ FromTheFirst /\ Judged /\ Unswept

LEMMA InitEntry == ASSUME Grey!Init PROVE EntryInv
<1> USE DEF Grey!Init, Grey!NoFile
<1>1. EntryTypes
  BY DEF EntryTypes
<1>2. FromTheFirst /\ Judged /\ Unswept
  BY DEF FromTheFirst, Judged, Unswept
<1> QED BY <1>1, <1>2 DEF EntryInv

LEMMA HoldNat == HoldTime \in Nat
BY InstancesAssumption DEF Grey!GreylistAssumption

LEMMA StepClient ==
  ASSUME EntryInv, NEW p \in Connections,
         \/ Grey!Mkdir(p) \/ Grey!Stat(p) \/ Grey!Create(p)
         \/ Grey!Time(p) \/ Grey!TouchStat(p) \/ Grey!Touch(p)
  PROVE  EntryInv'
<1> USE HoldNat DEF EntryTypes, Grey!Go, Grey!cleaner
<1>0. EntryTypes /\ FromTheFirst /\ Judged /\ Unswept
  BY DEF EntryInv
<1>1. CASE Grey!Mkdir(p)
  <2> USE <1>0, <1>1 DEF Grey!Mkdir
  <2>1. EntryTypes'
    OBVIOUS
  <2>2. FromTheFirst' /\ Judged' /\ Unswept'
    BY DEF FromTheFirst, Judged, Unswept
  <2> QED BY <2>1, <2>2 DEF EntryInv
<1>2. CASE Grey!Stat(p)
  <2> USE <1>0, <1>2 DEF Grey!Stat
  <2>1. EntryTypes'
    OBVIOUS
  <2>2. FromTheFirst' /\ Judged' /\ Unswept'
    BY DEF FromTheFirst, Judged, Unswept
  <2> QED BY <2>1, <2>2 DEF EntryInv
<1>3. CASE Grey!Create(p)
  <2> USE <1>0, <1>3 DEF Grey!Create
  <2>1. EntryTypes'
    <3>1. met' \in SUBSET Nat
      OBVIOUS
    <3>2. grey_file' \in [there : BOOLEAN, mtime : Nat, atime : Nat]
      <4>1. grey_file' = [there |-> TRUE, mtime |-> now, atime |-> now] \/ grey_file' = grey_file
        OBVIOUS
      <4>2. [there |-> TRUE, mtime |-> now, atime |-> now] \in [there : BOOLEAN, mtime : Nat, atime : Nat]
        BY <1>0 DEF EntryTypes
      <4> QED BY <1>0, <4>1, <4>2 DEF EntryTypes
    <3>3. UNCHANGED <<now, dir, sb, at, grey_verdict>>
      OBVIOUS
    <3>4. grey_pc' = [grey_pc EXCEPT ![p] = "grey"] \/ grey_pc' = [grey_pc EXCEPT ![p] = "died"]
      OBVIOUS
    <3> QED BY <3>1, <3>2, <3>3, <3>4
  <2>2. FromTheFirst' /\ Judged' /\ Unswept'
    BY DEF FromTheFirst, Judged, Unswept
  <2> QED BY <2>1, <2>2 DEF EntryInv
<1>4. CASE Grey!Time(p)
  <2> USE <1>0, <1>4 DEF Grey!Time
  <2>1. EntryTypes'
    <3>1. (IF sb[p] + HoldTime > now THEN "grey" ELSE "okay") \in {"none", "grey", "okay"}
      OBVIOUS
    <3> QED BY <3>1
  <2>2. FromTheFirst' /\ Unswept'
    BY DEF FromTheFirst, Unswept
  <2>3. Judged'
    BY DEF FromTheFirst, Judged
  <2> QED BY <2>1, <2>2, <2>3 DEF EntryInv
<1>5. CASE Grey!TouchStat(p)
  <2> USE <1>0, <1>5 DEF Grey!TouchStat
  <2>1. EntryTypes'
    OBVIOUS
  <2>2. FromTheFirst' /\ Judged' /\ Unswept'
    BY DEF FromTheFirst, Judged, Unswept
  <2> QED BY <2>1, <2>2 DEF EntryInv
<1>6. CASE Grey!Touch(p)
  <2> USE <1>0, <1>6 DEF Grey!Touch
  <2>1. EntryTypes'
    BY DEF Judged
  <2>2. FromTheFirst' /\ Judged' /\ Unswept'
    BY DEF FromTheFirst, Judged, Unswept
  <2> QED BY <2>1, <2>2 DEF EntryInv
<1> QED BY <1>1, <1>2, <1>3, <1>4, <1>5, <1>6

LEMMA StepEntry == ASSUME EntryInv, [Grey!Next]_(greyVars) PROVE EntryInv'
<1> USE DEF EntryTypes, FromTheFirst, Judged, Unswept, Grey!client, Grey!cleaner
<1>0. EntryTypes /\ FromTheFirst /\ Judged /\ Unswept
  BY DEF EntryInv
<1>1. CASE Grey!Tick \/ Grey!Sweep \/ Grey!Look \/ UNCHANGED greyVars
  <2>1. /\ UNCHANGED <<dir, met, grey_file, grey_pc, sb, at, grey_verdict, swept>>
        /\ now' \in Nat
    BY <1>0, <1>1 DEF Grey!Tick, Grey!Sweep, Grey!Look, greyVars
  <2> QED BY <1>0, <2>1 DEF EntryInv
<1>2. CASE Grey!Unlink
  BY <1>0, <1>2 DEF Grey!Unlink, Grey!Active, Grey!NoFile, EntryInv
<1>3. CASE Grey!Rmdir
  BY <1>0, <1>3 DEF Grey!Rmdir, Grey!Active, EntryInv
<1> QED BY <1>1, <1>2, <1>3, StepClient DEF Grey!Next

-----------------------------------------------------------------------------
(* Its conversation *)

TalkInv ==
  /\ TalkRcpts \in Nat /\ rcpt_count \in Nat /\ rcpts \in Nat /\ ~late
  /\ alarm_received \in BOOLEAN
  /\ talk_pc \in {"test", "call", "read", "got", "answer", "end", "bye", "done"}
  /\ TalkRcpts > 0 =>
       /\ rcpts <= TalkRcpts
       /\ talk_pc \in {"test", "call", "read"} => rcpts = rcpt_count /\ rcpt_count < TalkRcpts
       /\ talk_pc \in {"got", "answer"} =>
            rcpts = (IF cmd = "RCPT" THEN rcpt_count + 1 ELSE rcpt_count) /\ rcpt_count < TalkRcpts
  /\ talk_pc \in {"test", "call", "read", "got", "answer"} => last \in {220, 250, 450}
  /\ talk_pc \in {"end", "bye"} => alarm_received \/ last \in {221, 421}
  /\ talk_pc = "done" => last \in {221, 421}

LEMMA InitTalk == ASSUME Talk!Init PROVE TalkInv
<1>1. TalkRcpts \in Nat
  BY InstancesAssumption DEF Talk!GreylistTalkAssumption
<1>2. ~late /\ alarm_received \in BOOLEAN
  BY DEF Talk!Init
<1>3. talk_pc = "test" /\ rcpts = 0 /\ rcpt_count = 0 /\ last = 220
  BY DEF Talk!Init
<1> QED BY <1>1, <1>2, <1>3 DEF TalkInv

(* An answer is late only after one that ends the conversation.               *)
LEMMA NotLate ==
  ASSUME ~late, NEW a, Talk!Say(a), last \in {221, 421} => a = 421
  PROVE  ~late' /\ last' = a
<1>1. ~(late \/ (last \in {221, 421} /\ a # 421))
  OBVIOUS
<1> QED BY <1>1, Zenon DEF Talk!Say

LEMMA StepTalk == ASSUME TalkInv, [Talk!Next]_talkVars PROVE TalkInv'
<1> USE DEF TalkInv, Talk!Loop
<1>1. CASE Talk!SendPart \/ Talk!SendLine \/ Talk!Close \/ UNCHANGED talkVars
  BY <1>1 DEF Talk!SendPart, Talk!SendLine, Talk!Close, talkVars
<1>2. CASE Talk!Test \/ Talk!Call \/ Talk!Check \/ Talk!End
  BY <1>2 DEF Talk!Test, Talk!Call, Talk!Check, Talk!End
<1>3. CASE Talk!Read
  <2>1. CASE input = <<>>
    <3>1. /\ talk_pc = "read" /\ talk_pc' = "got" /\ cmd' = ""
          /\ UNCHANGED <<rcpts, rcpt_count, last, late, alarm_received>>
      BY <1>3, <2>1 DEF Talk!Read
    <3>2. cmd' # "RCPT" /\ talk_pc' = "got" /\ talk_pc = "read"
      BY <3>1
    <3>3. ~late' /\ alarm_received' \in BOOLEAN /\ last' \in {220, 250, 450}
      BY <3>1
    <3>4. TalkRcpts > 0 => rcpts' = rcpt_count' /\ rcpt_count' < TalkRcpts
      BY <3>1
    <3> QED BY <3>1, <3>2, <3>3, <3>4
  <2>2. CASE input # <<>> /\ Head(input) = "part"
    BY <1>3, <2>2 DEF Talk!Read
  <2>3. CASE input # <<>> /\ Head(input) # "part"
    BY <1>3, <2>3 DEF Talk!Read
  <2> QED BY <2>1, <2>2, <2>3
<1>4. CASE Talk!Alarm
  BY <1>4 DEF Talk!Alarm
<1>5. CASE Talk!Answer
  <2>1. last \in {220, 250, 450} /\ talk_pc = "answer" /\ rcpts' = rcpts
    BY <1>5 DEF Talk!Answer
  <2>2. CASE cmd = "QUIT"
    <3>1. /\ talk_pc' = "end" /\ alarm_received' = FALSE /\ Talk!Say(221)
          /\ rcpt_count' = rcpt_count
      BY <1>5, <2>2 DEF Talk!Answer
    <3>2. ~late' /\ last' = 221
      BY <2>1, <3>1, NotLate
    <3> QED BY <2>1, <3>1, <3>2
  <2>3. CASE cmd # "QUIT"
    <3>1. alarm_received' = alarm_received
      BY <1>5, <2>3 DEF Talk!Answer
    <3>2. rcpt_count' = IF cmd = "RCPT" /\ TalkRcpts > 0 THEN rcpt_count + 1 ELSE rcpt_count
      BY <1>5, <2>3 DEF Talk!Answer
    <3>3. CASE rcpt_count' # rcpt_count /\ rcpt_count' >= TalkRcpts
      <4>1. talk_pc' = "end" /\ Talk!Say(421)
        BY <1>5, <2>3, <3>3 DEF Talk!Answer
      <4>2. ~late' /\ last' = 421
        BY <2>1, <4>1, NotLate
      <4> QED BY <2>1, <3>1, <3>2, <3>3, <4>1, <4>2
    <3>4. CASE ~(rcpt_count' # rcpt_count /\ rcpt_count' >= TalkRcpts)
      <4>1. talk_pc' = "test" /\ (Talk!Say(250) \/ Talk!Say(450))
        BY <1>5, <2>3, <3>4 DEF Talk!Answer
      <4>2. ~late' /\ last' \in {250, 450}
        BY <2>1, <4>1, NotLate
      <4> QED BY <2>1, <3>1, <3>2, <3>4, <4>1, <4>2
    <3> QED BY <3>3, <3>4
  <2> QED BY <2>2, <2>3
<1>6. CASE Talk!Bye
  <2>1. talk_pc' = "done" /\ UNCHANGED <<alarm_received, rcpt_count, rcpts>>
    BY <1>6 DEF Talk!Bye
  <2>2. ~late' /\ last' \in {221, 421}
    <3>1. CASE alarm_received
      BY <1>6, <3>1, NotLate DEF Talk!Bye
    <3>2. CASE ~alarm_received
      BY <1>6, <3>2 DEF Talk!Bye
    <3> QED BY <3>1, <3>2
  <2> QED BY <2>1, <2>2
<1> QED BY <1>1, <1>2, <1>3, <1>4, <1>5, <1>6 DEF Talk!Next, Talk!Server

GreyInv == (part = "greylist" => EntryInv) /\ (part = "greylist talk" => TalkInv)

(* However many connections share an entry without a lock, and wherever       *)
(* jgreylist-clean comes between them: nobody is let in before the hold has   *)
(* passed since another was refused, refused without one, or dropped but for  *)
(* the cleaner; and no answer follows the last. For any times and limits.     *)
THEOREM AlwaysGreylistHolds == Spec => []GreylistHolds
<1>1. Init => GreyInv
  BY InitEntry, InitTalk DEF Init, GreyInv
<1>2. GreyInv /\ [Next]_vars => GreyInv'
  <2> SUFFICES ASSUME GreyInv, [Next]_vars PROVE GreyInv'
    OBVIOUS
  <2>1. ASSUME part = "greylist" PROVE EntryInv'
    <3>1. [Grey!Next]_greyVars
      BY <2>1 DEF Next, vars, Supervises, Scans, Logs, TakesConnections, LooksUp, TalksSmtp,
                  Greylists, TalksBack
    <3> QED BY <2>1, <3>1, StepEntry DEF GreyInv
  <2>2. ASSUME part = "greylist talk" PROVE TalkInv'
    <3>1. [Talk!Next]_talkVars
      BY <2>2 DEF Next, vars, Supervises, Scans, Logs, TakesConnections, LooksUp, TalksSmtp,
                  Greylists, TalksBack
    <3> QED BY <2>2, <3>1, StepTalk DEF GreyInv
  <2> QED BY <2>1, <2>2, PartKept DEF GreyInv
<1>3. EntryInv => Grey!HeldBack /\ Grey!GreyForCause /\ Grey!DiesOnlyBySweep
  BY DEF EntryInv, Judged, Unswept, Grey!HeldBack, Grey!GreyForCause, Grey!DiesOnlyBySweep
<1>4. TalkInv => Talk!LimitKept
  BY DEF TalkInv, Talk!LimitKept
<1>5. GreyInv => GreylistHolds
  BY <1>3, <1>4 DEF GreyInv, GreylistHolds
<1> QED BY <1>1, <1>2, <1>5, PTL DEF Spec

-----------------------------------------------------------------------------
(* qmail-smtpd *)

Names == Senders \cup {Smtp!NoFrom}
Grants == [open : BOOLEAN, from : Names, to : Seq(Rcpts), ssl : BOOLEAN, authd : BOOLEAN,
           bad : BOOLEAN]
Taken == [from : Names, to : Seq(Rcpts), size : Nat, ssl : BOOLEAN, authd : BOOLEAN, limit : Nat,
          granted : Grants]

SessionTypes ==
  /\ smtp_pc \in {"command", "body", "reply", "gone"}
  /\ ssl \in BOOLEAN /\ authd \in BOOLEAN /\ relayclient \in BOOLEAN /\ seenmail \in BOOLEAN
  /\ mailfrom \in Names /\ rcptto \in Seq(Rcpts) /\ rcptcounter \in Nat
  /\ rcptcount \in 0 .. Len(rcptto) /\ Len(rcptto) <= rcptcounter
  /\ bytestooverflow \in 0 .. IntWidth - 1
  /\ queue \in Seq(Taken) /\ granted \in Grants /\ told \in Nat

(* What the answers of the message at hand have said is what will be queued:  *)
(* nobody can log in, or change a list, between MAIL and the end of it.       *)
AtHand ==
  /\ relayclient = authd
  /\ seenmail => rcptcount = Len(rcptto)
  /\ smtp_pc \in {"body", "reply"} => rcptto # <<>> /\ ~seenmail
  /\ seenmail \/ smtp_pc = "body" =>
       /\ granted.open /\ granted.from = mailfrom /\ granted.to = rcptto
       /\ granted.authd = authd
       /\ mailfrom \in BarredSenders => flagbarfbmf
       /\ flagbarfbmf => rcptto = <<>>
       /\ RcptMax > 0 => Len(rcptto) <= RcptMax
       /\ authd \/ \A k \in DOMAIN rcptto : rcptto[k] \in OurRcpts

(* What is left of the limit when the Received-SPF line is written.           *)
Counted ==
  /\ databytes = (IF authd THEN AuthByteLimit ELSE ByteLimit)
  /\ databytes = 0 => bytestooverflow = 0
  /\ smtp_pc = "body" /\ databytes > 0 =>
       bytestooverflow = (IF authd THEN databytes + 1 ELSE databytes + 1 - SpfBytes)

Lawful(q) ==
  /\ q.granted.open /\ q.from = q.granted.from /\ q.to = q.granted.to /\ q.to # <<>>
  /\ q.from \notin BarredSenders
  /\ RcptMax > 0 => Len(q.to) <= RcptMax
  /\ q.granted.authd \/ \A k \in DOMAIN q.to : q.to[k] \in OurRcpts
  /\ q.limit > 0 => q.size <= q.limit
AllLawful == \A i \in DOMAIN queue : Lawful(queue[i])

TakenTold ==
  /\ smtp_pc \in {"command", "body"} => Len(queue) = told
  /\ smtp_pc = "reply" => Len(queue) = told + 1
  /\ Len(queue) - told \in 0 .. 1

SessionInv ==
  SessionTypes /\ AtHand /\ Counted /\ AllLawful /\ TakenTold /\ ~oversize /\ ~unfair

(* Where the counter of the limit would go wrong: it wraps around under a     *)
(* limit that is less than the Received-SPF line, and is kept from the        *)
(* message before when a login takes the limit away.                          *)
LimitsAgree == ByteLimit > 0 => AuthByteLimit > 0 /\ SpfBytes <= ByteLimit + 1

LEMMA SessionNumbers ==
  /\ RcptMax \in Nat /\ ByteLimit \in Nat /\ AuthByteLimit \in Nat /\ SpfBytes \in Nat
  /\ IntWidth \in Nat /\ 0 < IntWidth /\ LetterSizes \subseteq Nat
  /\ ByteLimit + 1 < IntWidth /\ AuthByteLimit + 1 < IntWidth /\ SpfBytes < IntWidth
<1>1. Smtp!SmtpSessionAssumption
  BY InstancesAssumption
<1> QED BY <1>1 DEF Smtp!SmtpSessionAssumption

LEMMA Appended ==
  ASSUME NEW S, NEW s \in Seq(S), NEW e \in S
  PROVE  /\ Append(s, e) \in Seq(S) /\ Append(s, e) # <<>>
         /\ Len(s) \in Nat /\ Len(Append(s, e)) = Len(s) + 1
         /\ \A i \in DOMAIN Append(s, e) :
              (i \in DOMAIN s /\ Append(s, e)[i] = s[i]) \/ Append(s, e)[i] = e
OBVIOUS

(* Unsigned arithmetic is that of the integers where nothing wraps.           *)
LEMMA Unsigned ==
  ASSUME NEW w \in Nat, NEW a \in Nat, NEW b \in Nat, b <= a, a < w
  PROVE  (a + w - b) % w = a - b
<1>1. PICK k \in Nat : k = a - b /\ k < w
  OBVIOUS
<1>2. a + w - b = w + k
  BY <1>1
<1>3. (w + k) % w = k
  BY <1>1
<1> QED BY <1>1, <1>2, <1>3

LEMMA NothingGranted ==
  /\ Smtp!Nothing \in Grants /\ <<>> \in Seq(Rcpts) /\ Len(<<>>) = 0
BY DEF Smtp!Nothing, Grants, Names

LEMMA InitSession == ASSUME Smtp!Init PROVE SessionInv
<1> USE SessionNumbers, NothingGranted DEF Smtp!Init
<1>1. <<>> \in Seq(Taken) /\ DOMAIN (<<>>) = {}
  OBVIOUS
<1>2. SessionTypes
  <2>1. mailfrom \in Names /\ queue \in Seq(Taken) /\ granted \in Grants
    BY <1>1 DEF Names
  <2>2. rcptcount \in 0 .. Len(rcptto) /\ Len(rcptto) <= rcptcounter /\ rcptto \in Seq(Rcpts)
    OBVIOUS
  <2>3. bytestooverflow \in 0 .. IntWidth - 1 /\ told \in Nat /\ rcptcounter \in Nat
    OBVIOUS
  <2> QED BY <2>1, <2>2, <2>3 DEF SessionTypes
<1>3. AtHand
  BY DEF AtHand
<1>4. Counted
  BY DEF Counted
<1>5. AllLawful /\ TakenTold
  BY <1>1 DEF AllLawful, TakenTold
<1>6. ~oversize /\ ~unfair
  OBVIOUS
<1> QED BY <1>2, <1>3, <1>4, <1>5, <1>6 DEF SessionInv

(* HELO, EHLO, RSET, a login or TLS, and a client that goes, leave the queue  *)
(* alone and drop the message or do not touch it.                             *)
LEMMA Drops ==
  ASSUME SessionInv, smtp_pc = "command", smtp_pc' = "command", seenmail' = FALSE,
         ssl' \in BOOLEAN, authd' \in BOOLEAN, relayclient' = authd', granted' \in Grants,
         rcptcount' \in {0, rcptcount},
         databytes' = (IF authd' THEN AuthByteLimit ELSE ByteLimit),
         databytes' = 0 => bytestooverflow' = 0, bytestooverflow' \in 0 .. IntWidth - 1,
         UNCHANGED <<mailfrom, rcptto, rcptcounter, queue, told, oversize, unfair>>
  PROVE  SessionInv'
<1>1. SessionTypes'
  <2>1. relayclient' \in BOOLEAN /\ seenmail' \in BOOLEAN
    OBVIOUS
  <2>2. rcptcount' \in 0 .. Len(rcptto')
    BY DEF SessionInv, SessionTypes
  <2> QED BY <2>1, <2>2 DEF SessionInv, SessionTypes
<1>2. AtHand'
  BY DEF SessionInv, AtHand
<1>3. Counted'
  BY DEF SessionInv, Counted
<1>4. AllLawful' /\ TakenTold'
  BY DEF SessionInv, AllLawful, Lawful, TakenTold
<1>5. ~oversize' /\ ~unfair'
  BY DEF SessionInv
<1> QED BY <1>1, <1>2, <1>3, <1>4, <1>5 DEF SessionInv

LEMMA StepResets ==
  ASSUME LimitsAgree, SessionInv, Smtp!Helo \/ Smtp!Rset \/ Smtp!Auth PROVE SessionInv'
<1> USE DEF Smtp!Reset, Smtp!conn, Smtp!txn, Smtp!ghosts
<1>0. SessionTypes /\ AtHand /\ Counted
  BY DEF SessionInv
<1>1. CASE Smtp!Helo
  <2>1. /\ smtp_pc = "command" /\ smtp_pc' = "command" /\ seenmail' = FALSE /\ granted' = Smtp!Nothing
        /\ UNCHANGED <<ssl, authd, relayclient, databytes, rcptcount, bytestooverflow, mailfrom,
                       rcptto, rcptcounter, queue, told, oversize, unfair>>
    BY <1>1 DEF Smtp!Helo
  <2>2. relayclient' = authd' /\ databytes' = (IF authd' THEN AuthByteLimit ELSE ByteLimit)
    BY <1>0, <2>1 DEF AtHand, Counted
  <2>3. databytes' = 0 => bytestooverflow' = 0
    BY <1>0, <2>1 DEF Counted
  <2> QED BY <1>0, <2>1, <2>2, <2>3, Drops, NothingGranted DEF SessionTypes
<1>2. CASE Smtp!Rset
  <2>1. /\ smtp_pc = "command" /\ smtp_pc' = "command" /\ seenmail' = FALSE /\ granted' = Smtp!Nothing
        /\ rcptcount' = 0
        /\ UNCHANGED <<ssl, authd, relayclient, databytes, bytestooverflow, mailfrom,
                       rcptto, rcptcounter, queue, told, oversize, unfair>>
    BY <1>2 DEF Smtp!Rset
  <2>2. relayclient' = authd' /\ databytes' = (IF authd' THEN AuthByteLimit ELSE ByteLimit)
    BY <1>0, <2>1 DEF AtHand, Counted
  <2>3. databytes' = 0 => bytestooverflow' = 0
    BY <1>0, <2>1 DEF Counted
  <2> QED BY <1>0, <2>1, <2>2, <2>3, Drops, NothingGranted DEF SessionTypes
<1>3. CASE Smtp!Auth
  <2>1. /\ smtp_pc = "command" /\ smtp_pc' = "command" /\ seenmail' = FALSE
        /\ authd' = TRUE /\ relayclient' = TRUE /\ databytes' = AuthByteLimit /\ ~authd
        /\ UNCHANGED <<ssl, rcptcount, bytestooverflow, mailfrom, rcptto, rcptcounter, queue,
                       granted, told, oversize, unfair>>
    BY <1>0, <1>3 DEF Smtp!Auth, SessionTypes
  <2>2. databytes' = 0 => bytestooverflow' = 0
    BY <1>0, <2>1, SessionNumbers DEF LimitsAgree, Counted
  <2> QED BY <1>0, <2>1, <2>2, Drops DEF SessionTypes
<1> QED BY <1>1, <1>2, <1>3

LEMMA StepStays ==
  ASSUME SessionInv, Smtp!Starttls \/ Smtp!Gone \/ UNCHANGED smtpVars PROVE SessionInv'
<1>1. /\ ssl' \in BOOLEAN /\ smtp_pc' \in {smtp_pc, "gone"} /\ smtp_pc \in {"command", "body", "reply", "gone"}
      /\ UNCHANGED <<authd, relayclient, databytes, seenmail, mailfrom, rcptto, rcptcounter,
                     rcptcount, flagbarfbmf, bytestooverflow, queue, granted, told, oversize, unfair>>
  BY DEF SessionInv, SessionTypes, Smtp!Starttls, Smtp!Gone, Smtp!conn, Smtp!txn, Smtp!ghosts,
         smtpVars
<1>2. SessionTypes'
  BY <1>1 DEF SessionInv, SessionTypes
<1>3. AtHand'
  BY <1>1 DEF SessionInv, AtHand
<1>4. Counted'
  BY <1>1 DEF SessionInv, Counted
<1>5. AllLawful' /\ TakenTold'
  BY <1>1 DEF SessionInv, AllLawful, Lawful, TakenTold
<1>6. ~oversize' /\ ~unfair'
  BY <1>1 DEF SessionInv
<1> QED BY <1>2, <1>3, <1>4, <1>5, <1>6 DEF SessionInv

LEMMA StepMail == ASSUME SessionInv, Smtp!Mail PROVE SessionInv'
<1> USE NothingGranted DEF Smtp!conn
<1>0. SessionTypes /\ AtHand /\ Counted /\ AllLawful /\ TakenTold /\ ~oversize /\ ~unfair
  BY DEF SessionInv
<1>1. PICK s \in Senders :
        /\ flagbarfbmf' = (s \in BarredSenders) /\ rcptcount' = 0
        /\ \/ UNCHANGED <<seenmail, mailfrom, rcptto, rcptcounter, granted, begun>>
           \/ /\ seenmail' = TRUE /\ rcptto' = <<>> /\ mailfrom' = s /\ rcptcounter' = 0
              /\ granted' = [Smtp!Nothing EXCEPT !.open = TRUE, !.from = s, !.ssl = ssl, !.authd = authd]
  BY DEF Smtp!Mail
<1>2. /\ smtp_pc = "command" /\ seenmail = FALSE
      /\ UNCHANGED <<smtp_pc, ssl, authd, relayclient, databytes, bytestooverflow, queue, told,
                     unfair, oversize>>
  BY <1>0 DEF Smtp!Mail, Smtp!MayMail, SessionTypes
<1>3. AllLawful' /\ TakenTold' /\ Counted' /\ ~oversize' /\ ~unfair'
  BY <1>0, <1>2 DEF AllLawful, Lawful, TakenTold, Counted
<1>4. CASE UNCHANGED <<seenmail, mailfrom, rcptto, rcptcounter, granted, begun>>
  <2>1. SessionTypes'
    BY <1>0, <1>1, <1>2, <1>4 DEF SessionTypes
  <2>2. AtHand'
    BY <1>0, <1>1, <1>2, <1>4 DEF AtHand
  <2> QED BY <1>3, <2>1, <2>2 DEF SessionInv
<1>5. CASE /\ seenmail' = TRUE /\ rcptto' = <<>> /\ mailfrom' = s /\ rcptcounter' = 0
           /\ granted' = [Smtp!Nothing EXCEPT !.open = TRUE, !.from = s, !.ssl = ssl, !.authd = authd]
  <2>1. /\ granted' \in Grants /\ granted'.open = TRUE /\ granted'.from = s /\ granted'.to = <<>>
        /\ granted'.ssl = ssl /\ granted'.authd = authd
    BY <1>0, <1>5 DEF Smtp!Nothing, Grants, Names, SessionTypes
  <2>2. SessionTypes'
    BY <1>0, <1>1, <1>2, <1>5, <2>1 DEF SessionTypes, Names
  <2>3. AtHand'
    <3>1. mailfrom' \in BarredSenders => flagbarfbmf'
      BY <1>1, <1>5
    <3>2. relayclient' = authd' /\ smtp_pc' = "command"
      BY <1>0, <1>2 DEF AtHand
    <3>3. /\ rcptcount' = Len(rcptto') /\ Len(rcptto') = 0 /\ DOMAIN rcptto' = {}
          /\ granted'.open /\ granted'.from = mailfrom' /\ granted'.to = rcptto'
          /\ granted'.authd = authd'
      BY <1>1, <1>2, <1>5, <2>1
    <3> QED BY <1>5, <3>1, <3>2, <3>3, SessionNumbers DEF AtHand
  <2> QED BY <1>3, <2>2, <2>3 DEF SessionInv
<1> QED BY <1>1, <1>4, <1>5

(* One more recipient, or one that is refused; a recipient is barred as bad   *)
(* only if it is listed.                                                      *)
LEMMA StepRcpt == ASSUME SessionInv, Smtp!Rcpt PROVE SessionInv'
<1> USE DEF Smtp!conn
<1>0. SessionTypes /\ AtHand /\ Counted /\ AllLawful /\ TakenTold /\ ~oversize /\ ~unfair
  BY DEF SessionInv
<1>1. /\ smtp_pc = "command" /\ rcptcounter' = rcptcounter + 1
      /\ UNCHANGED <<smtp_pc, ssl, authd, relayclient, databytes, seenmail, mailfrom, flagbarfbmf,
                     bytestooverflow, queue, told, oversize>>
  BY DEF Smtp!Rcpt
<1>2. AllLawful' /\ TakenTold' /\ Counted' /\ ~oversize'
  BY <1>0, <1>1 DEF AllLawful, Lawful, TakenTold, Counted
<1>3. CASE UNCHANGED <<rcptto, rcptcount, granted, unfair>>
  <2>1. SessionTypes'
    BY <1>0, <1>1, <1>3 DEF SessionTypes
  <2>2. AtHand'
    BY <1>0, <1>1, <1>3 DEF AtHand
  <2>3. ~unfair'
    BY <1>0, <1>3
  <2> QED BY <1>2, <2>1, <2>2, <2>3 DEF SessionInv
<1>4. CASE ~UNCHANGED <<rcptto, rcptcount, granted, unfair>>
  <2>1. PICK r \in Rcpts :
          /\ seenmail /\ ~(RcptMax > 0 /\ rcptcounter' > RcptMax) /\ ~flagbarfbmf
          /\ unfair' = (unfair \/ (r \in BarredRcpts /\ ~(granted.bad \/ r \in BarredRcpts)))
          /\ \/ /\ relayclient \/ r \in OurRcpts
                /\ rcptto' = Append(rcptto, r) /\ rcptcount' = rcptcount + 1
                /\ granted' = [granted EXCEPT !.to = Append(@, r), !.bad = granted.bad \/ r \in BarredRcpts]
             \/ /\ granted' = [granted EXCEPT !.bad = granted.bad \/ r \in BarredRcpts]
                /\ UNCHANGED <<rcptto, rcptcount>>
    BY <1>4 DEF Smtp!Rcpt, Smtp!BarfRcpt
  <2>2. ~unfair'
    <3>1. ~(unfair \/ (r \in BarredRcpts /\ ~(granted.bad \/ r \in BarredRcpts)))
      BY <1>0
    <3> QED BY <2>1, <3>1, Zenon
  <2>3. PICK b \in BOOLEAN : b = (granted.bad \/ r \in BarredRcpts)
    OBVIOUS
  <2>4. /\ granted.to = rcptto /\ granted \in Grants /\ rcptto \in Seq(Rcpts)
        /\ rcptcount = Len(rcptto) /\ Len(rcptto) <= rcptcounter /\ rcptcounter \in Nat
    BY <1>0, <2>1 DEF AtHand, SessionTypes
  <2>5. CASE /\ relayclient \/ r \in OurRcpts
             /\ rcptto' = Append(rcptto, r) /\ rcptcount' = rcptcount + 1
             /\ granted' = [granted EXCEPT !.to = Append(@, r), !.bad = granted.bad \/ r \in BarredRcpts]
    <3> DEFINE q == Append(rcptto, r)
    <3>1. /\ q \in Seq(Rcpts) /\ q # <<>> /\ Len(rcptto) \in Nat /\ Len(q) = Len(rcptto) + 1
          /\ \A k \in DOMAIN q : (k \in DOMAIN rcptto /\ q[k] = rcptto[k]) \/ q[k] = r
      BY <2>4, Appended
    <3>2. rcptto' = q /\ granted' = [granted EXCEPT !.to = q, !.bad = b]
      BY <2>3, <2>4, <2>5
    <3> HIDE DEF q
    <3>3. /\ granted' \in Grants /\ granted'.open = granted.open /\ granted'.from = granted.from
          /\ granted'.to = q /\ granted'.authd = granted.authd
      BY <2>4, <3>1, <3>2 DEF Grants
    <3>4. SessionTypes'
      BY <1>0, <1>1, <2>4, <2>5, <3>1, <3>2, <3>3 DEF SessionTypes
    <3>5. authd' \/ \A k \in DOMAIN q : q[k] \in OurRcpts
      BY <1>0, <1>1, <2>1, <2>5, <3>1 DEF AtHand
    <3>6. RcptMax > 0 => Len(q) <= RcptMax
      BY <1>1, <2>1, <2>4, <3>1, SessionNumbers
    <3>7. ~(mailfrom' \in BarredSenders) /\ ~flagbarfbmf'
      BY <1>0, <1>1, <2>1 DEF AtHand
    <3>8. rcptcount' = Len(q)
      BY <2>4, <2>5, <3>1
    <3>9. granted'.open /\ granted'.from = mailfrom' /\ granted'.authd = authd'
      BY <1>0, <1>1, <2>1, <3>3 DEF AtHand
    <3>10. relayclient' = authd'
      BY <1>0, <1>1 DEF AtHand
    <3>11. AtHand'
      BY <1>1, <3>2, <3>3, <3>5, <3>6, <3>7, <3>8, <3>9, <3>10 DEF AtHand
    <3> QED BY <1>2, <2>2, <3>4, <3>11 DEF SessionInv
  <2>6. CASE /\ granted' = [granted EXCEPT !.bad = granted.bad \/ r \in BarredRcpts]
             /\ UNCHANGED <<rcptto, rcptcount>>
    <3>1. granted' = [granted EXCEPT !.bad = b]
      BY <2>3, <2>6
    <3>2. /\ granted' \in Grants /\ granted'.open = granted.open /\ granted'.from = granted.from
          /\ granted'.to = granted.to /\ granted'.authd = granted.authd
      BY <2>4, <3>1 DEF Grants
    <3>3. SessionTypes'
      BY <1>0, <1>1, <2>6, <3>2 DEF SessionTypes
    <3>4. AtHand'
      BY <1>0, <1>1, <2>6, <3>2 DEF AtHand
    <3> QED BY <1>2, <2>2, <3>3, <3>4 DEF SessionInv
  <2> QED BY <2>1, <2>5, <2>6
<1> QED BY <1>3, <1>4

(* DATA: the counter begins one above the limit, less the Received-SPF line.  *)
LEMMA StepData == ASSUME LimitsAgree, SessionInv, Smtp!Data PROVE SessionInv'
<1> USE DEF Smtp!conn, Smtp!ghosts
<1>0. SessionTypes /\ AtHand /\ Counted /\ AllLawful /\ TakenTold /\ ~oversize /\ ~unfair
  BY DEF SessionInv
<1>1. /\ smtp_pc = "command" /\ seenmail /\ rcptto # <<>> /\ seenmail' = FALSE
      /\ UNCHANGED <<ssl, authd, relayclient, databytes, mailfrom, rcptto, rcptcounter, flagbarfbmf,
                     queue, told, oversize, unfair>>
  BY DEF Smtp!Data
<1>2. PICK n : n = (IF databytes > 0 THEN databytes + 1 ELSE bytestooverflow)
  OBVIOUS
<1>3. /\ databytes \in Nat /\ n \in 0 .. IntWidth - 1 /\ bytestooverflow \in Nat
      /\ databytes > 0 => n = databytes + 1
      /\ databytes = 0 => n = 0 /\ bytestooverflow = 0
  BY <1>0, <1>2, SessionNumbers DEF SessionTypes, Counted
<1>4. \/ bytestooverflow' = n /\ granted' = Smtp!Nothing /\ smtp_pc' = "command" /\ rcptcount' = rcptcount
      \/ bytestooverflow' = Smtp!Spf(n) /\ rcptcount' = 0 /\ smtp_pc' = "body" /\ granted' = granted
  BY <1>1, <1>2 DEF Smtp!Data
<1>5. AllLawful' /\ TakenTold' /\ ~oversize' /\ ~unfair'
  BY <1>0, <1>1, <1>4 DEF AllLawful, Lawful, TakenTold
<1>6. CASE bytestooverflow' = n /\ granted' = Smtp!Nothing /\ smtp_pc' = "command" /\ rcptcount' = rcptcount
  <2>1. SessionTypes'
    BY <1>0, <1>1, <1>3, <1>6, NothingGranted DEF SessionTypes
  <2>2. AtHand'
    BY <1>0, <1>1, <1>6 DEF AtHand
  <2>3. Counted'
    BY <1>0, <1>1, <1>3, <1>6 DEF Counted
  <2> QED BY <1>5, <2>1, <2>2, <2>3 DEF SessionInv
<1>7. CASE bytestooverflow' = Smtp!Spf(n) /\ rcptcount' = 0 /\ smtp_pc' = "body" /\ granted' = granted
  <2>1. /\ databytes > 0 => bytestooverflow' = (IF authd THEN databytes + 1 ELSE databytes + 1 - SpfBytes)
        /\ databytes = 0 => bytestooverflow' = 0
        /\ bytestooverflow' \in 0 .. IntWidth - 1
    <3>1. CASE n = 0 \/ SpfBytes = 0 \/ authd
      <4>1. bytestooverflow' = n
        BY <1>0, <1>7, <3>1 DEF Smtp!Spf, AtHand
      <4> QED BY <1>3, <3>1, <4>1, SessionNumbers
    <3>2. CASE ~(n = 0 \/ SpfBytes = 0 \/ authd)
      <4>1. bytestooverflow' = (n + IntWidth - SpfBytes) % IntWidth
        BY <1>0, <1>7, <3>2 DEF Smtp!Spf, AtHand
      <4>2. databytes = ByteLimit /\ databytes > 0 /\ SpfBytes <= n /\ n < IntWidth /\ n \in Nat
        BY <1>0, <1>3, <3>2, SessionNumbers DEF Counted, LimitsAgree
      <4>3. bytestooverflow' = n - SpfBytes
        BY <4>1, <4>2, SessionNumbers, Unsigned
      <4> QED BY <1>3, <3>2, <4>2, <4>3, SessionNumbers
    <3> QED BY <3>1, <3>2
  <2>2. SessionTypes'
    <3>1. Len(rcptto) \in Nat
      BY <1>0 DEF SessionTypes
    <3>2. /\ rcptcount' \in 0 .. Len(rcptto') /\ Len(rcptto') <= rcptcounter'
          /\ rcptto' \in Seq(Rcpts) /\ rcptcounter' \in Nat
      BY <1>0, <1>1, <1>7, <3>1 DEF SessionTypes
    <3>3. /\ ssl' \in BOOLEAN /\ authd' \in BOOLEAN /\ relayclient' \in BOOLEAN
          /\ seenmail' \in BOOLEAN
      BY <1>0, <1>1 DEF SessionTypes
    <3>4. mailfrom' \in Names /\ queue' \in Seq(Taken) /\ granted' \in Grants /\ told' \in Nat
      BY <1>0, <1>1, <1>7 DEF SessionTypes
    <3> QED BY <1>7, <2>1, <3>2, <3>3, <3>4 DEF SessionTypes
  <2>3. AtHand'
    BY <1>0, <1>1, <1>7 DEF AtHand
  <2>4. Counted'
    BY <1>0, <1>1, <1>7, <2>1 DEF Counted
  <2> QED BY <1>5, <2>2, <2>3, <2>4 DEF SessionInv
<1> QED BY <1>4, <1>6, <1>7

(* The message itself: it is queued if it is not longer than the limit, and   *)
(* what is queued is what was granted; or it is dropped for another reason.   *)
LEMMA StepBody == ASSUME SessionInv, Smtp!Body PROVE SessionInv'
<1> USE DEF Smtp!conn, Smtp!txn
<1>0. SessionTypes /\ AtHand /\ Counted /\ AllLawful /\ TakenTold /\ ~oversize /\ ~unfair
  BY DEF SessionInv
<1>1. PICK n \in LetterSizes :
        /\ bytestooverflow' = Smtp!Left(n)
        /\ oversize' = (oversize \/ (Smtp!Overflows(n) /\ (databytes = 0 \/ n + SpfBytes <= databytes)))
        /\ \/ /\ ~Smtp!Overflows(n) /\ smtp_pc' = "reply"
              /\ queue' = Append(queue, [from |-> mailfrom, to |-> rcptto, size |-> n, ssl |-> ssl,
                                         authd |-> authd, limit |-> databytes, granted |-> granted])
              /\ UNCHANGED granted
           \/ smtp_pc' = "command" /\ granted' = Smtp!Nothing /\ UNCHANGED queue
  BY DEF Smtp!Body
<1>2. /\ smtp_pc = "body" /\ rcptto # <<>> /\ seenmail = FALSE
      /\ UNCHANGED <<ssl, authd, relayclient, databytes, seenmail, mailfrom, rcptto, rcptcounter,
                     rcptcount, flagbarfbmf, told, unfair>>
  BY <1>0 DEF Smtp!Body, AtHand, SessionTypes
<1>3. /\ n \in Nat /\ databytes \in Nat /\ bytestooverflow \in 0 .. IntWidth - 1
      /\ bytestooverflow' \in 0 .. bytestooverflow
  BY <1>0, <1>1, SessionNumbers DEF SessionTypes, Counted, Smtp!Left
<1>4. /\ Smtp!Overflows(n) => databytes > 0 /\ n + SpfBytes > databytes
      /\ ~Smtp!Overflows(n) /\ databytes > 0 => n <= databytes
  <2>1. CASE databytes = 0
    BY <1>0, <1>3, <2>1 DEF Counted, Smtp!Overflows, Smtp!SpfFails
  <2>2. CASE databytes > 0
    <3>1. bytestooverflow = (IF authd THEN databytes + 1 ELSE databytes + 1 - SpfBytes)
      BY <1>0, <1>2, <2>2 DEF Counted
    <3> QED BY <1>3, <2>2, <3>1, SessionNumbers DEF Smtp!Overflows, Smtp!SpfFails, Smtp!Left
  <2> QED BY <1>3, <2>1, <2>2
<1>5. ~oversize' /\ ~unfair'
  <2>1. ~(Smtp!Overflows(n) /\ (databytes = 0 \/ n + SpfBytes <= databytes))
    BY <1>3, <1>4, SessionNumbers
  <2>2. ~(oversize \/ (Smtp!Overflows(n) /\ (databytes = 0 \/ n + SpfBytes <= databytes)))
    BY <1>0, <2>1, Zenon
  <2>3. ~oversize'
    BY <1>1, <2>2, Zenon
  <2> QED BY <1>0, <1>2, <2>3
<1>6. Counted' /\ smtp_pc' \in {"command", "reply"}
  BY <1>0, <1>1, <1>2, <1>3 DEF Counted
<1>7. AtHand'
  BY <1>0, <1>1, <1>2 DEF AtHand
<1>8. ASSUME queue' \in Seq(Taken), granted' \in Grants PROVE SessionTypes'
  <2>1. bytestooverflow' \in 0 .. IntWidth - 1
    BY <1>3, SessionNumbers
  <2>2. /\ rcptcount' \in 0 .. Len(rcptto') /\ Len(rcptto') <= rcptcounter'
        /\ rcptto' \in Seq(Rcpts) /\ rcptcounter' \in Nat
    BY <1>0, <1>2 DEF SessionTypes
  <2>3. /\ ssl' \in BOOLEAN /\ authd' \in BOOLEAN /\ relayclient' \in BOOLEAN
        /\ seenmail' \in BOOLEAN /\ mailfrom' \in Names /\ told' \in Nat
    BY <1>0, <1>2 DEF SessionTypes
  <2> QED BY <1>6, <1>8, <2>1, <2>2, <2>3 DEF SessionTypes
<1>9. CASE smtp_pc' = "command" /\ granted' = Smtp!Nothing /\ UNCHANGED queue
  <2>1. SessionTypes'
    BY <1>0, <1>8, <1>9, NothingGranted DEF SessionTypes
  <2>2. AllLawful' /\ TakenTold'
    BY <1>0, <1>2, <1>9 DEF AllLawful, Lawful, TakenTold
  <2> QED BY <1>5, <1>6, <1>7, <2>1, <2>2 DEF SessionInv
<1>10. CASE /\ ~Smtp!Overflows(n) /\ smtp_pc' = "reply"
            /\ queue' = Append(queue, [from |-> mailfrom, to |-> rcptto, size |-> n, ssl |-> ssl,
                                       authd |-> authd, limit |-> databytes, granted |-> granted])
            /\ UNCHANGED granted
  <2> DEFINE e == [from |-> mailfrom, to |-> rcptto, size |-> n, ssl |-> ssl, authd |-> authd,
                   limit |-> databytes, granted |-> granted]
             q == Append(queue, e)
  <2>1. e \in Taken
    BY <1>0, <1>3 DEF SessionTypes, Taken
  <2>2. Lawful(e)
    <3>1. /\ e.from = mailfrom /\ e.to = rcptto /\ e.size = n /\ e.limit = databytes
          /\ e.granted = granted
      OBVIOUS
    <3> HIDE DEF e
    <3> QED BY <1>0, <1>2, <1>4, <1>10, <3>1 DEF AtHand, Lawful
  <2> HIDE DEF e
  <2>3. /\ q \in Seq(Taken) /\ Len(queue) \in Nat /\ Len(q) = Len(queue) + 1
        /\ \A i \in DOMAIN q : (i \in DOMAIN queue /\ q[i] = queue[i]) \/ q[i] = e
    BY <1>0, <2>1, Appended DEF SessionTypes
  <2>4. queue' = q
    BY <1>10 DEF e
  <2> HIDE DEF q
  <2>5. SessionTypes'
    BY <1>0, <1>8, <1>10, <2>3, <2>4 DEF SessionTypes
  <2>6. AllLawful'
    <3>1. \A i \in DOMAIN q : Lawful(q[i])
      BY <1>0, <2>2, <2>3 DEF AllLawful
    <3> QED BY <2>4, <3>1 DEF AllLawful, Lawful
  <2>7. TakenTold'
    BY <1>0, <1>2, <1>10, <2>3, <2>4 DEF TakenTold, SessionTypes
  <2> QED BY <1>5, <1>6, <1>7, <2>5, <2>6, <2>7 DEF SessionInv
<1> QED BY <1>1, <1>9, <1>10

LEMMA StepReply == ASSUME SessionInv, Smtp!Reply PROVE SessionInv'
<1> USE DEF Smtp!conn, Smtp!txn
<1>0. SessionTypes /\ AtHand /\ Counted /\ AllLawful /\ TakenTold /\ ~oversize /\ ~unfair
  BY DEF SessionInv
<1>1. /\ smtp_pc = "reply" /\ smtp_pc' = "command" /\ told' = told + 1 /\ granted' = Smtp!Nothing
      /\ UNCHANGED <<ssl, authd, relayclient, databytes, seenmail, mailfrom, rcptto, rcptcounter,
                     rcptcount, flagbarfbmf, bytestooverflow, queue, unfair, oversize>>
  BY DEF Smtp!Reply
<1>2. seenmail = FALSE
  BY <1>0, <1>1 DEF AtHand, SessionTypes
<1>3. SessionTypes'
  BY <1>0, <1>1, NothingGranted DEF SessionTypes
<1>4. AtHand'
  BY <1>0, <1>1, <1>2 DEF AtHand
<1>5. Counted' /\ AllLawful'
  BY <1>0, <1>1 DEF Counted, AllLawful, Lawful
<1>6. TakenTold'
  <2>1. Len(queue) \in Nat /\ told \in Nat /\ Len(queue) = told + 1
    BY <1>0, <1>1 DEF SessionTypes, TakenTold
  <2> QED BY <1>1, <2>1 DEF TakenTold
<1> QED BY <1>0, <1>1, <1>3, <1>4, <1>5, <1>6 DEF SessionInv

LEMMA StepSession == ASSUME LimitsAgree, SessionInv, [Smtp!Next]_smtpVars PROVE SessionInv'
BY StepResets, StepStays, StepMail, StepRcpt, StepData, StepBody, StepReply DEF Smtp!Next

(* Where TLS and a login are required, MAIL is the only command that differs. *)
StrictInv ==
  /\ SessionInv
  /\ seenmail \/ smtp_pc = "body" => granted.ssl /\ granted.authd
  /\ \A i \in DOMAIN queue : queue[i].granted.ssl /\ queue[i].granted.authd

LEMMA StrictMail == ASSUME Strict!Mail PROVE Smtp!Mail /\ ssl /\ authd
BY DEF Strict!Mail, Strict!MayMail, Smtp!Mail, Smtp!MayMail, Strict!Nothing, Smtp!Nothing,
       Strict!NoFrom, Smtp!NoFrom, Strict!conn, Smtp!conn

LEMMA StrictIsSmtp == ASSUME Strict!Next PROVE Smtp!Next
<1> USE DEF Strict!conn, Smtp!conn, Strict!txn, Smtp!txn, Strict!ghosts, Smtp!ghosts,
            Strict!Nothing, Smtp!Nothing, Strict!NoFrom, Smtp!NoFrom, Strict!Reset, Smtp!Reset
<1>1. CASE Strict!Helo \/ Strict!Rset
  BY <1>1 DEF Strict!Helo, Strict!Rset, Smtp!Helo, Smtp!Rset, Smtp!Next
<1>2. CASE Strict!Auth \/ Strict!Starttls
  BY <1>2 DEF Strict!Auth, Strict!Starttls, Smtp!Auth, Smtp!Starttls, Smtp!Next
<1>3. CASE Strict!Mail
  BY <1>3, StrictMail DEF Smtp!Next
<1>4. CASE Strict!Rcpt
  BY <1>4 DEF Strict!Rcpt, Strict!BarfRcpt, Smtp!Rcpt, Smtp!BarfRcpt, Smtp!Next
<1>5. CASE Strict!Data
  BY <1>5 DEF Strict!Data, Strict!Spf, Smtp!Data, Smtp!Spf, Smtp!Next
<1>6. CASE Strict!Body
  BY <1>6 DEF Strict!Body, Strict!Left, Strict!Overflows, Strict!SpfFails, Smtp!Body, Smtp!Left,
              Smtp!Overflows, Smtp!SpfFails, Smtp!Next
<1>7. CASE Strict!Reply \/ Strict!Gone
  BY <1>7 DEF Strict!Reply, Strict!Gone, Smtp!Reply, Smtp!Gone, Smtp!Next
<1> QED BY <1>1, <1>2, <1>3, <1>4, <1>5, <1>6, <1>7 DEF Strict!Next

LEMMA StepStrict == ASSUME LimitsAgree, StrictInv, [Strict!Next]_smtpVars PROVE StrictInv'
<1> USE DEF Strict!conn, Strict!txn, Strict!ghosts
<1>0. SessionInv'
  BY StrictIsSmtp, StepSession DEF StrictInv
<1>1. SessionTypes /\ AtHand
  BY DEF StrictInv, SessionInv
<1>2. CASE UNCHANGED smtpVars
  BY <1>0, <1>2 DEF StrictInv, smtpVars
<1>3. CASE Strict!Helo \/ Strict!Rset \/ Strict!Auth \/ Strict!Starttls \/ Strict!Gone
  BY <1>0, <1>3 DEF StrictInv, Strict!Helo, Strict!Rset, Strict!Auth, Strict!Starttls, Strict!Gone,
                    Strict!Reset
<1>4. CASE Strict!Mail
  <2>1. /\ ssl /\ authd /\ smtp_pc' = "command" /\ UNCHANGED queue
        /\ \/ UNCHANGED <<seenmail, granted>> /\ smtp_pc = "command"
           \/ \E s \in Senders :
                granted' = [Strict!Nothing EXCEPT !.open = TRUE, !.from = s, !.ssl = ssl, !.authd = authd]
    BY <1>4, StrictMail DEF Strict!Mail, Strict!MayMail
  <2>2. CASE UNCHANGED <<seenmail, granted>> /\ smtp_pc = "command"
    BY <1>0, <2>1, <2>2 DEF StrictInv
  <2>3. ASSUME NEW s \in Senders,
               granted' = [Strict!Nothing EXCEPT !.open = TRUE, !.from = s, !.ssl = ssl, !.authd = authd]
        PROVE  StrictInv'
    <3>1. granted'.ssl = ssl /\ granted'.authd = authd
      BY <2>3 DEF Strict!Nothing
    <3> QED BY <1>0, <2>1, <3>1 DEF StrictInv
  <2> QED BY <2>1, <2>2, <2>3
<1>5. CASE Strict!Rcpt
  <2>1. /\ smtp_pc = "command" /\ UNCHANGED <<smtp_pc, seenmail, queue>>
        /\ \/ UNCHANGED granted
           \/ \E r \in Rcpts, b \in {granted.bad \/ r \in BarredRcpts : r \in Rcpts} :
                \/ granted' = [granted EXCEPT !.to = Append(@, r), !.bad = b]
                \/ granted' = [granted EXCEPT !.bad = b]
    BY <1>5 DEF Strict!Rcpt
  <2>2. granted'.ssl = granted.ssl /\ granted'.authd = granted.authd
    BY <1>1, <2>1 DEF SessionTypes, Grants
  <2> QED BY <1>0, <2>1, <2>2 DEF StrictInv
<1>6. CASE Strict!Data
  <2>1. seenmail /\ seenmail' = FALSE /\ UNCHANGED queue /\ (granted' = granted \/ smtp_pc' = "command")
    BY <1>6 DEF Strict!Data
  <2> QED BY <1>0, <2>1 DEF StrictInv
<1>7. CASE Strict!Body
  <2>1. smtp_pc = "body" /\ smtp_pc' \in {"command", "reply"} /\ ~seenmail /\ UNCHANGED seenmail
    BY <1>1, <1>7 DEF Strict!Body, AtHand
  <2>2. \/ UNCHANGED queue
        \/ \E n \in LetterSizes :
             queue' = Append(queue, [from |-> mailfrom, to |-> rcptto, size |-> n, ssl |-> ssl,
                                     authd |-> authd, limit |-> databytes, granted |-> granted])
    BY <1>7 DEF Strict!Body
  <2>3. CASE UNCHANGED queue
    BY <1>0, <2>1, <2>3 DEF StrictInv
  <2>4. ASSUME NEW n \in LetterSizes,
               queue' = Append(queue, [from |-> mailfrom, to |-> rcptto, size |-> n, ssl |-> ssl,
                                       authd |-> authd, limit |-> databytes, granted |-> granted])
        PROVE  StrictInv'
    <3> DEFINE e == [from |-> mailfrom, to |-> rcptto, size |-> n, ssl |-> ssl, authd |-> authd,
                     limit |-> databytes, granted |-> granted]
               q == Append(queue, e)
    <3>1. e \in Taken /\ e.granted = granted
      <4>1. databytes \in Nat
        BY SessionNumbers DEF StrictInv, SessionInv, Counted
      <4> QED BY <1>1, <4>1, SessionNumbers DEF SessionTypes, Taken
    <3> HIDE DEF e
    <3>2. \A i \in DOMAIN q : (i \in DOMAIN queue /\ q[i] = queue[i]) \/ q[i] = e
      BY <1>1, <3>1, Appended DEF SessionTypes
    <3>3. queue' = q
      BY <2>4 DEF e
    <3> HIDE DEF q
    <3>4. \A i \in DOMAIN q : q[i].granted.ssl /\ q[i].granted.authd
      BY <2>1, <3>1, <3>2 DEF StrictInv
    <3> QED BY <1>0, <2>1, <3>3, <3>4 DEF StrictInv
  <2> QED BY <2>2, <2>3, <2>4
<1>8. CASE Strict!Reply
  BY <1>0, <1>1, <1>8 DEF StrictInv, Strict!Reply, AtHand
<1> QED BY <1>2, <1>3, <1>4, <1>5, <1>6, <1>7, <1>8 DEF Strict!Next

(* What the invariant gives: the properties that are promised.                *)
LEMMA SessionPromises ==
  ASSUME SessionInv
  PROVE  /\ Smtp!TypeOK /\ Smtp!EnvelopeGranted /\ Smtp!OnTerms /\ Smtp!CountForPlugins
         /\ Smtp!SizeKept /\ Smtp!NotOversize /\ Smtp!BarredForCause
<1>0. SessionTypes /\ AtHand /\ AllLawful /\ TakenTold /\ ~oversize /\ ~unfair
  BY DEF SessionInv
<1>1. Smtp!TypeOK
  <2>1. {ssl, authd, relayclient, seenmail} \subseteq BOOLEAN
    BY <1>0 DEF SessionTypes
  <2>2. Len(queue) - told \in (IF smtp_pc \in {"reply", "gone"} THEN 0 .. 1 ELSE {0})
    <3>1. Len(queue) \in Nat /\ told \in Nat
      BY <1>0 DEF SessionTypes
    <3> QED BY <1>0, <3>1 DEF SessionTypes, TakenTold
  <2> QED BY <1>0, <2>1, <2>2 DEF Smtp!TypeOK, SessionTypes
<1>2. Smtp!EnvelopeGranted
  BY <1>0 DEF Smtp!EnvelopeGranted, AllLawful, Lawful
<1>3. Smtp!OnTerms
  <2> SUFFICES ASSUME NEW i \in DOMAIN queue
               PROVE  /\ queue[i].from \notin BarredSenders
                      /\ RcptMax > 0 => Len(queue[i].to) <= RcptMax
                      /\ {queue[i].to[k] : k \in DOMAIN queue[i].to} \subseteq OurRcpts
                         \/ queue[i].granted.authd
    BY DEF Smtp!OnTerms, Smtp!ToSet
  <2>1. Lawful(queue[i])
    BY <1>0 DEF AllLawful
  <2> QED BY <2>1 DEF Lawful
<1>4. Smtp!CountForPlugins /\ Smtp!NotOversize /\ Smtp!BarredForCause
  BY <1>0 DEF AtHand, Smtp!CountForPlugins, Smtp!NotOversize, Smtp!BarredForCause
<1>5. Smtp!SizeKept
  BY <1>0 DEF Smtp!SizeKept, AllLawful, Lawful
<1> QED BY <1>1, <1>2, <1>3, <1>4, <1>5

LEMMA StrictPromises ==
  ASSUME StrictInv PROVE Strict!TypeOK /\ Strict!EnvelopeGranted /\ Strict!OnTerms
<1>1. Smtp!TypeOK /\ Smtp!EnvelopeGranted /\ Smtp!OnTerms
  BY SessionPromises DEF StrictInv
<1>2. Strict!TypeOK /\ Strict!EnvelopeGranted
  BY <1>1 DEF Smtp!TypeOK, Strict!TypeOK, Smtp!EnvelopeGranted, Strict!EnvelopeGranted
<1>3. \A i \in DOMAIN queue : queue[i].granted.ssl /\ queue[i].granted.authd
  BY DEF StrictInv
<1>4. Strict!OnTerms
  BY <1>1, <1>3 DEF Smtp!OnTerms, Strict!OnTerms, Smtp!ToSet, Strict!ToSet
<1> QED BY <1>2, <1>4

TermsInv == (part = "smtp" => SessionInv) /\ (part = "smtp on terms" => StrictInv)

(* Of the properties of a run: whatever commands came before, a message that  *)
(* is queued has the sender and the recipients that were answered 250 since   *)
(* the last MAIL, on the terms that hold for them and within the limit in     *)
(* force; and nobody is refused for the size or the recipients of another     *)
(* message.  Where the limits do not agree, the counter goes wrong.           *)
THEOREM AlwaysSmtpAsAnswered == ASSUME LimitsAgree PROVE Spec => []SmtpAsAnswered
<1>1. Init => TermsInv
  <2>1. Init => SessionInv
    BY InitSession DEF Init
  <2>2. Init => ~seenmail /\ smtp_pc = "command" /\ queue = <<>>
    <3>1. Init => seenmail = FALSE /\ smtp_pc = "command" /\ queue = <<>>
      BY DEF Init, Smtp!Init
    <3> QED BY <3>1
  <2>3. \A i \in DOMAIN (<<>>) : FALSE
    OBVIOUS
  <2> QED BY <2>1, <2>2, <2>3 DEF TermsInv, StrictInv
<1>2. TermsInv /\ [Next]_vars => TermsInv'
  <2> SUFFICES ASSUME TermsInv, [Next]_vars PROVE TermsInv'
    OBVIOUS
  <2>1. ASSUME part = "smtp" PROVE SessionInv'
    <3>1. [Smtp!Next]_smtpVars
      BY <2>1 DEF Next, vars, Supervises, Scans, Logs, TakesConnections, LooksUp, TalksSmtp,
                  Greylists, TalksBack
    <3> QED BY <2>1, <3>1, StepSession DEF TermsInv
  <2>2. ASSUME part = "smtp on terms" PROVE StrictInv'
    <3>1. [Strict!Next]_smtpVars
      BY <2>2 DEF Next, vars, Supervises, Scans, Logs, TakesConnections, LooksUp, TalksSmtp,
                  Greylists, TalksBack
    <3> QED BY <2>2, <3>1, StepStrict DEF TermsInv
  <2> QED BY <2>1, <2>2, PartKept DEF TermsInv
<1>3. TermsInv => SmtpAsAnswered
  BY SessionPromises, StrictPromises DEF TermsInv, SmtpAsAnswered
<1> QED BY <1>1, <1>2, <1>3, PTL DEF Spec

-----------------------------------------------------------------------------
(* supervise *)

Flags ==
  /\ want \in BOOLEAN /\ wantup \in BOOLEAN /\ flagexit \in BOOLEAN /\ paused \in BOOLEAN
  /\ up \in BOOLEAN /\ term \in BOOLEAN /\ sigchld \in BOOLEAN /\ pipe \in BOOLEAN

(* The status file says what the flags are.                                   *)
Announced == status = [up |-> up, paused |-> up /\ paused, want |-> want, wantup |-> wantup]

(* There is a process id as long as there is a child, and the flag for a      *)
(* pause is that of the child, not of the one before.                         *)
Serves ==
  /\ sv_child \in {"none", "running", "stopped", "zombie"}
  /\ up <=> sv_child # "none"
  /\ sv_child \in {"running", "stopped"} => (paused <=> sv_child = "stopped")

SvcCommands == {"d", "u", "o", "t", "k", "p", "c", "x"}
Letters8 == fifo \in Seq(SvcCommands) /\ sv_sent \in 0 .. SvcLetters /\ Len(fifo) <= sv_sent

KeeperInv ==
  /\ Flags /\ Letters8 /\ sv_pc \in {"wait", "reap", "read", "gone"}
  /\ sv_pc # "gone" => Announced /\ Serves
  /\ sv_pc = "gone" => flagexit /\ sv_child = "none"

LEMMA KeeperPromises ==
  ASSUME KeeperInv PROVE NoFork!TypeOK /\ NoFork!StatusTells /\ NoFork!GoneIsAlone
<1>1. {want, wantup, flagexit, paused, up, term, sigchld, pipe} \subseteq BOOLEAN
  BY DEF KeeperInv, Flags
<1>2. sv_pc # "gone" => up = (sv_child # "none")
  <2>1. up \in BOOLEAN /\ (sv_pc # "gone" => (up <=> sv_child # "none"))
    BY DEF KeeperInv, Flags, Serves
  <2> QED BY <2>1, Zenon
<1>3. NoFork!TypeOK
  BY <1>1, <1>2 DEF NoFork!TypeOK, KeeperInv, Letters8, SvcCommands, Serves
<1>4. NoFork!StatusTells
  BY DEF NoFork!StatusTells, NoFork!Alive, KeeperInv, Announced, Serves
<1>5. NoFork!GoneIsAlone
  BY DEF NoFork!GoneIsAlone, KeeperInv
<1> QED BY <1>3, <1>4, <1>5

(* A fork() that succeeds or fails.                                           *)
LEMMA Started ==
  ASSUME Flags, NoFork!TryStart
  PROVE  /\ up' \in BOOLEAN /\ paused' \in BOOLEAN /\ pipe' \in BOOLEAN /\ term' \in BOOLEAN
         /\ sv_child' \in {"none", "running"} /\ (up' <=> sv_child' # "none")
         /\ sv_child' = "running" => paused' = FALSE
BY DEF Flags, NoFork!TryStart

LEMMA InitKeeper == ASSUME NoFork!Init PROVE KeeperInv
<1> USE DEF NoFork!Init
<1>1. SvcLetters \in Nat
  BY InstancesAssumption DEF NoFork!SuperviseAssumption
<1>2. Flags
  BY Zenon DEF Flags
<1>3. Letters8
  BY <1>1 DEF Letters8
<1>4. Announced
  BY DEF Announced
<1>5. Serves
  BY DEF Serves
<1> QED BY <1>2, <1>3, <1>4, <1>5 DEF KeeperInv

(* A letter of svc, as long as supervise is there.                            *)
LEMMA StepObey ==
  ASSUME Flags, Announced, Serves, NEW c, NoFork!Obey(c)
  PROVE  Flags' /\ Announced' /\ Serves'
<1> USE DEF Announced, NoFork!Announce, NoFork!Alive, NoFork!Continue, NoFork!flags
<1>1. CASE NoFork!Down
  <2>1. Flags'
    BY <1>1, Zenon DEF Flags, NoFork!Down
  <2>2. Announced'
    BY <1>1 DEF NoFork!Down
  <2>3. Serves'
    BY <1>1 DEF Flags, Serves, NoFork!Down
  <2> QED BY <2>1, <2>2, <2>3
<1>2. ASSUME NEW once \in BOOLEAN, NoFork!UpOrOnce(once) PROVE Flags' /\ Announced' /\ Serves'
  <2>1. Announced' /\ UNCHANGED <<sigchld, flagexit>>
    BY <1>2 DEF NoFork!UpOrOnce
  <2>2. want' \in BOOLEAN /\ wantup' \in BOOLEAN
    <3>1. want' = ~once /\ wantup' = (~once \/ wantup)
      BY <1>2 DEF NoFork!UpOrOnce
    <3> QED BY <3>1, Zenon
  <2>3. CASE up
    <3>1. UNCHANGED <<up, sv_child, term, paused, pipe>>
      BY <1>2, <2>3 DEF NoFork!UpOrOnce
    <3> QED BY <2>1, <2>2, <3>1 DEF Flags, Serves
  <2>4. CASE ~up
    <3>1. NoFork!TryStart
      BY <1>2, <2>4 DEF NoFork!UpOrOnce
    <3> QED BY <2>1, <2>2, <3>1, Started DEF Flags, Serves
  <2> QED BY <2>3, <2>4
<1>3. CASE NoFork!Term
  <2>1. Flags'
    BY <1>3, Zenon DEF Flags, NoFork!Term
  <2> QED BY <1>3, <2>1 DEF Serves, NoFork!Term
<1>4. CASE NoFork!Kill
  BY <1>4 DEF Flags, Serves, NoFork!Kill, NoFork!Die
<1>5. CASE NoFork!Pause
  <2>1. Announced'
    BY <1>5 DEF NoFork!Pause
  <2> QED BY <1>5, <2>1 DEF Flags, Serves, NoFork!Pause
<1>6. CASE NoFork!Cont
  <2>1. Announced'
    BY <1>6 DEF NoFork!Cont
  <2> QED BY <1>6, <2>1 DEF Flags, Serves, NoFork!Cont
<1>7. CASE NoFork!Exit
  <2>1. Announced'
    BY <1>7 DEF NoFork!Exit
  <2> QED BY <1>7, <2>1 DEF Flags, Serves, NoFork!Exit
<1> QED BY <1>1, <1>2, <1>3, <1>4, <1>5, <1>6, <1>7 DEF NoFork!Obey

LEMMA StepReap == ASSUME KeeperInv, NoFork!Reap PROVE KeeperInv'
<1> USE DEF NoFork!flags
<1>0. /\ Flags /\ Letters8 /\ Announced /\ Serves /\ sv_pc = "reap"
      /\ UNCHANGED <<sigchld, fifo, sv_sent>>
  BY DEF KeeperInv, NoFork!Reap
<1>1. Letters8'
  BY <1>0 DEF Letters8
<1>2. CASE sv_child = "zombie" /\ ~flagexit /\ want /\ wantup
  <2>1. /\ NoFork!TryStart /\ sv_pc' = "read" /\ UNCHANGED <<want, wantup, flagexit>>
        /\ status' = [up |-> up', paused |-> FALSE, want |-> want, wantup |-> wantup]
    BY <1>2 DEF NoFork!Reap
  <2>2. Flags' /\ Serves'
    BY <1>0, <2>1, Started DEF Flags, Serves
  <2>3. (up' /\ paused') = FALSE
    BY <1>0, <2>1, Started
  <2>4. Announced'
    BY <2>1, <2>3 DEF Announced
  <2> QED BY <1>1, <2>1, <2>2, <2>4 DEF KeeperInv
<1>3. CASE sv_child = "zombie" /\ ~(~flagexit /\ want /\ wantup)
  <2>1. /\ up' = FALSE /\ sv_child' = "none" /\ sv_pc' = (IF flagexit THEN "gone" ELSE "read")
        /\ UNCHANGED <<want, wantup, flagexit, paused, term, pipe>> /\ NoFork!Announce
    BY <1>3 DEF NoFork!Reap
  <2>2. Flags' /\ Serves' /\ Announced'
    BY <1>0, <2>1 DEF Flags, Serves, Announced, NoFork!Announce
  <2> QED BY <1>0, <1>1, <2>1, <2>2 DEF KeeperInv
<1>4. CASE sv_child # "zombie"
  <2>1. sv_pc' = "read" /\ UNCHANGED <<want, wantup, flagexit, paused, up, sv_child, term, pipe, status>>
    BY <1>4 DEF NoFork!Reap
  <2>2. Flags' /\ Serves' /\ Announced'
    BY <1>0, <2>1 DEF Flags, Serves, Announced
  <2> QED BY <1>0, <1>1, <2>1, <2>2 DEF KeeperInv
<1> QED BY <1>2, <1>3, <1>4

LEMMA StepRead == ASSUME KeeperInv, NoFork!Read PROVE KeeperInv'
<1> USE DEF NoFork!flags
<1>0. Flags /\ Letters8 /\ Announced /\ Serves /\ sv_pc = "read" /\ UNCHANGED sv_sent
  BY DEF KeeperInv, NoFork!Read
<1>1. Flags' /\ Announced' /\ Serves' /\ Letters8'
  <2>1. CASE fifo = <<>>
    <3>1. UNCHANGED <<want, wantup, flagexit, paused, up, sv_child, term, sigchld, pipe, fifo, status>>
      BY <2>1 DEF NoFork!Read
    <3> QED BY <1>0, <3>1 DEF Flags, Announced, Serves, Letters8
  <2>2. CASE fifo # <<>>
    <3>1. NoFork!Obey(Head(fifo)) /\ fifo' = Tail(fifo)
      BY <2>2 DEF NoFork!Read
    <3>2. Letters8'
      <4>1. Tail(fifo) \in Seq(SvcCommands) /\ Len(Tail(fifo)) <= Len(fifo) /\ Len(fifo) \in Nat
            /\ Len(Tail(fifo)) \in Nat
        BY <1>0, <2>2 DEF Letters8
      <4> QED BY <1>0, <3>1, <4>1 DEF Letters8
    <3> QED BY <1>0, <3>1, <3>2, StepObey
  <2> QED BY <2>1, <2>2
<1>2. sv_pc' = (IF flagexit' /\ ~up' THEN "gone" ELSE "wait")
  BY DEF NoFork!Read
<1> QED BY <1>1, <1>2 DEF KeeperInv, Serves

LEMMA StepKeeper == ASSUME KeeperInv, [NoFork!Next]_svVars PROVE KeeperInv'
<1> USE DEF NoFork!flags
<1>1. CASE UNCHANGED svVars
  BY <1>1 DEF svVars, KeeperInv, Flags, Letters8, Announced, Serves
<1>2. ASSUME NEW c \in SvcCommands, NoFork!Svc(c) PROVE KeeperInv'
  <2>1. /\ sv_pc # "gone" /\ sv_sent < SvcLetters /\ fifo' = Append(fifo, c) /\ sv_sent' = sv_sent + 1
        /\ UNCHANGED <<sv_pc, want, wantup, flagexit, paused, up, sv_child, term, sigchld, pipe, status>>
    BY <1>2 DEF NoFork!Svc
  <2>2. /\ Append(fifo, c) \in Seq(SvcCommands) /\ Len(Append(fifo, c)) = Len(fifo) + 1
        /\ Len(fifo) \in Nat /\ SvcLetters \in Nat
    BY InstancesAssumption DEF KeeperInv, Letters8, NoFork!SuperviseAssumption
  <2>3. Letters8'
    BY <2>1, <2>2 DEF KeeperInv, Letters8
  <2> QED BY <2>1, <2>3 DEF KeeperInv, Flags, Announced, Serves
<1>3. CASE NoFork!ChildExits
  <2>1. sv_pc # "gone"
    BY <1>3 DEF KeeperInv, NoFork!ChildExits
  <2> QED BY <1>3, <2>1 DEF KeeperInv, Flags, Announced, Serves, Letters8, NoFork!ChildExits, NoFork!Die
<1>4. CASE NoFork!SigChld
  BY <1>4 DEF KeeperInv, Flags, Announced, Serves, Letters8, NoFork!SigChld
<1>5. CASE NoFork!Wake
  BY <1>5 DEF KeeperInv, Flags, Announced, Serves, Letters8, NoFork!Wake
<1> QED BY <1>1, <1>2, <1>3, <1>4, <1>5, StepReap, StepRead
        DEF NoFork!Next, NoFork!Loop, SvcCommands

(* Where fork() does not fail, less can happen.                               *)
LEMMA ServiceIsNoFork ==
  /\ Service!Init => NoFork!Init
  /\ Service!Next => NoFork!Next
<1> USE DEF Service!flags, NoFork!flags
<1>1. Service!Init => NoFork!Init
  BY DEF Service!Init, NoFork!Init
<1>2. Service!TryStart => NoFork!TryStart
  BY DEF Service!TryStart, NoFork!TryStart
<1>3. Service!Announce <=> NoFork!Announce
  BY DEF Service!Announce, NoFork!Announce
<1>4. Service!Reap => NoFork!Reap
  BY <1>2, <1>3 DEF Service!Reap, NoFork!Reap
<1>5. ASSUME NEW c PROVE Service!Obey(c) => NoFork!Obey(c)
  <2> USE <1>3 DEF Service!Alive, NoFork!Alive, Service!Continue, NoFork!Continue, Service!Die, NoFork!Die
  <2>1. Service!Down => NoFork!Down
    BY DEF Service!Down, NoFork!Down
  <2>2. \A once \in BOOLEAN : Service!UpOrOnce(once) => NoFork!UpOrOnce(once)
    BY <1>2 DEF Service!UpOrOnce, NoFork!UpOrOnce
  <2>3. (Service!Term => NoFork!Term) /\ (Service!Kill => NoFork!Kill)
    BY DEF Service!Term, NoFork!Term, Service!Kill, NoFork!Kill
  <2>4. (Service!Pause => NoFork!Pause) /\ (Service!Cont => NoFork!Cont) /\ (Service!Exit => NoFork!Exit)
    BY DEF Service!Pause, NoFork!Pause, Service!Cont, NoFork!Cont, Service!Exit, NoFork!Exit
  <2> QED BY <2>1, <2>2, <2>3, <2>4 DEF Service!Obey, NoFork!Obey
<1>6. Service!Read => NoFork!Read
  BY <1>5 DEF Service!Read, NoFork!Read
<1>7. /\ \A c : Service!Svc(c) => NoFork!Svc(c)
      /\ (Service!ChildExits => NoFork!ChildExits)
      /\ (Service!SigChld => NoFork!SigChld) /\ (Service!Wake => NoFork!Wake)
  BY DEF Service!Svc, NoFork!Svc, Service!ChildExits, NoFork!ChildExits, Service!Die, NoFork!Die,
         Service!SigChld, NoFork!SigChld, Service!Wake, NoFork!Wake
<1> QED BY <1>1, <1>4, <1>6, <1>7 DEF Service!Next, NoFork!Next, Service!Loop, NoFork!Loop

-----------------------------------------------------------------------------
(* svscan *)

ScanRoles == {"service", "log"}
Supervised == [ino : Folders, role : ScanRoles, pipe : Nat]
Entries == [ino : Folders, active : BOOLEAN, log : BOOLEAN, pid : Scan!Pids \cup {0},
            pidlog : Scan!Pids \cup {0}, pipe : Nat]
PidOf(e, r) == IF r = "service" THEN e.pid ELSE e.pidlog
Runs(p) == procs[p] # None

ScanTypes ==
  /\ scan_pc \in {"reap", "read", "sweep", "sleep"} /\ unread \subseteq Listings
  /\ names \in [Listings -> Folders \cup {None}]
  /\ x \in Seq(Entries) /\ Len(x) <= TableSize
  /\ procs \in [Scan!Pids -> Supervised \cup {None}]
  /\ dead \subseteq Scan!Pids /\ \A p \in dead : ~Runs(p)

(* An entry for each directory, and a pipe for each entry with a log.         *)
EntriesApart ==
  \A i, j \in DOMAIN x : i # j => x[i].ino # x[j].ino /\ (x[i].pipe # 0 => x[i].pipe # x[j].pipe)

(* A process id is in one place of the table.                                 *)
PidsApart ==
  \A i, j \in DOMAIN x, r, s \in ScanRoles :
    PidOf(x[i], r) # 0 /\ PidOf(x[i], r) = PidOf(x[j], s) => i = j /\ r = s

(* It is that of a supervise of this entry, or of one that has just ended;    *)
(* and all of them are there.                                                 *)
Tracked ==
  /\ \A i \in DOMAIN x, r \in ScanRoles :
       PidOf(x[i], r) # 0 =>
         \/ PidOf(x[i], r) \in dead
         \/ procs[PidOf(x[i], r)] = [ino |-> x[i].ino, role |-> r, pipe |-> x[i].pipe]
  /\ \A p \in Scan!Pids : p \in dead \/ Runs(p) =>
       \E i \in DOMAIN x, r \in ScanRoles : PidOf(x[i], r) = p

ScanInv == ScanTypes /\ EntriesApart /\ PidsApart /\ Tracked

LEMMA ScanNumbers ==
  /\ TableSize \in Nat /\ SuperviseDeaths \in Nat /\ Scan!Pids = 1 .. 2 * TableSize + SuperviseDeaths
  /\ 0 \notin Scan!Pids /\ Scan!Pids \subseteq Nat /\ None \notin Folders /\ None \notin Supervised
  /\ Scan!Roles = ScanRoles
BY InstancesAssumption
   DEF Scan!SvScanAssumption, Scan!Pids, Scan!Roles, ScanRoles, Supervised

(* What runs is in the entry of its directory, and has its pipe.              *)
LEMMA RunsInTable ==
  ASSUME ScanInv, NEW p \in Scan!Pids, Runs(p)
  PROVE  \E i \in DOMAIN x : /\ procs[p].role \in ScanRoles /\ PidOf(x[i], procs[p].role) = p
                             /\ procs[p].ino = x[i].ino /\ procs[p].pipe = x[i].pipe
<1>1. PICK i \in DOMAIN x, r \in ScanRoles : PidOf(x[i], r) = p
  BY DEF ScanInv, Tracked
<1>2. procs[p] = [ino |-> x[i].ino, role |-> r, pipe |-> x[i].pipe]
  BY <1>1, ScanNumbers DEF ScanInv, ScanTypes, Tracked
<1> QED BY <1>1, <1>2

LEMMA SameCardinality == ASSUME NEW S PROVE Scan!Cardinality(S) = Cardinality(S)
BY DEF Scan!Cardinality, Cardinality

LEMMA ScanPromises ==
  ASSUME ScanInv PROVE Scan!TypeOK /\ Scan!OneSupervise /\ Scan!NoneForgotten /\ Scan!SamePipe
<1>0. ScanTypes /\ EntriesApart /\ PidsApart /\ Tracked
  BY DEF ScanInv
<1>1. Scan!TypeOK
  <2>1. \A i \in DOMAIN x : x[i] \in Entries
    BY <1>0 DEF ScanTypes
  <2>2. \A i \in DOMAIN x : x[i].ino \in Folders /\ {x[i].pid, x[i].pidlog} \subseteq Scan!Pids \cup {0}
    BY <2>1 DEF Entries
  <2> QED BY <1>0, <2>2 DEF Scan!TypeOK, ScanTypes, Runs
<1>2. Scan!NoneForgotten
  BY RunsInTable DEF Scan!NoneForgotten, Runs, PidOf, ScanRoles
<1>3. Scan!SamePipe
  <2> SUFFICES ASSUME NEW p \in Scan!Pids, NEW q \in Scan!Pids, Runs(p), Runs(q), procs[p].pipe # 0
               PROVE  procs[p].pipe = procs[q].pipe <=> procs[p].ino = procs[q].ino
    BY DEF Scan!SamePipe, Runs
  <2>1. PICK i \in DOMAIN x : procs[p].ino = x[i].ino /\ procs[p].pipe = x[i].pipe
    BY RunsInTable
  <2>2. PICK j \in DOMAIN x : procs[q].ino = x[j].ino /\ procs[q].pipe = x[j].pipe
    BY RunsInTable
  <2> QED BY <1>0, <2>1, <2>2 DEF EntriesApart
<1>4. Scan!OneSupervise
  <2> SUFFICES ASSUME NEW d \in Folders, NEW r \in ScanRoles
               PROVE  Cardinality(Scan!Running(d, r)) <= 1
    BY SameCardinality DEF Scan!OneSupervise, Scan!Roles, ScanRoles
  <2>1. \A p, q \in Scan!Running(d, r) : p = q
    <3> SUFFICES ASSUME NEW p \in Scan!Running(d, r), NEW q \in Scan!Running(d, r) PROVE p = q
      OBVIOUS
    <3>1. PICK i \in DOMAIN x : PidOf(x[i], r) = p /\ x[i].ino = d
      BY RunsInTable DEF Scan!Running, Runs
    <3>2. PICK j \in DOMAIN x : PidOf(x[j], r) = q /\ x[j].ino = d
      BY RunsInTable DEF Scan!Running, Runs
    <3> QED BY <1>0, <3>1, <3>2 DEF EntriesApart
  <2>2. CASE Scan!Running(d, r) = {}
    BY <2>2, FS_EmptySet
  <2>3. CASE \E p : Scan!Running(d, r) = {p}
    BY <2>3, FS_Singleton
  <2> QED BY <2>1, <2>2, <2>3
<1> QED BY <1>1, <1>2, <1>3, <1>4

-----------------------------------------------------------------------------
(* Numbers that are free *)

LEMMA LeastExists ==
  ASSUME NEW S \in SUBSET Nat, S # {}
  PROVE  \E m \in S : \A n \in S : m <= n
<1>1. \E m \in S : \A n \in S : ~(<<n, m>> \in OpToRel(<, Nat))
  BY NatLessThanWellFounded, WFMin
<1>2. PICK m \in S : \A n \in S : ~(<<n, m>> \in OpToRel(<, Nat))
  BY <1>1
<1>3. ASSUME NEW n \in S PROVE m <= n
  <2>1. ~(n < m)
    BY <1>2 DEF OpToRel
  <2> QED BY <2>1
<1> QED BY <1>3

LEMMA NewPidFree == ASSUME NEW F \in SUBSET Scan!Pids, F # {} PROVE Scan!NewPid(F) \in F
<1>1. \E p \in F : \A q \in F : p <= q
  BY ScanNumbers, LeastExists
<1> QED BY <1>1 DEF Scan!NewPid

LEMMA OneLess ==
  ASSUME NEW S, IsFiniteSet(S), NEW a \in S
  PROVE  IsFiniteSet(S \ {a}) /\ Cardinality(S \ {a}) = Cardinality(S) - 1
BY FS_RemoveElement

(* The pids in use are as many as places of the table that are filled, so     *)
(* that there is one for each that is not.                                    *)
LEMMA PidsLeft ==
  ASSUME ScanInv, NEW i \in 1 .. TableSize,
         NEW R \in SUBSET ScanRoles,
         \A r \in R : i \in DOMAIN x => PidOf(x[i], r) = 0
  PROVE  /\ R # {} => Scan!Free # {}
         /\ R = ScanRoles => \A p : Scan!Free \ {p} # {}
<1> DEFINE place(j, r) == IF r = "service" THEN 2 * j - 1 ELSE 2 * j
           Used == {p \in Scan!Pids : p \in dead \/ Runs(p)}
           slot(p) == CHOOSE n \in 1 .. 2 * TableSize :
                      \E j \in DOMAIN x, r \in ScanRoles : PidOf(x[j], r) = p /\ n = place(j, r)
           f == [p \in Used |-> slot(p)]
           M == {place(i, r) : r \in R}
           T == (1 .. 2 * TableSize) \ M
<1>0. ScanTypes /\ PidsApart /\ Tracked /\ DOMAIN x = 1 .. Len(x) /\ Len(x) \in Nat /\ Len(x) <= TableSize
  BY DEF ScanInv, ScanTypes
<1>1. \A j \in 1 .. TableSize, r \in ScanRoles : place(j, r) \in 1 .. 2 * TableSize
  BY ScanNumbers DEF ScanRoles
<1>2. \A j, k \in 1 .. TableSize, r, s \in ScanRoles : place(j, r) = place(k, s) => j = k /\ r = s
  BY ScanNumbers DEF ScanRoles
<1> HIDE DEF place
<1>3. ASSUME NEW p \in Used
      PROVE  \E j \in DOMAIN x, r \in ScanRoles :
               PidOf(x[j], r) = p /\ slot(p) = place(j, r) /\ slot(p) \in T /\ p # 0
  <2>1. \E j \in DOMAIN x, r \in ScanRoles : PidOf(x[j], r) = p
    BY <1>0 DEF Tracked
  <2>2. \E n \in 1 .. 2 * TableSize :
          \E j \in DOMAIN x, r \in ScanRoles : PidOf(x[j], r) = p /\ n = place(j, r)
    BY <1>0, <1>1, <2>1, ScanNumbers
  <2>3. /\ slot(p) \in 1 .. 2 * TableSize
        /\ \E j \in DOMAIN x, r \in ScanRoles : PidOf(x[j], r) = p /\ slot(p) = place(j, r)
    BY <2>2
  <2> HIDE DEF slot
  <2>4. PICK j \in DOMAIN x, r \in ScanRoles : PidOf(x[j], r) = p /\ slot(p) = place(j, r)
    BY <2>3
  <2>5. slot(p) \notin M
    BY <1>0, <1>2, <2>4, ScanNumbers
  <2> QED BY <2>3, <2>4, <2>5, ScanNumbers
<1> HIDE DEF slot
<1>4. f \in Injection(Used, T)
  <2>1. f \in [Used -> T]
    BY <1>3
  <2>2. ASSUME NEW p \in Used, NEW q \in Used, f[p] = f[q] PROVE p = q
    <3>1. PICK j \in DOMAIN x, r \in ScanRoles : PidOf(x[j], r) = p /\ slot(p) = place(j, r)
      BY <1>3
    <3>2. PICK k \in DOMAIN x, s \in ScanRoles : PidOf(x[k], s) = q /\ slot(q) = place(k, s)
      BY <1>3
    <3>3. place(j, r) = place(k, s) /\ j \in 1 .. TableSize /\ k \in 1 .. TableSize
      BY <1>0, <2>2, <3>1, <3>2, ScanNumbers
    <3> QED BY <1>2, <3>1, <3>2, <3>3
  <2> QED BY <2>1, <2>2 DEF Injection, IsInjective
<1> HIDE DEF f
<1>5. /\ IsFiniteSet(1 .. 2 * TableSize) /\ Cardinality(1 .. 2 * TableSize) = 2 * TableSize
      /\ IsFiniteSet(Scan!Pids) /\ Cardinality(Scan!Pids) = 2 * TableSize + SuperviseDeaths
  BY FS_Interval, ScanNumbers
<1>6. /\ IsFiniteSet(T)
      /\ R # {} => Cardinality(T) <= 2 * TableSize - 1
      /\ R = ScanRoles => Cardinality(T) = 2 * TableSize - 2
  <2> DEFINE a == place(i, "service")
             b == place(i, "log")
  <2>1. a \in 1 .. 2 * TableSize /\ b \in 1 .. 2 * TableSize /\ a # b
    BY <1>1, <1>2 DEF ScanRoles
  <2> HIDE DEF a, b
  <2>2. T = (1 .. 2 * TableSize) \/ T = (1 .. 2 * TableSize) \ {a}
        \/ T = (1 .. 2 * TableSize) \ {b} \/ T = ((1 .. 2 * TableSize) \ {a}) \ {b}
    BY DEF a, b, ScanRoles
  <2>3. /\ R = ScanRoles => T = ((1 .. 2 * TableSize) \ {a}) \ {b}
        /\ R # {} => T # 1 .. 2 * TableSize
    BY <2>1 DEF a, b, ScanRoles
  <2> DEFINE I == 1 .. 2 * TableSize
  <2>a. IsFiniteSet(I) /\ Cardinality(I) = 2 * TableSize /\ TableSize \in Nat /\ a \in I /\ b \in I /\ a # b
    BY <1>5, <2>1, ScanNumbers
  <2> HIDE DEF I
  <2>4. /\ IsFiniteSet(I \ {a}) /\ Cardinality(I \ {a}) = 2 * TableSize - 1
        /\ IsFiniteSet(I \ {b}) /\ Cardinality(I \ {b}) = 2 * TableSize - 1
    BY <2>a, OneLess
  <2>5. /\ IsFiniteSet((I \ {a}) \ {b}) /\ Cardinality((I \ {a}) \ {b}) = 2 * TableSize - 2
    <3>1. b \in I \ {a}
      BY <2>a
    <3>2. /\ IsFiniteSet((I \ {a}) \ {b})
          /\ Cardinality((I \ {a}) \ {b}) = Cardinality(I \ {a}) - 1
      BY <2>4, <3>1, OneLess
    <3> QED BY <2>a, <2>4, <3>2
  <2> USE DEF I
  <2>6. IsFiniteSet(T)
    BY <1>5, <2>2, <2>4, <2>5
  <2>7. R = ScanRoles => Cardinality(T) = 2 * TableSize - 2
    BY <2>3, <2>5
  <2>8. ASSUME R # {} PROVE Cardinality(T) <= 2 * TableSize - 1
    <3>1. \/ Cardinality(T) = 2 * TableSize - 1
          \/ Cardinality(T) = 2 * TableSize - 2
      BY <2>2, <2>3, <2>4, <2>5, <2>8
    <3> QED BY <3>1, ScanNumbers
  <2> QED BY <2>6, <2>7, <2>8
<1> HIDE DEF T
<1>7. IsFiniteSet(Used) /\ Cardinality(Used) <= Cardinality(T) /\ Cardinality(Used) \in Nat /\ Cardinality(T) \in Nat
  BY <1>4, <1>6, FS_Injection, FS_CardinalityType
<1>8. /\ Scan!Free = Scan!Pids \ Used /\ IsFiniteSet(Scan!Free)
      /\ Cardinality(Scan!Free) = 2 * TableSize + SuperviseDeaths - Cardinality(Used)
      /\ Cardinality(Scan!Free) \in Int
  <2>1. Scan!Free = Scan!Pids \ Used /\ Scan!Pids \cap Used = Used
    BY DEF Scan!Free, Runs
  <2> HIDE DEF Used
  <2>2. IsFiniteSet(Scan!Pids \ Used)
        /\ Cardinality(Scan!Pids \ Used) = Cardinality(Scan!Pids) - Cardinality(Scan!Pids \cap Used)
    BY <1>5, FS_Difference
  <2>3. Cardinality(Scan!Free) = 2 * TableSize + SuperviseDeaths - Cardinality(Used)
    <3>1. Cardinality(Scan!Free) = Cardinality(Scan!Pids) - Cardinality(Used)
      BY <2>1, <2>2, Zenon
    <3>2. Cardinality(Scan!Pids) = 2 * TableSize + SuperviseDeaths
      BY <1>5
    <3> DEFINE nPids == Cardinality(Scan!Pids)
    <3>3. nPids = 2 * TableSize + SuperviseDeaths /\ Cardinality(Scan!Free) = nPids - Cardinality(Used)
      BY <3>1, <3>2
    <3> DEFINE nFree == Cardinality(Scan!Free)
               nUsed == Cardinality(Used)
    <3>4. nUsed \in Nat /\ TableSize \in Nat /\ SuperviseDeaths \in Nat
      BY <1>7, ScanNumbers
    <3>5. nPids = 2 * TableSize + SuperviseDeaths
      BY <3>3
    <3>6. nFree = nPids - nUsed
      BY <3>1
    <3> HIDE DEF nPids, nFree, nUsed
    <3>7. nFree = 2 * TableSize + SuperviseDeaths - nUsed
      BY <3>4, <3>5, <3>6
    <3> USE DEF nFree, nUsed
    <3> QED BY <3>7, Zenon
  <2>4. TableSize \in Nat /\ SuperviseDeaths \in Nat
    BY ScanNumbers
  <2> QED BY <1>7, <2>1, <2>2, <2>3, <2>4
<1> HIDE DEF Used
<1>9. R # {} => Scan!Free # {}
  <2>1. R # {} => Cardinality(Scan!Free) > 0
    BY <1>6, <1>7, <1>8, ScanNumbers
  <2> QED BY <2>1, FS_EmptySet
<1>10. ASSUME R = ScanRoles, NEW p PROVE Scan!Free \ {p} # {}
  <2>1. Cardinality(Scan!Free) >= 2
    BY <1>6, <1>7, <1>8, <1>10, ScanNumbers
  <2>2. Cardinality(Scan!Free \ {p}) >= 1
    BY <1>8, <2>1, FS_RemoveElement
  <2> QED BY <2>2, FS_EmptySet
<1> QED BY <1>9, <1>10

(* There is a number that no pipe has.                                        *)
LEMMA NewPipeFree ==
  ASSUME ScanInv
  PROVE  Scan!NewPipe \in Nat /\ Scan!NewPipe # 0 /\ \A i \in DOMAIN x : x[i].pipe # Scan!NewPipe
<1> DEFINE f == [i \in DOMAIN x |-> x[i].pipe]
           P == {x[i].pipe : i \in DOMAIN x}
<1>1. Scan!Pipes = P
  <2>1. ASSUME NEW p \in Scan!Pids, Runs(p) PROVE procs[p].pipe \in P
    BY <2>1, RunsInTable
  <2> QED BY <2>1 DEF Scan!Pipes, Runs
<1>2. IsFiniteSet(P) /\ Cardinality(P) \in Nat
  <2>1. f \in Surjection(DOMAIN x, P)
    BY DEF Surjection
  <2>2. IsFiniteSet(DOMAIN x)
    <3>1. DOMAIN x = 1 .. Len(x) /\ Len(x) \in Nat
      BY DEF ScanInv, ScanTypes
    <3> QED BY <3>1, FS_Interval
  <2> HIDE DEF f, P
  <2> QED BY <2>1, <2>2, FS_Surjection, FS_CardinalityType
<1> HIDE DEF P
<1>3. \E n \in 1 .. Cardinality(P) + 1 : n \notin P
  <2> SUFFICES ASSUME 1 .. Cardinality(P) + 1 \subseteq P PROVE FALSE
    OBVIOUS
  <2>1. Cardinality(1 .. Cardinality(P) + 1) = Cardinality(P) + 1
    BY <1>2, FS_Interval
  <2>2. Cardinality(1 .. Cardinality(P) + 1) <= Cardinality(P)
    BY <1>2, FS_Subset
  <2> QED BY <1>2, <2>1, <2>2
<1>4. Scan!NewPipe \in 1 .. Cardinality(P) + 1 /\ Scan!NewPipe \notin P
  BY <1>1, <1>3, SameCardinality DEF Scan!NewPipe
<1> QED BY <1>2, <1>4 DEF P

-----------------------------------------------------------------------------
(* Its steps *)

LEMMA InitScan == ASSUME Scan!Init PROVE ScanInv
<1> USE DEF Scan!Init
<1>1. x \in Seq(Entries) /\ Len(x) = 0 /\ DOMAIN x = {}
  OBVIOUS
<1>2. procs \in [Scan!Pids -> Supervised \cup {None}] /\ \A p \in Scan!Pids : ~Runs(p)
  BY DEF Runs
<1>3. ScanTypes
  BY <1>1, <1>2, ScanNumbers DEF ScanTypes
<1>4. EntriesApart /\ PidsApart
  BY <1>1 DEF EntriesApart, PidsApart
<1>5. Tracked
  BY <1>1, <1>2 DEF Tracked
<1> QED BY <1>3, <1>4, <1>5 DEF ScanInv

(* An entry keeps all but what is active; or nothing changes at all.          *)
LEMMA SameTable ==
  ASSUME ScanInv, x' \in Seq(Entries), Len(x') = Len(x), UNCHANGED <<procs, dead>>,
         scan_pc' \in {"reap", "read", "sweep", "sleep"}, unread' \subseteq Listings,
         names' \in [Listings -> Folders \cup {None}],
         \A i \in DOMAIN x :
           /\ x'[i].ino = x[i].ino /\ x'[i].pipe = x[i].pipe
           /\ x'[i].pid = x[i].pid /\ x'[i].pidlog = x[i].pidlog
  PROVE  ScanInv'
<1>0. DOMAIN x' = DOMAIN x /\ \A i \in DOMAIN x, r \in ScanRoles : PidOf(x'[i], r) = PidOf(x[i], r)
  BY DEF ScanInv, ScanTypes, PidOf
<1>1. ScanTypes'
  BY DEF ScanInv, ScanTypes, Runs
<1>2. EntriesApart' /\ PidsApart'
  BY <1>0 DEF ScanInv, EntriesApart, PidsApart
<1>3. Tracked'
  BY <1>0 DEF ScanInv, Tracked, Runs
<1> QED BY <1>1, <1>2, <1>3 DEF ScanInv

LEMMA Unchanged ==
  ASSUME ScanInv, UNCHANGED <<x, procs, dead>>,
         scan_pc' \in {"reap", "read", "sweep", "sleep"}, unread' \subseteq Listings,
         names' \in [Listings -> Folders \cup {None}]
  PROVE  ScanInv'
BY SameTable DEF ScanInv, ScanTypes

LEMMA StepOpenDir == ASSUME ScanInv, Scan!OpenDir PROVE ScanInv'
<1>1. /\ x' = [i \in DOMAIN x |-> [x[i] EXCEPT !.active = FALSE]]
      /\ scan_pc' \in {"read", "sleep"} /\ unread' \in {unread, Listings}
      /\ UNCHANGED <<names, procs, dead>>
  BY DEF Scan!OpenDir
<1>2. DOMAIN x = 1 .. Len(x) /\ Len(x) \in Nat /\ \A i \in DOMAIN x : x[i] \in Entries
  BY DEF ScanInv, ScanTypes
<1>3. \A i \in DOMAIN x : [x[i] EXCEPT !.active = FALSE] \in Entries
  BY <1>2 DEF Entries
<1>4. x' \in [1 .. Len(x) -> Entries]
  BY <1>1, <1>2, <1>3
<1>5. x' \in Seq(Entries) /\ Len(x') = Len(x)
  BY <1>2, <1>4
<1>6. \A i \in DOMAIN x :
        /\ x'[i].ino = x[i].ino /\ x'[i].pipe = x[i].pipe
        /\ x'[i].pid = x[i].pid /\ x'[i].pidlog = x[i].pidlog
  BY <1>1, <1>2 DEF Entries
<1>7. scan_pc' \in {"reap", "read", "sweep", "sleep"} /\ unread' \subseteq Listings
      /\ names' \in [Listings -> Folders \cup {None}]
  BY <1>1 DEF ScanInv, ScanTypes
<1> QED BY <1>1, <1>5, <1>6, <1>7, SameTable

(* wait_nohang() returns a pid: it is forgotten where it is, and only there.  *)
LEMMA StepScanReap == ASSUME ScanInv, Scan!Reap PROVE ScanInv'
<1>0. ScanTypes /\ EntriesApart /\ PidsApart /\ Tracked
  BY DEF ScanInv
<1>1. PICK p \in dead : dead' = dead \ {p} /\ x' = Scan!Clear(p)
  BY DEF Scan!Reap
<1>2. UNCHANGED <<scan_pc, unread, names, procs>>
  BY DEF Scan!Reap
<1>3. /\ DOMAIN x = 1 .. Len(x) /\ Len(x) \in Nat /\ \A i \in DOMAIN x : x[i] \in Entries
      /\ p \in Scan!Pids /\ p # 0
  BY <1>0, ScanNumbers DEF ScanTypes
<1>4. x' = [i \in DOMAIN x |-> IF p \notin {x[i].pid, x[i].pidlog} THEN x[i]
                              ELSE IF x[i].pid = p THEN [x[i] EXCEPT !.pid = 0]
                              ELSE [x[i] EXCEPT !.pidlog = 0]]
  BY <1>1 DEF Scan!Clear
<1>5. ASSUME NEW i \in DOMAIN x
      PROVE  /\ x'[i] \in Entries /\ x'[i].ino = x[i].ino /\ x'[i].pipe = x[i].pipe
             /\ \A r \in ScanRoles : PidOf(x'[i], r) = IF PidOf(x[i], r) = p THEN 0 ELSE PidOf(x[i], r)
  <2>1. x[i] \in Entries /\ ~(x[i].pid = p /\ x[i].pidlog = p)
    BY <1>0, <1>3 DEF PidsApart, PidOf, ScanRoles
  <2>2. CASE p \notin {x[i].pid, x[i].pidlog}
    <3>1. x'[i] = x[i]
      BY <1>4, <2>2
    <3> QED BY <2>1, <2>2, <3>1 DEF PidOf
  <2>3. CASE x[i].pid = p
    <3>1. x'[i] = [x[i] EXCEPT !.pid = 0]
      BY <1>4, <2>3
    <3> QED BY <2>1, <2>3, <3>1 DEF PidOf, Entries, ScanRoles
  <2>4. CASE x[i].pidlog = p /\ x[i].pid # p
    <3>1. x'[i] = [x[i] EXCEPT !.pidlog = 0]
      BY <1>4, <2>4
    <3> QED BY <2>1, <2>4, <3>1 DEF PidOf, Entries, ScanRoles
  <2> QED BY <2>2, <2>3, <2>4
<1>6. x' \in [1 .. Len(x) -> Entries] /\ DOMAIN x' = DOMAIN x
  BY <1>3, <1>4, <1>5
<1>7. x' \in Seq(Entries) /\ Len(x') = Len(x)
  BY <1>3, <1>6
<1>8. ScanTypes'
  BY <1>0, <1>1, <1>2, <1>7 DEF ScanTypes, Runs
<1>9. EntriesApart' /\ PidsApart'
  BY <1>0, <1>5, <1>6 DEF EntriesApart, PidsApart
<1>10. Tracked'
  <2>1. ASSUME NEW i \in DOMAIN x, NEW r \in ScanRoles, PidOf(x'[i], r) # 0
        PROVE  \/ PidOf(x'[i], r) \in dead'
               \/ procs'[PidOf(x'[i], r)] = [ino |-> x'[i].ino, role |-> r, pipe |-> x'[i].pipe]
    <3>1. PidOf(x'[i], r) = PidOf(x[i], r) /\ PidOf(x[i], r) # p
      BY <1>5, <2>1
    <3> QED BY <1>0, <1>1, <1>2, <1>5, <2>1, <3>1 DEF Tracked
  <2>2. ASSUME NEW q \in Scan!Pids, q \in dead' \/ Runs(q)
        PROVE  \E i \in DOMAIN x, r \in ScanRoles : PidOf(x'[i], r) = q
    <3>1. PICK i \in DOMAIN x, r \in ScanRoles : PidOf(x[i], r) = q
      BY <1>0, <1>1, <2>2 DEF Tracked
    <3>2. q # p
      BY <1>0, <1>1, <2>2 DEF ScanTypes
    <3>3. PidOf(x'[i], r) = q
      BY <1>5, <3>1, <3>2
    <3> QED BY <3>3
  <2> QED BY <1>2, <1>6, <2>1, <2>2 DEF Tracked, Runs
<1> QED BY <1>8, <1>9, <1>10 DEF ScanInv

(* A supervise ends: its pid is in the table until it is waited for.          *)
LEMMA StepScanDie == ASSUME ScanInv, Scan!Die PROVE ScanInv'
<1>0. ScanTypes /\ EntriesApart /\ PidsApart /\ Tracked
  BY DEF ScanInv
<1>1. PICK p \in Scan!Pids : Runs(p) /\ procs' = [procs EXCEPT ![p] = None] /\ dead' = dead \cup {p}
  BY DEF Scan!Die, Runs
<1>2. UNCHANGED <<scan_pc, unread, names, x>>
  BY DEF Scan!Die
<1>3. procs' \in [Scan!Pids -> Supervised \cup {None}] /\ procs'[p] = None
      /\ \A q \in Scan!Pids : q # p => procs'[q] = procs[q]
  BY <1>0, <1>1 DEF ScanTypes
<1>4. ScanTypes'
  BY <1>0, <1>1, <1>2, <1>3 DEF ScanTypes, Runs
<1>5. EntriesApart' /\ PidsApart'
  BY <1>0, <1>2 DEF EntriesApart, PidsApart
<1>6. Tracked'
  <2>1. ASSUME NEW i \in DOMAIN x, NEW r \in ScanRoles, PidOf(x[i], r) # 0
        PROVE  \/ PidOf(x[i], r) \in dead'
               \/ procs'[PidOf(x[i], r)] = [ino |-> x[i].ino, role |-> r, pipe |-> x[i].pipe]
    <3>1. x[i] \in Entries
      BY <1>0 DEF ScanTypes
    <3>2. PidOf(x[i], r) \in Scan!Pids
      BY <2>1, <3>1 DEF Entries, PidOf
    <3> QED BY <1>0, <1>1, <1>3, <2>1, <3>2 DEF Tracked
  <2>2. ASSUME NEW q \in Scan!Pids, q \in dead' \/ procs'[q] # None
        PROVE  \E i \in DOMAIN x, r \in ScanRoles : PidOf(x[i], r) = q
    <3>1. q \in dead \/ Runs(q)
      BY <1>1, <1>3, <2>2 DEF Runs
    <3> QED BY <1>0, <3>1 DEF Tracked
  <2> QED BY <1>2, <2>1, <2>2 DEF Tracked, Runs
<1> QED BY <1>4, <1>5, <1>6 DEF ScanInv

(* The last entry takes the place of one that is idle, which has no pid.      *)
LEMMA StepSweep == ASSUME ScanInv, Scan!Sweep PROVE ScanInv'
<1>0. ScanTypes /\ EntriesApart /\ PidsApart /\ Tracked
  BY DEF ScanInv
<1>1. UNCHANGED <<unread, names, procs, dead>> /\ scan_pc' \in {"sweep", "sleep"}
  BY DEF Scan!Sweep
<1> DEFINE idle == {i \in DOMAIN x : Scan!Idle(x[i])}
<1>2. CASE idle = {}
  <2>1. UNCHANGED x
    BY <1>2 DEF Scan!Sweep
  <2> QED BY <1>0, <1>1, <2>1, Unchanged DEF ScanTypes
<1>3. CASE idle # {}
  <2>0. Len(x) \in Nat /\ DOMAIN x = 1 .. Len(x) /\ \A k \in DOMAIN x : x[k] \in Entries
    BY <1>0 DEF ScanTypes
  <2>1. \E k \in idle : \A j \in idle : k <= j
    <3>1. idle \subseteq Nat
      BY <2>0
    <3> QED BY <1>3, <3>1, LeastExists
  <2>2. PICK i \in idle : x' = Scan!Front([x EXCEPT ![i] = x[Len(x)]])
    BY <1>3, <2>1 DEF Scan!Sweep
  <2>3. i \in DOMAIN x /\ x[i].pid = 0 /\ x[i].pidlog = 0
    BY DEF Scan!Idle
  <2> DEFINE L == Len(x)
             y == [x EXCEPT ![i] = x[L]]
  <2>4. /\ y \in Seq(Entries) /\ Len(y) = L /\ L \in DOMAIN x
        /\ \A k \in DOMAIN x : y[k] = IF k = i THEN x[L] ELSE x[k]
    <3>1. y \in [1 .. L -> Entries] /\ L \in 1 .. L
      <4>1. L \in 1 .. L
        BY <2>0, <2>3
      <4>2. x \in [1 .. L -> Entries]
        BY <2>0, <1>0 DEF ScanTypes
      <4> QED BY <2>0, <2>3, <4>1, <4>2
    <3> QED BY <2>0, <2>3, <3>1
  <2> HIDE DEF y
  <2>5. x' = SubSeq(y, 1, L - 1)
    BY <2>2, <2>4 DEF Scan!Front, y
  <2>6. /\ x' \in Seq(Entries) /\ Len(x') = L - 1 /\ DOMAIN x' = 1 .. L - 1
        /\ \A k \in 1 .. L - 1 : x'[k] = y[k]
    BY <2>0, <2>4, <2>5
  <2>7. \A k \in DOMAIN x' : k \in DOMAIN x /\ k # L /\ x'[k] = IF k = i THEN x[L] ELSE x[k]
    BY <2>0, <2>4, <2>6
  <2>8. ScanTypes'
    <3>1. Len(x') <= TableSize
      BY <1>0, <2>0, <2>6, ScanNumbers DEF ScanTypes
    <3>2. scan_pc' \in {"reap", "read", "sweep", "sleep"}
      BY <1>1
    <3> QED BY <1>0, <1>1, <2>6, <3>1, <3>2 DEF ScanTypes, Runs
  <2>9. EntriesApart'
    BY <1>0, <2>4, <2>7 DEF EntriesApart
  <2>10. PidsApart'
    BY <1>0, <2>4, <2>7 DEF PidsApart
  <2>11. Tracked'
    <3>1. ASSUME NEW p \in Scan!Pids, p \in dead \/ Runs(p)
          PROVE  \E k \in DOMAIN x', r \in ScanRoles : PidOf(x'[k], r) = p
      <4>1. PICK k \in DOMAIN x, r \in ScanRoles : PidOf(x[k], r) = p
        BY <1>0, <3>1 DEF Tracked
      <4>2. k # i
        BY <2>3, <4>1, ScanNumbers DEF PidOf
      <4>3. CASE k = L
        <5>1. i \in DOMAIN x' /\ x'[i] = x[L]
          BY <2>0, <2>3, <2>6, <2>7, <4>2, <4>3
        <5> QED BY <4>1, <4>3, <5>1
      <4>4. CASE k # L
        <5>1. k \in DOMAIN x' /\ x'[k] = x[k]
          BY <2>0, <2>6, <2>7, <4>2, <4>4
        <5> QED BY <4>1, <5>1
      <4> QED BY <4>3, <4>4
    <3>2. ASSUME NEW k \in DOMAIN x', NEW r \in ScanRoles, PidOf(x'[k], r) # 0
          PROVE  \/ PidOf(x'[k], r) \in dead
                 \/ procs[PidOf(x'[k], r)] = [ino |-> x'[k].ino, role |-> r, pipe |-> x'[k].pipe]
      <4>1. PICK j \in DOMAIN x : x'[k] = x[j]
        BY <2>4, <2>7
      <4> QED BY <1>0, <3>2, <4>1 DEF Tracked
    <3> QED BY <1>1, <3>1, <3>2 DEF Tracked, Runs
  <2> QED BY <2>8, <2>9, <2>10, <2>11 DEF ScanInv
<1> QED BY <1>2, <1>3

(* A pid of the table is no longer free.                                      *)
LEMMA TakenPids ==
  ASSUME ScanInv, NEW i \in DOMAIN x, NEW r \in ScanRoles, PidOf(x[i], r) # 0
  PROVE  PidOf(x[i], r) \in Scan!Pids /\ PidOf(x[i], r) \notin Scan!Free
<1>1. x[i] \in Entries
  BY DEF ScanInv, ScanTypes
<1>2. PidOf(x[i], r) \in Scan!Pids
  BY <1>1 DEF Entries, PidOf
<1>3. [ino |-> x[i].ino, role |-> r, pipe |-> x[i].pipe] \in Supervised
  BY <1>1 DEF Entries, Supervised
<1> QED BY <1>2, <1>3, ScanNumbers DEF ScanInv, Tracked, Scan!Free

(* start() of an entry, old or new: what it forks gets pids that are free,    *)
(* and nothing that runs loses its own.                                       *)
LEMMA StepForks ==
  ASSUME ScanInv, NEW i \in 1 .. TableSize, NEW e \in Entries, NEW started \in SUBSET ScanRoles,
         Scan!Forks(i, e, started), UNCHANGED dead,
         scan_pc' \in {"reap", "read", "sweep", "sleep"}, unread' \subseteq Listings,
         names' \in [Listings -> Folders \cup {None}],
         \/ i \in DOMAIN x /\ e = x[i]
         \/ /\ i = Len(x) + 1 /\ e.pid = 0 /\ e.pidlog = 0
            /\ \A j \in DOMAIN x : x[j].ino # e.ino /\ (e.pipe # 0 => x[j].pipe # e.pipe)
  PROVE  ScanInv'
<1> DEFINE service == IF "service" \in started THEN Scan!NewPid(Scan!Free) ELSE e.pid
           log == IF "log" \in started THEN Scan!NewPid(Scan!Free \ {service}) ELSE e.pidlog
           program(r) == [ino |-> e.ino, role |-> r, pipe |-> e.pipe]
           forked == [e EXCEPT !.active = TRUE, !.pid = service, !.pidlog = log]
<1>0. /\ ScanTypes /\ EntriesApart /\ PidsApart /\ Tracked
      /\ DOMAIN x = 1 .. Len(x) /\ Len(x) \in Nat /\ Scan!Free \subseteq Scan!Pids
      /\ \A j \in DOMAIN x : x[j] \in Entries
  BY DEF ScanInv, ScanTypes, Scan!Free
<1>1. \A r \in started : PidOf(e, r) = 0
  BY DEF Scan!Forks, Scan!Needs, PidOf, ScanRoles
<1>2. /\ procs' = [p \in Scan!Pids |-> IF "service" \in started /\ p = service THEN program("service")
                                       ELSE IF "log" \in started /\ p = log THEN program("log")
                                       ELSE procs[p]]
      /\ x' = [j \in 1 .. (IF i > Len(x) THEN i ELSE Len(x)) |-> IF j = i THEN forked ELSE x[j]]
  BY DEF Scan!Forks
<1>3. \A r \in started : i \in DOMAIN x => PidOf(x[i], r) = 0
  BY <1>0, <1>1
<1>4. "service" \in started => service \in Scan!Free
  BY <1>0, <1>3, PidsLeft, NewPidFree DEF ScanRoles
<1>5. "log" \in started => log \in Scan!Free \ {service}
  <2> SUFFICES ASSUME "log" \in started PROVE Scan!Free \ {service} # {}
    BY <1>0, NewPidFree
  <2>1. CASE "service" \in started
    <3>1. started = ScanRoles
      BY <2>1 DEF ScanRoles
    <3> QED BY <1>3, <3>1, PidsLeft
  <2>2. CASE "service" \notin started
    <3>1. service \notin Scan!Free
      BY <1>0, <2>2, TakenPids, ScanNumbers DEF PidOf, ScanRoles
    <3>2. Scan!Free # {}
      BY <1>3, PidsLeft
    <3> QED BY <3>1, <3>2
  <2> QED BY <2>1, <2>2
<1>6. /\ service \in Scan!Pids \cup {0} /\ log \in Scan!Pids \cup {0}
      /\ "service" \notin started => service = e.pid
      /\ "log" \notin started => log = e.pidlog
  BY <1>0, <1>4, <1>5 DEF Entries
<1> HIDE DEF service, log
<1>7. /\ forked \in Entries /\ forked.ino = e.ino /\ forked.pipe = e.pipe
      /\ forked.pid = service /\ forked.pidlog = log
  BY <1>6 DEF Entries
<1> HIDE DEF forked
<1>8. \A r \in started : PidOf(forked, r) \in Scan!Free
  BY <1>4, <1>5, <1>7 DEF PidOf, ScanRoles
<1>9. \A r \in ScanRoles : r \notin started => PidOf(forked, r) = PidOf(e, r)
  BY <1>6, <1>7 DEF PidOf, ScanRoles
<1>10. \A r, s \in started : PidOf(forked, r) = PidOf(forked, s) => r = s
  BY <1>5, <1>7 DEF PidOf, ScanRoles
<1>11. /\ DOMAIN x' = DOMAIN x \cup {i} /\ i \in DOMAIN x' /\ x'[i] = forked
       /\ \A j \in DOMAIN x : j # i => x'[j] = x[j]
  BY <1>0, <1>2
<1>12. /\ procs' \in [Scan!Pids -> Supervised \cup {None}]
       /\ \A r \in started : procs'[PidOf(forked, r)] = program(r)
       /\ \A p \in Scan!Pids : procs'[p] = procs[p] \/ \E r \in started : p = PidOf(forked, r)
       /\ \A p \in Scan!Pids : p \notin Scan!Free => procs'[p] = procs[p]
  <2>1. \A r \in ScanRoles : program(r) \in Supervised
    BY DEF Entries, Supervised
  <2>2. procs' \in [Scan!Pids -> Supervised \cup {None}]
    BY <1>0, <1>2, <2>1 DEF ScanTypes, ScanRoles
  <2>3. \A r \in started : procs'[PidOf(forked, r)] = program(r)
    BY <1>0, <1>2, <1>4, <1>5, <1>7 DEF PidOf, ScanRoles
  <2>4. \A p \in Scan!Pids : procs'[p] = procs[p] \/ \E r \in started : p = PidOf(forked, r)
    BY <1>2, <1>7 DEF PidOf
  <2> QED BY <1>8, <2>2, <2>3, <2>4
<1> HIDE DEF program
<1>13. x' \in Seq(Entries) /\ Len(x') <= TableSize
  <2>1. CASE i \in DOMAIN x
    <3>a. i \in 1 .. Len(x) /\ Len(x) \in Nat /\ DOMAIN x = 1 .. Len(x)
      BY <1>0, <2>1 DEF ScanTypes
    <3>b. ~(i > Len(x))
      BY <3>a
    <3>c. (IF i > Len(x) THEN i ELSE Len(x)) = Len(x)
      BY <3>b, Zenon
    <3>d. x' = [j \in 1 .. Len(x) |-> IF j = i THEN forked ELSE x[j]]
      BY <1>2, <3>c, Zenon
    <3>e. \A j \in 1 .. Len(x) : (IF j = i THEN forked ELSE x[j]) \in Entries
      BY <1>0, <1>7
    <3>1. x' \in [1 .. Len(x) -> Entries]
      BY <3>d, <3>e
    <3>2. x' \in Seq(Entries) /\ Len(x') = Len(x)
      BY <1>0, <3>1
    <3> QED BY <1>0, <3>2 DEF ScanTypes
  <2>2. CASE i = Len(x) + 1
    <3>1. x' \in [1 .. Len(x) + 1 -> Entries]
      BY <1>0, <1>2, <1>7, <2>2
    <3>2. x' \in Seq(Entries) /\ Len(x') = Len(x) + 1
      BY <1>0, <3>1
    <3> QED BY <2>2, <3>2
  <2> QED BY <2>1, <2>2
<1>14. ScanTypes'
  <2>1. \A p \in dead : p \notin Scan!Free
    BY DEF Scan!Free
  <2>2. \A p \in dead' : ~Runs(p)'
    BY <1>0, <1>12, <2>1 DEF ScanTypes, Runs
  <2> QED BY <1>0, <1>12, <1>13, <2>2 DEF ScanTypes
<1>15. EntriesApart'
  <2>1. \A j \in DOMAIN x : j # i => x[j].ino # e.ino /\ (e.pipe # 0 => x[j].pipe # e.pipe)
    BY <1>0 DEF EntriesApart
  <2> QED BY <1>0, <1>7, <1>11, <2>1 DEF EntriesApart
<1>16. \A j \in DOMAIN x', r \in ScanRoles :
         \/ j = i /\ r \in started /\ PidOf(x'[j], r) \in Scan!Free
         \/ j \in DOMAIN x /\ PidOf(x'[j], r) = PidOf(x[j], r)
         \/ PidOf(x'[j], r) = 0
  <2>1. \A r \in ScanRoles : e.pid = 0 /\ e.pidlog = 0 => PidOf(e, r) = 0
    BY DEF PidOf
  <2> QED BY <1>8, <1>9, <1>11, <2>1
<1>17. PidsApart'
  <2> SUFFICES ASSUME NEW j \in DOMAIN x', NEW k \in DOMAIN x', NEW r \in ScanRoles, NEW s \in ScanRoles,
                      PidOf(x'[j], r) # 0, PidOf(x'[j], r) = PidOf(x'[k], s)
               PROVE  j = k /\ r = s
    BY DEF PidsApart
  <2>1. CASE j = i /\ r \in started /\ k = i /\ s \in started
    BY <1>10, <1>11, <2>1
  <2>2. CASE PidOf(x'[j], r) = PidOf(x[j], r) /\ PidOf(x'[k], s) = PidOf(x[k], s) /\ j \in DOMAIN x /\ k \in DOMAIN x
    <3>1. PidOf(x[j], r) # 0 /\ PidOf(x[j], r) = PidOf(x[k], s)
      BY <2>2
    <3> QED BY <1>0, <2>2, <3>1 DEF PidsApart
  <2>3. ~(PidOf(x'[j], r) \in Scan!Free /\ k \in DOMAIN x /\ PidOf(x'[k], s) = PidOf(x[k], s))
    BY TakenPids
  <2>4. ~(PidOf(x'[k], s) \in Scan!Free /\ j \in DOMAIN x /\ PidOf(x'[j], r) = PidOf(x[j], r))
    BY TakenPids
  <2> QED BY <1>16, <2>1, <2>2, <2>3, <2>4
<1>18. Tracked'
  <2>1. ASSUME NEW j \in DOMAIN x', NEW r \in ScanRoles, PidOf(x'[j], r) # 0
        PROVE  \/ PidOf(x'[j], r) \in dead
               \/ procs'[PidOf(x'[j], r)] = [ino |-> x'[j].ino, role |-> r, pipe |-> x'[j].pipe]
    <3>1. CASE j = i /\ r \in started
      BY <1>7, <1>11, <1>12, <3>1 DEF program
    <3>2. CASE j \in DOMAIN x /\ PidOf(x'[j], r) = PidOf(x[j], r)
      <4>1. x'[j].ino = x[j].ino /\ x'[j].pipe = x[j].pipe
        BY <1>0, <1>7, <1>11, <3>2
      <4>2. procs'[PidOf(x[j], r)] = procs[PidOf(x[j], r)]
        BY <1>12, <2>1, <3>2, TakenPids
      <4> QED BY <1>0, <2>1, <3>2, <4>1, <4>2 DEF Tracked
    <3> QED BY <1>16, <2>1, <3>1, <3>2
  <2>2. ASSUME NEW q \in Scan!Pids, q \in dead \/ procs'[q] # None
        PROVE  \E j \in DOMAIN x', r \in ScanRoles : PidOf(x'[j], r) = q
    <3>1. CASE \E r \in started : q = PidOf(forked, r)
      BY <1>11, <3>1
    <3>2. CASE q \in dead \/ Runs(q)
      <4>1. PICK j \in DOMAIN x, r \in ScanRoles : PidOf(x[j], r) = q
        BY <1>0, <3>2 DEF Tracked
      <4>2. CASE j # i
        BY <1>11, <4>1, <4>2
      <4>3. CASE j = i
        <5>1. e = x[i] /\ PidOf(e, r) # 0
          BY <1>0, <4>1, <4>3, ScanNumbers
        <5>2. PidOf(forked, r) = q
          BY <1>1, <1>9, <4>1, <4>3, <5>1
        <5> QED BY <1>11, <5>2
      <4> QED BY <4>2, <4>3
    <3> QED BY <1>12, <2>2, <3>1, <3>2 DEF Runs
  <2> QED BY <2>1, <2>2 DEF Tracked, Runs
<1> QED BY <1>14, <1>15, <1>17, <1>18 DEF ScanInv

LEMMA StepScanRead == ASSUME ScanInv, Scan!Read PROVE ScanInv'
<1>0. ScanTypes /\ EntriesApart
  BY DEF ScanInv
<1>1. PICK n \in unread :
        /\ unread' = unread \ {n}
        /\ IF names[n] = None THEN UNCHANGED <<x, procs, fails>> ELSE Scan!Start(names[n])
  BY DEF Scan!Read
<1>2. /\ UNCHANGED <<scan_pc, names, dead>> /\ scan_pc' \in {"reap", "read", "sweep", "sleep"}
      /\ unread' \subseteq Listings /\ names' \in [Listings -> Folders \cup {None}]
      /\ Len(x) \in Nat /\ DOMAIN x = 1 .. Len(x) /\ Len(x) <= TableSize /\ x \in Seq(Entries)
  BY <1>0, <1>1 DEF Scan!Read, ScanTypes
<1>3. CASE UNCHANGED <<x, procs>>
  BY <1>2, <1>3, Unchanged
<1>4. ASSUME NEW d \in Folders, Scan!Entry(d) # {}, Scan!Start(d) PROVE ScanInv'
  <2>1. PICK i \in Scan!Entry(d), started \in SUBSET ScanRoles : Scan!Forks(i, x[i], started)
    BY <1>4, ScanNumbers DEF Scan!Start
  <2>2. i \in DOMAIN x /\ i \in 1 .. TableSize /\ x[i] \in Entries
    BY <1>2, ScanNumbers DEF Scan!Entry
  <2> QED BY <1>2, <2>1, <2>2, StepForks
<1>5. ASSUME NEW d \in Folders, Scan!Entry(d) = {}, Scan!Start(d), ~UNCHANGED <<x, procs>> PROVE ScanInv'
  <2>1. /\ Len(x) < TableSize
        /\ \E started \in SUBSET ScanRoles : Scan!Forks(Len(x) + 1, Scan!NewEntry(d), started)
    BY <1>5, ScanNumbers DEF Scan!Start
  <2>2. PICK started \in SUBSET ScanRoles : Scan!Forks(Len(x) + 1, Scan!NewEntry(d), started)
    BY <2>1
  <2> DEFINE e == Scan!NewEntry(d)
  <2>3. /\ e \in Entries /\ e.pid = 0 /\ e.pidlog = 0 /\ e.ino = d
        /\ e.pipe \in {0, Scan!NewPipe}
    BY NewPipeFree DEF Scan!NewEntry, Entries
  <2>4. \A j \in DOMAIN x : x[j].ino # e.ino /\ (e.pipe # 0 => x[j].pipe # e.pipe)
    BY <1>5, <2>3, NewPipeFree DEF Scan!Entry
  <2>5. Len(x) + 1 \in 1 .. TableSize
    BY <1>2, <2>1, ScanNumbers
  <2> HIDE DEF e
  <2> QED BY <1>2, <2>2, <2>3, <2>4, <2>5, StepForks DEF e
<1> QED BY <1>0, <1>1, <1>3, <1>4, <1>5 DEF ScanTypes

LEMMA StepScan == ASSUME ScanInv, [Scan!Next]_scanVars PROVE ScanInv'
<1>1. CASE UNCHANGED scanVars
  BY <1>1, Unchanged DEF scanVars, ScanInv, ScanTypes
<1>2. CASE Scan!EndRead \/ Scan!Sleep
  BY <1>2, Unchanged DEF ScanInv, ScanTypes, Scan!EndRead, Scan!Sleep
<1>3. CASE Scan!Change
  <2>1. names' \in [Listings -> Folders \cup {None}]
    BY <1>3 DEF ScanInv, ScanTypes, Scan!Change
  <2> QED BY <1>3, <2>1, Unchanged DEF ScanInv, ScanTypes, Scan!Change
<1> QED BY <1>1, <1>2, <1>3, StepScanReap, StepOpenDir, StepScanRead, StepSweep, StepScanDie
        DEF Scan!Next, Scan!Svscan

-----------------------------------------------------------------------------
ServicesInv ==
  /\ part \in {"supervise", "supervise without fork"} => KeeperInv
  /\ part = "svscan" => ScanInv

(* A service is what svstat says, and supervise leaves only without it and    *)
(* when told to; and svscan has one supervise for each directory and log,     *)
(* whose table entry it never loses, on one pipe. For any number of commands, *)
(* directories, deaths and failures, and for any size of the table.           *)
THEOREM AlwaysServicesKept == Spec => []ServicesKept
<1>1. Init => ServicesInv
  BY InitKeeper, InitScan, ServiceIsNoFork DEF Init, ServicesInv
<1>2. ServicesInv /\ [Next]_vars => ServicesInv'
  <2> SUFFICES ASSUME ServicesInv, [Next]_vars PROVE ServicesInv'
    OBVIOUS
  <2> USE DEF Next, vars, Supervises, Scans, Logs, TakesConnections, LooksUp, TalksSmtp, Greylists,
              TalksBack
  <2>1. ASSUME part \in {"supervise", "supervise without fork"} PROVE KeeperInv'
    <3>1. [NoFork!Next]_svVars
      BY <2>1, ServiceIsNoFork
    <3> QED BY <2>1, <3>1, StepKeeper DEF ServicesInv
  <2>2. ASSUME part = "svscan" PROVE ScanInv'
    <3>1. [Scan!Next]_scanVars
      BY <2>2
    <3> QED BY <2>2, <3>1, StepScan DEF ServicesInv
  <2> QED BY <2>1, <2>2, PartKept DEF ServicesInv
<1>3. KeeperInv => /\ NoFork!TypeOK /\ NoFork!StatusTells /\ NoFork!GoneIsAlone
                   /\ Service!TypeOK /\ Service!StatusTells /\ Service!GoneIsAlone
  BY KeeperPromises DEF NoFork!TypeOK, Service!TypeOK, NoFork!StatusTells, Service!StatusTells,
     NoFork!Alive, Service!Alive, NoFork!GoneIsAlone, Service!GoneIsAlone
<1>4. ServicesInv => ServicesKept
  BY <1>3, ScanPromises DEF ServicesInv, ServicesKept
<1> QED BY <1>1, <1>2, <1>4, PTL DEF Spec

-----------------------------------------------------------------------------
(* multilog *)

(* What multilog promises, in the composition, for any values of its          *)
(* constants.                                                                 *)
THEOREM AlwaysLogKept == Spec => []LogKept
<1> USE InstancesAssumption
<1>1. Init => (part = "multilog" => Log!LogInv)
  BY Log!InitLog DEF Init
<1>2. (part = "multilog" => Log!LogInv) /\ [Next]_vars => (part = "multilog" => Log!LogInv)'
  <2> SUFFICES ASSUME part = "multilog" => Log!LogInv, [Next]_vars, part' = "multilog" PROVE Log!LogInv'
    OBVIOUS
  <2>1. part = "multilog"
    BY PartKept
  <2>2. [Log!Next]_Log!vars
    BY <2>1 DEF Next, vars, Supervises, Scans, Logs, TakesConnections, LooksUp, TalksSmtp, Greylists,
                TalksBack, logVars, Log!vars
  <2> QED BY <2>1, <2>2, Log!StepLog
<1>3. (part = "multilog" => Log!LogInv) => LogKept
  BY Log!LogPromises DEF LogKept
<1> QED BY <1>1, <1>2, <1>3, PTL DEF Spec
=============================================================================
