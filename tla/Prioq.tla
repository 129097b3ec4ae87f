-------------------------------- MODULE Prioq --------------------------------
(***************************************************************************)
(* prioq.c: a heap in an array.  An element is a record with a field dt.     *)
(* The loops of prioq_insert() and prioq_delmin() move a hole along a path   *)
(* of the tree: the path is computed here, then the elements on it move.    *)
(***************************************************************************)
EXTENDS Integers, FiniteSets, FiniteSetsExt, Bags

CONSTANTS Elements, Cap      \* Cap: bound on the length
PrioqAssumption == Cap \in Nat /\ Elements \subseteq [dt : Int, id : Nat]

VARIABLE pq                  \* a function on 0 .. len - 1

Length(q) == Cardinality(DOMAIN q)
Up(j) == (j - 1) \div 2

(* A wrong version: the new element may rise above an earlier one. *)
RisesTooFar(q, e) ==
  LET n == Length(q)
      from[j \in 0 .. n] ==
        IF j = 0 \/ q[Up(j)].dt < e.dt - 1 THEN {j} ELSE {j} \cup from[Up(j)]
  IN  from[n]

(* The positions that the hole of prioq_insert() takes on its way up.       *)
Rises(q, e) ==
  LET n == Length(q)
      from[j \in 0 .. n] ==
        IF j = 0 \/ q[Up(j)].dt <= e.dt THEN {j} ELSE {j} \cup from[Up(j)]
  IN  from[n]

Inserted(q, e) ==
  LET path == Rises(q, e) IN
  [k \in 0 .. Length(q) |->
     CASE k = Min(path) -> e
       [] k \in path /\ k # Min(path) -> q[Up(k)]
       [] OTHER -> q[k]]

(* A wrong version: the last pair of children is not looked at. *)
SinksShort(q) ==
  LET n == Length(q) - 1
      from[i \in 0 .. n] ==
        LET r == i + i + 2
            j == IF r <= n /\ q[r - 1].dt <= q[r].dt THEN r - 1 ELSE r
        IN  IF r >= n \/ q[n].dt <= q[j].dt THEN {i} ELSE {i} \cup from[j]
  IN  from[0]

(* The positions that the hole of prioq_delmin() takes on its way down.     *)
Sinks(q) ==
  LET n == Length(q) - 1
      from[i \in 0 .. n] ==
        LET r == i + i + 2
            j == IF r <= n /\ q[r - 1].dt <= q[r].dt THEN r - 1 ELSE r
        IN  IF r > n \/ q[n].dt <= q[j].dt THEN {i} ELSE {i} \cup from[j]
  IN  from[0]

WithoutMin(q) ==
  LET n == Length(q) - 1
      path == Sinks(q) IN
  [k \in 0 .. n - 1 |->
     CASE k = Max(path) -> q[n]
       [] k \in path /\ k # Max(path) -> q[Min({i \in path : i > k})]
       [] OTHER -> q[k]]

Contents(q) == [e \in {q[k] : k \in DOMAIN q} |-> Cardinality({k \in DOMAIN q : q[k] = e})]

Ids(q) == [k \in {q[i].id : i \in DOMAIN q} |-> Cardinality({i \in DOMAIN q : q[i].id = k})]

Empty == [k \in {} |-> 0]
Init == pq = Empty

Insert(e) == Length(pq) < Cap /\ pq' = Inserted(pq, e)
DelMin == Length(pq) > 0 /\ pq' = WithoutMin(pq)

(* pqrun(): every entry becomes due.                                        *)
RunAll(t) == pq' = [k \in DOMAIN pq |-> [pq[k] EXCEPT !.dt = t]]

Next ==
  \/ \E e \in Elements : Insert(e)
  \/ DelMin
  \/ \E e \in Elements : RunAll(e.dt)

Spec == Init /\ [][Next]_pq

-----------------------------------------------------------------------------
(* What the callers rely on: a bag that gives its least element first.      *)
Least(q) == {e \in DOMAIN Contents(q) : \A f \in DOMAIN Contents(q) : e.dt <= f.dt}

(* No element is lost, doubled or given out before an earlier one, whatever *)
(* the order of calls and however many elements have the same time: each    *)
(* step of the array is the step of a bag of elements.                      *)
BagOfElements ==
  [][\/ \E e \in Elements : Contents(pq') = Contents(pq) (+) SetToBag({e})
     \/ \E e \in Least(pq) : Contents(pq') = Contents(pq) (-) SetToBag({e})
     \/ \E e \in Elements :
          /\ \A f \in DOMAIN Contents(pq') : f.dt = e.dt
          /\ Ids(pq') = Ids(pq)]_pq

(* prioq_min() reads p[0]: a due entry is never hidden behind one that is   *)
(* not due, or select() would sleep past it.                                *)
MinOnTop == Length(pq) > 0 => pq[0] \in Least(pq)
=============================================================================
