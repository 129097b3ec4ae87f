----------------------------------- MODULE Cdb -----------------------------------
(***************************************************************************)
(* The constant database that rules.cdb and its like are: records are        *)
(* appended with cdb_make_add(), cdb_make_finish() writes hash tables twice  *)
(* as large as needed, and cdb_find() probes one of them.  A key may be      *)
(* added more than once, and keys may collide.                               *)
(***************************************************************************)
EXTENDS Naturals, SequencesExt

CONSTANTS
  Keys,
  Records,       \* bound on cdb_make_add()
  HPLIST,        \* entries of a block of the list: 1000 in the source
  Tables,        \* hash tables: 256 in the source
  Hashes         \* bound on h >> 8

CdbAssumption ==
  {Records, HPLIST, Tables, Hashes} \subseteq Nat \ {0}

VARIABLES
  hash,          \* [key |-> [table, high]], the function cdb_hash()
  records,       \* what has been added, its position being its index
  head,          \* the list of blocks of positions, newest first
  pc,            \* "make", "ready"
  tables,        \* [table |-> the positions in its slots, 0 being none]
  key, loop, found   \* of cdb_findnext()

vars == <<hash, records, head, pc, tables, key, loop, found>>

Init ==
  /\ hash \in [Keys -> [table : 0 .. Tables - 1, high : 0 .. Hashes]]
  /\ records = <<>> /\ head = <<>> /\ pc = "make" /\ tables = <<>>
  /\ key \in Keys /\ loop = 0 /\ found = <<>>

(* cdb_make_add(): a new block when the first one is full.                   *)
Add ==
  /\ pc = "make" /\ Len(records) < Records
  /\ \E k \in Keys : records' = Append(records, k)
  /\ LET p == Len(records) + 1
     IN head' = IF head = <<>> \/ Len(head[1]) >= HPLIST
                THEN <<<<p>>>> \o head ELSE [head EXCEPT ![1] = Append(@, p)]
  /\ UNCHANGED <<hash, pc, tables, key, loop, found>>

-----------------------------------------------------------------------------
(* cdb_make_finish() *)

In(t, p) == hash[records[p]].table = t
Count(t) == Cardinality({p \in DOMAIN records : In(t, p)})

(* A wrong version: walks the blocks forwards. *)
WalkForward == FlattenSeq([b \in DOMAIN head |-> head[b]])

(* split[--start[...]]: the blocks are walked backwards and filled from the  *)
(* end, which gives the order of the records again.                          *)
Walk == FlattenSeq([b \in DOMAIN head |-> Reverse(head[b])])
Split(t) == Reverse(SelectSeq(Walk, LAMBDA p : In(t, p)))

(* where: the first free slot from the hash on, round the end.               *)
Where(slots, p) ==
  LET len == Len(slots)
      at(n) == ((hash[records[p]].high + n) % len) + 1
      n == CHOOSE m \in 0 .. len - 1 : slots[at(m)] = 0 /\ \A l \in 0 .. m - 1 : slots[at(l)] # 0
  IN at(n)
(* A wrong version: tables as large as they are full. *)
TableSmall(t) ==
  FoldLeft(LAMBDA slots, p : [slots EXCEPT ![Where(slots, p)] = p], [i \in 1 .. Count(t) |-> 0], Split(t))

Table(t) ==
  FoldLeft(LAMBDA slots, p : [slots EXCEPT ![Where(slots, p)] = p], [i \in 1 .. 2 * Count(t) |-> 0], Split(t))

Finish ==
  /\ pc = "make" /\ pc' = "ready"
  /\ tables' = [t \in 0 .. Tables - 1 |-> Table(t)]
  /\ UNCHANGED <<hash, records, head, key, loop, found>>

-----------------------------------------------------------------------------
(* cdb_findnext(): a position, or 0 when there are no more.                  *)

hslots == Len(tables[hash[key].table])
kpos(n) == ((hash[key].high + n) % hslots) + 1
Slot(n) == tables[hash[key].table][kpos(n)]

(* The slots that findnext() looks at before it answers.                     *)
Hits == {n \in loop .. hslots - 1 : /\ Slot(n) # 0 /\ records[Slot(n)] = key
                                    /\ \A m \in loop .. n - 1 : Slot(m) # 0}
Ended == found # <<>> /\ Last(found) = 0
FindNext ==
  /\ pc = "ready" /\ ~Ended
  /\ IF Hits = {} THEN found' = Append(found, 0) /\ UNCHANGED loop
     ELSE LET n == CHOOSE m \in Hits : \A l \in Hits : m <= l
          IN found' = Append(found, Slot(n)) /\ loop' = n + 1
  /\ UNCHANGED <<hash, records, head, pc, tables, key>>

Next == Add \/ Finish \/ FindNext
Spec == Init /\ [][Next]_vars

-----------------------------------------------------------------------------
TypeOK ==
  /\ pc \in {"make", "ready"} /\ Len(records) <= Records /\ loop \in 0 .. 2 * Records
  /\ \A b \in DOMAIN head : Len(head[b]) \in 1 .. HPLIST

(* What findnext() returns, one by one, is every record of the key, in the   *)
(* order they were added: the first rule that was written is the one that    *)
(* counts.                                                                   *)
FindsAll ==
  Ended =>
    Front(found) = SelectSeq([i \in DOMAIN records |-> i], LAMBDA p : records[p] = key)

(* A table always has a free slot, so that every search ends.                *)
HalfEmpty ==
  pc = "ready" => \A t \in DOMAIN tables :
    Cardinality({i \in DOMAIN tables[t] : tables[t][i] = 0}) * 2 = Len(tables[t])
=============================================================================
