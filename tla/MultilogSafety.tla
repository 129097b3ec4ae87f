---------------------------- MODULE MultilogSafety ----------------------------
(***************************************************************************)
(* What multilog promises for any sizes and numbers of files, any lines,     *)
(* kills and crashes, with a processor and without: each byte is kept once   *)
(* and in order, what is marked safe is on disk, a log ends between lines.   *)
(***************************************************************************)
EXTENDS Multilog, SequenceTheorems, WellFoundedInduction, TLAPS

LEMMA LeastExists ==
  ASSUME NEW S \in SUBSET Nat, S # {}
  PROVE  \E m \in S : \A n \in S : m <= n
<1>1. \E m \in S : \A n \in S : ~(<<n, m>> \in OpToRel(<, Nat))
  BY NatLessThanWellFounded, WFMin
<1>2. PICK m \in S : \A n \in S : ~(<<n, m>> \in OpToRel(<, Nat))
  BY <1>1
<1>3. ASSUME NEW n \in S PROVE m <= n
  <2>1. ~(n < m)
    BY <1>2 DEF OpToRel
  <2> QED BY <2>1
<1> QED BY <1>3

-----------------------------------------------------------------------------
(* The log in several files *)

Bytes == Seq(Nat)

LEMMA Joined ==
  ASSUME NEW a \in Bytes, NEW b \in Bytes
  PROVE  /\ a \o b \in Bytes /\ Len(a) \in Nat /\ Len(b) \in Nat /\ Len(a \o b) = Len(a) + Len(b)
         /\ \A i \in 1 .. Len(a) : (a \o b)[i] = a[i]
         /\ \A i \in 1 .. Len(b) : (a \o b)[Len(a) + i] = b[i]
<1>1. /\ a \o b \in Seq(Nat) /\ Len(a \o b) = Len(a) + Len(b)
      /\ \A i \in 1 .. Len(a) + Len(b) : (a \o b)[i] = IF i <= Len(a) THEN a[i] ELSE b[i - Len(a)]
  BY ConcatProperties DEF Bytes
<1>2. Len(a) \in Nat /\ Len(b) \in Nat
  BY DEF Bytes
<1> DEFINE c == a \o b
<1> HIDE DEF c
<1>3. /\ c \in Seq(Nat) /\ Len(c) = Len(a) + Len(b)
      /\ \A i \in 1 .. Len(a) + Len(b) : c[i] = IF i <= Len(a) THEN a[i] ELSE b[i - Len(a)]
  BY <1>1 DEF c
<1>4. \A i \in 1 .. Len(a) : c[i] = a[i]
  BY <1>2, <1>3
<1>5. ASSUME NEW i \in 1 .. Len(b) PROVE c[Len(a) + i] = b[i]
  <2>1. Len(a) + i \in 1 .. Len(a) + Len(b) /\ ~(Len(a) + i <= Len(a)) /\ (Len(a) + i) - Len(a) = i
    BY <1>2
  <2> QED BY <1>3, <2>1
<1>6. c \in Bytes
  BY <1>3 DEF Bytes
<1> QED BY <1>2, <1>3, <1>4, <1>5, <1>6 DEF c

LEMMA Assoc ==
  ASSUME NEW a \in Bytes, NEW b \in Bytes, NEW c \in Bytes
  PROVE  (a \o b) \o c = a \o (b \o c)
<1> DEFINE ab == a \o b
           bc == b \o c
<1>1. /\ ab \in Bytes /\ Len(ab) = Len(a) + Len(b)
      /\ \A i \in 1 .. Len(a) : ab[i] = a[i]
      /\ \A i \in 1 .. Len(b) : ab[Len(a) + i] = b[i]
      /\ bc \in Bytes /\ Len(bc) = Len(b) + Len(c)
      /\ \A i \in 1 .. Len(b) : bc[i] = b[i]
      /\ \A i \in 1 .. Len(c) : bc[Len(b) + i] = c[i]
      /\ Len(a) \in Nat /\ Len(b) \in Nat /\ Len(c) \in Nat
  BY Joined
<1> HIDE DEF ab, bc
<1> DEFINE l == ab \o c
           r == a \o bc
<1>2. /\ l \in Bytes /\ Len(l) = Len(ab) + Len(c)
      /\ \A i \in 1 .. Len(ab) : l[i] = ab[i]
      /\ \A i \in 1 .. Len(c) : l[Len(ab) + i] = c[i]
  BY <1>1, Joined
<1>3. /\ r \in Bytes /\ Len(r) = Len(a) + Len(bc)
      /\ \A i \in 1 .. Len(a) : r[i] = a[i]
      /\ \A i \in 1 .. Len(bc) : r[Len(a) + i] = bc[i]
  BY <1>1, Joined
<1> HIDE DEF l, r
<1>4. Len(l) = Len(r) /\ Len(l) = Len(a) + Len(b) + Len(c)
  BY <1>1, <1>2, <1>3
<1>5. ASSUME NEW i \in 1 .. Len(l) PROVE l[i] = r[i]
  <2>1. CASE i \in 1 .. Len(a)
    <3>1. i \in 1 .. Len(ab)
      BY <1>1, <2>1
    <3> QED BY <1>1, <1>2, <1>3, <2>1, <3>1
  <2>2. ASSUME NEW j \in 1 .. Len(b), i = Len(a) + j PROVE l[i] = r[i]
    <3>1. i \in 1 .. Len(ab) /\ j \in 1 .. Len(bc)
      BY <1>1, <2>2
    <3> QED BY <1>1, <1>2, <1>3, <2>2, <3>1
  <2>3. ASSUME NEW j \in 1 .. Len(c), i = Len(a) + Len(b) + j PROVE l[i] = r[i]
    <3>1. i = Len(ab) + j /\ Len(b) + j \in 1 .. Len(bc) /\ i = Len(a) + (Len(b) + j)
      BY <1>1, <2>3
    <3>2. l[i] = c[j]
      BY <1>2, <3>1
    <3>3. r[i] = bc[Len(b) + j]
      BY <1>3, <3>1
    <3>4. bc[Len(b) + j] = c[j]
      BY <1>1
    <3> QED BY <3>2, <3>3, <3>4
  <2>4. \/ i \in 1 .. Len(a) \/ i - Len(a) \in 1 .. Len(b)
        \/ i - (Len(a) + Len(b)) \in 1 .. Len(c)
    BY <1>1, <1>4
  <2>5. i = Len(a) + (i - Len(a)) /\ i = Len(a) + Len(b) + (i - (Len(a) + Len(b)))
    BY <1>1, <1>4
  <2> QED BY <2>1, <2>2, <2>3, <2>4, <2>5
<1>6. l = r
  <2>1. l \in Seq(Nat) /\ r \in Seq(Nat)
    BY <1>2, <1>3 DEF Bytes
  <2> QED BY <1>4, <1>5, <2>1, SeqEqual
<1> QED BY <1>6 DEF l, r, ab, bc

(* g[i] is the first i of the sequences s in one.                             *)
Flattens(g, s, n) == \A i \in 1 .. n : g[i] = (IF i = 1 THEN s[i] ELSE g[i - 1] \o s[i])

(* A property of numbers holds of all if it fails for no least one.           *)
LEMMA NoLeast ==
  ASSUME NEW S, NEW n \in Nat,
         \A m \in 1 .. n : (\A k \in 1 .. m - 1 : k \in S) => m \in S
  PROVE  \A m \in 1 .. n : m \in S
<1> SUFFICES ASSUME (1 .. n) \ S # {} PROVE FALSE
  OBVIOUS
<1> DEFINE T == (1 .. n) \ S
<1>0. T \in SUBSET Nat /\ T # {}
  OBVIOUS
<1> HIDE DEF T
<1>a. PICK m \in T : \A k \in T : m <= k
  BY <1>0, LeastExists
<1>1. m \in (1 .. n) \ S /\ \A k \in (1 .. n) \ S : m <= k
  BY <1>a DEF T
<1>2. \A k \in 1 .. m - 1 : k \in S
  BY <1>1
<1> QED BY <1>1, <1>2

LEMMA FlattenUnique ==
  ASSUME NEW g, NEW h, NEW s, NEW u, NEW n \in Nat,
         Flattens(g, s, n), Flattens(h, u, n), \A i \in 1 .. n : s[i] = u[i]
  PROVE  \A i \in 1 .. n : g[i] = h[i]
<1> DEFINE S == {i \in 1 .. n : g[i] = h[i]}
<1>1. ASSUME NEW m \in 1 .. n, \A k \in 1 .. m - 1 : k \in S PROVE m \in S
  <2>1. CASE m = 1
    BY <2>1 DEF Flattens
  <2>2. CASE m # 1
    <3>1. m - 1 \in 1 .. m - 1
      BY <2>2
    <3>2. g[m - 1] = h[m - 1]
      BY <1>1, <3>1
    <3>3. g[m] = g[m - 1] \o s[m] /\ h[m] = h[m - 1] \o u[m]
      BY <2>2 DEF Flattens
    <3> QED BY <3>2, <3>3
  <2> QED BY <2>1, <2>2
<1> HIDE DEF S
<1>2. \A m \in 1 .. n : m \in S
  BY <1>1, NoLeast
<1> QED BY <1>2 DEF S

LEMMA FlattenExists ==
  ASSUME NEW s \in Seq(Bytes), NEW n \in 0 .. Len(s)
  PROVE  \E g \in [1 .. n -> Bytes] : Flattens(g, s, n)
<1> DEFINE S == {m \in 1 .. Len(s) : \E g \in [1 .. m -> Bytes] : Flattens(g, s, m)}
<1>1. ASSUME NEW m \in 1 .. Len(s), \A k \in 1 .. m - 1 : k \in S PROVE m \in S
  <2>1. CASE m = 1
    <3> DEFINE g == [i \in 1 .. 1 |-> s[i]]
    <3>1. g \in [1 .. m -> Bytes] /\ Flattens(g, s, m)
      BY <2>1 DEF Flattens
    <3> QED BY <3>1
  <2>2. CASE m # 1
    <3>1. m - 1 \in 1 .. m - 1
      BY <2>2
    <3>2. PICK h \in [1 .. m - 1 -> Bytes] : Flattens(h, s, m - 1)
      BY <1>1, <3>1
    <3> DEFINE top == h[m - 1] \o s[m]
               g == [i \in 1 .. m |-> IF i = m THEN top ELSE h[i]]
    <3>3. top \in Bytes
      BY <3>1, ConcatProperties DEF Bytes
    <3>a. top = h[m - 1] \o s[m]
      OBVIOUS
    <3> HIDE DEF top
    <3>4. g \in [1 .. m -> Bytes]
      BY <3>3
    <3>b. g[m] = top /\ \A i \in 1 .. m - 1 : g[i] = h[i]
      OBVIOUS
    <3> HIDE DEF g
    <3>5. ASSUME NEW i \in 1 .. m PROVE g[i] = (IF i = 1 THEN s[i] ELSE g[i - 1] \o s[i])
      <4>1. CASE i = m
        <5>1. m - 1 \in 1 .. m - 1
          BY <2>2
        <5> QED BY <2>2, <3>a, <3>b, <4>1, <5>1
      <4>2. CASE i # m
        <5>1. i \in 1 .. m - 1 /\ (i # 1 => i - 1 \in 1 .. m - 1)
          BY <4>2
        <5>2. h[i] = (IF i = 1 THEN s[i] ELSE h[i - 1] \o s[i])
          BY <3>2, <5>1 DEF Flattens
        <5>3. g[i] = h[i] /\ (i # 1 => g[i - 1] = h[i - 1])
          BY <3>b, <5>1
        <5> QED BY <5>2, <5>3
      <4> QED BY <4>1, <4>2
    <3> QED BY <3>4, <3>5 DEF Flattens
  <2> QED BY <2>1, <2>2
<1> HIDE DEF S
<1>2. \A m \in 1 .. Len(s) : m \in S
  <2>1. Len(s) \in Nat
    OBVIOUS
  <2> QED BY <1>1, <2>1, NoLeast
<1>3. CASE n = 0
  <2> DEFINE g == [i \in 1 .. 0 |-> <<>>]
  <2>1. g \in [1 .. 0 -> Bytes] /\ Flattens(g, s, 0)
    BY DEF Flattens
  <2> QED BY <1>3, <2>1
<1> QED BY <1>2, <1>3 DEF S

LEMMA FlattenIs ==
  ASSUME NEW s \in Seq(Bytes), s # <<>>, NEW g \in [1 .. Len(s) -> Bytes], Flattens(g, s, Len(s))
  PROVE  FlattenSeq(s) = g[Len(s)]
<1> DEFINE P(f) == f = [i \in 1 .. Len(s) |-> IF i = 1 THEN s[i] ELSE f[i - 1] \o s[i]]
           f == CHOOSE f : P(f)
<1>1. Len(s) \in Nat /\ Len(s) # 0
  OBVIOUS
<1>2. P(g)
  BY <1>1 DEF Flattens
<1>3. P(f)
  BY <1>2
<1>4. FlattenSeq(s) = f[Len(s)]
  BY <1>1 DEF FlattenSeq
<1> HIDE DEF f
<1>5. Flattens(f, s, Len(s))
  BY <1>3 DEF Flattens
<1>6. f[Len(s)] = g[Len(s)]
  BY <1>1, <1>5, FlattenUnique
<1> QED BY <1>4, <1>6

LEMMA FlattenBytes ==
  ASSUME NEW s \in Seq(Bytes)
  PROVE  FlattenSeq(s) \in Bytes
<1>1. CASE s = <<>>
  BY <1>1 DEF FlattenSeq, Bytes
<1>2. CASE s # <<>>
  <2>1. PICK g \in [1 .. Len(s) -> Bytes] : Flattens(g, s, Len(s))
    BY FlattenExists
  <2>2. FlattenSeq(s) = g[Len(s)] /\ Len(s) \in 1 .. Len(s)
    BY <1>2, <2>1, FlattenIs
  <2> QED BY <2>1, <2>2
<1> QED BY <1>1, <1>2

LEMMA FlattenAppend ==
  ASSUME NEW s \in Seq(Bytes), NEW d \in Bytes
  PROVE  FlattenSeq(Append(s, d)) = FlattenSeq(s) \o d
<1> DEFINE n == Len(s)
           u == Append(s, d)
<1>1. /\ u \in Seq(Bytes) /\ Len(u) = n + 1 /\ n \in Nat /\ n = Len(s) /\ u # <<>>
      /\ u[n + 1] = d /\ \A i \in 1 .. n : u[i] = s[i]
  BY AppendProperties
<1> HIDE DEF n, u
<1>2. PICK g \in [1 .. Len(u) -> Bytes] : Flattens(g, u, Len(u))
  BY <1>1, FlattenExists
<1>3. FlattenSeq(u) = g[n + 1]
  BY <1>1, <1>2, FlattenIs
<1>4. CASE s = <<>>
  <2>1. n = 0 /\ g[1] = u[1]
    BY <1>1, <1>2, <1>4 DEF Flattens
  <2>2. FlattenSeq(s) = <<>>
    BY <1>4 DEF FlattenSeq
  <2>3. <<>> \o d = d
    BY ConcatEmptySeq DEF Bytes
  <2> QED BY <1>1, <1>3, <2>1, <2>2, <2>3 DEF u
<1>5. CASE s # <<>>
  <2>0. n \in 1 .. n /\ n + 1 \in 1 .. n + 1 /\ n + 1 # 1 /\ (n + 1) - 1 = n
    BY <1>1, <1>5
  <2>a. Len(s) \in 0 .. Len(s)
    BY <1>1
  <2>b. PICK h \in [1 .. Len(s) -> Bytes] : Flattens(h, s, Len(s))
    BY <2>a, FlattenExists
  <2>1. h \in [1 .. n -> Bytes] /\ Flattens(h, s, n)
    BY <1>1, <2>b
  <2>2. FlattenSeq(s) = h[n]
    <3>1. FlattenSeq(s) = h[Len(s)]
      BY <1>5, <2>b, FlattenIs
    <3> QED BY <1>1, <3>1
  <2>3. Flattens(g, u, n) /\ g[n + 1] = g[n] \o u[n + 1]
    <3>1. \A i \in 1 .. n + 1 : g[i] = (IF i = 1 THEN u[i] ELSE g[i - 1] \o u[i])
      BY <1>1, <1>2 DEF Flattens
    <3>2. \A i \in 1 .. n : i \in 1 .. n + 1
      BY <1>1
    <3>3. g[n + 1] = g[(n + 1) - 1] \o u[n + 1]
      BY <2>0, <3>1
    <3> QED BY <2>0, <3>1, <3>2, <3>3 DEF Flattens
  <2>4. g[n] = h[n]
    <3>1. \A i \in 1 .. n : g[i] = h[i]
      <4>1. \A i \in 1 .. n : u[i] = s[i]
        BY <1>1
      <4>2. n \in Nat /\ Flattens(g, u, n) /\ Flattens(h, s, n)
        BY <1>1, <2>1, <2>3
      <4> QED BY <4>1, <4>2, FlattenUnique
    <3> QED BY <2>0, <3>1
  <2> QED BY <1>1, <1>3, <2>2, <2>3, <2>4 DEF u
<1> QED BY <1>4, <1>5

LEMMA FlattenTail ==
  ASSUME NEW s \in Seq(Bytes), s # <<>>
  PROVE  FlattenSeq(s) = Head(s) \o FlattenSeq(Tail(s))
<1> DEFINE n == Len(s)
           u == Tail(s)
<1>1. /\ u \in Seq(Bytes) /\ Len(u) = n - 1 /\ n = Len(s) /\ n \in Nat \ {0} /\ Head(s) = s[1] /\ s[1] \in Bytes
      /\ \A i \in 1 .. n - 1 : u[i] = s[i + 1]
  BY HeadTailProperties
<1>2. PICK g \in [1 .. n -> Bytes] : Flattens(g, s, n)
  BY FlattenExists
<1>3. FlattenSeq(s) = g[n]
  BY <1>2, FlattenIs
<1> HIDE DEF n, u
<1>4. CASE n = 1
  <2>1. u = <<>>
    BY <1>1, <1>4
  <2>2. FlattenSeq(u) = <<>>
    BY <2>1 DEF FlattenSeq
  <2>3. g[1] = s[1]
    BY <1>4, <1>2 DEF Flattens
  <2>4. s[1] \o <<>> = s[1]
    BY <1>1, ConcatEmptySeq DEF Bytes
  <2> QED BY <1>1, <1>3, <1>4, <2>2, <2>3, <2>4 DEF u
<1>5. CASE n # 1
  <2>0. n - 1 \in Nat \ {0} /\ u # <<>>
    BY <1>1, <1>5
  <2>1. PICK h \in [1 .. n - 1 -> Bytes] : Flattens(h, u, n - 1)
    <3>1. n - 1 \in 0 .. Len(u)
      BY <1>1, <2>0
    <3> QED BY <1>1, <3>1, FlattenExists
  <2>2. FlattenSeq(u) = h[n - 1]
    BY <1>1, <2>0, <2>1, FlattenIs
  <2> DEFINE S == {i \in 1 .. n - 1 : g[i + 1] = s[1] \o h[i]}
  <2>3. ASSUME NEW m \in 1 .. n - 1, \A k \in 1 .. m - 1 : k \in S PROVE m \in S
    <3>1. g[m + 1] = g[m] \o s[m + 1] /\ u[m] = s[m + 1]
      <4>1. m + 1 \in 1 .. n /\ m + 1 # 1 /\ (m + 1) - 1 = m
        BY <1>1, <2>0
      <4>2. g[m + 1] = g[(m + 1) - 1] \o s[m + 1]
        BY <1>2, <4>1 DEF Flattens
      <4> QED BY <1>1, <4>1, <4>2
    <3>2. CASE m = 1
      <4>1. 1 \in 1 .. n /\ 1 \in 1 .. n - 1
        BY <1>1, <2>0
      <4>2. g[1] = s[1] /\ h[1] = u[1]
        BY <1>2, <2>1, <4>1 DEF Flattens
      <4> QED BY <3>1, <3>2, <4>2
    <3>3. CASE m # 1
      <4>0. m - 1 \in 1 .. m - 1 /\ m - 1 \in 1 .. n - 1 /\ (m - 1) + 1 = m
        BY <1>1, <2>0, <3>3
      <4>1. g[m] = s[1] \o h[m - 1]
        <5>1. m - 1 \in S
          BY <2>3, <4>0
        <5>2. g[(m - 1) + 1] = s[1] \o h[m - 1]
          BY <5>1
        <5> QED BY <4>0, <5>2
      <4>2. h[m] = h[m - 1] \o u[m]
        BY <2>1, <3>3 DEF Flattens
      <4>3. h[m - 1] \in Bytes /\ u[m] \in Bytes
        BY <1>1, <2>1, <4>0
      <4>4. (s[1] \o h[m - 1]) \o u[m] = s[1] \o (h[m - 1] \o u[m])
        BY <1>1, <4>3, Assoc
      <4> QED BY <3>1, <4>1, <4>2, <4>4
    <3> QED BY <3>2, <3>3
  <2> HIDE DEF S
  <2>4. \A m \in 1 .. n - 1 : m \in S
    BY <2>0, <2>3, NoLeast
  <2>5. g[n] = s[1] \o h[n - 1]
    <3>1. n - 1 \in 1 .. n - 1
      BY <1>1, <2>0
    <3>2. g[(n - 1) + 1] = s[1] \o h[n - 1]
      <4>1. n - 1 \in S
        BY <2>4, <3>1
      <4> QED BY <4>1 DEF S
    <3>3. (n - 1) + 1 = n
      BY <1>1
    <3> QED BY <3>2, <3>3
  <2> QED BY <1>1, <1>3, <2>2, <2>5 DEF u
<1> QED BY <1>4, <1>5

-----------------------------------------------------------------------------
(* multilog *)

LogFile == [there : BOOLEAN, data : Bytes, synced : Nat, mark : BOOLEAN, cut : BOOLEAN]
OldFile == [data : Bytes, synced : Nat, code : {"s", "u"}, cut : BOOLEAN]
OnDisk(f) == f.synced = Len(f.data) /\ ~f.cut
Absent(n) == file[n] = Gone

ServiceTypes ==
  /\ processor \in BOOLEAN /\ exitasap \in BOOLEAN
  /\ written \in 0 .. 2 * Lines /\ got \in Nat /\ got <= written /\ kills \in 0 .. Kills
  /\ crashes \in 0 .. Crashes /\ buf \in Bytes /\ logged \in Bytes

DirTypes ==
  /\ pc \in {"run", "link", "unlink", "fit", "full1", "full2", "full3", "process", "psync", "pmark",
                 "punlink", "r1", "r2", "r3", "quit", "mark", "exited"}
  /\ fin \in [file : Names, code : {"s", "u"}, to : {"run", "r2", "r3"}]
  /\ file \in [Names -> LogFile] /\ linked \in Names \cup {"none"}
  /\ old \in Seq(OldFile) /\ dropped \in Bytes
  /\ \A n \in Names : file[n].synced <= Len(file[n].data)
  /\ \A i \in DOMAIN old : old[i].synced <= Len(old[i].data)

(* What a new multilog finds, whenever the last one was stopped.              *)
Restartable ==
  /\ \A n \in Names : ~file[n].there => Absent(n)
  /\ linked # "none" => file[linked].there /\ old # <<>>
  /\ linked = "current" => Absent("previous") /\ Absent("processed")
  /\ linked = "previous" => ~file["processed"].mark
  /\ linked = "processed" => file["processed"].mark /\ Absent("previous") /\ old[Len(old)].code = "s"
  /\ file["processed"].mark => OnDisk(file["processed"])
  /\ file["current"].mark =>
       Absent("previous") /\ Absent("processed") /\ linked = "none" /\ OnDisk(file["current"])

Logging ==
  pc \in {"run", "full1", "full2", "quit", "mark", "exited"} =>
    /\ file["current"].there /\ ~file["current"].cut /\ linked = "none"
    /\ Absent("previous") /\ Absent("processed")
    /\ pc \in {"full2", "mark", "exited"} => OnDisk(file["current"])
    /\ file["current"].mark <=> pc = "exited"

Rotating ==
  /\ pc \in {"full3", "process", "psync", "pmark", "punlink"} =>
       /\ file["previous"].there /\ OnDisk(file["previous"]) /\ linked = "none"
       /\ IF pc = "full3" THEN Absent("current") /\ Absent("processed") ELSE file["current"] = New
       /\ file["processed"].mark <=> pc = "punlink"
  /\ pc \in {"psync", "pmark", "punlink"} =>
       /\ file["processed"].there /\ file["processed"].data = file["previous"].data
       /\ ~file["processed"].cut
       /\ pc # "psync" => OnDisk(file["processed"])

Others(n) == \A m \in {"previous", "processed"} \ {n} : Absent(m)

Finishing ==
  /\ pc \in {"link", "unlink", "fit"} =>
       /\ Others(fin.file)
       /\ (fin.to = "r3") <=> (fin.file = "current")
       /\ fin.to = "run" => file["current"] = New
       /\ ~file["current"].mark
  /\ pc = "link" =>
       /\ linked \in {"none", fin.file} \/ (linked = "current" /\ fin.to = "r2" /\ Absent(fin.file))
       /\ file[fin.file].there /\ fin.code = "s" => OnDisk(file[fin.file])
       /\ fin.file = "processed" => fin.code = "s" /\ file["processed"].mark
  /\ pc = "unlink" => linked = fin.file
  /\ pc = "fit" => linked = "none" /\ Absent(fin.file)
  /\ pc = "r2" => Absent("previous") /\ Absent("processed") /\ ~file["current"].mark
  /\ pc = "r3" => \A n \in Names : Absent(n)

Room ==
  IF pc \in {"unlink", "fit"} THEN Len(old) <= Num + kills + crashes
                                  ELSE Len(old) < Num + kills + crashes

Whole ==
  /\ pc \in {"quit", "mark", "exited"} => buf = <<>>
  /\ kills = 0 /\ crashes = 0 =>
       NothingLost /\ (buf = <<>> => got % 2 = 0)

LogInv == ServiceTypes /\ DirTypes /\ Restartable /\ Logging /\ Rotating /\ Finishing /\ Room /\ Whole
          /\ SafeIsWhole /\ KeptOnce

LEMMA LogNumbers ==
  ASSUME MultilogAssumption
  PROVE  /\ Size \in Nat /\ Slack \in Nat /\ Num \in Nat /\ Lines \in Nat /\ Kills \in Nat
         /\ Crashes \in Nat /\ Num >= 2 /\ 2 <= Slack /\ Slack < Size
BY DEF MultilogAssumption

(* Where the log is: removed, in old files, in the file that is to become one, *)
(* in current.                                                                *)
Datas(os) == [i \in 1 .. Len(os) |-> os[i].data]
Middle(fs, l) ==
  IF fs["processed"].mark
  THEN (IF l = "processed" THEN <<>> ELSE fs["processed"].data)
  ELSE (IF l = "previous" THEN <<>> ELSE fs["previous"].data)
Newest(fs, l) == IF l = "current" THEN <<>> ELSE fs["current"].data

LEMMA KeptParts ==
  ASSUME NEW fs \in [Names -> LogFile], NEW os \in Seq(OldFile), NEW l
  PROVE  /\ Datas(os) \in Seq(Bytes) /\ FlattenSeq(Datas(os)) \in Bytes
         /\ Middle(fs, l) \in Bytes /\ Newest(fs, l) \in Bytes
<1>1. Datas(os) \in Seq(Bytes)
  <2>1. Len(os) \in Nat /\ \A i \in 1 .. Len(os) : os[i] \in OldFile
    OBVIOUS
  <2>2. \A i \in 1 .. Len(os) : os[i].data \in Bytes
    BY <2>1 DEF OldFile
  <2> QED BY <2>1, <2>2 DEF Datas
<1>2. fs["processed"].data \in Bytes /\ fs["previous"].data \in Bytes /\ fs["current"].data \in Bytes
      /\ <<>> \in Bytes
  BY DEF Names, LogFile, Bytes
<1> QED BY <1>1, <1>2, FlattenBytes DEF Middle, Newest

LEMMA KeptIs ==
  ASSUME NEW fs \in [Names -> LogFile], NEW os \in Seq(OldFile), NEW l, NEW dr \in Bytes
  PROVE  /\ Kept(fs, os, l, dr) =
              (dr \o FlattenSeq(Datas(os))) \o (Middle(fs, l) \o Newest(fs, l))
         /\ Kept(fs, os, l, dr) \in Bytes
<1> DEFINE o == FlattenSeq(Datas(os))
           m == Middle(fs, l)
           n == Newest(fs, l)
<1>1. Kept(fs, os, l, dr) = ((dr \o o) \o m) \o n
  BY DEF Kept, Datas, Middle, Newest
<1> DEFINE d == dr \o o
<1>2. o \in Bytes /\ m \in Bytes /\ n \in Bytes
  BY KeptParts
<1> HIDE DEF o, m, n
<1>3. dr \o o \in Bytes /\ ((dr \o o) \o m) \o n \in Bytes
  <2>1. dr \o o \in Bytes
    BY <1>2, Joined
  <2>2. (dr \o o) \o m \in Bytes
    BY <1>2, <2>1, Joined
  <2> QED BY <1>2, <2>1, <2>2, Joined
<1> HIDE DEF d
<1>4. (d \o m) \o n = d \o (m \o n)
  BY <1>2, <1>3, Assoc DEF d
<1> QED BY <1>1, <1>3, <1>4 DEF d, o, m, n

(* The data of a file that becomes an old one is kept,                        *)
LEMMA LinkKept ==
  ASSUME NEW fs \in [Names -> LogFile], NEW os \in Seq(OldFile), NEW e \in OldFile,
         NEW l, NEW l2, NEW dr \in Bytes,
         Middle(fs, l) \o Newest(fs, l) = e.data \o (Middle(fs, l2) \o Newest(fs, l2))
  PROVE  Kept(fs, Append(os, e), l2, dr) = Kept(fs, os, l, dr)
<1> DEFINE o == FlattenSeq(Datas(os))
           x2 == Middle(fs, l2) \o Newest(fs, l2)
           d == e.data
<1>1. Append(os, e) \in Seq(OldFile) /\ d \in Bytes /\ Datas(os) \in Seq(Bytes) /\ o \in Bytes
  BY KeptParts, AppendProperties DEF OldFile
<1>2. x2 \in Bytes
  BY KeptParts, Joined
<1>3. Datas(Append(os, e)) = Append(Datas(os), d)
  <2> DEFINE s == Append(os, e)
             a == Datas(s)
             b == Append(Datas(os), d)
  <2>1. /\ Len(s) = Len(os) + 1 /\ s[Len(os) + 1] = e /\ \A i \in 1 .. Len(os) : s[i] = os[i]
        /\ Len(os) \in Nat
    BY AppendProperties
  <2>2. /\ Len(Datas(os)) = Len(os) /\ \A i \in 1 .. Len(os) : Datas(os)[i] = os[i].data
    BY <2>1 DEF Datas
  <2>3. /\ b \in Seq(Bytes) /\ Len(b) = Len(os) + 1 /\ b[Len(os) + 1] = d
        /\ \A i \in 1 .. Len(os) : b[i] = os[i].data
    BY <1>1, <2>2, AppendProperties
  <2> HIDE DEF s
  <2>4. /\ a \in Seq(Bytes) /\ Len(a) = Len(os) + 1 /\ \A i \in 1 .. Len(os) + 1 : a[i] = s[i].data
    <3>1. a \in Seq(Bytes)
      BY <1>1, KeptParts DEF s
    <3>2. a = [i \in 1 .. Len(os) + 1 |-> s[i].data]
      BY <2>1 DEF Datas
    <3> HIDE DEF a
    <3> QED BY <2>1, <3>1, <3>2
  <2> HIDE DEF a, b
  <2>5. ASSUME NEW i \in 1 .. Len(a) PROVE a[i] = b[i]
    <3>1. CASE i = Len(os) + 1
      BY <2>1, <2>3, <2>4, <3>1
    <3>2. CASE i \in 1 .. Len(os)
      BY <2>1, <2>3, <2>4, <3>2
    <3> QED BY <2>1, <2>4, <3>1, <3>2
  <2>6. a = b
    BY <2>3, <2>4, <2>5, SeqEqual
  <2> QED BY <2>6 DEF a, b, s
<1>4. FlattenSeq(Datas(Append(os, e))) = o \o d
  BY <1>1, <1>3, FlattenAppend
<1>5. Kept(fs, Append(os, e), l2, dr) = (dr \o (o \o d)) \o x2
  <2>1. Kept(fs, Append(os, e), l2, dr) = (dr \o FlattenSeq(Datas(Append(os, e)))) \o x2
    BY <1>1, KeptIs
  <2> QED BY <1>4, <2>1
<1>6. Kept(fs, os, l, dr) = (dr \o o) \o (d \o x2)
  <2>1. Kept(fs, os, l, dr) = (dr \o o) \o (Middle(fs, l) \o Newest(fs, l))
    BY KeptIs
  <2> QED BY <2>1
<1> HIDE DEF o, d, x2
<1>7. (dr \o (o \o d)) \o x2 = (dr \o o) \o (d \o x2)
  <2>1. dr \o (o \o d) = (dr \o o) \o d
    BY <1>1, Assoc
  <2>2. dr \o o \in Bytes
    BY <1>1, Joined
  <2>3. ((dr \o o) \o d) \o x2 = (dr \o o) \o (d \o x2)
    BY <1>1, <1>2, <2>2, Assoc
  <2> QED BY <2>1, <2>3
<1> QED BY <1>5, <1>6, <1>7

(* and of an old file that goes, counted as dropped.                          *)
LEMMA DropKept ==
  ASSUME NEW fs \in [Names -> LogFile], NEW os \in Seq(OldFile), os # <<>>, NEW l, NEW dr \in Bytes
  PROVE  /\ Kept(fs, Tail(os), l, dr \o Head(os).data) = Kept(fs, os, l, dr)
         /\ dr \o Head(os).data \in Bytes
<1> DEFINE d == Head(os).data
           u == FlattenSeq(Datas(Tail(os)))
           x0 == Middle(fs, l) \o Newest(fs, l)
<1>1. /\ Tail(os) \in Seq(OldFile) /\ Head(os) = os[1] /\ Len(os) \in Nat \ {0}
      /\ Len(Tail(os)) = Len(os) - 1 /\ \A i \in 1 .. Len(os) - 1 : Tail(os)[i] = os[i + 1]
  BY HeadTailProperties
<1>2. d \in Bytes /\ u \in Bytes /\ Datas(os) \in Seq(Bytes) /\ Datas(os) # <<>> /\ Head(Datas(os)) = d
  <2>1. os[1] \in OldFile /\ 1 \in 1 .. Len(os)
    BY <1>1
  <2>a. Datas(os) \in Seq(Bytes)
    BY KeptParts
  <2>2. Len(Datas(os)) = Len(os) /\ Datas(os)[1] = os[1].data
    BY <1>1, <2>1 DEF Datas
  <2>3. u \in Bytes
    BY <1>1, KeptParts
  <2>4. Datas(os) # <<>> /\ Head(Datas(os)) = d
    BY <1>1, <2>a, <2>2
  <2> QED BY <1>1, <2>1, <2>a, <2>3, <2>4 DEF OldFile
<1>3. Datas(Tail(os)) = Tail(Datas(os))
  <2> DEFINE a == Datas(Tail(os))
             b == Tail(Datas(os))
  <2>1. a \in Seq(Bytes) /\ a = [i \in 1 .. Len(os) - 1 |-> os[i + 1].data]
    <3>1. a \in Seq(Bytes)
      BY <1>1, KeptParts
    <3> QED BY <1>1, <3>1 DEF Datas
  <2>2. Len(Datas(os)) = Len(os) /\ \A i \in 1 .. Len(os) : Datas(os)[i] = os[i].data
    BY <1>1 DEF Datas
  <2>3. /\ b \in Seq(Bytes) /\ Len(b) = Len(os) - 1
        /\ \A i \in 1 .. Len(b) : b[i] = Datas(os)[i + 1]
    BY <1>2, <2>2, HeadTailProperties
  <2> HIDE DEF a, b
  <2>4. Len(a) = Len(b) /\ Len(a) = Len(os) - 1
    BY <1>1, <2>1, <2>3
  <2>5. ASSUME NEW i \in 1 .. Len(a) PROVE a[i] = b[i]
    <3>1. i \in 1 .. Len(os) - 1 /\ i + 1 \in 1 .. Len(os)
      BY <1>1, <2>4
    <3> QED BY <2>1, <2>2, <2>3, <2>4, <3>1
  <2>6. a = b
    BY <2>1, <2>3, <2>4, <2>5, SeqEqual
  <2> QED BY <2>6 DEF a, b
<1>4. FlattenSeq(Datas(os)) = d \o u
  BY <1>2, <1>3, FlattenTail
<1>5. dr \o d \in Bytes /\ x0 \in Bytes
  BY <1>2, Joined, KeptParts
<1>6. Kept(fs, Tail(os), l, dr \o d) = ((dr \o d) \o u) \o x0
  BY <1>1, <1>5, KeptIs
<1>7. Kept(fs, os, l, dr) = (dr \o (d \o u)) \o x0
  BY <1>4, KeptIs
<1> HIDE DEF d, u, x0
<1>8. (dr \o d) \o u = dr \o (d \o u)
  BY <1>2, Assoc
<1>9. Kept(fs, Tail(os), l, dr \o d) = Kept(fs, os, l, dr)
  BY <1>6, <1>7, <1>8
<1> QED BY <1>5, <1>9 DEF d

LEMMA GoneFacts ==
  /\ Gone \in LogFile /\ New \in LogFile /\ ~Gone.there /\ New.there
  /\ Gone.data = <<>> /\ New.data = <<>> /\ ~Gone.mark /\ ~New.mark
  /\ ~Gone.cut /\ ~New.cut /\ Gone.synced = 0 /\ New.synced = 0 /\ OnDisk(New)
  /\ Gone.synced <= Len(Gone.data) /\ New.synced <= Len(New.data)
<1>1. <<>> \in Bytes /\ Len(<<>>) = 0
  BY DEF Bytes
<1> DEFINE e == <<>>
<1>2. e \in Bytes /\ Len(e) = 0
  BY <1>1
<1>3. /\ Gone = [there |-> FALSE, data |-> e, synced |-> 0, mark |-> FALSE, cut |-> FALSE]
      /\ New = [there |-> TRUE, data |-> e, synced |-> 0, mark |-> FALSE, cut |-> FALSE]
  <2>1. Gone = [there |-> FALSE, data |-> e, synced |-> 0, mark |-> FALSE, cut |-> FALSE]
    BY Zenon DEF Gone
  <2>2. New = [Gone EXCEPT !.there = TRUE]
    BY Zenon DEF New
  <2> HIDE DEF e
  <2> QED BY <2>1, <2>2
<1> HIDE DEF e
<1>4. /\ Gone \in LogFile /\ New \in LogFile /\ ~Gone.there /\ New.there
      /\ Gone.data = e /\ New.data = e /\ ~Gone.mark /\ ~New.mark
      /\ ~Gone.cut /\ ~New.cut /\ Gone.synced = 0 /\ New.synced = 0
  BY <1>2, <1>3 DEF LogFile
<1> QED BY <1>2, <1>4 DEF e, OnDisk

LEMMA InitLog == ASSUME MultilogAssumption, Init PROVE LogInv
<1> USE DEF Init
<1>1. ServiceTypes
  <2>1. 0 \in 0 .. 2 * Lines /\ 0 \in 0 .. Kills /\ 0 \in 0 .. Crashes /\ 0 <= 0 /\ <<>> \in Bytes
    BY LogNumbers DEF Bytes
  <2>2. processor \in BOOLEAN /\ exitasap \in BOOLEAN
    OBVIOUS
  <2> QED BY <2>1, <2>2 DEF ServiceTypes
<1>2. DirTypes
  BY LogNumbers, GoneFacts DEF DirTypes, Names, Bytes
<1>3. \A n \in Names : Absent(n)
  BY LogNumbers DEF Absent
<1>4. Restartable
  BY <1>3, GoneFacts DEF Restartable, Names, Absent
<1>5. Logging /\ Rotating /\ Finishing
  BY DEF Logging, Rotating, Finishing
<1>6. Room /\ Len(old) = 0
  BY LogNumbers DEF Room
<1>7. Whole
  <2>1. <<>> = [j \in 1 .. 0 |-> j] /\ <<>> \o <<>> = <<>>
    OBVIOUS
  <2> QED BY <2>1 DEF Whole, NothingLost
<1>8. SafeIsWhole
  BY <1>6 DEF SafeIsWhole
<1>9. KeptOnce
  <2> DEFINE e == <<>>
  <2>0. e \in Bytes /\ e \o e = e
    BY DEF Bytes
  <2>1. Kept(file, old, linked, dropped) =
          (dropped \o FlattenSeq(Datas(old))) \o (Middle(file, linked) \o Newest(file, linked))
    BY <1>2, KeptIs DEF DirTypes
  <2>2. Datas(old) = <<>>
    BY <1>6 DEF Datas
  <2>3. FlattenSeq(Datas(old)) = e
    BY <2>2 DEF FlattenSeq
  <2>4. Middle(file, linked) = e /\ Newest(file, linked) = e
    BY <1>3, GoneFacts DEF Middle, Newest, Absent, Names
  <2>5. dropped = e /\ logged = e
    OBVIOUS
  <2> HIDE DEF e
  <2> QED BY <2>0, <2>1, <2>3, <2>4, <2>5 DEF KeptOnce
<1> QED BY <1>1, <1>2, <1>4, <1>5, <1>6, <1>7, <1>8, <1>9 DEF LogInv

(* What a step on the directory leaves as it is.                              *)
LEMMA Frame ==
  ASSUME MultilogAssumption, LogInv, UNCHANGED rest, UNCHANGED <<old, dropped>>, DirTypes',
         pc \in {"unlink", "fit"} => pc' \in {"unlink", "fit"} \/ Len(old) < Num,
         pc' \in {"quit", "mark", "exited"} => pc \in {"quit", "mark", "exited"},
         Middle(file', linked') \o Newest(file', linked') =
           Middle(file, linked) \o Newest(file, linked)
  PROVE  ServiceTypes' /\ Room' /\ Whole' /\ SafeIsWhole' /\ KeptOnce'
<1> USE DEF rest
<1>1. ServiceTypes'
  BY DEF LogInv, ServiceTypes
<1>2. Room'
  BY LogNumbers DEF LogInv, Room, ServiceTypes, DirTypes
<1>3. Whole'
  BY DEF LogInv, Whole, NothingLost
<1>4. SafeIsWhole'
  BY DEF LogInv, SafeIsWhole
<1>5. KeptOnce'
  <2>1. Kept(file', old, linked', dropped) = Kept(file, old, linked, dropped)
    <3>1. /\ file \in [Names -> LogFile] /\ file' \in [Names -> LogFile]
          /\ old \in Seq(OldFile) /\ dropped \in Bytes
      BY DEF LogInv, DirTypes
    <3> DEFINE f2 == file'
               l2 == linked'
    <3>2. f2 \in [Names -> LogFile] /\ Middle(f2, l2) \o Newest(f2, l2) = Middle(file, linked) \o Newest(file, linked)
      BY <3>1, Zenon
    <3> HIDE DEF f2, l2
    <3>3. Kept(f2, old, l2, dropped) = Kept(file, old, linked, dropped)
      <4>1. Kept(f2, old, l2, dropped) =
              (dropped \o FlattenSeq(Datas(old))) \o (Middle(f2, l2) \o Newest(f2, l2))
        BY <3>1, <3>2, KeptIs
      <4>2. Kept(file, old, linked, dropped) =
              (dropped \o FlattenSeq(Datas(old))) \o (Middle(file, linked) \o Newest(file, linked))
        BY <3>1, KeptIs
      <4> QED BY <3>2, <4>1, <4>2
    <3> QED BY <3>3 DEF f2, l2
  <2>2. Kept(file', old', linked', dropped') = Kept(file', old, linked', dropped)
    OBVIOUS
  <2> QED BY <2>1, <2>2 DEF LogInv, KeptOnce
<1> QED BY <1>1, <1>2, <1>3, <1>4, <1>5

LEMMA StepRotate == ASSUME MultilogAssumption, LogInv, Rotate PROVE LogInv'
<1> USE DEF Rotate, Goto
<1>1. DirTypes'
  BY DEF LogInv, DirTypes
<1>2. Restartable'
  BY DEF LogInv, Restartable, Absent
<1>3. Logging'
  BY DEF LogInv, Logging, Absent
<1>4. Rotating' /\ Finishing'
  BY DEF Rotating, Finishing
<1> QED BY <1>1, <1>2, <1>3, <1>4, Frame DEF LogInv

LEMMA StepFull1 == ASSUME MultilogAssumption, LogInv, Full1 PROVE LogInv'
<1> USE DEF Full1, Goto, Sync
<1>0. /\ file["current"] \in LogFile /\ file["current"].data \in Bytes
      /\ file' = [file EXCEPT !["current"] = [@ EXCEPT !.synced = Len(file["current"].data)]]
  BY DEF LogInv, DirTypes, Names, LogFile
<1> DEFINE c == [file["current"] EXCEPT !.synced = Len(file["current"].data)]
<1>1. /\ c \in LogFile /\ c.synced <= Len(c.data) /\ c.there = file["current"].there
      /\ c.mark = file["current"].mark /\ c.data = file["current"].data
      /\ c.cut = file["current"].cut /\ c.synced = Len(c.data)
  BY <1>0 DEF LogFile, Bytes
<1>2. file' = [file EXCEPT !["current"] = c]
  BY <1>0
<1> HIDE DEF c
<1>3. /\ file'["current"] = c /\ file'["previous"] = file["previous"]
      /\ file'["processed"] = file["processed"] /\ file' \in [Names -> LogFile]
  BY <1>1, <1>2 DEF LogInv, DirTypes, Names
<1>4. DirTypes'
  BY <1>1, <1>3 DEF LogInv, DirTypes, Names
<1>5. Logging /\ Restartable /\ pc = "full1" /\ pc' = "full2" /\ UNCHANGED <<linked, old>>
  BY DEF LogInv
<1>6. Restartable'
  BY <1>1, <1>3, <1>5 DEF Restartable, Absent, Logging, Names
<1>7. Logging'
  BY <1>1, <1>3, <1>5 DEF Absent, Logging, OnDisk
<1>8. Rotating' /\ Finishing'
  BY <1>5 DEF Rotating, Finishing
<1>9. Middle(file', linked') = Middle(file, linked) /\ Newest(file', linked') = Newest(file, linked)
  BY <1>1, <1>3, <1>5 DEF Middle, Newest
<1> QED BY <1>4, <1>5, <1>6, <1>7, <1>8, <1>9, Frame DEF LogInv

LEMMA ThreeFiles ==
  ASSUME MultilogAssumption, LogInv
  PROVE  /\ file \in [Names -> LogFile]
         /\ \A n \in {"current", "previous", "processed"} :
              file[n] \in LogFile /\ file[n].synced <= Len(file[n].data)
BY DEF LogInv, DirTypes, Names

LEMMA StepFull2 == ASSUME MultilogAssumption, LogInv, Full2 PROVE LogInv'
<1> USE DEF Full2, Goto
<1>1. /\ file["current"].there /\ ~file["current"].cut /\ linked = "none" /\ linked' = "none"
      /\ Absent("previous") /\ Absent("processed") /\ OnDisk(file["current"])
      /\ ~file["current"].mark /\ pc = "full2" /\ pc' = "full3"
  BY DEF LogInv, Logging
<1>2. /\ file'["current"] = Gone /\ file'["previous"] = file["current"]
      /\ file'["processed"] = file["processed"] /\ file' \in [Names -> LogFile]
  BY ThreeFiles, GoneFacts DEF Names
<1>3. DirTypes'
  BY <1>1, <1>2, ThreeFiles, GoneFacts DEF LogInv, DirTypes, Names
<1>4. Restartable'
  BY <1>1, <1>2, GoneFacts DEF Restartable, Absent, Names
<1>5. Logging' /\ Finishing'
  BY <1>1 DEF Logging, Finishing
<1>6. Rotating'
  BY <1>1, <1>2, GoneFacts DEF Rotating, Absent, OnDisk
<1>7. Middle(file', linked') \o Newest(file', linked') = Middle(file, linked) \o Newest(file, linked)
  <2> DEFINE e == <<>>
             c == file["current"].data
  <2>1. Middle(file', linked') = c /\ Newest(file', linked') = e
    BY <1>1, <1>2, GoneFacts DEF Middle, Newest, Absent
  <2>2. Middle(file, linked) = e /\ Newest(file, linked) = c
    BY <1>1, <1>2, GoneFacts DEF Middle, Newest, Absent
  <2>3. c \o e = c /\ e \o c = c
    BY ThreeFiles, ConcatEmptySeq DEF LogFile, Bytes
  <2> QED BY <2>1, <2>2, <2>3
<1> QED BY <1>1, <1>3, <1>4, <1>5, <1>6, <1>7, Frame DEF LogInv

LEMMA StepFull3 == ASSUME MultilogAssumption, LogInv, Full3 PROVE LogInv'
<1> USE DEF Full3, Goto, Finish
<1>1. /\ file["previous"].there /\ OnDisk(file["previous"]) /\ linked = "none" /\ linked' = "none"
      /\ Absent("current") /\ Absent("processed") /\ pc = "full3"
      /\ \/ pc' = "process" /\ fin' = fin
         \/ pc' = "link" /\ fin' = [file |-> "previous", code |-> "s", to |-> "run"]
  BY DEF LogInv, Rotating
<1>2. /\ file'["current"] = New /\ file'["previous"] = file["previous"]
      /\ file'["processed"] = file["processed"] /\ file' \in [Names -> LogFile]
  BY ThreeFiles, GoneFacts DEF Names
<1>3. DirTypes'
  <2>1. fin' \in [file : Names, code : {"s", "u"}, to : {"run", "r2", "r3"}]
    BY <1>1 DEF LogInv, DirTypes, Names
  <2> QED BY <1>1, <1>2, <2>1, ThreeFiles, GoneFacts DEF LogInv, DirTypes, Names
<1>4. Restartable'
  BY <1>1, <1>2, GoneFacts DEF LogInv, Restartable, Absent, Names, OnDisk
<1>5. Logging'
  BY <1>1 DEF Logging
<1>6. Rotating'
  BY <1>1, <1>2, GoneFacts DEF Rotating, Absent, OnDisk
<1>7. Finishing'
  BY <1>1, <1>2, GoneFacts DEF Finishing, Others, Absent, OnDisk
<1>8. Middle(file', linked') = Middle(file, linked) /\ Newest(file', linked') = Newest(file, linked)
  BY <1>1, <1>2, GoneFacts DEF Middle, Newest, Absent
<1> QED BY <1>1, <1>3, <1>4, <1>5, <1>6, <1>7, <1>8, Frame DEF LogInv

LEMMA StepProcess == ASSUME MultilogAssumption, LogInv, Process PROVE LogInv'
<1> USE DEF Process, Goto
<1>1. /\ file["previous"].there /\ OnDisk(file["previous"]) /\ linked = "none" /\ linked' = "none"
      /\ file["current"] = New /\ ~file["processed"].mark /\ pc = "process"
      /\ pc' \in {"process", "psync"} /\ fin' = fin
  BY DEF LogInv, Rotating
<1>2. PICK q \in LogFile :
        /\ file' = [file EXCEPT !["processed"] = q]
        /\ q.there /\ ~q.mark /\ ~q.cut /\ q.synced <= Len(q.data)
        /\ pc' = "psync" => q.data = file["previous"].data
  <2>1. file["previous"].data \in Bytes
    BY ThreeFiles DEF LogFile
  <2>2. CASE file' = [file EXCEPT !["processed"] = New] /\ pc' = "process"
    BY <2>2, GoneFacts
  <2>3. CASE file' = [file EXCEPT !["processed"] = [New EXCEPT !.data = file["previous"].data]]
             /\ pc' = "psync"
    <3> DEFINE q == [New EXCEPT !.data = file["previous"].data]
    <3>1. /\ q \in LogFile /\ q.there /\ ~q.mark /\ ~q.cut /\ q.synced <= Len(q.data)
          /\ q.data = file["previous"].data
      BY <2>1, GoneFacts DEF LogFile, Bytes
    <3> QED BY <2>3, <3>1
  <2> QED BY <1>1, <2>2, <2>3
<1>3. /\ file'["current"] = file["current"] /\ file'["previous"] = file["previous"]
      /\ file'["processed"] = q /\ file' \in [Names -> LogFile]
  BY <1>2, ThreeFiles DEF Names
<1>4. DirTypes'
  BY <1>1, <1>2, <1>3, ThreeFiles DEF LogInv, DirTypes, Names
<1>5. Restartable'
  BY <1>1, <1>2, <1>3, GoneFacts DEF LogInv, Restartable, Absent, Names
<1>6. Logging' /\ Finishing'
  BY <1>1 DEF Logging, Finishing
<1>7. Rotating'
  BY <1>1, <1>2, <1>3 DEF Rotating, OnDisk
<1>8. Middle(file', linked') = Middle(file, linked) /\ Newest(file', linked') = Newest(file, linked)
  BY <1>1, <1>2, <1>3 DEF Middle, Newest
<1> QED BY <1>1, <1>4, <1>5, <1>6, <1>7, <1>8, Frame DEF LogInv

LEMMA StepProcSync == ASSUME MultilogAssumption, LogInv, ProcSync PROVE LogInv'
<1> USE DEF ProcSync, Goto, Sync
<1>1. /\ file["previous"].there /\ OnDisk(file["previous"]) /\ linked = "none" /\ linked' = "none"
      /\ file["current"] = New /\ ~file["processed"].mark /\ pc = "psync"
      /\ file["processed"].there /\ file["processed"].data = file["previous"].data
      /\ ~file["processed"].cut /\ pc' = "pmark" /\ fin' = fin
  BY DEF LogInv, Rotating
<1> DEFINE q == [file["processed"] EXCEPT !.synced = Len(file["processed"].data)]
<1>2. /\ q \in LogFile /\ q.synced = Len(q.data) /\ q.synced <= Len(q.data) /\ q.there /\ ~q.mark /\ ~q.cut
      /\ q.data = file["processed"].data
  <2>1. file["processed"] \in LogFile /\ Len(file["processed"].data) \in Nat
    BY ThreeFiles DEF LogFile, Bytes
  <2>2. q \in LogFile /\ q.there /\ ~q.mark /\ ~q.cut /\ q.data = file["processed"].data
    BY <1>1, <2>1 DEF LogFile
  <2>3. q.synced = Len(q.data)
    BY <2>1, <2>2 DEF LogFile
  <2> QED BY <2>1, <2>2, <2>3
<1>a. file' = [file EXCEPT !["processed"] = q]
  BY ThreeFiles DEF Names
<1> HIDE DEF q
<1>3. /\ file'["current"] = file["current"] /\ file'["previous"] = file["previous"]
      /\ file'["processed"] = q /\ file' \in [Names -> LogFile]
  BY <1>a, <1>2, ThreeFiles DEF Names
<1>4. DirTypes'
  BY <1>1, <1>2, <1>3, ThreeFiles DEF LogInv, DirTypes, Names
<1>5. Restartable'
  BY <1>1, <1>2, <1>3, GoneFacts DEF LogInv, Restartable, Absent, Names
<1>6. Logging' /\ Finishing'
  BY <1>1 DEF Logging, Finishing
<1>7. Rotating'
  BY <1>1, <1>2, <1>3 DEF Rotating, OnDisk
<1>8. Middle(file', linked') = Middle(file, linked) /\ Newest(file', linked') = Newest(file, linked)
  BY <1>1, <1>2, <1>3 DEF Middle, Newest
<1> QED BY <1>1, <1>4, <1>5, <1>6, <1>7, <1>8, Frame DEF LogInv

LEMMA StepProcMark == ASSUME MultilogAssumption, LogInv, ProcMark PROVE LogInv'
<1> USE DEF ProcMark, Goto
<1>1. /\ file["previous"].there /\ OnDisk(file["previous"]) /\ linked = "none" /\ linked' = "none"
      /\ file["current"] = New /\ ~file["processed"].mark /\ pc = "pmark"
      /\ file["processed"].there /\ file["processed"].data = file["previous"].data
      /\ OnDisk(file["processed"]) /\ pc' = "punlink" /\ fin' = fin
  BY DEF LogInv, Rotating
<1> DEFINE q == [file["processed"] EXCEPT !.mark = TRUE]
<1>2. /\ q \in LogFile /\ q.synced <= Len(q.data) /\ q.there /\ q.mark /\ OnDisk(q) /\ ~q.cut
      /\ q.data = file["processed"].data
  BY <1>1, ThreeFiles DEF LogFile, OnDisk
<1>a. file' = [file EXCEPT !["processed"] = q]
  BY ThreeFiles DEF Names
<1> HIDE DEF q
<1>3. /\ file'["current"] = file["current"] /\ file'["previous"] = file["previous"]
      /\ file'["processed"] = q /\ file' \in [Names -> LogFile]
  BY <1>a, <1>2, ThreeFiles DEF Names
<1>4. DirTypes'
  BY <1>1, <1>2, <1>3, ThreeFiles DEF LogInv, DirTypes, Names
<1>5. Restartable'
  BY <1>1, <1>2, <1>3, GoneFacts DEF LogInv, Restartable, Absent, Names
<1>6. Logging' /\ Finishing'
  BY <1>1 DEF Logging, Finishing
<1>7. Rotating'
  BY <1>1, <1>2, <1>3 DEF Rotating, OnDisk
<1>8. Middle(file', linked') = Middle(file, linked) /\ Newest(file', linked') = Newest(file, linked)
  BY <1>1, <1>2, <1>3 DEF Middle, Newest
<1> QED BY <1>1, <1>4, <1>5, <1>6, <1>7, <1>8, Frame DEF LogInv

LEMMA StepProcUnlink == ASSUME MultilogAssumption, LogInv, ProcUnlink PROVE LogInv'
<1> USE DEF ProcUnlink, Finish, Delete
<1>1. /\ linked = "none" /\ linked' = "none" /\ file["current"] = New /\ pc = "punlink"
      /\ file["processed"].there /\ file["processed"].mark /\ OnDisk(file["processed"])
      /\ pc' = "link" /\ fin' = [file |-> "processed", code |-> "s", to |-> "run"]
  BY DEF LogInv, Rotating
<1>2. /\ file'["current"] = file["current"] /\ file'["previous"] = Gone
      /\ file'["processed"] = file["processed"] /\ file' \in [Names -> LogFile]
  BY ThreeFiles, GoneFacts DEF Names
<1>3. DirTypes'
  <2>1. fin' \in [file : Names, code : {"s", "u"}, to : {"run", "r2", "r3"}]
    BY <1>1 DEF Names
  <2> QED BY <1>1, <1>2, <2>1, ThreeFiles, GoneFacts DEF LogInv, DirTypes, Names
<1>4. Restartable'
  BY <1>1, <1>2, GoneFacts DEF LogInv, Restartable, Absent, Names
<1>5. Logging' /\ Rotating'
  BY <1>1 DEF Logging, Rotating
<1>6. Finishing'
  BY <1>1, <1>2, GoneFacts DEF Finishing, Others, Absent
<1>7. Middle(file', linked') = Middle(file, linked) /\ Newest(file', linked') = Newest(file, linked)
  BY <1>1, <1>2 DEF Middle, Newest
<1> QED BY <1>1, <1>3, <1>4, <1>5, <1>6, <1>7, Frame DEF LogInv

LEMMA StepUnlink == ASSUME MultilogAssumption, LogInv, Unlink PROVE LogInv'
<1> USE DEF Unlink, Delete, Goto
<1> DEFINE f == fin.file
<1>1. /\ linked = f /\ f \in {"current", "previous", "processed"} /\ linked' = "none"
      /\ pc = "unlink" /\ pc' = "fit" /\ fin' = fin /\ ~file["current"].mark
      /\ Others(f) /\ (fin.to = "r3" <=> f = "current") /\ (fin.to = "run" => file["current"] = New)
      /\ linked = "current" => Absent("previous") /\ Absent("processed")
      /\ linked = "previous" => ~file["processed"].mark
      /\ linked = "processed" => file["processed"].mark /\ Absent("previous")
  BY DEF LogInv, Finishing, DirTypes, Names, Restartable
<1>2. /\ file' = [file EXCEPT ![f] = Gone] /\ file' \in [Names -> LogFile]
      /\ file'[f] = Gone
      /\ \A n \in {"current", "previous", "processed"} : n # f => file'[n] = file[n]
  BY <1>1, ThreeFiles, GoneFacts DEF Names
<1> HIDE DEF f
<1>3. DirTypes'
  BY <1>1, <1>2, ThreeFiles, GoneFacts DEF LogInv, DirTypes, Names
<1>4. Restartable'
  <2>1. \A n \in Names : ~file'[n].there => file'[n] = Gone
    BY <1>1, <1>2, GoneFacts DEF LogInv, Restartable, Absent, Names
  <2>2. file'["processed"].mark => file'["processed"] = file["processed"]
    BY <1>1, <1>2, GoneFacts
  <2>3. ~file'["current"].mark
    BY <1>1, <1>2, GoneFacts
  <2> QED BY <1>1, <2>1, <2>2, <2>3 DEF LogInv, Restartable, Absent, OnDisk
<1>5. Logging' /\ Rotating'
  BY <1>1 DEF Logging, Rotating
<1>6. Finishing'
  BY <1>1, <1>2, GoneFacts DEF Finishing, Others, Absent, f
<1>7. Middle(file', linked') = Middle(file, linked) /\ Newest(file', linked') = Newest(file, linked)
  <2>1. CASE f = "current"
    BY <1>1, <1>2, <2>1, GoneFacts DEF Middle, Newest, Absent
  <2>2. CASE f = "previous"
    BY <1>1, <1>2, <2>2, GoneFacts DEF Middle, Newest, Absent
  <2>3. CASE f = "processed"
    BY <1>1, <1>2, <2>3, GoneFacts DEF Middle, Newest, Absent
  <2> QED BY <1>1, <2>1, <2>2, <2>3
<1> QED BY <1>1, <1>3, <1>4, <1>5, <1>6, <1>7, Frame DEF LogInv

LEMMA StepQuit == ASSUME MultilogAssumption, LogInv, Quit PROVE LogInv'
<1> USE DEF Quit, Goto, Sync
<1>1. /\ file["current"].there /\ ~file["current"].cut /\ linked = "none" /\ linked' = "none"
      /\ Absent("previous") /\ Absent("processed") /\ ~file["current"].mark
      /\ \/ pc = "quit" /\ pc' = "mark"
         \/ pc = "mark" /\ pc' = "exited" /\ OnDisk(file["current"])
      /\ fin' = fin
  BY DEF LogInv, Logging
<1>2. PICK c \in LogFile :
        /\ file' = [file EXCEPT !["current"] = c]
        /\ c.there /\ OnDisk(c) /\ c.synced <= Len(c.data) /\ (c.mark <=> pc' = "exited")
        /\ c.data = file["current"].data
  <2>0. file["current"] \in LogFile /\ Len(file["current"].data) \in Nat
    BY ThreeFiles DEF LogFile, Bytes
  <2>1. CASE pc = "quit"
    <3> DEFINE c == [file["current"] EXCEPT !.synced = Len(file["current"].data)]
    <3>1. c \in LogFile /\ c.there /\ ~c.mark /\ ~c.cut /\ c.data = file["current"].data
      BY <1>1, <2>0 DEF LogFile
    <3>2. c.synced = Len(c.data) /\ c.synced <= Len(c.data)
      BY <2>0, <3>1 DEF LogFile
    <3>3. file' = [file EXCEPT !["current"] = c]
      BY <2>1
    <3> HIDE DEF c
    <3> QED BY <1>1, <2>1, <3>1, <3>2, <3>3 DEF OnDisk
  <2>2. CASE pc = "mark"
    <3> DEFINE c == [file["current"] EXCEPT !.mark = TRUE]
    <3>1. /\ c \in LogFile /\ c.there /\ c.mark /\ c.data = file["current"].data
          /\ c.synced = file["current"].synced /\ c.cut = file["current"].cut
      BY <1>1, <2>0 DEF LogFile
    <3>2. OnDisk(c) /\ c.synced <= Len(c.data)
      BY <1>1, <2>0, <2>2, <3>1 DEF OnDisk
    <3>3. file' = [file EXCEPT !["current"] = c]
      BY <2>2
    <3> HIDE DEF c
    <3> QED BY <1>1, <2>2, <3>1, <3>2, <3>3
  <2> QED BY <1>1, <2>1, <2>2
<1>3. /\ file'["current"] = c /\ file'["previous"] = file["previous"]
      /\ file'["processed"] = file["processed"] /\ file' \in [Names -> LogFile]
  BY <1>2, ThreeFiles DEF Names
<1>4. DirTypes'
  BY <1>1, <1>2, <1>3, ThreeFiles DEF LogInv, DirTypes, Names
<1>5. Restartable'
  BY <1>1, <1>2, <1>3, GoneFacts DEF Restartable, Absent, Names
<1>6. Logging'
  BY <1>1, <1>2, <1>3 DEF Logging, Absent, OnDisk
<1>7. Rotating' /\ Finishing'
  BY <1>1 DEF Rotating, Finishing
<1>8. Middle(file', linked') = Middle(file, linked) /\ Newest(file', linked') = Newest(file, linked)
  BY <1>1, <1>2, <1>3 DEF Middle, Newest
<1> QED BY <1>1, <1>4, <1>5, <1>6, <1>7, <1>8, Frame DEF LogInv

LEMMA StepRestart1 == ASSUME MultilogAssumption, LogInv, Restart1 PROVE LogInv'
<1> USE DEF Restart1, Goto, Finish, Delete
<1>0. Restartable /\ pc = "r1" /\ UNCHANGED <<old, dropped>>
  BY DEF LogInv
<1>1. CASE file["current"].there /\ file["current"].mark
  <2>1. /\ Absent("previous") /\ Absent("processed") /\ linked = "none" /\ OnDisk(file["current"])
        /\ pc' = "run" /\ fin' = fin /\ linked' = linked
    BY <1>0, <1>1 DEF Restartable
  <2> DEFINE c == [file["current"] EXCEPT !.mark = FALSE]
  <2>2. /\ c \in LogFile /\ c.there /\ ~c.mark /\ ~c.cut /\ c.data = file["current"].data
        /\ c.synced <= Len(c.data)
    BY <1>1, <2>1, ThreeFiles DEF LogFile, OnDisk
  <2>a. file' = [file EXCEPT !["current"] = c]
    BY <1>1
  <2> HIDE DEF c
  <2>3. /\ file'["current"] = c /\ file'["previous"] = file["previous"]
        /\ file'["processed"] = file["processed"] /\ file' \in [Names -> LogFile]
    BY <2>2, <2>a, ThreeFiles DEF Names
  <2>4. DirTypes'
    BY <2>1, <2>2, <2>3, ThreeFiles DEF LogInv, DirTypes, Names
  <2>5. Restartable'
    BY <2>1, <2>2, <2>3, GoneFacts DEF Restartable, Absent, Names
  <2>6. Logging' /\ Rotating' /\ Finishing'
    BY <2>1, <2>2, <2>3 DEF Logging, Rotating, Finishing, Absent
  <2>7. Middle(file', linked') = Middle(file, linked) /\ Newest(file', linked') = Newest(file, linked)
    BY <2>1, <2>2, <2>3 DEF Middle, Newest
  <2> QED BY <1>0, <2>1, <2>4, <2>5, <2>6, <2>7, Frame DEF LogInv
<1>2. CASE ~(file["current"].there /\ file["current"].mark) /\ file["processed"].there /\ file["processed"].mark
  <2>1. /\ pc' = "link" /\ fin' = [file |-> "processed", code |-> "s", to |-> "r2"]
        /\ OnDisk(file["processed"]) /\ ~file["current"].mark /\ linked' = linked
        /\ linked \in {"none", "processed"}
    BY <1>0, <1>2, GoneFacts DEF Restartable, Absent, Names, LogInv, DirTypes
  <2>2. /\ file'["current"] = file["current"] /\ file'["previous"] = Gone
        /\ file'["processed"] = file["processed"] /\ file' \in [Names -> LogFile]
    BY <1>2, ThreeFiles, GoneFacts DEF Names
  <2>3. DirTypes'
    <3>1. fin' \in [file : Names, code : {"s", "u"}, to : {"run", "r2", "r3"}]
      BY <2>1 DEF Names
    <3> QED BY <1>0, <2>1, <2>2, <3>1, ThreeFiles, GoneFacts DEF LogInv, DirTypes, Names
  <2>4. Restartable'
    BY <1>0, <1>2, <2>1, <2>2, GoneFacts DEF Restartable, Absent, Names
  <2>5. Logging' /\ Rotating'
    BY <2>1 DEF Logging, Rotating
  <2>6. Finishing'
    BY <1>2, <2>1, <2>2 DEF Finishing, Others, Absent
  <2>7. Middle(file', linked') = Middle(file, linked) /\ Newest(file', linked') = Newest(file, linked)
    BY <1>2, <2>1, <2>2 DEF Middle, Newest
  <2> QED BY <1>0, <2>1, <2>3, <2>4, <2>5, <2>6, <2>7, Frame DEF LogInv
<1>3. CASE ~(file["current"].there /\ file["current"].mark) /\ ~(file["processed"].there /\ file["processed"].mark)
  <2>1. /\ pc' = "link" /\ fin' = [file |-> "previous", code |-> "u", to |-> "r2"]
        /\ ~file["processed"].mark /\ ~file["current"].mark /\ linked' = linked
        /\ linked \in {"none", "previous", "current"}
    BY <1>0, <1>3, GoneFacts DEF Restartable, Absent, Names, LogInv, DirTypes
  <2>2. /\ file'["current"] = file["current"] /\ file'["previous"] = file["previous"]
        /\ file'["processed"] = Gone /\ file' \in [Names -> LogFile]
    BY <1>3, ThreeFiles, GoneFacts DEF Names
  <2>3. DirTypes'
    <3>1. fin' \in [file : Names, code : {"s", "u"}, to : {"run", "r2", "r3"}]
      BY <2>1 DEF Names
    <3> QED BY <1>0, <2>1, <2>2, <3>1, ThreeFiles, GoneFacts DEF LogInv, DirTypes, Names
  <2>4. Restartable'
    BY <1>0, <1>3, <2>1, <2>2, GoneFacts DEF Restartable, Absent, Names
  <2>5. Logging' /\ Rotating'
    BY <2>1 DEF Logging, Rotating
  <2>6. Finishing'
    BY <1>0, <1>3, <2>1, <2>2 DEF Finishing, Others, Absent, Restartable
  <2>7. Middle(file', linked') = Middle(file, linked) /\ Newest(file', linked') = Newest(file, linked)
    BY <1>3, <2>1, <2>2, GoneFacts DEF Middle, Newest
  <2> QED BY <1>0, <2>1, <2>3, <2>4, <2>5, <2>6, <2>7, Frame DEF LogInv
<1> QED BY <1>1, <1>2, <1>3

LEMMA StepRestart2 == ASSUME MultilogAssumption, LogInv, Restart2 PROVE LogInv'
<1> USE DEF Restart2, Finish
<1>1. /\ Absent("previous") /\ Absent("processed") /\ ~file["current"].mark
      /\ pc' = "link" /\ fin' = [file |-> "current", code |-> "u", to |-> "r3"]
      /\ UNCHANGED <<file, linked, old, dropped>> /\ pc = "r2" /\ linked \in {"none", "current"}
  BY GoneFacts DEF LogInv, Finishing, Restartable, Absent, DirTypes, Names
<1>2. DirTypes'
  <2>1. fin' \in [file : Names, code : {"s", "u"}, to : {"run", "r2", "r3"}]
    BY <1>1 DEF Names
  <2> QED BY <1>1, <2>1 DEF LogInv, DirTypes
<1>3. Restartable'
  BY <1>1 DEF LogInv, Restartable, Absent
<1>4. Logging' /\ Rotating'
  BY <1>1 DEF Logging, Rotating
<1>5. Finishing'
  BY <1>1 DEF Finishing, Others, Absent
<1> QED BY <1>1, <1>2, <1>3, <1>4, <1>5, Frame DEF LogInv

LEMMA StepRestart3 == ASSUME MultilogAssumption, LogInv, Restart3 PROVE LogInv'
<1> USE DEF Restart3, Goto
<1>1. /\ \A n \in Names : Absent(n)
      /\ pc' = "run" /\ fin' = fin /\ UNCHANGED <<linked, old, dropped>> /\ pc = "r3"
  BY DEF LogInv, Finishing
<1>a. linked = "none"
  BY <1>1, GoneFacts DEF LogInv, Restartable, Absent, DirTypes, Names
<1>2. /\ file'["current"] = New /\ file'["previous"] = file["previous"]
      /\ file'["processed"] = file["processed"] /\ file' \in [Names -> LogFile]
  BY ThreeFiles, GoneFacts DEF Names
<1>3. DirTypes'
  BY <1>1, <1>2, ThreeFiles, GoneFacts DEF LogInv, DirTypes, Names
<1>4. Restartable' /\ Logging'
  BY <1>1, <1>a, <1>2, GoneFacts DEF Restartable, Logging, Absent, Names
<1>5. Rotating' /\ Finishing'
  BY <1>1 DEF Rotating, Finishing
<1>6. Middle(file', linked') = Middle(file, linked) /\ Newest(file', linked') = Newest(file, linked)
  BY <1>1, <1>a, <1>2, GoneFacts DEF Middle, Newest, Absent, Names
<1> QED BY <1>1, <1>3, <1>4, <1>5, <1>6, Frame DEF LogInv

LEMMA StepLink == ASSUME MultilogAssumption, LogInv, Link PROVE LogInv'
<1> USE DEF Link, Goto
<1> DEFINE f == fin.file
           e == [data |-> file[f].data, synced |-> file[f].synced, code |-> fin.code, cut |-> file[f].cut]
<1>1. /\ f \in {"current", "previous", "processed"} /\ fin.code \in {"s", "u"} /\ fin.to \in {"run", "r2", "r3"}
      /\ pc = "link" /\ UNCHANGED <<file, dropped, rest>> /\ fin' = fin
      /\ Others(f) /\ (fin.to = "r3" <=> f = "current") /\ (fin.to = "run" => file["current"] = New)
      /\ ~file["current"].mark
      /\ linked \in {"none", f} \/ (linked = "current" /\ fin.to = "r2" /\ Absent(f))
      /\ file[f].there /\ fin.code = "s" => OnDisk(file[f])
      /\ f = "processed" => fin.code = "s" /\ file["processed"].mark
      /\ Restartable
  BY DEF LogInv, Finishing, DirTypes, Names
<1>2. file[f] \in LogFile /\ file[f].synced <= Len(file[f].data)
  BY <1>1, ThreeFiles
<1>3. e \in OldFile /\ e.synced <= Len(e.data) /\ e.data = file[f].data
      /\ e.code = fin.code /\ e.cut = file[f].cut /\ e.synced = file[f].synced
  BY <1>1, <1>2 DEF LogFile, OldFile
<1>4. old \in Seq(OldFile) /\ dropped \in Bytes /\ file \in [Names -> LogFile]
      /\ \A i \in DOMAIN old : old[i].synced <= Len(old[i].data)
  BY DEF LogInv, DirTypes
<1>5. CASE ~file[f].there
  <2>1. pc' = fin.to /\ UNCHANGED <<linked, old>>
    BY <1>1, <1>5
  <2>2. Absent(f) /\ Absent("previous") /\ Absent("processed")
    BY <1>1, <1>5 DEF Restartable, Names, Others, Absent
  <2>3. fin.to # "r2" => linked = "none"
    BY <1>1, <1>5 DEF Restartable
  <2>4. DirTypes' /\ Restartable'
    BY <1>1, <2>1 DEF LogInv, DirTypes, Restartable, Absent
  <2>5. Logging'
    BY <1>1, <2>1, <2>2, <2>3, GoneFacts DEF Logging, Absent
  <2>6. Rotating'
    BY <1>1, <2>1 DEF Rotating
  <2>7. Finishing'
    BY <1>1, <2>1, <2>2 DEF Finishing, Absent, Names
  <2> QED BY <1>1, <2>1, <2>4, <2>5, <2>6, <2>7, Frame DEF LogInv
<1>6. CASE file[f].there /\ linked = f
  <2>1. pc' = "unlink" /\ UNCHANGED <<linked, old>>
    BY <1>1, <1>6
  <2>2. DirTypes' /\ Restartable'
    BY <1>1, <2>1 DEF LogInv, DirTypes, Restartable, Absent
  <2>3. Logging' /\ Rotating'
    BY <2>1 DEF Logging, Rotating
  <2>4. Finishing'
    BY <1>1, <1>6, <2>1 DEF Finishing, Others, Absent
  <2> QED BY <1>1, <2>1, <2>2, <2>3, <2>4, Frame DEF LogInv
<1>7. CASE file[f].there /\ linked # f
  <2>1. pc' = "unlink" /\ linked' = f /\ old' = Append(old, e) /\ linked = "none"
    BY <1>1, <1>7, GoneFacts DEF Absent
  <2> HIDE DEF e
  <2>2. /\ old' \in Seq(OldFile) /\ Len(old') = Len(old) + 1 /\ old'[Len(old')] = e
        /\ DOMAIN old' = 1 .. Len(old) + 1 /\ DOMAIN old = 1 .. Len(old) /\ Len(old) \in Nat
        /\ \A i \in 1 .. Len(old) : old'[i] = old[i]
    BY <1>3, <1>4, <2>1, AppendProperties
  <2>3. ServiceTypes' /\ Whole'
    BY <1>1, <2>1 DEF LogInv, ServiceTypes, Whole, NothingLost, rest
  <2>4. DirTypes'
    <3>1. \A i \in DOMAIN old' : old'[i].synced <= Len(old'[i].data)
      BY <1>3, <1>4, <2>2
    <3> QED BY <1>1, <1>4, <2>1, <2>2, <3>1 DEF LogInv, DirTypes, Names
  <2>5. Restartable'
    <3>1. old' # <<>>
      BY <2>2
    <3> QED BY <1>1, <1>3, <1>7, <2>1, <2>2, <3>1, GoneFacts DEF Restartable, Others, Absent
  <2>6. Logging' /\ Rotating'
    BY <2>1 DEF Logging, Rotating
  <2>7. Finishing'
    BY <1>1, <2>1 DEF Finishing, Others, Absent
  <2>8. Room'
    <3>1. Len(old) < Num + kills + crashes /\ kills' = kills /\ crashes' = crashes
      BY <1>1 DEF LogInv, Room, rest
    <3>2. kills \in Nat /\ crashes \in Nat /\ Num \in Nat
      BY LogNumbers DEF LogInv, ServiceTypes
    <3>3. Len(old') <= Num + kills + crashes
      BY <2>2, <3>1, <3>2
    <3> QED BY <2>1, <3>1, <3>3 DEF Room
  <2>9. SafeIsWhole'
    <3>1. \A i \in 1 .. Len(old) : old[i].code = "s" => ~old[i].cut /\ old[i].synced = Len(old[i].data)
      BY DEF LogInv, SafeIsWhole
    <3>2. e.code = "s" => ~e.cut /\ e.synced = Len(e.data)
      BY <1>1, <1>3, <1>7 DEF OnDisk
    <3> QED BY <2>2, <3>1, <3>2 DEF SafeIsWhole
  <2>10. KeptOnce'
    <3> DEFINE d == e.data
               n == <<>>
    <3>0. d \in Bytes /\ n \in Bytes /\ d = file[f].data
      BY <1>3 DEF OldFile, Bytes
    <3>1. d \o n = d /\ n \o d = d /\ \A y \in Bytes : n \o y = y
      BY <3>0, ConcatEmptySeq DEF Bytes
    <3>2. file["current"].data \in Bytes
      BY ThreeFiles DEF LogFile
    <3> HIDE DEF d
    <3>3. Middle(file, linked) \o Newest(file, linked) = d \o (Middle(file, f) \o Newest(file, f))
      <4>1. CASE f = "current"
        <5>1. /\ Middle(file, linked) = n /\ Newest(file, linked) = d
              /\ Middle(file, f) = n /\ Newest(file, f) = n
          BY <1>1, <2>1, <3>0, <4>1, GoneFacts DEF Middle, Newest, Others, Absent
        <5> QED BY <3>0, <3>1, <5>1
      <4>2. CASE f = "previous"
        <5>1. /\ Middle(file, linked) = d /\ Newest(file, linked) = file["current"].data
              /\ Middle(file, f) = n /\ Newest(file, f) = file["current"].data
          BY <1>1, <2>1, <3>0, <4>2, GoneFacts DEF Middle, Newest, Others, Absent
        <5> QED BY <3>0, <3>1, <3>2, <5>1
      <4>3. CASE f = "processed"
        <5>1. /\ Middle(file, linked) = d /\ Newest(file, linked) = file["current"].data
              /\ Middle(file, f) = n /\ Newest(file, f) = file["current"].data
          BY <1>1, <2>1, <3>0, <4>3, GoneFacts DEF Middle, Newest, Others, Absent
        <5> QED BY <3>0, <3>1, <3>2, <5>1
      <4> QED BY <1>1, <4>1, <4>2, <4>3
    <3>4. Kept(file, Append(old, e), f, dropped) = Kept(file, old, linked, dropped)
      BY <1>3, <1>4, <3>3, LinkKept DEF d
    <3>5. Kept(file', old', linked', dropped') = Kept(file, Append(old, e), f, dropped)
      BY <1>1, <2>1
    <3>6. logged' = logged
      BY <1>1 DEF rest
    <3> QED BY <3>4, <3>5, <3>6 DEF LogInv, KeptOnce
  <2> QED BY <2>3, <2>4, <2>5, <2>6, <2>7, <2>8, <2>9, <2>10 DEF LogInv
<1> QED BY <1>5, <1>6, <1>7

LEMMA StepFit == ASSUME MultilogAssumption, LogInv, Fit PROVE LogInv'
<1> USE DEF Fit, Goto
<1>1. /\ pc = "fit" /\ UNCHANGED <<file, linked, rest>> /\ fin' = fin /\ linked = "none"
      /\ fin.file \in {"current", "previous", "processed"} /\ fin.to \in {"run", "r2", "r3"}
      /\ Absent(fin.file) /\ Others(fin.file) /\ (fin.to = "r3" <=> fin.file = "current")
      /\ (fin.to = "run" => file["current"] = New) /\ ~file["current"].mark
  BY DEF LogInv, Finishing, DirTypes, Names
<1>2. old \in Seq(OldFile) /\ dropped \in Bytes /\ Len(old) \in Nat /\ file \in [Names -> LogFile]
      /\ \A i \in DOMAIN old : old[i].synced <= Len(old[i].data)
  BY DEF LogInv, DirTypes
<1>3. CASE Len(old) < Num
  <2>1. pc' = fin.to /\ UNCHANGED <<old, dropped>>
    BY <1>3
  <2>2. Absent("previous") /\ Absent("processed")
    BY <1>1 DEF Others
  <2>3. DirTypes' /\ Restartable'
    BY <1>1, <2>1 DEF LogInv, DirTypes, Restartable, Absent
  <2>4. Logging'
    BY <1>1, <2>1, <2>2, GoneFacts DEF Logging, Absent
  <2>5. Rotating'
    BY <1>1, <2>1 DEF Rotating
  <2>6. Finishing'
    BY <1>1, <2>1, <2>2 DEF Finishing, Absent, Names
  <2> QED BY <1>1, <1>3, <2>1, <2>3, <2>4, <2>5, <2>6, Frame DEF LogInv
<1>4. CASE ~(Len(old) < Num)
  <2>1. old' = Tail(old) /\ dropped' = dropped \o Head(old).data /\ pc' = pc /\ old # <<>>
    BY <1>2, <1>4, LogNumbers
  <2>2. /\ old' \in Seq(OldFile) /\ Len(old') = Len(old) - 1 /\ DOMAIN old' = 1 .. Len(old) - 1
        /\ \A i \in 1 .. Len(old) - 1 : old'[i] = old[i + 1] /\ i + 1 \in 1 .. Len(old)
    BY <1>2, <2>1, HeadTailProperties
  <2>3. ServiceTypes' /\ Whole'
    BY <1>1, <2>1 DEF LogInv, ServiceTypes, Whole, NothingLost, rest
  <2>4. /\ Kept(file, Tail(old), linked, dropped \o Head(old).data) = Kept(file, old, linked, dropped)
        /\ dropped \o Head(old).data \in Bytes
    BY <1>2, <2>1, DropKept
  <2>5. DirTypes'
    <3>1. \A i \in DOMAIN old' : old'[i].synced <= Len(old'[i].data)
      BY <1>2, <2>2
    <3> QED BY <1>1, <1>2, <2>1, <2>2, <2>4, <3>1 DEF LogInv, DirTypes
  <2>6. Restartable'
    BY <1>1, <2>1 DEF LogInv, Restartable, Absent
  <2>7. Logging' /\ Rotating' /\ Finishing'
    BY <1>1, <2>1 DEF LogInv, Logging, Rotating, Finishing, Others, Absent
  <2>8. Room'
    <3>1. Len(old) <= Num + kills + crashes /\ kills' = kills /\ crashes' = crashes
      BY <1>1 DEF LogInv, Room, rest
    <3>2. kills \in Nat /\ crashes \in Nat /\ Num \in Nat
      BY LogNumbers DEF LogInv, ServiceTypes
    <3>3. Len(old') <= Num + kills + crashes
      BY <1>2, <2>2, <3>1, <3>2
    <3> QED BY <1>1, <2>1, <3>1, <3>3 DEF Room
  <2>9. SafeIsWhole'
    <3>1. \A i \in 1 .. Len(old) : old[i].code = "s" => ~old[i].cut /\ old[i].synced = Len(old[i].data)
      BY DEF LogInv, SafeIsWhole
    <3> QED BY <2>2, <3>1 DEF SafeIsWhole
  <2>10. KeptOnce'
    <3>1. Kept(file', old', linked', dropped') = Kept(file, Tail(old), linked, dropped \o Head(old).data)
      BY <1>1, <2>1
    <3>2. logged' = logged
      BY <1>1 DEF rest
    <3> QED BY <2>4, <3>1, <3>2 DEF LogInv, KeptOnce
  <2> QED BY <2>3, <2>5, <2>6, <2>7, <2>8, <2>9, <2>10 DEF LogInv
<1> QED BY <1>3, <1>4

LEMMA StepService == ASSUME MultilogAssumption, LogInv, Service \/ SigTerm PROVE LogInv'
<1>1. /\ UNCHANGED <<processor, pc, fin, got, buf, file, linked, old, dropped, logged, kills, crashes>>
      /\ \/ written' = written + 1 /\ written < 2 * Lines /\ exitasap' = exitasap
         \/ written' = written /\ exitasap' \in BOOLEAN
  BY DEF Service, SigTerm
<1>2. ServiceTypes'
  BY <1>1, LogNumbers DEF LogInv, ServiceTypes
<1>3. DirTypes' /\ Restartable' /\ Room'
  BY <1>1 DEF LogInv, DirTypes, Restartable, Absent, Room
<1>4. Logging' /\ Rotating' /\ Finishing'
  BY <1>1 DEF LogInv, Logging, Rotating, Finishing, Others, Absent
<1>5. Whole'
  BY <1>1 DEF LogInv, Whole, NothingLost
<1>6. SafeIsWhole' /\ KeptOnce'
  BY <1>1 DEF LogInv, SafeIsWhole, KeptOnce
<1> QED BY <1>2, <1>3, <1>4, <1>5, <1>6 DEF LogInv

LEMMA StepAgain == ASSUME MultilogAssumption, LogInv, Again PROVE LogInv'
<1>1. /\ UNCHANGED <<processor, fin, written, got, buf, file, linked, old, dropped, logged, kills, crashes>>
      /\ pc = "exited" /\ pc' = "r1" /\ exitasap' = FALSE
  BY DEF Again, Goto
<1>2. ServiceTypes' /\ DirTypes' /\ Restartable' /\ Room'
  BY <1>1 DEF LogInv, ServiceTypes, DirTypes, Restartable, Absent, Room
<1>3. Logging' /\ Rotating' /\ Finishing'
  BY <1>1 DEF Logging, Rotating, Finishing
<1>4. Whole'
  BY <1>1 DEF LogInv, Whole, NothingLost
<1>5. SafeIsWhole' /\ KeptOnce'
  BY <1>1 DEF LogInv, SafeIsWhole, KeptOnce
<1> QED BY <1>2, <1>3, <1>4, <1>5 DEF LogInv

LEMMA StepKilled == ASSUME MultilogAssumption, LogInv, Killed PROVE LogInv'
<1>1. /\ UNCHANGED <<processor, fin, written, got, file, linked, old, dropped, logged, crashes>>
      /\ pc' = "r1" /\ exitasap' = FALSE /\ buf' = <<>> /\ kills' = kills + 1 /\ kills < Kills
  BY DEF Killed, Lost
<1>2. kills' # 0
  BY <1>1 DEF LogInv, ServiceTypes
<1>3. ServiceTypes'
  <2>1. kills + 1 \in 0 .. Kills
    BY <1>1, LogNumbers DEF LogInv, ServiceTypes
  <2>2. <<>> \in Bytes
    BY DEF Bytes
  <2>3. ServiceTypes
    BY DEF LogInv
  <2> QED BY <1>1, <2>1, <2>2, <2>3 DEF ServiceTypes
<1>4. DirTypes' /\ Restartable'
  BY <1>1 DEF LogInv, DirTypes, Restartable, Absent
<1>5. Room'
  BY <1>1, LogNumbers DEF LogInv, ServiceTypes, DirTypes, Room
<1>6. Logging' /\ Rotating' /\ Finishing' /\ Whole'
  BY <1>1, <1>2 DEF Logging, Rotating, Finishing, Whole
<1>7. SafeIsWhole' /\ KeptOnce'
  BY <1>1 DEF LogInv, SafeIsWhole, KeptOnce
<1> QED BY <1>3, <1>4, <1>5, <1>6, <1>7 DEF LogInv

(* What is read goes after what was read.                                     *)
Upto(n) == [j \in 1 .. n |-> j]
Further(n, k) == [j \in 1 .. k |-> n + j]

LEMMA UptoFurther ==
  ASSUME NEW n \in Nat, NEW k \in Nat
  PROVE  Upto(n) \in Bytes /\ Further(n, k) \in Bytes /\ Upto(n) \o Further(n, k) = Upto(n + k)
<1> DEFINE a == Upto(n)
           b == Further(n, k)
           u == Upto(n + k)
           y == a \o b
<1>1. a \in Bytes /\ Len(a) = n /\ \A i \in 1 .. n : a[i] = i
  BY DEF Upto, Bytes
<1>2. b \in Bytes /\ Len(b) = k /\ \A i \in 1 .. k : b[i] = n + i
  BY DEF Further, Bytes
<1>3. n + k \in Nat
  OBVIOUS
<1>4. u \in Bytes /\ Len(u) = n + k /\ \A i \in 1 .. n + k : u[i] = i
  BY <1>3 DEF Upto, Bytes
<1> HIDE DEF a, b, u
<1>5. /\ y \in Bytes /\ Len(y) = n + k
      /\ \A i \in 1 .. n : y[i] = a[i]
      /\ \A i \in 1 .. k : y[n + i] = b[i]
  BY <1>1, <1>2, Joined
<1> HIDE DEF y
<1>6. ASSUME NEW i \in 1 .. n + k PROVE y[i] = u[i]
  <2>1. CASE i \in 1 .. n
    BY <1>1, <1>4, <1>5, <2>1
  <2>2. CASE i - n \in 1 .. k
    <3>1. y[n + (i - n)] = b[i - n] /\ b[i - n] = n + (i - n)
      BY <1>2, <1>5, <2>2
    <3>2. n + (i - n) = i
      OBVIOUS
    <3> QED BY <1>4, <3>1, <3>2
  <2> QED BY <2>1, <2>2
<1>7. y = u
  <2>1. y \in Seq(Nat) /\ u \in Seq(Nat)
    BY <1>4, <1>5 DEF Bytes
  <2> QED BY <1>4, <1>5, <1>6, <2>1, SeqEqual
<1> QED BY <1>1, <1>2, <1>7 DEF a, b, u, y

LEMMA StepRead == ASSUME MultilogAssumption, LogInv, Read PROVE LogInv'
<1> USE DEF Read
<1>1. /\ UNCHANGED <<processor, fin, written, exitasap, file, linked, old, dropped, logged, kills, crashes>>
      /\ pc = "run" /\ Complete = 0
  OBVIOUS
<1>2. buf \in Bytes /\ logged \in Bytes /\ got \in Nat /\ written \in Nat /\ got <= written
  BY LogNumbers DEF LogInv, ServiceTypes
<1>3. CASE pc' = "quit" /\ UNCHANGED <<got, buf>> /\ ~MidLine
  <2>1. buf = <<>>
    BY <1>1, <1>2, <1>3 DEF Complete, MidLine, Bytes
  <2>2. ServiceTypes' /\ DirTypes' /\ Restartable' /\ Room'
    BY <1>1, <1>3 DEF LogInv, ServiceTypes, DirTypes, Restartable, Absent, Room
  <2>3. Logging'
    BY <1>1, <1>3 DEF LogInv, Logging, Absent
  <2>4. Rotating' /\ Finishing'
    BY <1>3 DEF Rotating, Finishing
  <2>5. Whole'
    BY <1>1, <1>3, <2>1 DEF LogInv, Whole, NothingLost
  <2>6. SafeIsWhole' /\ KeptOnce'
    BY <1>1 DEF LogInv, SafeIsWhole, KeptOnce
  <2> QED BY <2>2, <2>3, <2>4, <2>5, <2>6 DEF LogInv
<1>4. ASSUME NEW k \in 1 .. (IF exitasap /\ written > got THEN 1 ELSE written - got), pc' = pc,
             got' = got + k, buf' = buf \o [j \in 1 .. k |-> got + j]
      PROVE  LogInv'
  <2> DEFINE e == Further(got, k)
  <2>1. k \in Nat /\ k # 0 /\ got + k \in Nat /\ got + k <= written
    BY <1>2, <1>4
  <2>2. e \in Bytes /\ Upto(got) \in Bytes /\ Upto(got) \o e = Upto(got + k) /\ Len(e) = k /\ buf' = buf \o e
    <3>1. Len(e) = k
      BY <2>1 DEF Further
    <3>2. buf' = buf \o e
      BY <1>4 DEF Further
    <3> QED BY <1>2, <2>1, <3>1, <3>2, UptoFurther
  <2> HIDE DEF e
  <2>3. buf' \in Bytes /\ Len(buf') # 0
    <3>1. buf \o e \in Bytes /\ Len(buf \o e) = Len(buf) + k /\ Len(buf) \in Nat
      BY <1>2, <2>2, Joined
    <3> QED BY <2>1, <2>2, <3>1
  <2>4. ServiceTypes'
    BY <1>1, <1>4, <2>1, <2>3 DEF LogInv, ServiceTypes
  <2>5. DirTypes' /\ Restartable' /\ Room'
    BY <1>1, <1>4 DEF LogInv, DirTypes, Restartable, Absent, Room
  <2>6. Logging' /\ Rotating' /\ Finishing'
    BY <1>1, <1>4 DEF LogInv, Logging, Rotating, Finishing, Others, Absent
  <2>7. Whole'
    <3>1. ASSUME kills' = 0, crashes' = 0 PROVE logged' \o buf' = Upto(got')
      <4>1. logged \o buf = Upto(got)
        BY <1>1, <3>1 DEF LogInv, Whole, NothingLost, Upto
      <4>2. logged \o (buf \o e) = (logged \o buf) \o e
        BY <1>2, <2>2, Assoc
      <4> QED BY <1>1, <1>4, <2>2, <4>1, <4>2
    <3>2. NothingLost'
      BY <3>1 DEF NothingLost, Upto
    <3>3. buf' # <<>> /\ pc' = "run"
      BY <1>1, <1>4, <2>3
    <3> QED BY <3>2, <3>3 DEF Whole
  <2>8. SafeIsWhole' /\ KeptOnce'
    BY <1>1 DEF LogInv, SafeIsWhole, KeptOnce
  <2> QED BY <2>4, <2>5, <2>6, <2>7, <2>8 DEF LogInv
<1> QED BY <1>1, <1>3, <1>4

(* A part of a sequence and what follows it.                                  *)
LEMMA SplitAt ==
  ASSUME NEW b \in Bytes, NEW w \in 1 .. Len(b)
  PROVE  /\ SubSeq(b, 1, w) \in Bytes /\ SubSeq(b, w + 1, Len(b)) \in Bytes
         /\ SubSeq(b, 1, w) \o SubSeq(b, w + 1, Len(b)) = b
         /\ Len(SubSeq(b, 1, w)) = w /\ Len(SubSeq(b, w + 1, Len(b))) = Len(b) - w
<1>1. Len(b) \in Nat /\ w \in Int /\ w + 1 \in Int /\ Len(b) \in Int /\ 1 \in Int /\ b \in Seq(Nat)
  BY DEF Bytes
<1>2. \A i \in 1 .. Len(b) : b[i] \in Nat
  BY DEF Bytes
<1>3. /\ SubSeq(b, 1, w) \in Seq(Nat)
      /\ Len(SubSeq(b, 1, w)) = IF 1 <= w THEN w - 1 + 1 ELSE 0
  BY <1>1, <1>2, SubSeqProperties
<1>4. /\ SubSeq(b, w + 1, Len(b)) \in Seq(Nat)
      /\ Len(SubSeq(b, w + 1, Len(b))) = IF w + 1 <= Len(b) THEN Len(b) - (w + 1) + 1 ELSE 0
  BY <1>1, <1>2, SubSeqProperties
<1>5. SubSeq(b, 1, w) \o SubSeq(b, w + 1, Len(b)) = SubSeq(b, 1, Len(b))
  <2>1. 1 \in 1 .. Len(b) + 1 /\ w \in 1 - 1 .. Len(b) /\ Len(b) \in w .. Len(b)
    BY <1>1
  <2> QED BY <1>1, <2>1, ConcatAdjacentSubSeq
<1>6. SubSeq(b, 1, Len(b)) = b
  BY <1>1, SubSeqFull
<1>7. Len(SubSeq(b, 1, w)) = w
  BY <1>1, <1>3
<1>8. Len(SubSeq(b, w + 1, Len(b))) = Len(b) - w
  BY <1>1, <1>4
<1> QED BY <1>3, <1>4, <1>5, <1>6, <1>7, <1>8 DEF Bytes

(* What is offered to write() is complete.                                    *)
LEMMA LastEndIs ==
  ASSUME NEW n \in Nat
  PROVE  LastEnd(n) \in 0 .. n
<1> DEFINE P(e) == (e = 0 \/ IsEnd(buf[e])) /\ \A d \in e + 1 .. n : ~IsEnd(buf[d])
           T == {m \in 0 .. n : n - m = 0 \/ IsEnd(buf[n - m])}
<1>1. T \in SUBSET Nat /\ n \in T
  OBVIOUS
<1>2. PICK m \in T : \A k \in T : m <= k
  BY <1>1, LeastExists
<1>3. m \in 0 .. n /\ (n - m = 0 \/ IsEnd(buf[n - m]))
  BY <1>2
<1>4. ASSUME NEW d \in n - m + 1 .. n PROVE ~IsEnd(buf[d])
  <2>1. n - d \in 0 .. n /\ n - (n - d) = d /\ ~(m <= n - d)
    BY <1>3
  <2>2. n - d \notin T
    BY <1>2, <2>1
  <2> QED BY <2>1, <2>2
<1> HIDE DEF T
<1>5. n - m \in 0 .. n /\ P(n - m)
  BY <1>3, <1>4
<1> HIDE DEF P
<1>6. (CHOOSE e \in 0 .. n : P(e)) \in 0 .. n
  BY <1>5
<1>7. LastEnd(n) = CHOOSE e \in 0 .. n : P(e)
  BY DEF LastEnd, P
<1> QED BY <1>6, <1>7

LEMMA OfferedIs ==
  ASSUME MultilogAssumption, LogInv, Complete > 0, Len(file["current"].data) < Size
  PROVE  /\ Offered \in Nat /\ Offered <= Complete /\ Complete <= Len(buf) /\ buf # <<>>
         /\ Complete = Len(buf) => IsEnd(buf[Len(buf)])
<1>1. buf \in Bytes /\ Len(buf) \in Nat
  BY DEF LogInv, ServiceTypes, Bytes
<1>2. buf # <<>> /\ Complete = IF IsEnd(buf[Len(buf)]) THEN Len(buf) ELSE Len(buf) - 1
  BY DEF Complete, Last
<1> DEFINE c == Complete
           bytes == Len(file["current"].data)
           len == IF c >= Size - bytes THEN Size - bytes ELSE c
<1>3. c \in Nat /\ c <= Len(buf) /\ (c = Len(buf) => IsEnd(buf[Len(buf)]))
  BY <1>1, <1>2
<1>4. bytes \in Nat /\ bytes < Size /\ Size \in Nat
  BY ThreeFiles, LogNumbers DEF LogFile, Bytes
<1>5. Offered = IF bytes + len >= Size - Slack /\ LastEnd(len) > 0 THEN LastEnd(len) ELSE len
  BY DEF Offered
<1> HIDE DEF c, bytes
<1>6. len \in Nat /\ len <= c
  BY <1>3, <1>4
<1> HIDE DEF len
<1>7. LastEnd(len) \in 0 .. len
  BY <1>6, LastEndIs
<1>8. Offered \in Nat /\ Offered <= c
  BY <1>3, <1>5, <1>6, <1>7
<1> QED BY <1>2, <1>3, <1>8 DEF c

LEMMA StepWrite == ASSUME MultilogAssumption, LogInv, Write PROVE LogInv'
<1>1. /\ UNCHANGED <<processor, written, got, exitasap, linked, old, dropped, kills, crashes>>
      /\ pc = "run" /\ Complete > 0 /\ Len(file["current"].data) < Size
  BY DEF Write
<1>2. PICK w \in 1 .. Offered :
        /\ file' = [file EXCEPT !["current"].data = @ \o SubSeq(buf, 1, w)]
        /\ logged' = logged \o SubSeq(buf, 1, w)
        /\ buf' = SubSeq(buf, w + 1, Len(buf))
        /\ pc' \in {"run", "full1"} /\ fin' = fin
  BY DEF Write, Goto
<1>3. buf \in Bytes /\ logged \in Bytes /\ got \in Nat /\ Len(buf) \in Nat
  BY DEF LogInv, ServiceTypes, Bytes
<1>4. /\ w \in 1 .. Len(buf) /\ buf # <<>>
      /\ w = Len(buf) => IsEnd(buf[Len(buf)])
  <2>1. /\ Offered \in Nat /\ Offered <= Complete /\ Complete <= Len(buf) /\ buf # <<>>
        /\ Complete = Len(buf) => IsEnd(buf[Len(buf)])
    BY <1>1, OfferedIs
  <2>2. Complete \in Int
    BY <1>3 DEF Complete
  <2> QED BY <1>3, <2>1, <2>2
<1> DEFINE a == SubSeq(buf, 1, w)
           b == SubSeq(buf, w + 1, Len(buf))
           f == file["current"]
           c == [f EXCEPT !.data = f.data \o a]
<1>5. a \in Bytes /\ b \in Bytes /\ a \o b = buf /\ Len(a) = w /\ Len(b) = Len(buf) - w
  BY <1>3, <1>4, SplitAt
<1>6. logged' = logged \o a /\ buf' = b
  BY <1>2
<1>7. file' = [file EXCEPT !["current"] = c]
  BY <1>2
<1> HIDE DEF a, b
<1>8. f \in LogFile /\ f.data \in Bytes /\ f.synced <= Len(f.data) /\ f.synced \in Nat
  BY ThreeFiles DEF LogFile
<1>9. f.data \o a \in Bytes /\ Len(f.data \o a) = Len(f.data) + Len(a) /\ Len(f.data) \in Nat /\ Len(a) \in Nat
  BY <1>5, <1>8, Joined
<1>10. /\ c \in LogFile /\ c.data = f.data \o a /\ c.there = f.there /\ c.cut = f.cut /\ c.mark = f.mark
       /\ c.synced = f.synced /\ c.synced <= Len(c.data)
  <2>1. c \in LogFile
    BY <1>8, <1>9 DEF LogFile
  <2>2. c.data = f.data \o a /\ c.there = f.there /\ c.cut = f.cut /\ c.mark = f.mark /\ c.synced = f.synced
    BY <1>8 DEF LogFile
  <2>3. f.synced <= Len(f.data \o a)
    BY <1>8, <1>9
  <2> QED BY <2>1, <2>2, <2>3
<1>11. /\ f.there /\ ~f.cut /\ linked = "none" /\ Absent("previous") /\ Absent("processed") /\ ~f.mark
  BY <1>1 DEF LogInv, Logging
<1> HIDE DEF c, f
<1>12. /\ file'["current"] = c /\ file'["previous"] = file["previous"]
       /\ file'["processed"] = file["processed"] /\ file' \in [Names -> LogFile]
  BY <1>7, <1>10, ThreeFiles DEF Names
<1>13. ServiceTypes'
  <2>1. logged' \in Bytes
    BY <1>3, <1>5, <1>6, Joined
  <2> QED BY <1>1, <1>5, <1>6, <2>1 DEF LogInv, ServiceTypes
<1>14. DirTypes'
  BY <1>1, <1>2, <1>10, <1>12, ThreeFiles DEF LogInv, DirTypes, Names
<1>15. Restartable' /\ Logging'
  BY <1>1, <1>2, <1>10, <1>11, <1>12, GoneFacts DEF Restartable, Logging, Absent, Names
<1>16. Rotating' /\ Finishing'
  BY <1>2 DEF Rotating, Finishing
<1>17. Room'
  BY <1>1, <1>2 DEF LogInv, Room
<1>18. Whole'
  <2>1. ASSUME kills' = 0, crashes' = 0 PROVE logged' \o buf' = logged \o buf /\ logged \o buf = Upto(got)
    <3>1. logged \o buf = Upto(got)
      BY <1>1, <2>1 DEF LogInv, Whole, NothingLost, Upto
    <3>2. (logged \o a) \o b = logged \o (a \o b)
      BY <1>3, <1>5, Assoc
    <3> QED BY <1>5, <1>6, <3>1, <3>2
  <2>2. NothingLost'
    BY <1>1, <2>1 DEF NothingLost, Upto
  <2>3. ASSUME kills' = 0, crashes' = 0, buf' = <<>> PROVE got % 2 = 0
    <3>1. w = Len(buf)
      BY <1>3, <1>4, <1>5, <1>6, <2>3
    <3>2. buf[Len(buf)] % 2 = 0 /\ Len(buf) \in 1 .. Len(buf)
      BY <1>3, <1>4, <3>1 DEF IsEnd
    <3> DEFINE u == logged \o buf
    <3>3. u = Upto(got)
      BY <2>1, <2>3
    <3>4. Len(u) = Len(logged) + Len(buf) /\ Len(logged) \in Nat /\ u[Len(logged) + Len(buf)] = buf[Len(buf)]
      BY <1>3, <3>2, Joined
    <3> HIDE DEF u
    <3>5. Len(u) = got /\ \A i \in 1 .. got : u[i] = i
      BY <1>3, <3>3 DEF Upto
    <3>6. got \in 1 .. got
      BY <1>3, <3>2, <3>4, <3>5
    <3> QED BY <3>2, <3>4, <3>5, <3>6
  <2> QED BY <1>1, <1>2, <2>2, <2>3 DEF Whole
<1>19. SafeIsWhole'
  BY <1>1 DEF LogInv, SafeIsWhole
<1>20. KeptOnce'
  <2>1. Middle(file', linked) = Middle(file, linked)
    BY <1>12 DEF Middle
  <2>2. Newest(file', linked) = Newest(file, linked) \o a
    BY <1>10, <1>11, <1>12 DEF Newest, f
  <2>3. old \in Seq(OldFile) /\ dropped \in Bytes /\ file \in [Names -> LogFile]
    BY DEF LogInv, DirTypes
  <2>4. Kept(file', old, linked, dropped) = Kept(file, old, linked, dropped) \o a
    <3>1. PICK fs : fs = file'
      OBVIOUS
    <3>2. fs \in [Names -> LogFile] /\ a \in Bytes
      BY <1>5, <1>12, <3>1
    <3> DEFINE o == dropped \o FlattenSeq(Datas(old))
               m == Middle(file, linked)
               n == Newest(file, linked)
    <3>3. o \in Bytes /\ m \in Bytes /\ n \in Bytes
      BY <2>3, KeptParts, Joined
    <3>5. Kept(fs, old, linked, dropped) = o \o (Middle(fs, linked) \o Newest(fs, linked))
      BY <2>3, <3>2, KeptIs
    <3>6. Kept(file, old, linked, dropped) = o \o (m \o n)
      BY <2>3, KeptIs
    <3>7. Middle(fs, linked) = m /\ Newest(fs, linked) = n \o a
      BY <2>1, <2>2, <3>1
    <3> HIDE DEF o, m, n
    <3>8. m \o (n \o a) = (m \o n) \o a
      BY <3>2, <3>3, Assoc
    <3>9. m \o n \in Bytes
      BY <3>3, Joined
    <3>10. o \o ((m \o n) \o a) = (o \o (m \o n)) \o a
      BY <3>2, <3>3, <3>9, Assoc
    <3>4. Kept(fs, old, linked, dropped) = Kept(file, old, linked, dropped) \o a
      BY <3>5, <3>6, <3>7, <3>8, <3>10
    <3> QED BY <3>1, <3>4
  <2> QED BY <1>1, <1>6, <2>4 DEF LogInv, KeptOnce
<1> QED BY <1>13, <1>14, <1>15, <1>16, <1>17, <1>18, <1>19, <1>20 DEF LogInv

LEMMA RecordIs ==
  ASSUME NEW c \in LogFile, NEW p \in LogFile, NEW q \in LogFile,
         NEW fs, fs = [current |-> c, previous |-> p, processed |-> q]
  PROVE  fs \in [Names -> LogFile] /\ fs["current"] = c /\ fs["previous"] = p /\ fs["processed"] = q
BY DEF Names

LEMMA NoneCut ==
  ASSUME NEW d \in Bytes
  PROVE  SubSeq(d, 1, Len(d)) = d /\ Len(d) \in Nat /\ (Len(d) = 0 => d = <<>>)
BY SubSeqFull DEF Bytes

LEMMA PartOf ==
  ASSUME NEW d \in Bytes, NEW n \in 0 .. Len(d)
  PROVE  SubSeq(d, 1, n) \in Bytes /\ Len(SubSeq(d, 1, n)) = n
<1>1. Len(d) \in Nat /\ n \in Int /\ 1 \in Int
  BY DEF Bytes
<1>2. \A i \in 1 .. n : d[i] \in Nat
  BY <1>1 DEF Bytes
<1>3. SubSeq(d, 1, n) \in Seq(Nat) /\ Len(SubSeq(d, 1, n)) = IF 1 <= n THEN n - 1 + 1 ELSE 0
  BY <1>1, <1>2, SubSeqProperties
<1> QED BY <1>1, <1>3 DEF Bytes

(* What a crash leaves of a file.                                             *)
LEMMA CutFile ==
  ASSUME NEW f \in LogFile, f.synced <= Len(f.data), NEW g \in Cuts(f)
  PROVE  /\ g \in LogFile /\ g.there = f.there /\ g.mark = f.mark /\ g.synced <= Len(g.data)
         /\ OnDisk(f) => OnDisk(g)
         /\ f = Gone => g = Gone
<1>1. PICK n \in f.synced .. Len(f.data) :
        g = [f EXCEPT !.data = SubSeq(f.data, 1, n), !.synced = n, !.cut = f.cut \/ n < Len(f.data)]
  BY DEF Cuts
<1>2. f.data \in Bytes /\ f.synced \in Nat /\ Len(f.data) \in Nat /\ f.cut \in BOOLEAN
  BY NoneCut DEF LogFile
<1>3. n \in 0 .. Len(f.data) /\ n \in Nat
  BY <1>2
<1> DEFINE d == SubSeq(f.data, 1, n)
           b == f.cut \/ n < Len(f.data)
<1>4. d \in Bytes /\ Len(d) = n
  BY <1>2, <1>3, PartOf
<1>5. n = Len(f.data) => d = f.data
  BY <1>2, NoneCut
<1>6. b \in BOOLEAN /\ (n = Len(f.data) /\ ~f.cut => b = FALSE)
  BY <1>2, <1>3
<1>7. g = [f EXCEPT !.data = d, !.synced = n, !.cut = b]
  BY <1>1
<1> HIDE DEF d, b
<1>8. g \in LogFile
  BY <1>3, <1>4, <1>6, <1>7 DEF LogFile
<1>9. g.there = f.there /\ g.mark = f.mark /\ g.data = d /\ g.synced = n /\ g.cut = b
  BY <1>7 DEF LogFile
<1>10. g.synced <= Len(g.data)
  BY <1>3, <1>4, <1>9
<1>11. OnDisk(f) => OnDisk(g)
  <2>1. ASSUME OnDisk(f) PROVE n = Len(f.data) /\ ~f.cut
    BY <1>2, <2>1 DEF OnDisk
  <2> QED BY <1>4, <1>6, <1>9, <2>1 DEF OnDisk
<1>12. ASSUME f = Gone PROVE g = Gone
  <2>1. f.data = <<>> /\ Len(f.data) = 0 /\ f.synced = 0 /\ ~f.cut
    BY <1>12, GoneFacts
  <2>2. n = 0 /\ n = Len(f.data)
    BY <1>2, <1>3, <2>1
  <2>3. d = <<>> /\ b = FALSE
    BY <1>5, <1>6, <2>1, <2>2
  <2> QED BY <1>7, <1>12, <2>2, <2>3 DEF Gone
<1> QED BY <1>8, <1>9, <1>10, <1>11, <1>12

LEMMA CutOld ==
  ASSUME NEW f \in OldFile, f.synced <= Len(f.data), NEW g \in Cuts(f)
  PROVE  /\ g \in OldFile /\ g.code = f.code /\ g.synced <= Len(g.data)
         /\ OnDisk(f) => OnDisk(g)
<1>1. PICK n \in f.synced .. Len(f.data) :
        g = [f EXCEPT !.data = SubSeq(f.data, 1, n), !.synced = n, !.cut = f.cut \/ n < Len(f.data)]
  BY DEF Cuts
<1>2. f.data \in Bytes /\ f.synced \in Nat /\ Len(f.data) \in Nat /\ f.cut \in BOOLEAN
  BY NoneCut DEF OldFile
<1>3. n \in 0 .. Len(f.data) /\ n \in Nat
  BY <1>2
<1> DEFINE d == SubSeq(f.data, 1, n)
           b == f.cut \/ n < Len(f.data)
<1>4. d \in Bytes /\ Len(d) = n
  BY <1>2, <1>3, PartOf
<1>6. b \in BOOLEAN /\ (n = Len(f.data) /\ ~f.cut => b = FALSE)
  BY <1>2, <1>3
<1>7. g = [f EXCEPT !.data = d, !.synced = n, !.cut = b]
  BY <1>1
<1> HIDE DEF d, b
<1>8. g \in OldFile
  BY <1>3, <1>4, <1>6, <1>7 DEF OldFile
<1>9. g.code = f.code /\ g.data = d /\ g.synced = n /\ g.cut = b
  BY <1>7 DEF OldFile
<1>10. g.synced <= Len(g.data)
  BY <1>3, <1>4, <1>9
<1>11. OnDisk(f) => OnDisk(g)
  <2>1. ASSUME OnDisk(f) PROVE n = Len(f.data) /\ ~f.cut
    BY <1>2, <2>1 DEF OnDisk
  <2> QED BY <1>4, <1>6, <1>9, <2>1 DEF OnDisk
<1> QED BY <1>8, <1>9, <1>10, <1>11

LEMMA ThreeFields ==
  ASSUME NEW r \in LogFile, NEW d \in Bytes, NEW n \in Nat, NEW b \in BOOLEAN
  PROVE  [[[r EXCEPT !.data = d] EXCEPT !.synced = n] EXCEPT !.cut = b]
           = [there |-> r.there, data |-> d, synced |-> n, mark |-> r.mark, cut |-> b]
<1> DEFINE r1 == [r EXCEPT !.data = d]
           r2 == [r1 EXCEPT !.synced = n]
           r3 == [r2 EXCEPT !.cut = b]
           z == [there |-> r.there, data |-> d, synced |-> n, mark |-> r.mark, cut |-> b]
<1>1. r1 \in LogFile /\ r1.there = r.there /\ r1.mark = r.mark /\ r1.data = d
  BY DEF LogFile
<1> HIDE DEF r1
<1>2. r2 \in LogFile /\ r2.there = r.there /\ r2.mark = r.mark /\ r2.data = d /\ r2.synced = n
  BY <1>1 DEF LogFile
<1> HIDE DEF r2
<1>3. r3 \in LogFile /\ r3.there = r.there /\ r3.mark = r.mark /\ r3.data = d /\ r3.synced = n /\ r3.cut = b
  BY <1>2 DEF LogFile
<1> HIDE DEF r3
<1>4. r3 = z
  BY <1>3 DEF LogFile
<1> QED BY <1>4 DEF r1, r2, r3

LEMMA StepCrash == ASSUME MultilogAssumption, LogInv, Crash PROVE LogInv'
<1>1. /\ UNCHANGED <<processor, fin, written, got, dropped, linked, kills>>
      /\ pc' = "r1" /\ buf' = <<>> /\ exitasap' = FALSE
      /\ crashes' = crashes + 1 /\ crashes < Crashes
  BY DEF Crash, Lost
<1>a. PICK os \in {s \in [1 .. Len(old) -> UNION {Cuts(old[i]) : i \in 1 .. Len(old)}] :
                    \A i \in 1 .. Len(old) : s[i] \in Cuts(old[i])},
           c \in Cuts(file["current"]), p \in Cuts(file["previous"]),
           q \in Cuts(file["processed"]) :
        /\ old' = os
        /\ file' = LET fs == [current |-> c, previous |-> p, processed |-> q]
                       IN IF linked = "none" THEN fs
                          ELSE [fs EXCEPT ![linked].data = Last(os).data, ![linked].synced = Last(os).synced,
                                          ![linked].cut = Last(os).cut]
        /\ logged' = Kept(file', os, linked, dropped)
  BY ZenonT(60) DEF Crash
<1>2. /\ os \in [1 .. Len(old) -> UNION {Cuts(old[i]) : i \in 1 .. Len(old)}]
      /\ \A i \in 1 .. Len(old) : os[i] \in Cuts(old[i])
      /\ c \in Cuts(file["current"]) /\ p \in Cuts(file["previous"])
      /\ q \in Cuts(file["processed"])
      /\ old' = os
      /\ file' = LET fs == [current |-> c, previous |-> p, processed |-> q]
                     IN IF linked = "none" THEN fs
                        ELSE [fs EXCEPT ![linked].data = Last(os).data, ![linked].synced = Last(os).synced,
                                        ![linked].cut = Last(os).cut]
      /\ logged' = Kept(file', os, linked, dropped)
  BY <1>a
<1>3. /\ old \in Seq(OldFile) /\ Len(old) \in Nat /\ dropped \in Bytes
      /\ \A i \in 1 .. Len(old) : old[i] \in OldFile /\ old[i].synced <= Len(old[i].data)
  BY DEF LogInv, DirTypes
<1>4. \A i \in 1 .. Len(old) :
        /\ os[i] \in OldFile /\ os[i].code = old[i].code /\ os[i].synced <= Len(os[i].data)
        /\ OnDisk(old[i]) => OnDisk(os[i])
  <2>1. ASSUME NEW i \in 1 .. Len(old)
        PROVE  /\ os[i] \in OldFile /\ os[i].code = old[i].code /\ os[i].synced <= Len(os[i].data)
               /\ OnDisk(old[i]) => OnDisk(os[i])
    <3>1. old[i] \in OldFile /\ old[i].synced <= Len(old[i].data) /\ os[i] \in Cuts(old[i])
      BY <1>2, <1>3
    <3> QED BY <3>1, CutOld
  <2> QED BY <2>1
<1>5. os \in Seq(OldFile) /\ Len(os) = Len(old) /\ DOMAIN os = 1 .. Len(old)
  <2>1. os \in [1 .. Len(old) -> OldFile]
    BY <1>2, <1>4
  <2> QED BY <1>3, <2>1
<1>6. \A i \in 1 .. Len(old) : old[i].code = "s" => OnDisk(old[i])
  BY DEF LogInv, SafeIsWhole, OnDisk
<1>7. SafeIsWhole'
  <2>1. ASSUME NEW i \in 1 .. Len(os), os[i].code = "s" PROVE ~os[i].cut /\ os[i].synced = Len(os[i].data)
    <3>1. OnDisk(os[i])
      BY <1>4, <1>5, <1>6, <2>1
    <3> QED BY <3>1 DEF OnDisk
  <2> QED BY <1>2, <2>1 DEF SafeIsWhole
<1>8. ASSUME NEW n \in {"current", "previous", "processed"}, NEW g \in Cuts(file[n])
      PROVE  /\ g \in LogFile /\ g.there = file[n].there /\ g.mark = file[n].mark /\ g.synced <= Len(g.data)
             /\ OnDisk(file[n]) => OnDisk(g)
             /\ file[n] = Gone => g = Gone
  <2>1. file[n] \in LogFile /\ file[n].synced <= Len(file[n].data)
    BY ThreeFiles
  <2> QED BY <1>8, <2>1, CutFile
<1> DEFINE fs == [current |-> c, previous |-> p, processed |-> q]
           e == os[Len(os)]
           l == [there |-> fs[linked].there, data |-> e.data, synced |-> e.synced, mark |-> fs[linked].mark, cut |-> e.cut]
<1>9. /\ fs \in [Names -> LogFile]
      /\ \A n \in {"current", "previous", "processed"} :
           /\ fs[n] \in LogFile /\ fs[n].there = file[n].there /\ fs[n].mark = file[n].mark
           /\ fs[n].synced <= Len(fs[n].data)
           /\ OnDisk(file[n]) => OnDisk(fs[n])
           /\ file[n] = Gone => fs[n] = Gone
  <2>1. c \in LogFile /\ p \in LogFile /\ q \in LogFile
    BY <1>2, <1>8
  <2>2. fs \in [Names -> LogFile] /\ fs["current"] = c /\ fs["previous"] = p /\ fs["processed"] = q
    BY <2>1, RecordIs
  <2> HIDE DEF fs
  <2>3. ASSUME NEW n \in {"current", "previous", "processed"} PROVE fs[n] \in Cuts(file[n])
    BY <1>2, <2>2, <2>3
  <2> QED BY <1>8, <2>2, <2>3
<1>10. linked \in {"current", "previous", "processed", "none"} /\ Restartable
  BY DEF LogInv, DirTypes, Names
<1>11. linked # "none" =>
         /\ e \in OldFile /\ e.synced <= Len(e.data) /\ Len(os) \in 1 .. Len(old) /\ os # <<>>
         /\ e.code = old[Len(old)].code /\ (e.code = "s" => OnDisk(e))
  <2>1. ASSUME linked # "none" PROVE Len(old) \in 1 .. Len(old)
    BY <1>3, <1>10, <2>1 DEF Restartable
  <2>2. Len(old) \in 1 .. Len(old) => os # <<>>
    BY <1>5
  <2> QED BY <1>4, <1>5, <1>6, <2>1, <2>2
<1>12. file' = IF linked = "none" THEN fs ELSE [fs EXCEPT ![linked] = l]
  <2>1. CASE linked = "none"
    BY <1>2, <2>1
  <2>2. CASE linked # "none"
    <3>1. file' = [fs EXCEPT ![linked].data = e.data, ![linked].synced = e.synced, ![linked].cut = e.cut]
      BY <1>2, <2>2 DEF Last
    <3>2. linked \in Names /\ fs[linked] \in LogFile
      BY <1>9, <1>10, <2>2 DEF Names
    <3> DEFINE r == fs[linked]
    <3>3. [[[r EXCEPT !.data = e.data] EXCEPT !.synced = e.synced] EXCEPT !.cut = e.cut] = l
      <4>1. r \in LogFile /\ l = [there |-> r.there, data |-> e.data, synced |-> e.synced, mark |-> r.mark, cut |-> e.cut]
        BY <3>2
      <4>2. e.data \in Bytes /\ e.synced \in Nat /\ e.cut \in BOOLEAN
        BY <1>11, <2>2 DEF OldFile
      <4> DEFINE d == e.data
                 n == e.synced
                 b == e.cut
      <4>3. d \in Bytes /\ n \in Nat /\ b \in BOOLEAN
        BY <4>2
      <4> HIDE DEF r, d, n, b
      <4>4. [[[r EXCEPT !.data = d] EXCEPT !.synced = n] EXCEPT !.cut = b]
              = [there |-> r.there, data |-> d, synced |-> n, mark |-> r.mark, cut |-> b]
        BY <4>1, <4>3, ThreeFields
      <4> QED BY <4>1, <4>4 DEF d, n, b
    <3> HIDE DEF e, fs
    <3> QED BY <1>9, <2>2, <3>1, <3>2, <3>3
  <2> QED BY <2>1, <2>2
<1>13. linked # "none" =>
         /\ l \in LogFile /\ l.synced <= Len(l.data) /\ l.there = file[linked].there /\ l.mark = file[linked].mark
         /\ (e.code = "s" => OnDisk(l))
  <2>1. ASSUME linked # "none" PROVE l \in LogFile
    <3>1. fs[linked] \in LogFile /\ e \in OldFile
      BY <1>9, <1>10, <1>11, <2>1
    <3> HIDE DEF e, fs
    <3> QED BY <3>1 DEF LogFile, OldFile
  <2>2. linked # "none" => l.there = file[linked].there /\ l.mark = file[linked].mark
    BY <1>9, <1>10
  <2>3. l.data = e.data /\ l.synced = e.synced /\ l.cut = e.cut
    OBVIOUS
  <2> HIDE DEF e, fs, l
  <2> QED BY <1>11, <2>1, <2>2, <2>3 DEF OnDisk
<1> HIDE DEF fs, e, l
<1>14. /\ file' \in [Names -> LogFile]
       /\ \A n \in {"current", "previous", "processed"} :
            /\ file'[n] \in LogFile /\ file'[n].there = file[n].there /\ file'[n].mark = file[n].mark
            /\ file'[n].synced <= Len(file'[n].data)
            /\ linked # n /\ OnDisk(file[n]) => OnDisk(file'[n])
            /\ linked # n /\ file[n] = Gone => file'[n] = Gone
            /\ linked = n /\ e.code = "s" => OnDisk(file'[n])
  <2>1. CASE linked = "none"
    BY <1>9, <1>12, <2>1
  <2>2. CASE linked # "none"
    <3>1. file' = [fs EXCEPT ![linked] = l] /\ linked \in Names
      BY <1>10, <1>12, <2>2 DEF Names
    <3>2. file' \in [Names -> LogFile]
      BY <1>9, <1>13, <2>2, <3>1
    <3>3. \A n \in {"current", "previous", "processed"} : file'[n] = IF n = linked THEN l ELSE fs[n]
      BY <1>9, <3>1 DEF Names
    <3> QED BY <1>9, <1>13, <2>2, <3>2, <3>3
  <2> QED BY <2>1, <2>2
<1>15. ServiceTypes'
  <2>1. logged' \in Bytes
    <3>1. PICK g : g = file'
      OBVIOUS
    <3>2. g \in [Names -> LogFile]
      BY <1>14, <3>1
    <3>3. Kept(g, os, linked, dropped) \in Bytes
      BY <1>3, <1>5, <3>2, KeptIs
    <3> QED BY <1>2, <3>1, <3>3
  <2>2. crashes + 1 \in 0 .. Crashes
    BY <1>1, LogNumbers DEF LogInv, ServiceTypes
  <2>3. <<>> \in Bytes
    BY DEF Bytes
  <2>4. ServiceTypes
    BY DEF LogInv
  <2> QED BY <1>1, <2>1, <2>2, <2>3, <2>4 DEF ServiceTypes
<1>16. DirTypes'
  <2>1. \A i \in DOMAIN old' : old'[i].synced <= Len(old'[i].data)
    BY <1>2, <1>4, <1>5
  <2>2. DirTypes
    BY DEF LogInv
  <2> QED BY <1>1, <1>2, <1>5, <1>14, <2>1, <2>2 DEF DirTypes, Names
<1>17. Restartable'
  <2>1. \A n \in Names : ~file'[n].there => file'[n] = Gone
    BY <1>10, <1>14 DEF Restartable, Names, Absent
  <2>2. linked # "none" => file'[linked].there /\ old' # <<>>
    BY <1>2, <1>10, <1>11, <1>14 DEF Restartable
  <2>3. linked = "processed" => old'[Len(old')].code = "s"
    <3>1. linked = "processed" => e.code = "s"
      BY <1>10, <1>11 DEF Restartable
    <3> QED BY <1>2, <3>1 DEF e
  <2>4. file'["processed"].mark => OnDisk(file'["processed"])
    <3>1. linked = "processed" => e.code = "s"
      BY <1>10, <1>11 DEF Restartable
    <3> QED BY <1>10, <1>14, <3>1 DEF Restartable
  <2>5. file'["current"].mark =>
          Absent("previous") /\ Absent("processed") /\ linked = "none" /\ OnDisk(file["current"])
    BY <1>10, <1>14 DEF Restartable
  <2> QED BY <1>1, <1>10, <1>14, <2>1, <2>2, <2>3, <2>4, <2>5 DEF Restartable, Absent
<1>18. Logging' /\ Rotating' /\ Finishing'
  BY <1>1 DEF Logging, Rotating, Finishing
<1>19. Room'
  <2>1. Len(old) <= Num + kills + crashes
    BY <1>3, LogNumbers DEF LogInv, Room, ServiceTypes
  <2>2. kills \in Nat /\ crashes \in Nat /\ Num \in Nat
    BY LogNumbers DEF LogInv, ServiceTypes
  <2>3. Len(old) < Num + kills + (crashes + 1)
    BY <1>3, <2>1, <2>2
  <2> QED BY <1>1, <1>2, <1>5, <2>3 DEF Room
<1>20. Whole'
  <2>1. crashes + 1 # 0
    BY DEF LogInv, ServiceTypes
  <2> QED BY <1>1, <2>1 DEF Whole
<1>21. KeptOnce'
  BY <1>1, <1>2 DEF KeptOnce
<1> QED BY <1>7, <1>15, <1>16, <1>17, <1>18, <1>19, <1>20, <1>21 DEF LogInv

LEMMA StepLog == ASSUME MultilogAssumption, LogInv, [Next]_vars PROVE LogInv'
<1>1. CASE UNCHANGED vars
  <2>1. ServiceTypes' /\ DirTypes' /\ Restartable' /\ Room'
    BY <1>1 DEF vars, LogInv, ServiceTypes, DirTypes, Restartable, Absent, Room
  <2>2. Logging' /\ Rotating' /\ Finishing'
    BY <1>1 DEF vars, LogInv, Logging, Rotating, Finishing, Others, Absent
  <2>3. Whole'
    BY <1>1 DEF vars, LogInv, Whole, NothingLost
  <2>4. SafeIsWhole' /\ KeptOnce'
    BY <1>1 DEF vars, LogInv, SafeIsWhole, KeptOnce
  <2> QED BY <2>1, <2>2, <2>3, <2>4 DEF LogInv
<1>2. CASE Step
  BY <1>2, StepLink, StepUnlink, StepFit, StepFull1, StepFull2, StepFull3, StepProcess, StepProcSync, StepProcMark,
     StepProcUnlink, StepRestart1, StepRestart2, StepRestart3, StepRead, StepWrite, StepQuit DEF Step
<1>3. CASE Next
  BY <1>2, <1>3, StepService, StepRotate, StepAgain, StepKilled, StepCrash DEF Next
<1> QED BY <1>1, <1>3

LEMMA LogPromises ==
  ASSUME MultilogAssumption, LogInv
  PROVE  /\ TypeOK /\ KeptOnce /\ SafeIsWhole /\ EndsBetweenLines
         /\ NothingLost /\ RoomIsMade
<1>1. Len(old) <= Num + Kills + Crashes
  <2>1. Len(old) <= Num + kills + crashes
    BY LogNumbers DEF LogInv, DirTypes, Room, ServiceTypes
  <2>2. Len(old) \in Nat
    BY DEF LogInv, DirTypes
  <2> QED BY <2>1, <2>2, LogNumbers DEF LogInv, ServiceTypes
<1>2. \A n \in Names : file[n].synced \in 0 .. Len(file[n].data)
  <2>1. ASSUME NEW n \in {"current", "previous", "processed"}
        PROVE  file[n].synced \in 0 .. Len(file[n].data)
    <3>1. file[n] \in LogFile /\ file[n].synced <= Len(file[n].data)
      BY ThreeFiles
    <3>2. file[n].synced \in Nat /\ Len(file[n].data) \in Nat
      BY <3>1 DEF LogFile, Bytes
    <3> QED BY <3>1, <3>2
  <2> QED BY <2>1 DEF Names
<1>3. TypeOK
  <2>1. linked \in Names \cup {"none"} /\ (linked # "none" => file[linked].there /\ old # <<>>)
    BY LogNumbers DEF LogInv, DirTypes, Restartable
  <2>2. processor \in BOOLEAN /\ got <= written /\ written \in 0 .. 2 * Lines
    BY DEF LogInv, ServiceTypes
  <2>3. pc \in {"run", "link", "unlink", "fit", "full1", "full2", "full3", "process", "psync", "pmark", "punlink",
                    "r1", "r2", "r3", "quit", "mark", "exited"}
    BY DEF LogInv, DirTypes
  <2> QED BY <1>1, <1>2, <2>1, <2>2, <2>3 DEF TypeOK
<1>4. EndsBetweenLines
  <2>1. ASSUME pc = "exited" PROVE buf = <<>> /\ file["current"].mark
    BY <2>1 DEF LogInv, Whole, Logging
  <2>2. ASSUME pc = "exited", kills = 0, crashes = 0 PROVE got % 2 = 0
    BY <2>1, <2>2 DEF LogInv, Whole
  <2> QED BY <2>1, <2>2 DEF EndsBetweenLines
<1>5. NothingLost
  BY DEF LogInv, Whole, NothingLost
<1>6. RoomIsMade
  BY DEF LogInv, Room, RoomIsMade
<1> QED BY <1>3, <1>4, <1>5, <1>6 DEF LogInv

(* However multilog is told to end or killed, and whenever the machine stops, *)
(* between any two system calls: each byte written to current that no crash   *)
(* took is in one place and in order until its old file is removed, what is   *)
(* marked as safe is on disk, a log that ends ends between two lines, and     *)
(* there is room when multilog waits.                                         *)
THEOREM AlwaysKept ==
  ASSUME MultilogAssumption
  PROVE  Spec => [](KeptOnce /\ SafeIsWhole /\ EndsBetweenLines /\ NothingLost /\ RoomIsMade)
<1>1. Init => LogInv
  BY InitLog
<1>2. LogInv /\ [Next]_vars => LogInv'
  BY StepLog
<1>3. LogInv => KeptOnce /\ SafeIsWhole /\ EndsBetweenLines /\ NothingLost /\ RoomIsMade
  BY LogPromises
<1> QED BY <1>1, <1>2, <1>3, PTL DEF Spec
===============================================================================
