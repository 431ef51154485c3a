-------------------------- MODULE VideoStreamProofs --------------------------
(***************************************************************************)
(* Proofs about VideoStream: its types, and the three invariants its runs  *)
(* check, for every backlog of the encoder, every length of the queue and  *)
(* of the viewer's hold, and every number of faults.                       *)
(*                                                                         *)
(* The argument.  The pictures under way form one line, from the viewer    *)
(* back to the encoder, and the invariant says where in it a picture may   *)
(* be that misses the one before it.  One that the host dropped is missed  *)
(* by the first that is not past the gates, and then they are closed, or   *)
(* by one in the queue or in hand that a fence will drop as well.  One     *)
(* that was lost later is missed by a picture whose number shows it.  So   *)
(* what the viewer is handed is in step or shows a gap, and the gate is    *)
(* closed on it.                                                           *)
(*                                                                         *)
(* Each step is proved twice over: what it does to a line, a matter of     *)
(* functions and order alone (the lemmas ...Line and ...Loss), and that    *)
(* the action does that to the pipe (the lemmas ...Step).                  *)
(***************************************************************************)
EXTENDS VideoStream, TLAPS, FiniteSetTheorems, SequenceTheorems

-----------------------------------------------------------------------------
(* Pictures, sets of numbers, and what dropping does to a sequence *)

(* A picture, and what the next one will miss. *)
Picture == [at : Places, key : BOOLEAN, id : KeyIds \cup {0}, miss : Misses, gap : BOOLEAN,
            old : BOOLEAN, part : Parts]
Beyond == [miss : Misses, gap : BOOLEAN]

(* A set of numbers has a least one. *)
LEMMA LeastExists ==
  ASSUME NEW S \in SUBSET Nat, S # {}
  PROVE  \E x \in S : \A y \in S : x <= y
<1>1. \E x \in S : \A y \in S : ~ (<<y, x>> \in OpToRel(<, Nat))
  BY NatLessThanWellFounded, WFMin
<1>2. \A x, y \in Nat : y < x => <<y, x>> \in OpToRel(<, Nat)
  <2>. SUFFICES ASSUME NEW x \in Nat, NEW y \in Nat, y < x PROVE <<y, x>> \in OpToRel(<, Nat)
    OBVIOUS
  <2>1. <<y, x>> \in Nat \X Nat /\ <<y, x>>[1] < <<y, x>>[2]
    OBVIOUS
  <2>. QED BY <2>1, Zenon DEF OpToRel
<1>3. \E x \in S : \A y \in S : ~ (y < x)
  BY <1>1, <1>2
<1>. QED BY <1>3

(* The least of a set of numbers. *)
LEMMA MinFacts ==
  ASSUME NEW S \in SUBSET Nat, S # {}
  PROVE  Min(S) \in S /\ \A y \in S : Min(S) <= y
<1>1. \E x \in S : \A y \in S : x <= y
  BY LeastExists
<1>. QED BY <1>1, Zenon DEF Min

(* The rank of a member of a finite set of numbers. *)
Rank(T, i) == Cardinality({j \in T : j <= i})

(* The members of a finite set of numbers have the ranks from 1 to their *)
(* number, each one of them, and in their order.                         *)
LEMMA RankFacts ==
  ASSUME NEW n \in Nat, NEW T \in SUBSET (1 .. n)
  PROVE  /\ IsFiniteSet(T) /\ Cardinality(T) \in Nat
         /\ \A i \in T : Rank(T, i) \in 1 .. Cardinality(T)
         /\ \A i, j \in T : i < j => Rank(T, i) < Rank(T, j)
         /\ \A k \in 1 .. Cardinality(T) : \E i \in T : Rank(T, i) = k
<1>1. IsFiniteSet(T) /\ Cardinality(T) \in Nat
  <2>1. IsFiniteSet(1 .. n)
    BY FS_Interval
  <2>. QED BY <2>1, FS_Subset, FS_CardinalityType, Zenon
<1>2. \A i : LET U == {j \in T : j <= i} IN IsFiniteSet(U) /\ Cardinality(U) \in Nat /\ Cardinality(U) <= Cardinality(T)
  <2>. TAKE i
  <2>. DEFINE U == {j \in T : j <= i}
  <2>1. U \in SUBSET T
    OBVIOUS
  <2>. QED BY <2>1, <1>1, FS_Subset, FS_CardinalityType
<1>3. \A i, j \in T : i < j => Rank(T, i) < Rank(T, j)
  <2>. SUFFICES ASSUME NEW i \in T, NEW j \in T, i < j PROVE Rank(T, i) < Rank(T, j)
    OBVIOUS
  <2>. DEFINE U == {k \in T : k <= i}
              V == {k \in T : k <= j}
  <2>1. IsFiniteSet(U) /\ IsFiniteSet(V) /\ Cardinality(U) \in Nat /\ Cardinality(V) \in Nat
    BY <1>2
  <2>2. i \in Int /\ j \in Int
    OBVIOUS
  <2>3. j \notin U /\ U \cup {j} \in SUBSET V
    <3>1. j \notin U
      BY <2>2
    <3>2. \A k \in U : k \in V
      BY <2>2
    <3>3. j \in V
      BY <2>2
    <3>. QED BY <3>1, <3>2, <3>3, Zenon
  <2>4. Cardinality(U \cup {j}) = Cardinality(U) + 1
    BY <2>1, <2>3, FS_AddElement, Zenon
  <2>5. Cardinality(U \cup {j}) <= Cardinality(V)
    BY <2>1, <2>3, FS_Subset, Zenon
  <2>. HIDE DEF U, V
  <2>6. Cardinality(U) < Cardinality(V)
    BY <2>1, <2>4, <2>5
  <2>. QED BY <2>6 DEF Rank, U, V
<1>4. \A i \in T : Rank(T, i) \in 1 .. Cardinality(T)
  <2>. SUFFICES ASSUME NEW i \in T PROVE Rank(T, i) \in 1 .. Cardinality(T)
    OBVIOUS
  <2>. DEFINE U == {k \in T : k <= i}
  <2>1. IsFiniteSet(U) /\ Cardinality(U) \in Nat /\ Cardinality(U) <= Cardinality(T)
    BY <1>2
  <2>2. i \in U
    OBVIOUS
  <2>3. Cardinality(U) # 0
    BY <2>1, <2>2, FS_EmptySet, Zenon
  <2>. HIDE DEF U
  <2>4. Cardinality(U) \in 1 .. Cardinality(T)
    BY <2>1, <2>3, <1>1
  <2>. QED BY <2>4 DEF Rank, U
<1>5. \A k \in 1 .. Cardinality(T) : \E i \in T : Rank(T, i) = k
  <2>. DEFINE c == Cardinality(T)
              g == [i \in T |-> Rank(T, i)]
  <2>1. g \in [T -> 1 .. c]
    BY <1>4
  <2>2. \A i, j \in T : g[i] = g[j] => i = j
    <3>1. \A i, j \in T : i \in Int /\ j \in Int /\ Rank(T, i) \in Int /\ Rank(T, j) \in Int
      BY <1>4, <1>1
    <3>. QED BY <1>3, <3>1
  <2>3. g \in Injection(T, 1 .. c)
    BY <2>1, <2>2, Zenon DEF Injection, IsInjective
  <2>4. IsFiniteSet(1 .. c) /\ Cardinality(1 .. c) = c
    BY <1>1, FS_Interval
  <2>5. g \in Surjection(T, 1 .. c)
    BY <2>3, <2>4, FS_Injection, Zenon
  <2>. QED BY <2>5, Zenon DEF Surjection
<1>. QED BY <1>1, <1>3, <1>4, <1>5

(* What a picture keeps whatever is dropped in front of it. *)
Alike(a, b) == a.at = b.at /\ (a.key <=> b.key) /\ a.id = b.id /\ (a.old <=> b.old)

(* What becomes of the miss of y, when the pictures right before it are dropped. *)
Same(a, b) == a.miss = b.miss /\ (a.gap <=> b.gap)
Bears(x, y, hit, who) ==
  /\ ~hit => Same(x, y)
  /\ hit /\ who = "host" => x.miss = "host"
  /\ who # "host" => (x.miss = "host" <=> y.miss = "host")
  /\ y.gap => x.gap
  /\ x.miss = "later" => y.miss = "later" \/ (hit /\ x.gap /\ who = "later")

(* f says where the pictures of q were in p; S is what is gone. *)
Thins(q, p, S, f) ==
  /\ f \in [DOMAIN q -> DOMAIN p \ S]
  /\ \A j, k \in DOMAIN q : j < k => f[j] < f[k]
  /\ \A i \in DOMAIN p \ S : \E k \in DOMAIN q : f[k] = i
  /\ \A k \in DOMAIN q : Rank(DOMAIN p \ S, f[k]) = k

(* The worse of what a picture misses already and what is dropped now. *)
Worst(a, who) == CHOOSE m \in {a, who} : \A o \in {a, who} : Worse(m, o)
Missed(x, m, g) == [x EXCEPT !.miss = m, !.gap = g]

(* The worse of two misses is one of the two, and the host's if either is. *)
LEMMA WorstFacts ==
  ASSUME NEW a \in Misses, NEW who \in Misses
  PROVE  LET m == Worst(a, who) IN
         /\ m \in Misses /\ m \in {a, who}
         /\ who = "host" => m = "host"
         /\ who # "host" => (m = "host" <=> a = "host")
<1>1. \E x \in {a, who} : \A o \in {a, who} : Worse(x, o)
  BY DEF Worse, Misses
<1>. DEFINE m == Worst(a, who)
<1>2. m \in {a, who} /\ \A o \in {a, who} : Worse(m, o)
  BY <1>1, Zenon DEF Worst
<1>. HIDE DEF m
<1>3. /\ m \in Misses /\ m \in {a, who}
      /\ who = "host" => m = "host"
      /\ who # "host" => (m = "host" <=> a = "host")
  BY <1>2 DEF Worse, Misses
<1>. QED BY <1>3 DEF m

(* A picture that misses something else stays what it is otherwise. *)
LEMMA PictureMisses ==
  ASSUME NEW x \in Picture, NEW m \in Misses, NEW g \in BOOLEAN
  PROVE  /\ Missed(x, m, g) \in Picture /\ Alike(Missed(x, m, g), x)
         /\ Missed(x, m, g).miss = m /\ Missed(x, m, g).gap = g
BY DEF Picture, Alike, Missed

(* The same of what the next picture will miss. *)
LEMMA BeyondMisses ==
  ASSUME NEW x \in Beyond, NEW m \in Misses, NEW g \in BOOLEAN
  PROVE  Missed(x, m, g) \in Beyond /\ Missed(x, m, g).miss = m /\ Missed(x, m, g).gap = g
BY DEF Beyond, Missed

(* A sequence has the elements 1 to its length, and all are of its type. *)
LEMMA SeqFacts ==
  ASSUME NEW T, NEW p \in Seq(T)
  PROVE  Len(p) \in Nat /\ DOMAIN p = 1 .. Len(p) /\ \A i \in DOMAIN p : p[i] \in T
BY LenProperties, ElementOfSeq

(* A function on 1 to n is a sequence of n. *)
LEMMA SeqOfFacts ==
  ASSUME NEW T, NEW n \in Nat, NEW q \in [1 .. n -> T]
  PROVE  q \in Seq(T) /\ Len(q) = n /\ DOMAIN q = 1 .. n
<1>1. q \in Seq(T)
  BY SeqDef, Zenon
<1>2. DOMAIN q = 1 .. Len(q) /\ Len(q) \in Nat /\ DOMAIN q = 1 .. n
  BY <1>1, LenProperties
<1>3. Len(q) = n
  BY <1>2
<1>. QED BY <1>1, <1>2, <1>3

(* When pictures are dropped (DropHand, ClearQueueForResync, the            *)
(* assembler's evictions), the rest keep their order and what they are; the *)
(* one behind a hole misses it, as the worst of what it misses, and shows a *)
(* gap if the dropped had their numbers.                                    *)
LEMMA GoneFacts ==
  ASSUME NEW p \in Seq(Picture), NEW n \in Beyond, NEW S \in SUBSET DOMAIN p,
         NEW who \in Misses \ {"none"}, NEW numbered \in BOOLEAN, who = "later" => numbered
  PROVE  LET g == Gone(p, n, S, who, numbered)
         IN  /\ g.pipe \in Seq(Picture) /\ g.next \in Beyond
             /\ \E f : /\ Thins(g.pipe, p, S, f)
                       /\ \A k \in DOMAIN g.pipe :
                            /\ Alike(g.pipe[k], p[f[k]])
                            /\ Bears(g.pipe[k], p[f[k]], f[k] - 1 \in S, who)
             /\ Bears(g.next, n, Len(p) \in S, who)
<1>. DEFINE g == Gone(p, n, S, who, numbered)
            Left == DOMAIN p \ S
            c == Cardinality(Left)
            Kept(k) == CHOOSE i \in Left : Cardinality({j \in Left : j <= i}) = k
            Before(i) == {j \in S : j < i /\ \A k \in j .. i - 1 : k \in S}
            Missing(x, i) ==
              IF Before(i) = {} THEN x
              ELSE [x EXCEPT !.miss = CHOOSE m \in {@, who} : \A o \in {@, who} : Worse(m, o),
                             !.gap = @ \/ numbered \/ \E j \in Before(i) : p[j].gap]
            q == [k \in 1 .. c |-> Missing(p[Kept(k)], Kept(k))]
<1>1. Len(p) \in Nat /\ DOMAIN p = 1 .. Len(p) /\ \A i \in DOMAIN p : p[i] \in Picture
  BY SeqFacts
<1>2. CASE S = {}
  <2>1. g = [pipe |-> p, next |-> n]
    BY <1>2, Zenon DEF Gone
  <2>2. g.pipe = p /\ g.next = n
    BY <2>1
  <2>. DEFINE f == [k \in DOMAIN p |-> k]
  <2>3. Thins(p, p, S, f)
    <3>1. /\ f \in [DOMAIN p -> DOMAIN p \ S]
          /\ \A j, k \in DOMAIN p : j < k => f[j] < f[k]
          /\ \A i \in DOMAIN p \ S : \E k \in DOMAIN p : f[k] = i
      BY <1>1, <1>2
    <3>2. \A k \in DOMAIN p : Rank(DOMAIN p \ S, f[k]) = k
      <4>. TAKE k \in DOMAIN p
      <4>1. {j \in DOMAIN p \ S : j <= f[k]} = 1 .. k
        BY <1>1, <1>2
      <4>2. Cardinality(1 .. k) = k
        BY <1>1, FS_Interval
      <4>. QED BY <4>1, <4>2, Zenon DEF Rank
    <3>. QED BY <3>1, <3>2, Zenon DEF Thins
  <2>4. \A k \in DOMAIN p : Alike(p[k], p[f[k]]) /\ Bears(p[k], p[f[k]], f[k] - 1 \in S, who)
    BY <1>2 DEF Bears, Same, Alike
  <2>5. Bears(n, n, Len(p) \in S, who)
    BY <1>2 DEF Bears, Same
  <2>. HIDE DEF f, g
  <2>6. QED BY <2>2, <2>3, <2>4, <2>5 DEF g
<1>3. CASE S # {}
  <2>1. g = [pipe |-> q, next |-> Missing(n, Len(p) + 1)]
    BY <1>3, Zenon DEF Gone
  <2>2. /\ c \in Nat
        /\ \A i \in Left : Rank(Left, i) \in 1 .. c
        /\ \A i, j \in Left : i < j => Rank(Left, i) < Rank(Left, j)
        /\ \A k \in 1 .. c : \E i \in Left : Rank(Left, i) = k
    <3>1. Left \in SUBSET (1 .. Len(p))
      BY <1>1
    <3>. HIDE DEF Left
    <3>. QED BY <3>1, <1>1, RankFacts, Zenon
  <2>3. \A k \in 1 .. c : Kept(k) \in Left /\ Rank(Left, Kept(k)) = k
    <3>. TAKE k \in 1 .. c
    <3>1. \E i \in Left : Cardinality({j \in Left : j <= i}) = k
      BY <2>2, Zenon DEF Rank
    <3>. HIDE DEF Left
    <3>. QED BY <3>1, Zenon DEF Rank
  <2>4. \A i \in 1 .. Len(p) + 1 : Before(i) # {} <=> i - 1 \in S
    <3>. TAKE i \in 1 .. Len(p) + 1
    <3>1. ASSUME i - 1 \in S PROVE i - 1 \in Before(i)
      <4>1. i - 1 < i /\ \A k \in i - 1 .. i - 1 : k = i - 1
        BY <1>1
      <4>. QED BY <4>1, <3>1
    <3>2. ASSUME NEW j \in Before(i) PROVE i - 1 \in S
      <4>1. j \in 1 .. Len(p) /\ j < i /\ \A k \in j .. i - 1 : k \in S
        BY <1>1
      <4>2. i - 1 \in j .. i - 1
        BY <4>1, <1>1
      <4>. QED BY <4>1, <4>2
    <3>. QED BY <3>1, <3>2
  <2>5. \A i \in 1 .. Len(p) + 1 : \A x \in Picture :
          /\ Missing(x, i) \in Picture /\ Alike(Missing(x, i), x)
          /\ Bears(Missing(x, i), x, i - 1 \in S, who)
    <3>. TAKE i \in 1 .. Len(p) + 1
    <3>. TAKE x \in Picture
    <3>1. CASE Before(i) = {}
      <4>1. Missing(x, i) = x /\ i - 1 \notin S
        BY <3>1, <2>4, Zenon
      <4>. HIDE DEF Missing
      <4>. QED BY <4>1 DEF Bears, Same, Alike
    <3>2. CASE Before(i) # {}
      <4>. DEFINE worst == Worst(x.miss, who)
                  b == x.gap \/ numbered \/ \E j \in Before(i) : p[j].gap
      <4>1. Missing(x, i) = Missed(x, worst, b) /\ i - 1 \in S
        BY <3>2, <2>4, Zenon DEF Missed, Worst
      <4>2. x.miss \in Misses /\ who \in Misses
        BY DEF Picture
      <4>3. /\ worst \in Misses /\ worst \in {x.miss, who}
            /\ who = "host" => worst = "host"
            /\ who # "host" => (worst = "host" <=> x.miss = "host")
        BY <4>2, WorstFacts, Zenon
      <4>4. b \in BOOLEAN /\ (numbered => b) /\ (x.gap => b)
        OBVIOUS
      <4>. HIDE DEF worst, b, Missing
      <4>5. /\ Missing(x, i) \in Picture /\ Alike(Missing(x, i), x)
            /\ Missing(x, i).miss = worst /\ Missing(x, i).gap = b
        <5>1. /\ Missed(x, worst, b) \in Picture /\ Alike(Missed(x, worst, b), x)
              /\ Missed(x, worst, b).miss = worst /\ Missed(x, worst, b).gap = b
          BY <4>3, <4>4, PictureMisses
        <5>. QED BY <5>1, <4>1, Zenon
      <4>. QED BY <4>1, <4>3, <4>4, <4>5, Zenon DEF Bears, Same
    <3>. QED BY <3>1, <3>2
  <2>6. /\ Missing(n, Len(p) + 1) \in Beyond
        /\ Bears(Missing(n, Len(p) + 1), n, Len(p) \in S, who)
    <3>0. Len(p) + 1 \in 1 .. Len(p) + 1 /\ (Len(p) + 1) - 1 = Len(p)
      BY <1>1
    <3>1. CASE Before(Len(p) + 1) = {}
      <4>1. Missing(n, Len(p) + 1) = n /\ Len(p) \notin S
        BY <3>1, <2>4, <3>0, Zenon
      <4>. HIDE DEF Missing
      <4>. QED BY <4>1 DEF Bears, Same
    <3>2. CASE Before(Len(p) + 1) # {}
      <4>. DEFINE worst == Worst(n.miss, who)
                  b == n.gap \/ numbered \/ \E j \in Before(Len(p) + 1) : p[j].gap
      <4>1. Missing(n, Len(p) + 1) = Missed(n, worst, b) /\ Len(p) \in S
        BY <3>2, <2>4, <3>0, Zenon DEF Missed, Worst
      <4>2. n.miss \in Misses /\ who \in Misses
        BY DEF Beyond
      <4>3. /\ worst \in Misses /\ worst \in {n.miss, who}
            /\ who = "host" => worst = "host"
            /\ who # "host" => (worst = "host" <=> n.miss = "host")
        BY <4>2, WorstFacts, Zenon
      <4>4. b \in BOOLEAN /\ (numbered => b) /\ (n.gap => b)
        OBVIOUS
      <4>. HIDE DEF worst, b, Missing
      <4>5. /\ Missing(n, Len(p) + 1) \in Beyond
            /\ Missing(n, Len(p) + 1).miss = worst /\ Missing(n, Len(p) + 1).gap = b
        <5>1. /\ Missed(n, worst, b) \in Beyond
              /\ Missed(n, worst, b).miss = worst /\ Missed(n, worst, b).gap = b
          BY <4>3, <4>4, BeyondMisses
        <5>. QED BY <5>1, <4>1, Zenon
      <4>. QED BY <4>1, <4>3, <4>4, <4>5, Zenon DEF Bears, Same
    <3>. QED BY <3>1, <3>2
  <2>7. \A k \in 1 .. c : Kept(k) \in 1 .. Len(p) /\ Kept(k) \in 1 .. Len(p) + 1 /\ p[Kept(k)] \in Picture
    <3>1. \A i \in Left : i \in 1 .. Len(p) /\ i \in 1 .. Len(p) + 1 /\ p[i] \in Picture
      BY <1>1
    <3>. HIDE DEF Left, Kept, c
    <3>. QED BY <3>1, <2>3
  <2>. DEFINE f == [k \in 1 .. c |-> Kept(k)]
  <2>. HIDE DEF Missing
  <2>8. q \in [1 .. c -> Picture]
    <3>. HIDE DEF Kept, c
    <3>. QED BY <2>5, <2>7, Zenon
  <2>9. q \in Seq(Picture) /\ DOMAIN q = 1 .. c
    <3>. HIDE DEF q, c
    <3>. QED BY <2>8, <2>2, SeqOfFacts, Zenon
  <2>10. \A k \in 1 .. c : q[k] = Missing(p[f[k]], f[k])
    <3>. HIDE DEF Kept, c
    <3>. QED BY Zenon
  <2>11. f \in [1 .. c -> Left]
    <3>. HIDE DEF Kept, c, Left
    <3>. QED BY <2>3, Zenon
  <2>12. \A k \in 1 .. c : f[k] \in Left /\ Rank(Left, f[k]) = k /\ f[k] \in 1 .. Len(p) + 1 /\ p[f[k]] \in Picture
    <3>. HIDE DEF Kept, c, Left
    <3>. QED BY <2>3, <2>7, Zenon
  <2>. HIDE DEF q, f, Kept
  <2>13. \A j, k \in 1 .. c : j < k => f[j] < f[k]
    <3>. SUFFICES ASSUME NEW j \in 1 .. c, NEW k \in 1 .. c, j < k PROVE f[j] < f[k]
      OBVIOUS
    <3>1. f[j] \in Left /\ f[k] \in Left /\ Rank(Left, f[j]) = j /\ Rank(Left, f[k]) = k
      BY <2>12, Zenon
    <3>2. f[j] \in Int /\ f[k] \in Int
      BY <3>1, <1>1
    <3>3. f[k] < f[j] => k < j
      BY <3>1, <2>2, Zenon
    <3>4. f[j] # f[k]
      BY <3>1, <2>2
    <3>5. j \in Int /\ k \in Int
      BY <2>2
    <3>. HIDE DEF Left, c
    <3>. QED BY <3>2, <3>3, <3>4, <3>5
  <2>14. \A i \in Left : \E k \in 1 .. c : f[k] = i
    <3>. SUFFICES ASSUME NEW i \in Left PROVE \E k \in 1 .. c : f[k] = i
      BY Zenon
    <3>. DEFINE k == Rank(Left, i)
    <3>1. k \in 1 .. c
      BY <2>2, Zenon
    <3>2. f[k] \in Left /\ Rank(Left, f[k]) = k
      BY <3>1, <2>12, Zenon
    <3>3. i \in Int /\ f[k] \in Int /\ k \in Int
      BY <3>1, <3>2, <2>2, <1>1
    <3>4. ~(i < f[k]) /\ ~(f[k] < i)
      <4>. HIDE DEF Left, c
      <4>1. i < f[k] => k < k
        BY <3>2, <2>2, Zenon
      <4>2. f[k] < i => k < k
        BY <3>2, <2>2, Zenon
      <4>. HIDE DEF k
      <4>. QED BY <4>1, <4>2, <3>3
    <3>. HIDE DEF k, c, Left
    <3>. QED BY <3>1, <3>3, <3>4
  <2>15. Thins(q, p, S, f)
    BY <2>9, <2>11, <2>12, <2>13, <2>14, Zenon DEF Thins
  <2>16. \A k \in DOMAIN q : Alike(q[k], p[f[k]]) /\ Bears(q[k], p[f[k]], f[k] - 1 \in S, who)
    <3>. HIDE DEF Left, c
    <3>. SUFFICES ASSUME NEW k \in 1 .. c
                  PROVE  /\ Alike(q[k], p[f[k]])
                         /\ Bears(q[k], p[f[k]], f[k] - 1 \in S, who)
      BY <2>9, Zenon
    <3>1. f[k] \in 1 .. Len(p) + 1 /\ p[f[k]] \in Picture /\ q[k] = Missing(p[f[k]], f[k])
      BY <2>10, <2>12, Zenon
    <3>2. /\ Alike(Missing(p[f[k]], f[k]), p[f[k]])
          /\ Bears(Missing(p[f[k]], f[k]), p[f[k]], f[k] - 1 \in S, who)
      BY <3>1, <2>5, Zenon
    <3>. QED BY <3>1, <3>2, Zenon
  <2>17. g.pipe = q /\ g.next = Missing(n, Len(p) + 1)
    <3>. HIDE DEF g
    <3>. QED BY <2>1
  <2>. HIDE DEF g
  <2>18. QED BY <2>6, <2>9, <2>15, <2>16, <2>17, Zenon DEF g
<1>. QED BY <1>2, <1>3

-----------------------------------------------------------------------------
(* The invariant *)

(* Where a place lies along the way, from the viewer back to the encoder. *)
Along(place) ==
  IF place = "held" THEN 1 ELSE IF place = "wire" THEN 2 ELSE IF place = "hand" THEN 3
  ELSE IF place = "queue" THEN 4 ELSE IF place = "batch" THEN 5 ELSE 6

(* The places of a picture: it has left; is in the sender's hands; in the *)
(* queue; or not past the gate.                                           *)
Away(x) == x.at = "wire" \/ x.at = "held"
InHand(x) == x.at = "hand"
InQueue(x) == x.at = "queue"
InBack(x) == ~Away(x) /\ ~InHand(x) /\ ~InQueue(x)

(* The pictures keep their order along the way; the sender has one at most in   *)
(* its hands, and a key that waits is the first to wait.                        *)
InLine(p) ==
  /\ \A i, j \in DOMAIN p : i < j => Along(p[i].at) <= Along(p[j].at)
  /\ \A i, j \in DOMAIN p : InHand(p[i]) /\ InHand(p[j]) => i = j
  /\ \A i, j \in DOMAIN p : InQueue(p[i]) /\ InQueue(p[j]) /\ p[i].key => i <= j

(* Keys have their number from the queue to the wire. *)
Numbered(p) == \A i \in DOMAIN p : p[i].id # 0 <=> p[i].key /\ (InQueue(p[i]) \/ InHand(p[i]))

(* What is of an older epoch is in front of the rest, before the gate, and the queue is of one epoch. *)
OldFirst(p) ==
  /\ \A i, j \in DOMAIN p : InBack(p[i]) /\ InBack(p[j]) /\ i < j /\ p[j].old => p[i].old
  /\ \A i, j \in DOMAIN p : InQueue(p[i]) /\ InQueue(p[j]) /\ p[i].old => p[j].old

(* The sender has a picture in hand in the steps of a send, and only there. *)
HandIsHeld(p, t) ==
  /\ (\E i \in DOMAIN p : InHand(p[i])) <=> t.pc \in {"dequeued", "starting", "sending"}
  /\ t.pc = "idle" => ~t.left

(* The keys the marks speak of. *)
MarksAreTrue(p, x, t) ==
  /\ x.queuedKey.now =>
       \E i \in DOMAIN p : /\ p[i].key /\ p[i].id = x.queuedKey.id /\ ~p[i].old
                           /\ (InQueue(p[i]) \/ (InHand(p[i]) /\ t.pc = "dequeued"))
  /\ x.wireKey.now =>
       \E i \in DOMAIN p : /\ p[i].key /\ p[i].id = x.wireKey.id /\ ~p[i].old
                           /\ InHand(p[i]) /\ t.pc \in {"starting", "sending"}

(* While there is something old the gate waits for a key, or a key is queued behind it. *)
OldWaits(p, x) ==
  /\ \A i \in DOMAIN p : p[i].old /\ (InBack(p[i]) \/ InQueue(p[i])) => x.awaiting
  /\ \A i \in DOMAIN p : p[i].old /\ InHand(p[i]) =>
       \/ (\A j \in DOMAIN p : ~InQueue(p[j])) /\ (x.awaiting \/ x.waiting)
       \/ \E j \in DOMAIN p : InQueue(p[j]) /\ (p[j].old \/ p[j].key)

Rearming(t) == t.pc = "failed" /\ ~t.left

(* Only a key passes: the epoch gate waits, the barrier is armed, or the *)
(* sender is about to arm it.                                            *)
Barred(x, t) == x.awaiting \/ x.waiting \/ Rearming(t)

(* What misses a picture the host dropped is the next to be judged, and only a key passes; *)
(* behind the gates it is held up by a fence.                                              *)
HostMisses(p, n, x, t) ==
  /\ \A j \in DOMAIN p : InBack(p[j]) /\ p[j].miss = "host" =>
       /\ \A i \in DOMAIN p : InBack(p[i]) => j <= i
       /\ p[j].key \/ p[j].old \/ Barred(x, t)
  /\ n.miss = "host" => (\A i \in DOMAIN p : ~InBack(p[i])) /\ Barred(x, t)
  /\ \A i \in DOMAIN p : InQueue(p[i]) /\ p[i].miss = "host" /\ ~p[i].key => p[i].old \/ Rearming(t)
  /\ \A i \in DOMAIN p : InHand(p[i]) /\ p[i].miss = "host" /\ ~p[i].key =>
       t.left \/ (p[i].old /\ t.pc = "dequeued")
  /\ \A i \in DOMAIN p : Away(p[i]) => p[i].key \/ p[i].miss # "host"

(* What misses a picture that was lost later shows a gap. *)
LossShows(p, n, x, t) ==
  /\ \A j \in DOMAIN p : InBack(p[j]) /\ p[j].miss = "later" =>
       /\ \A i \in DOMAIN p : InBack(p[i]) => j <= i
       /\ p[j].key \/ p[j].gap \/ x.waiting
  /\ n.miss = "later" => (\A i \in DOMAIN p : ~InBack(p[i])) /\ (n.gap \/ x.waiting)
  /\ \A i \in DOMAIN p : ~InBack(p[i]) /\ p[i].miss = "later" /\ ~p[i].key =>
       p[i].gap \/ (t.left /\ InHand(p[i]))

(* What is true of the line of pictures, the loop x, the sender t, and n, *)
(* what the next will miss.                                               *)
Line(p, n, x, t) ==
  /\ InLine(p) /\ Numbered(p) /\ OldFirst(p) /\ HandIsHeld(p, t) /\ MarksAreTrue(p, x, t) /\ OldWaits(p, x)
  /\ HostMisses(p, n, x, t) /\ LossShows(p, n, x, t)

(* The viewer's half of the invariant. *)
GateIsTrue ==
  /\ ~v.wait /\ ~v.cong => v.dec = "synced" \/ v.repeated
  /\ OnlyARepeatedGapShows

(* The inductive invariant. *)
Inv == TypeOK /\ Line(pipe, next, h, s) /\ GateIsTrue

-----------------------------------------------------------------------------
(* What the operations do to the line *)

(* q is what is left of p without S, and f says where each was. *)
Follows(q, p, f, S) ==
  /\ \A k \in DOMAIN q : k \in Int /\ f[k] \in Int /\ f[k] \in DOMAIN p /\ f[k] \notin S
  /\ \A i \in DOMAIN p : i \in Int
  /\ \A j, k \in DOMAIN q : j < k => f[j] < f[k]
  /\ \A i \in DOMAIN p : i \notin S => \E k \in DOMAIN q : f[k] = i
  /\ \A k \in DOMAIN q : Alike(q[k], p[f[k]])

(* What those behind a hole miss. *)
Inherits(q, m, p, n, f, S, who) ==
  /\ \A k \in DOMAIN q : Bears(q[k], p[f[k]], f[k] - 1 \in S, who)
  /\ \E l \in Int : Bears(m, n, l \in S, who) /\ \A i \in DOMAIN p : i <= l
  /\ S \subseteq DOMAIN p

(* Dropping pictures disturbs neither the order of the places, nor the *)
(* numbers of the keys, nor the order of the epochs.                   *)
LEMMA FollowsShape ==
  ASSUME NEW p, NEW q, NEW f, NEW S, Follows(q, p, f, S)
  PROVE  /\ InLine(p) => InLine(q)
         /\ Numbered(p) => Numbered(q)
         /\ OldFirst(p) => OldFirst(q)
<1>1. InLine(p) => InLine(q)
  BY SMT DEF Follows, InLine, Alike, InHand, InQueue
<1>2. Numbered(p) => Numbered(q)
  BY SMT DEF Follows, Numbered, Alike, InHand, InQueue
<1>3. OldFirst(p) => OldFirst(q)
  BY SMT DEF Follows, OldFirst, Alike, Away, InHand, InQueue, InBack
<1>. QED BY <1>1, <1>2, <1>3

(* The loop opens no gate and keeps the marks. *)
Keeps(x, y) == (x.awaiting => y.awaiting) /\ (x.waiting => y.waiting)
               /\ y.queuedKey = x.queuedKey /\ y.wireKey = x.wireKey

(* S is the oldest of what has not passed the gate. *)
BackLost(p, S) == \A i \in S : InBack(p[i]) /\ \A j \in DOMAIN p : InBack(p[j]) /\ j < i => j \in S

(* Pictures between the encoder and the gate are dropped, the oldest first: *)
(* if the host drops them it is barred until a key comes.                   *)
LEMMA BackLoss ==
  ASSUME NEW p, NEW q, NEW n, NEW m, NEW f, NEW S, NEW who, NEW x, NEW y, NEW t
  PROVE  /\ Follows(q, p, f, S) /\ Inherits(q, m, p, n, f, S, who) /\ Line(p, n, x, t) /\ Keeps(x, y)
         /\ who = "host" => Barred(y, t)
         /\ who \in {"host", "batch"} /\ BackLost(p, S)
         => Line(q, m, y, t)
<1>0. SUFFICES ASSUME Follows(q, p, f, S), Inherits(q, m, p, n, f, S, who), Line(p, n, x, t), Keeps(x, y),
                      who = "host" => Barred(y, t), who \in {"host", "batch"}, BackLost(p, S)
               PROVE  Line(q, m, y, t)
  BY Zenon
<1>1. InLine(p) /\ Numbered(p) /\ OldFirst(p) /\ HandIsHeld(p, t) /\ MarksAreTrue(p, x, t) /\ OldWaits(p, x)
      /\ HostMisses(p, n, x, t) /\ LossShows(p, n, x, t)
  BY <1>0, Zenon DEF Line
<1>2. InLine(q) /\ Numbered(q) /\ OldFirst(q)
  BY <1>0, <1>1, FollowsShape, Zenon
<1>3. /\ \A k \in DOMAIN q : k \in Int /\ f[k] \in Int /\ f[k] \in DOMAIN p /\ f[k] \notin S
      /\ \A i \in DOMAIN p : i \in Int
      /\ \A j, k \in DOMAIN q : j < k => f[j] < f[k]
      /\ \A i \in DOMAIN p : i \notin S => \E k \in DOMAIN q : f[k] = i
      /\ \A k \in DOMAIN q : Alike(q[k], p[f[k]])
  BY <1>0, Zenon DEF Follows
<1>4. \A i \in S : InBack(p[i]) /\ \A j \in DOMAIN p : InBack(p[j]) /\ j < i => j \in S
  BY <1>0, Zenon DEF BackLost
<1>5. HandIsHeld(q, t)
  BY <1>1, <1>3, <1>4, SMT DEF HandIsHeld, Alike, Away, InHand, InQueue, InBack
<1>6. MarksAreTrue(q, y, t)
  BY <1>0, <1>1, <1>3, <1>4, SMT DEF MarksAreTrue, Alike, Away, InHand, InQueue, InBack, Keeps
<1>7. OldWaits(q, y)
  BY <1>0, <1>1, <1>3, <1>4, SMT DEF OldWaits, Alike, Away, InHand, InQueue, InBack, Keeps
<1>10. /\ \A k \in DOMAIN q : f[k] - 1 \in S => InBack(q[k]) /\ \A j \in DOMAIN q : InBack(q[j]) => k <= j
  BY <1>0, <1>1, <1>3, <1>4, SMT DEF Alike, Away, InHand, InQueue, InBack, InLine, Along, Inherits
<1>8. HostMisses(q, m, y, t)
  BY <1>0, <1>1, <1>3, <1>4, <1>10, SMT DEF HostMisses, Alike, Away, InHand, InQueue, InBack,
     Keeps, Barred, Inherits, Bears, Same
<1>9. LossShows(q, m, y, t)
  BY <1>0, <1>1, <1>3, <1>4, SMT DEF LossShows, Alike, Away, InHand, InQueue, InBack, Keeps,
     Inherits, Bears, Same
<1>. QED BY <1>2, <1>5, <1>6, <1>7, <1>8, <1>9, Zenon DEF Line

(* A picture that has left is lost, or given up by the viewer: the one *)
(* behind it shows a gap.                                              *)
LEMMA AwayLoss ==
  ASSUME NEW p, NEW q, NEW n, NEW m, NEW f, NEW S, NEW x, NEW t
  PROVE  /\ Follows(q, p, f, S) /\ Inherits(q, m, p, n, f, S, "later") /\ Line(p, n, x, t)
         /\ (\A i \in S : Away(p[i]))
         => Line(q, m, x, t)
<1>0. SUFFICES ASSUME Follows(q, p, f, S), Inherits(q, m, p, n, f, S, "later"), Line(p, n, x, t),
                      \A i \in S : Away(p[i])
               PROVE  Line(q, m, x, t)
  BY Zenon
<1>1. InLine(p) /\ Numbered(p) /\ OldFirst(p) /\ HandIsHeld(p, t) /\ MarksAreTrue(p, x, t) /\ OldWaits(p, x)
      /\ HostMisses(p, n, x, t) /\ LossShows(p, n, x, t)
  BY <1>0, Zenon DEF Line
<1>2. InLine(q) /\ Numbered(q) /\ OldFirst(q)
  BY <1>0, <1>1, FollowsShape, Zenon
<1>3. /\ \A k \in DOMAIN q : k \in Int /\ f[k] \in Int /\ f[k] \in DOMAIN p /\ f[k] \notin S
      /\ \A i \in DOMAIN p : i \in Int
      /\ \A j, k \in DOMAIN q : j < k => f[j] < f[k]
      /\ \A i \in DOMAIN p : i \notin S => \E k \in DOMAIN q : f[k] = i
      /\ \A k \in DOMAIN q : Alike(q[k], p[f[k]])
  BY <1>0, Zenon DEF Follows
<1>4. \A i \in S : Away(p[i])
  BY <1>0, Zenon
<1>5. HandIsHeld(q, t)
  BY <1>1, <1>3, <1>4, SMT DEF HandIsHeld, Alike, Away, InHand
<1>6. MarksAreTrue(q, x, t)
  BY <1>1, <1>3, <1>4, SMT DEF MarksAreTrue, Alike, Away, InHand, InQueue
<1>7. OldWaits(q, x)
  BY <1>1, <1>3, <1>4, SMT DEF OldWaits, Alike, Away, InHand, InQueue, InBack
<1>10. \A k \in DOMAIN q : f[k] - 1 \in S /\ InBack(q[k]) => \A j \in DOMAIN q : InBack(q[j]) => k <= j
  BY <1>0, <1>1, <1>3, <1>4, SMT DEF Alike, Away, InHand, InQueue, InBack, InLine, Along, Inherits
<1>11. \A l \in S : (\A i \in DOMAIN p : i <= l) => \A j \in DOMAIN q : ~InBack(q[j])
  BY <1>0, <1>1, <1>3, <1>4, SMT DEF Alike, Away, InHand, InQueue, InBack, InLine, Along, Inherits
<1>12. /\ \A k \in DOMAIN q : Bears(q[k], p[f[k]], f[k] - 1 \in S, "later")
       /\ \E l \in Int : Bears(m, n, l \in S, "later") /\ \A i \in DOMAIN p : i <= l
  BY <1>0, Zenon DEF Inherits
<1>8. HostMisses(q, m, x, t)
  BY <1>1, <1>3, <1>4, <1>12, SMT DEF HostMisses, Alike, Away, InHand, InQueue, InBack, Bears, Same
<1>9. LossShows(q, m, x, t)
  BY <1>1, <1>3, <1>4, <1>10, <1>11, <1>12, SMT DEF LossShows, Alike, Away, InHand, InQueue,
     InBack, Bears, Same
<1>. QED BY <1>2, <1>5, <1>6, <1>7, <1>8, <1>9, Zenon DEF Line

(* The host's loop may close its gates, and change what the line does not *)
(* speak of.                                                              *)
LEMMA KeepsLine ==
  ASSUME NEW p, NEW n, NEW x, NEW y, NEW t
  PROVE  Line(p, n, x, t) /\ Keeps(x, y) => Line(p, n, y, t)
BY SMT DEF Line, Keeps, MarksAreTrue, OldWaits, HostMisses, LossShows, Barred

(* Everything that has not left is of an older epoch from now on. *)
Aged(q, p) ==
  /\ \A i \in DOMAIN q : i \in Int /\ i \in DOMAIN p
  /\ \A i \in DOMAIN p : i \in DOMAIN q
  /\ \A i \in DOMAIN p : /\ q[i].at = p[i].at /\ (q[i].key <=> p[i].key) /\ q[i].id = p[i].id
                         /\ q[i].miss = p[i].miss /\ (q[i].gap <=> p[i].gap)
                         /\ ~Away(p[i]) => q[i].old

(* A new epoch: the gate waits for its key, and no mark is of this epoch *)
(* (ResetTimelineAnchors).                                               *)
LEMMA AgedLine ==
  ASSUME NEW p, NEW q, NEW n, NEW x, NEW y, NEW t
  PROVE  /\ Aged(q, p) /\ Line(p, n, x, t) /\ y.awaiting /\ (x.waiting => y.waiting)
         /\ ~y.queuedKey.now /\ ~y.wireKey.now
         => Line(q, n, y, t)
<1>0. SUFFICES ASSUME Aged(q, p), Line(p, n, x, t), y.awaiting, x.waiting => y.waiting,
                      ~y.queuedKey.now, ~y.wireKey.now
               PROVE  Line(q, n, y, t)
  BY Zenon
<1>1. InLine(p) /\ Numbered(p) /\ OldFirst(p) /\ HandIsHeld(p, t) /\ MarksAreTrue(p, x, t) /\ OldWaits(p, x)
      /\ HostMisses(p, n, x, t) /\ LossShows(p, n, x, t)
  BY <1>0, Zenon DEF Line
<1>2. InLine(q)
  BY <1>0, <1>1, SMT DEF Aged, InLine, InHand, InQueue
<1>3. Numbered(q) /\ OldFirst(q)
  BY <1>0, <1>1, SMT DEF Aged, Numbered, OldFirst, Away, InHand, InQueue, InBack
<1>4. HandIsHeld(q, t) /\ MarksAreTrue(q, y, t) /\ OldWaits(q, y)
  BY <1>0, <1>1, SMT DEF Aged, HandIsHeld, MarksAreTrue, OldWaits, Away, InHand, InQueue, InBack
<1>5. HostMisses(q, n, y, t) /\ LossShows(q, n, y, t)
  BY <1>0, <1>1, SMT DEF Aged, HostMisses, LossShows, Away, InHand, InQueue, InBack, Barred
<1>. QED BY <1>2, <1>3, <1>4, <1>5, Zenon DEF Line

(* One picture is replaced, the one at o. *)
Put(q, p, o) ==
  /\ \A i \in DOMAIN q : i \in Int /\ i \in DOMAIN p
  /\ \A i \in DOMAIN p : i \in DOMAIN q /\ (i # o => q[i] = p[i])
  /\ o \in Int /\ o \in DOMAIN p

(* The one at o is the first of its place, and all that is further along is *)
(* in front of it.                                                          *)
FirstOf(p, o, place) == p[o].at = place /\ \A i \in DOMAIN p : Along(place) <= Along(p[i].at) => o <= i

(* A picture passes an open gate into the queue. *)
LEMMA EnqueueLine ==
  ASSUME NEW p, NEW q, NEW n, NEW x, NEW t, NEW o
  PROVE  /\ Put(q, p, o)
         /\ Line(p, n, x, t)
         /\ FirstOf(p, o, "batch")
         /\ q[o].at = "queue" /\ ~q[o].key /\ ~p[o].key /\ ~q[o].old /\ ~p[o].old
            /\ q[o].id = p[o].id /\ Same(q[o], p[o])
         /\ ~x.awaiting /\ ~x.waiting
         => Line(q, n, x, t)
<1>0. SUFFICES ASSUME Put(q, p, o),
                      Line(p, n, x, t),
                      FirstOf(p, o, "batch"),
                      q[o].at = "queue" /\ ~q[o].key /\ ~p[o].key /\ ~q[o].old /\ ~p[o].old
                      /\ q[o].id = p[o].id /\ Same(q[o], p[o]),
                      ~x.awaiting /\ ~x.waiting
               PROVE  Line(q, n, x, t)
  BY Zenon
<1>1. InLine(p) /\ Numbered(p) /\ OldFirst(p) /\ HandIsHeld(p, t) /\ MarksAreTrue(p, x, t) /\ OldWaits(p, x)
      /\ HostMisses(p, n, x, t) /\ LossShows(p, n, x, t)
  BY <1>0, Zenon DEF Line
<1>21. InLine(q)
  BY <1>0, <1>1, SMT DEF InHand, InQueue, InLine, Along, HandIsHeld, Put, Same, FirstOf
<1>22. Numbered(q)
  BY <1>0, <1>1, SMT DEF InHand, InQueue, Numbered, Put, Same, FirstOf
<1>23. OldFirst(q)
  BY <1>0, <1>1, SMT DEF Away, InHand, InQueue, InBack, OldFirst, OldWaits, InLine, Along, Put,
     Same, FirstOf
<1>24. HandIsHeld(q, t)
  BY <1>0, <1>1, SMT DEF InHand, InQueue, HandIsHeld, InLine, Put, Same, FirstOf
<1>25. MarksAreTrue(q, x, t)
  BY <1>0, <1>1, SMT DEF InHand, InQueue, MarksAreTrue, InLine, Put, Same, FirstOf
<1>26. OldWaits(q, x)
  BY <1>0, <1>1, SMT DEF Away, InHand, InQueue, InBack, OldWaits, OldFirst, InLine, Along,
     HandIsHeld, Put, Same, FirstOf
<1>27. HostMisses(q, n, x, t)
  BY <1>0, <1>1, SMT DEF Away, InHand, InQueue, InBack, HostMisses, Barred, Rearming, OldWaits,
     OldFirst, InLine, Along, Put, Same, FirstOf
<1>28. LossShows(q, n, x, t)
  BY <1>0, <1>1, SMT DEF Away, InHand, InQueue, InBack, LossShows, InLine, Along, OldWaits, Put,
     Same, FirstOf
<1>. QED BY <1>21, <1>22, <1>23, <1>24, <1>25, <1>26, <1>27, <1>28, Zenon DEF Line

(* The sender takes the first of the queue. *)
LEMMA DequeueLine ==
  ASSUME NEW p, NEW q, NEW n, NEW x, NEW t, NEW u, NEW o
  PROVE  /\ Put(q, p, o)
         /\ Line(p, n, x, t)
         /\ FirstOf(p, o, "queue")
         /\ q[o].at = "hand" /\ Same(q[o], p[o]) /\ (q[o].key <=> p[o].key)
            /\ (q[o].old <=> p[o].old) /\ q[o].id = p[o].id
         /\ t.pc = "idle" /\ u.pc = "dequeued" /\ (u.left <=> t.left)
         => Line(q, n, x, u)
<1>0. SUFFICES ASSUME Put(q, p, o),
                      Line(p, n, x, t),
                      FirstOf(p, o, "queue"),
                      q[o].at = "hand" /\ Same(q[o], p[o]) /\ (q[o].key <=> p[o].key)
                      /\ (q[o].old <=> p[o].old) /\ q[o].id = p[o].id,
                      t.pc = "idle" /\ u.pc = "dequeued" /\ (u.left <=> t.left)
               PROVE  Line(q, n, x, u)
  BY Zenon
<1>1. InLine(p) /\ Numbered(p) /\ OldFirst(p) /\ HandIsHeld(p, t) /\ MarksAreTrue(p, x, t) /\ OldWaits(p, x)
      /\ HostMisses(p, n, x, t) /\ LossShows(p, n, x, t)
  BY <1>0, Zenon DEF Line
<1>21. InLine(q)
  BY <1>0, <1>1, SMT DEF InHand, InQueue, InLine, Along, HandIsHeld, Put, Same, FirstOf
<1>22. Numbered(q)
  BY <1>0, <1>1, SMT DEF InHand, InQueue, Numbered, Put, Same, FirstOf
<1>23. OldFirst(q)
  BY <1>0, <1>1, SMT DEF Away, InHand, InQueue, InBack, OldFirst, OldWaits, InLine, Along, Put,
     Same, FirstOf
<1>24. HandIsHeld(q, u)
  BY <1>0, <1>1, SMT DEF InHand, InQueue, HandIsHeld, InLine, Put, Same, FirstOf
<1>25. MarksAreTrue(q, x, u)
  BY <1>0, <1>1, SMT DEF InHand, InQueue, MarksAreTrue, InLine, Put, Same, FirstOf
<1>26. OldWaits(q, x)
  BY <1>0, <1>1, SMT DEF Away, InHand, InQueue, InBack, OldWaits, OldFirst, InLine, Along,
     HandIsHeld, Put, Same, FirstOf
<1>27. HostMisses(q, n, x, u)
  BY <1>0, <1>1, SMT DEF Away, InHand, InQueue, InBack, HostMisses, Barred, Rearming, OldWaits,
     OldFirst, InLine, Along, Put, Same, FirstOf
<1>28. LossShows(q, n, x, u)
  BY <1>0, <1>1, SMT DEF Away, InHand, InQueue, InBack, LossShows, InLine, Along, OldWaits, Put,
     Same, FirstOf
<1>. QED BY <1>21, <1>22, <1>23, <1>24, <1>25, <1>26, <1>27, <1>28, Zenon DEF Line

(* What is in hand leaves for the network, and a key's mark is cleared with *)
(* it.                                                                      *)
LEMMA WireLine ==
  ASSUME NEW p, NEW q, NEW n, NEW x, NEW y, NEW t, NEW u, NEW o
  PROVE  /\ Put(q, p, o)
         /\ Line(p, n, x, t)
         /\ p[o].at = "hand"
         /\ q[o].at = "wire" /\ Same(q[o], p[o]) /\ (q[o].key <=> p[o].key) /\ q[o].id = 0 /\ ~q[o].old
         /\ t.pc = "sending" /\ ~t.left /\ u.pc \in {"idle", "failed"} /\ ~u.left
         /\ (y.awaiting <=> x.awaiting) /\ (y.waiting <=> x.waiting) /\ y.queuedKey = x.queuedKey
         /\ y.wireKey.now => y.wireKey = x.wireKey /\ (p[o].key => x.wireKey.id # p[o].id)
         => Line(q, n, y, u)
<1>0. SUFFICES ASSUME Put(q, p, o),
                      Line(p, n, x, t),
                      p[o].at = "hand",
                      q[o].at = "wire" /\ Same(q[o], p[o]) /\ (q[o].key <=> p[o].key) /\ q[o].id = 0
                      /\ ~q[o].old,
                      t.pc = "sending" /\ ~t.left /\ u.pc \in {"idle", "failed"} /\ ~u.left,
                      (y.awaiting <=> x.awaiting) /\ (y.waiting <=> x.waiting) /\ y.queuedKey = x.queuedKey,
                      y.wireKey.now => y.wireKey = x.wireKey /\ (p[o].key => x.wireKey.id # p[o].id)
               PROVE  Line(q, n, y, u)
  BY Zenon
<1>1. InLine(p) /\ Numbered(p) /\ OldFirst(p) /\ HandIsHeld(p, t) /\ MarksAreTrue(p, x, t) /\ OldWaits(p, x)
      /\ HostMisses(p, n, x, t) /\ LossShows(p, n, x, t)
  BY <1>0, Zenon DEF Line
<1>21. InLine(q)
  BY <1>0, <1>1, SMT DEF InHand, InQueue, InLine, Along, HandIsHeld, Put, Same
<1>22. Numbered(q)
  BY <1>0, <1>1, SMT DEF InHand, InQueue, Numbered, Put, Same
<1>23. OldFirst(q)
  BY <1>0, <1>1, SMT DEF Away, InHand, InQueue, InBack, OldFirst, OldWaits, InLine, Along, Put, Same
<1>24. HandIsHeld(q, u)
  BY <1>0, <1>1, SMT DEF InHand, InQueue, HandIsHeld, InLine, Put, Same
<1>25. MarksAreTrue(q, y, u)
  BY <1>0, <1>1, SMT DEF InHand, InQueue, MarksAreTrue, InLine, Put, Same
<1>26. OldWaits(q, y)
  BY <1>0, <1>1, SMT DEF Away, InHand, InQueue, InBack, OldWaits, OldFirst, InLine, Along,
     HandIsHeld, Put, Same
<1>27. HostMisses(q, n, y, u)
  BY <1>0, <1>1, SMT DEF Away, InHand, InQueue, InBack, HostMisses, Barred, Rearming, OldWaits,
     OldFirst, InLine, Along, Put, Same
<1>28. LossShows(q, n, y, u)
  BY <1>0, <1>1, SMT DEF Away, InHand, InQueue, InBack, LossShows, InLine, Along, OldWaits, Put,
     Same
<1>. QED BY <1>21, <1>22, <1>23, <1>24, <1>25, <1>26, <1>27, <1>28, Zenon DEF Line

(* The first of the wire reaches the viewer. *)
LEMMA HeldLine ==
  ASSUME NEW p, NEW q, NEW n, NEW x, NEW t, NEW o
  PROVE  /\ Put(q, p, o)
         /\ Line(p, n, x, t)
         /\ FirstOf(p, o, "wire")
         /\ q[o].at = "held" /\ Same(q[o], p[o]) /\ (q[o].key <=> p[o].key)
            /\ (q[o].old <=> p[o].old) /\ q[o].id = p[o].id
         => Line(q, n, x, t)
<1>0. SUFFICES ASSUME Put(q, p, o),
                      Line(p, n, x, t),
                      FirstOf(p, o, "wire"),
                      q[o].at = "held" /\ Same(q[o], p[o]) /\ (q[o].key <=> p[o].key)
                      /\ (q[o].old <=> p[o].old) /\ q[o].id = p[o].id
               PROVE  Line(q, n, x, t)
  BY Zenon
<1>1. InLine(p) /\ Numbered(p) /\ OldFirst(p) /\ HandIsHeld(p, t) /\ MarksAreTrue(p, x, t) /\ OldWaits(p, x)
      /\ HostMisses(p, n, x, t) /\ LossShows(p, n, x, t)
  BY <1>0, Zenon DEF Line
<1>21. InLine(q)
  BY <1>0, <1>1, SMT DEF InHand, InQueue, InLine, Along, HandIsHeld, Put, Same, FirstOf
<1>22. Numbered(q)
  BY <1>0, <1>1, SMT DEF InHand, InQueue, Numbered, Put, Same, FirstOf
<1>23. OldFirst(q)
  BY <1>0, <1>1, SMT DEF Away, InHand, InQueue, InBack, OldFirst, OldWaits, InLine, Along, Put,
     Same, FirstOf
<1>24. HandIsHeld(q, t)
  BY <1>0, <1>1, SMT DEF InHand, InQueue, HandIsHeld, InLine, Put, Same, FirstOf
<1>25. MarksAreTrue(q, x, t)
  BY <1>0, <1>1, SMT DEF InHand, InQueue, MarksAreTrue, InLine, Put, Same, FirstOf
<1>26. OldWaits(q, x)
  BY <1>0, <1>1, SMT DEF Away, InHand, InQueue, InBack, OldWaits, OldFirst, InLine, Along,
     HandIsHeld, Put, Same, FirstOf
<1>27. HostMisses(q, n, x, t)
  BY <1>0, <1>1, SMT DEF Away, InHand, InQueue, InBack, HostMisses, Barred, Rearming, OldWaits,
     OldFirst, InLine, Along, Put, Same, FirstOf
<1>28. LossShows(q, n, x, t)
  BY <1>0, <1>1, SMT DEF Away, InHand, InQueue, InBack, LossShows, InLine, Along, OldWaits, Put,
     Same, FirstOf
<1>. QED BY <1>21, <1>22, <1>23, <1>24, <1>25, <1>26, <1>27, <1>28, Zenon DEF Line

(* The whole queue is dropped, with the oldest of the gate or without: the *)
(* barrier is armed and the queue's mark cleared (ClearQueueForResync, and *)
(* the sender after a failed send).                                        *)
LEMMA QueueLoss ==
  ASSUME NEW p, NEW q, NEW n, NEW m, NEW f, NEW S, NEW x, NEW y, NEW t, NEW u
  PROVE  /\ Follows(q, p, f, S)
         /\ Inherits(q, m, p, n, f, S, "host")
         /\ Line(p, n, x, t)
         /\ \A i \in S : InQueue(p[i]) \/ InBack(p[i])
         /\ \A i \in DOMAIN p : InQueue(p[i]) => i \in S
         /\ \A i \in S : \A j \in DOMAIN p : InBack(p[j]) /\ j < i => j \in S
         /\ (y.awaiting <=> x.awaiting) /\ y.waiting /\ ~y.queuedKey.now /\ y.wireKey = x.wireKey
         /\ (u.left <=> t.left) /\ (u.pc = t.pc \/ (t.pc = "failed" /\ u.pc = "posting" /\ ~t.left))
         => Line(q, m, y, u)
<1>0. SUFFICES ASSUME Follows(q, p, f, S),
                      Inherits(q, m, p, n, f, S, "host"),
                      Line(p, n, x, t),
                      \A i \in S : InQueue(p[i]) \/ InBack(p[i]),
                      \A i \in DOMAIN p : InQueue(p[i]) => i \in S,
                      \A i \in S : \A j \in DOMAIN p : InBack(p[j]) /\ j < i => j \in S,
                      (y.awaiting <=> x.awaiting) /\ y.waiting /\ ~y.queuedKey.now /\ y.wireKey = x.wireKey,
                      (u.left <=> t.left) /\ (u.pc = t.pc \/ (t.pc = "failed" /\ u.pc = "posting" /\ ~t.left))
               PROVE  Line(q, m, y, u)
  BY Zenon
<1>1. InLine(p) /\ Numbered(p) /\ OldFirst(p) /\ HandIsHeld(p, t) /\ MarksAreTrue(p, x, t) /\ OldWaits(p, x)
      /\ HostMisses(p, n, x, t) /\ LossShows(p, n, x, t)
  BY <1>0, Zenon DEF Line
<1>2. \A k \in DOMAIN q : f[k] - 1 \in S => InBack(q[k]) /\ \A j \in DOMAIN q : InBack(q[j]) => k <= j
  BY <1>0, <1>1, SMT DEF Follows, Inherits, Alike, Away, InHand, InQueue, InBack, InLine, Along
<1>3. \A l \in S : (\A i \in DOMAIN p : i <= l) => \A j \in DOMAIN q : ~InBack(q[j])
  BY <1>0, <1>1, SMT DEF Follows, Inherits, Alike, Away, InHand, InQueue, InBack, InLine, Along
<1>21. InLine(q)
  BY <1>0, <1>1, <1>2, <1>3, SMT DEF Alike, Away, InHand, InQueue, InBack, InLine, Along,
     HandIsHeld, Follows, Inherits, Bears, Same
<1>22. Numbered(q)
  BY <1>0, <1>1, <1>2, <1>3, SMT DEF Alike, Away, InHand, InQueue, InBack, Numbered, Follows,
     Inherits, Bears, Same
<1>23. OldFirst(q)
  BY <1>0, <1>1, <1>2, <1>3, SMT DEF Alike, Away, InHand, InQueue, InBack, OldFirst, OldWaits,
     InLine, Along, Follows, Inherits, Bears, Same
<1>24. HandIsHeld(q, u)
  BY <1>0, <1>1, <1>2, <1>3, SMT DEF Alike, Away, InHand, InQueue, InBack, HandIsHeld, InLine,
     Follows, Inherits, Bears, Same
<1>25. MarksAreTrue(q, y, u)
  BY <1>0, <1>1, <1>2, <1>3, SMT DEF Alike, Away, InHand, InQueue, InBack, MarksAreTrue, InLine,
     Follows, Inherits, Bears, Same
<1>26. OldWaits(q, y)
  BY <1>0, <1>1, <1>2, <1>3, SMT DEF Alike, Away, InHand, InQueue, InBack, OldWaits, OldFirst,
     InLine, Along, HandIsHeld, Follows, Inherits, Bears, Same
<1>27. HostMisses(q, m, y, u)
  BY <1>0, <1>1, <1>2, <1>3, SMT DEF Alike, Away, InHand, InQueue, InBack, HostMisses, Barred,
     Rearming, OldWaits, OldFirst, InLine, Along, Follows, Inherits, Bears, Same
<1>28. LossShows(q, m, y, u)
  BY <1>0, <1>1, <1>2, <1>3, SMT DEF Alike, Away, InHand, InQueue, InBack, LossShows, InLine,
     Along, OldWaits, Follows, Inherits, Bears, Same
<1>. QED BY <1>21, <1>22, <1>23, <1>24, <1>25, <1>26, <1>27, <1>28, Zenon DEF Line

(* The picture in hand is dropped, by a fence for its epoch or because its *)
(* send failed: either the gate or the queue behind it has a key to wait   *)
(* for, or the sender is about to arm the barrier.                         *)
LEMMA HandLoss ==
  ASSUME NEW p, NEW q, NEW n, NEW m, NEW f, NEW S, NEW x, NEW y, NEW t, NEW u, NEW o
  PROVE  /\ Follows(q, p, f, S)
         /\ Inherits(q, m, p, n, f, S, "host")
         /\ Line(p, n, x, t)
         /\ S = {o} /\ o \in Int /\ o \in DOMAIN p /\ p[o].at = "hand"
         /\ ~u.left /\ (u.pc = "failed" \/ (u.pc = "idle" /\ p[o].old))
         /\ ~t.left
         /\ (y.awaiting <=> x.awaiting) /\ (y.waiting <=> x.waiting)
         /\ y.queuedKey.now =>
              y.queuedKey = x.queuedKey /\ (t.pc = "dequeued" => ~p[o].key \/ x.queuedKey.id # p[o].id)
         /\ y.wireKey.now => y.wireKey = x.wireKey /\ (t.pc = "dequeued" \/ ~p[o].key \/ x.wireKey.id # p[o].id)
         => Line(q, m, y, u)
<1>0. SUFFICES ASSUME Follows(q, p, f, S),
                      Inherits(q, m, p, n, f, S, "host"),
                      Line(p, n, x, t),
                      S = {o} /\ o \in Int /\ o \in DOMAIN p /\ p[o].at = "hand",
                      ~u.left /\ (u.pc = "failed" \/ (u.pc = "idle" /\ p[o].old)),
                      ~t.left,
                      (y.awaiting <=> x.awaiting) /\ (y.waiting <=> x.waiting),
                      y.queuedKey.now =>
                        y.queuedKey = x.queuedKey /\ (t.pc = "dequeued" => ~p[o].key \/ x.queuedKey.id # p[o].id),
                      y.wireKey.now =>
                        y.wireKey = x.wireKey /\ (t.pc = "dequeued" \/ ~p[o].key \/ x.wireKey.id # p[o].id)
               PROVE  Line(q, m, y, u)
  BY Zenon
<1>1. InLine(p) /\ Numbered(p) /\ OldFirst(p) /\ HandIsHeld(p, t) /\ MarksAreTrue(p, x, t) /\ OldWaits(p, x)
      /\ HostMisses(p, n, x, t) /\ LossShows(p, n, x, t)
  BY <1>0, Zenon DEF Line
<1>2. \A k \in DOMAIN q : f[k] - 1 \in S =>
        \/ InBack(q[k]) /\ \A j \in DOMAIN q : ~InQueue(q[j]) /\ (InBack(q[j]) => k <= j)
        \/ InQueue(q[k]) /\ \A j \in DOMAIN q : InQueue(q[j]) => k <= j
  BY <1>0, <1>1, SMT DEF Follows, Inherits, Alike, Away, InHand, InQueue, InBack, InLine, Along
<1>3. \A l \in S : (\A i \in DOMAIN p : i <= l) => \A j \in DOMAIN q : ~InBack(q[j]) /\ ~InQueue(q[j])
  BY <1>0, <1>1, SMT DEF Follows, Inherits, Alike, Away, InHand, InQueue, InBack, InLine, Along
<1>4. (\A j \in DOMAIN q : ~InQueue(q[j])) => x.awaiting \/ x.waiting \/ u.pc = "failed"
  BY <1>0, <1>1, SMT DEF Follows, Alike, Away, InHand, InQueue, InBack, OldWaits
<1>5. \A k \in DOMAIN q : InQueue(q[k]) /\ (\A j \in DOMAIN q : InQueue(q[j]) => k <= j) =>
        q[k].old \/ q[k].key \/ u.pc = "failed"
  BY <1>0, <1>1, SMT DEF Follows, Alike, Away, InHand, InQueue, InBack, OldWaits, OldFirst,
     InLine, Along
<1>21. InLine(q)
  BY <1>0, <1>1, <1>2, <1>3, <1>4, <1>5, SMT DEF Alike, Away, InHand, InQueue, InBack, InLine,
     Along, HandIsHeld, Follows, Inherits, Bears, Same
<1>22. Numbered(q)
  BY <1>0, <1>1, <1>2, <1>3, <1>4, <1>5, SMT DEF Alike, Away, InHand, InQueue, InBack, Numbered,
     Follows, Inherits, Bears, Same
<1>23. OldFirst(q)
  BY <1>0, <1>1, <1>2, <1>3, <1>4, <1>5, SMT DEF Alike, Away, InHand, InQueue, InBack, OldFirst,
     OldWaits, InLine, Along, Follows, Inherits, Bears, Same
<1>24. HandIsHeld(q, u)
  BY <1>0, <1>1, <1>2, <1>3, <1>4, <1>5, SMT DEF Alike, Away, InHand, InQueue, InBack, HandIsHeld,
     InLine, Follows, Inherits, Bears, Same
<1>25. MarksAreTrue(q, y, u)
  BY <1>0, <1>1, <1>2, <1>3, <1>4, <1>5, SMT DEF Alike, Away, InHand, InQueue, InBack,
     MarksAreTrue, InLine, Follows, Inherits, Bears, Same
<1>26. OldWaits(q, y)
  BY <1>0, <1>1, <1>2, <1>3, <1>4, <1>5, SMT DEF Alike, Away, InHand, InQueue, InBack, OldWaits,
     OldFirst, InLine, Along, HandIsHeld, Follows, Inherits, Bears, Same
<1>6. t.pc # "failed"
  BY <1>0, <1>1, SMT DEF HandIsHeld, InHand
<1>7. /\ \A k \in DOMAIN q : f[k] \in DOMAIN p /\ Alike(q[k], p[f[k]])
      /\ \A k \in DOMAIN q : q[k].miss = "host" => p[f[k]].miss = "host" \/ f[k] - 1 \in S
      /\ \A j, k \in DOMAIN q : f[j] <= f[k] => j <= k
  BY <1>0, SMT DEF Follows, Inherits, Bears, Same
<1>8. /\ \A j \in DOMAIN p : InBack(p[j]) /\ p[j].miss = "host" =>
            /\ \A i \in DOMAIN p : InBack(p[i]) => j <= i
            /\ p[j].key \/ p[j].old \/ x.awaiting \/ x.waiting
      /\ n.miss = "host" => (\A i \in DOMAIN p : ~InBack(p[i])) /\ (x.awaiting \/ x.waiting)
      /\ \A i \in DOMAIN p : InQueue(p[i]) /\ p[i].miss = "host" /\ ~p[i].key => p[i].old
      /\ \A i \in DOMAIN p : Away(p[i]) => p[i].key \/ p[i].miss # "host"
  BY <1>1, <1>6, SMT DEF HostMisses, Barred, Rearming
<1>9. Barred(y, u) <=> x.awaiting \/ x.waiting \/ u.pc = "failed"
  BY <1>0, SMT DEF Barred, Rearming
<1>10. \A k \in DOMAIN q : ~InHand(q[k])
  BY <1>0, <1>1, SMT DEF Follows, Alike, InHand, InLine
<1>11. \A j \in DOMAIN q : InBack(q[j]) /\ q[j].miss = "host" =>
         /\ \A i \in DOMAIN q : InBack(q[i]) => j <= i
         /\ q[j].key \/ q[j].old \/ Barred(y, u)
  BY <1>2, <1>4, <1>7, <1>8, <1>9, SMT DEF Alike, Away, InHand, InQueue, InBack
<1>12. m.miss = "host" => (\A i \in DOMAIN q : ~InBack(q[i])) /\ Barred(y, u)
  BY <1>0, <1>3, <1>4, <1>7, <1>8, <1>9, SMT DEF Alike, Away, InHand, InQueue, InBack, Inherits,
     Bears, Same
<1>13. \A i \in DOMAIN q : InQueue(q[i]) /\ q[i].miss = "host" /\ ~q[i].key => q[i].old \/ u.pc = "failed"
  BY <1>2, <1>5, <1>7, <1>8, SMT DEF Alike, Away, InHand, InQueue, InBack
<1>14. \A i \in DOMAIN q : Away(q[i]) => q[i].key \/ q[i].miss # "host"
  BY <1>2, <1>7, <1>8, SMT DEF Alike, Away, InHand, InQueue, InBack
<1>27. HostMisses(q, m, y, u)
  BY <1>0, <1>10, <1>11, <1>12, <1>13, <1>14, Zenon DEF HostMisses, Rearming
<1>28. LossShows(q, m, y, u)
  BY <1>0, <1>1, <1>2, <1>3, <1>4, <1>5, SMT DEF Alike, Away, InHand, InQueue, InBack, LossShows,
     InLine, Along, OldWaits, Follows, Inherits, Bears, Same
<1>. QED BY <1>21, <1>22, <1>23, <1>24, <1>25, <1>26, <1>27, <1>28, Zenon DEF Line

(* The picture in hand is dropped for a viewer that has gone: the one *)
(* behind it missed it already.                                       *)
LEMMA HandRemoved ==
  ASSUME NEW p, NEW q, NEW n, NEW f, NEW S, NEW x, NEW y, NEW t, NEW u, NEW o
  PROVE  /\ Follows(q, p, f, S)
         /\ Line(p, n, x, t)
         /\ S = {o} /\ o \in Int /\ o \in DOMAIN p /\ p[o].at = "hand"
         /\ \A k \in DOMAIN q : Same(q[k], p[f[k]])
         /\ t.left /\ ~u.left /\ u.pc = "idle"
         /\ (y.awaiting <=> x.awaiting) /\ (y.waiting <=> x.waiting)
         /\ y.queuedKey.now =>
              y.queuedKey = x.queuedKey /\ (t.pc = "dequeued" => ~p[o].key \/ x.queuedKey.id # p[o].id)
         /\ y.wireKey.now => y.wireKey = x.wireKey /\ (t.pc = "dequeued" \/ ~p[o].key \/ x.wireKey.id # p[o].id)
         => Line(q, n, y, u)
<1>0. SUFFICES ASSUME Follows(q, p, f, S),
                      Line(p, n, x, t),
                      S = {o} /\ o \in Int /\ o \in DOMAIN p /\ p[o].at = "hand",
                      \A k \in DOMAIN q : Same(q[k], p[f[k]]),
                      t.left /\ ~u.left /\ u.pc = "idle",
                      (y.awaiting <=> x.awaiting) /\ (y.waiting <=> x.waiting),
                      y.queuedKey.now =>
                        y.queuedKey = x.queuedKey /\ (t.pc = "dequeued" => ~p[o].key \/ x.queuedKey.id # p[o].id),
                      y.wireKey.now =>
                        y.wireKey = x.wireKey /\ (t.pc = "dequeued" \/ ~p[o].key \/ x.wireKey.id # p[o].id)
               PROVE  Line(q, n, y, u)
  BY Zenon
<1>1. InLine(p) /\ Numbered(p) /\ OldFirst(p) /\ HandIsHeld(p, t) /\ MarksAreTrue(p, x, t) /\ OldWaits(p, x)
      /\ HostMisses(p, n, x, t) /\ LossShows(p, n, x, t)
  BY <1>0, Zenon DEF Line
<1>21. InLine(q)
  BY <1>0, <1>1, SMT DEF Alike, InHand, InQueue, InLine, Along, HandIsHeld, Follows, Same
<1>22. Numbered(q)
  BY <1>0, <1>1, SMT DEF Alike, InHand, InQueue, Numbered, Follows, Same
<1>23. OldFirst(q)
  BY <1>0, <1>1, SMT DEF Alike, Away, InHand, InQueue, InBack, OldFirst, OldWaits, InLine, Along,
     Follows, Same
<1>24. HandIsHeld(q, u)
  BY <1>0, <1>1, SMT DEF Alike, InHand, InQueue, HandIsHeld, InLine, Follows, Same
<1>25. MarksAreTrue(q, y, u)
  BY <1>0, <1>1, SMT DEF Alike, InHand, InQueue, MarksAreTrue, InLine, Follows, Same
<1>26. OldWaits(q, y)
  BY <1>0, <1>1, SMT DEF Alike, Away, InHand, InQueue, InBack, OldWaits, OldFirst, InLine, Along,
     HandIsHeld, Follows, Same
<1>27. HostMisses(q, n, y, u)
  BY <1>0, <1>1, SMT DEF Alike, Away, InHand, InQueue, InBack, HostMisses, Barred, Rearming,
     OldWaits, OldFirst, InLine, Along, Follows, Same
<1>28. LossShows(q, n, y, u)
  BY <1>0, <1>1, SMT DEF Alike, Away, InHand, InQueue, InBack, LossShows, InLine, Along, OldWaits,
     Follows, Same
<1>. QED BY <1>21, <1>22, <1>23, <1>24, <1>25, <1>26, <1>27, <1>28, Zenon DEF Line

(* A key passes the gate and takes the place of the queue: both gates open, *)
(* and all the host dropped before it no longer matters.                    *)
LEMMA EnqueueKeyLine ==
  ASSUME NEW p, NEW q, NEW r, NEW n, NEW m, NEW f, NEW S, NEW x, NEW y, NEW t, NEW o
  PROVE  /\ Put(r, p, o)
         /\ Follows(q, r, f, S)
         /\ Inherits(q, m, r, n, f, S, "host")
         /\ Line(p, n, x, t)
         /\ FirstOf(p, o, "batch")
         /\ r[o].at = "queue" /\ r[o].key /\ ~r[o].old /\ ~p[o].old /\ r[o].id # 0
         /\ \A i \in DOMAIN p : i \in S <=> InQueue(p[i])
         /\ ~y.awaiting /\ ~y.waiting /\ y.queuedKey.id = r[o].id /\ y.wireKey = x.wireKey
         => Line(q, m, y, t)
<1>0. SUFFICES ASSUME Put(r, p, o),
                      Follows(q, r, f, S),
                      Inherits(q, m, r, n, f, S, "host"),
                      Line(p, n, x, t),
                      FirstOf(p, o, "batch"),
                      r[o].at = "queue" /\ r[o].key /\ ~r[o].old /\ ~p[o].old /\ r[o].id # 0,
                      \A i \in DOMAIN p : i \in S <=> InQueue(p[i]),
                      ~y.awaiting /\ ~y.waiting /\ y.queuedKey.id = r[o].id /\ y.wireKey = x.wireKey
               PROVE  Line(q, m, y, t)
  BY Zenon
<1>1. InLine(p) /\ Numbered(p) /\ OldFirst(p) /\ HandIsHeld(p, t) /\ MarksAreTrue(p, x, t) /\ OldWaits(p, x)
      /\ HostMisses(p, n, x, t) /\ LossShows(p, n, x, t)
  BY <1>0, Zenon DEF Line
<1>2. /\ o \in Int /\ o \in DOMAIN r /\ o \notin S
      /\ \A i \in DOMAIN r : i \in Int /\ i \in DOMAIN p /\ (i # o => r[i] = p[i])
      /\ \A i \in DOMAIN p : i \in DOMAIN r
      /\ \A i \in DOMAIN p : InBack(p[i]) => o <= i
      /\ \A i \in DOMAIN p : ~InBack(p[i]) => i < o
  BY <1>0, <1>1, SMT DEF Put, FirstOf, Away, InHand, InQueue, InBack, InLine, Along
<1>3. /\ \A k \in DOMAIN q : k \in Int /\ f[k] \in Int /\ f[k] \in DOMAIN p /\ f[k] \notin S
      /\ \A j, k \in DOMAIN q : j < k => f[j] < f[k]
      /\ \A i \in DOMAIN p : ~InQueue(p[i]) => \E k \in DOMAIN q : f[k] = i
      /\ \A k \in DOMAIN q : f[k] # o => Alike(q[k], p[f[k]]) /\ ~InQueue(q[k])
      /\ \A k \in DOMAIN q : f[k] = o => q[k].at = "queue" /\ q[k].key /\ ~q[k].old /\ q[k].id = y.queuedKey.id
  BY <1>0, <1>2, SMT DEF Follows, Alike, InQueue
<1>9. \A i, j \in DOMAIN p : i < j /\ InQueue(p[i]) /\ ~InQueue(p[j]) => InBack(p[j])
  BY <1>1, SMT DEF InLine, Along, Away, InHand, InQueue, InBack
<1>10. \A k \in DOMAIN q : f[k] # o => f[k] - 1 \notin S
  <2>. SUFFICES ASSUME NEW k \in DOMAIN q, f[k] # o, f[k] - 1 \in S PROVE FALSE
    BY Zenon
  <2>1. f[k] \in Int /\ f[k] - 1 \in DOMAIN p /\ f[k] \in DOMAIN p /\ f[k] \notin S
    BY <1>0, <1>2, <1>3, SMT DEF Inherits
  <2>2. InQueue(p[f[k] - 1]) /\ ~InQueue(p[f[k]])
    BY <1>0, <2>1, Zenon
  <2>3. InBack(p[f[k]]) /\ ~InBack(p[f[k] - 1])
    BY <1>9, <2>1, <2>2, SMT DEF InBack
  <2>. QED BY <1>2, <2>1, <2>3, SMT
<1>4. \A k \in DOMAIN q : f[k] # o => Same(q[k], p[f[k]])
  <2>. SUFFICES ASSUME NEW k \in DOMAIN q, f[k] # o PROVE Same(q[k], p[f[k]])
    BY Zenon
  <2>1. r[f[k]] = p[f[k]]
    BY <1>0, <1>3, Zenon DEF Put
  <2>. QED BY <1>0, <1>10, <2>1, Zenon DEF Inherits, Bears
<1>5. Same(m, n)
  BY <1>0, <1>2, SMT DEF Inherits, Bears, Same, InQueue, InBack
<1>6. \A i \in DOMAIN p : InBack(p[i]) => ~p[i].old /\ (i # o => p[i].miss # "host" /\ (p[i].miss = "later" => p[i].gap))
  BY <1>0, <1>1, <1>2, SMT DEF OldFirst, HostMisses, LossShows, InBack, InHand, InQueue, Away,
     FirstOf
<1>7. n.miss # "host" /\ (n.miss = "later" => n.gap)
  BY <1>0, <1>1, <1>2, SMT DEF HostMisses, LossShows, FirstOf, InBack, InHand, InQueue, Away
<1>8. o \in DOMAIN p /\ ~InQueue(p[o]) /\ ~Away(p[o]) /\ ~InHand(p[o])
  BY <1>0, <1>2, SMT DEF FirstOf, InHand, InQueue, Away
<1>21. InLine(q)
  BY <1>1, <1>2, <1>3, <1>4, <1>5, <1>6, <1>7, <1>8, SMT DEF Same, Alike, Away, InHand, InQueue,
     InBack, InLine, Along, HandIsHeld
<1>22. Numbered(q)
  BY <1>0, <1>1, <1>2, <1>3, <1>4, <1>5, <1>6, <1>7, <1>8, SMT DEF Same, Alike, Away, InHand,
     InQueue, InBack, Numbered
<1>23. OldFirst(q)
  BY <1>1, <1>2, <1>3, <1>4, <1>5, <1>6, <1>7, <1>8, SMT DEF Same, Alike, Away, InHand, InQueue,
     InBack, OldFirst, OldWaits, InLine, Along
<1>24. HandIsHeld(q, t)
  BY <1>1, <1>2, <1>3, <1>4, <1>5, <1>6, <1>7, <1>8, SMT DEF Same, Alike, Away, InHand, InQueue,
     InBack, HandIsHeld, InLine
<1>25. MarksAreTrue(q, y, t)
  BY <1>0, <1>1, <1>2, <1>3, <1>4, <1>5, <1>6, <1>7, <1>8, SMT DEF Same, Alike, Away, InHand,
     InQueue, InBack, MarksAreTrue, InLine
<1>26. OldWaits(q, y)
  BY <1>0, <1>1, <1>2, <1>3, <1>4, <1>5, <1>6, <1>7, <1>8, SMT DEF Same, Alike, Away, InHand,
     InQueue, InBack, OldWaits, OldFirst, InLine, Along, HandIsHeld
<1>27. HostMisses(q, m, y, t)
  BY <1>0, <1>1, <1>2, <1>3, <1>4, <1>5, <1>6, <1>7, <1>8, SMT DEF Same, Alike, Away, InHand,
     InQueue, InBack, HostMisses, Barred, Rearming, OldWaits, OldFirst, InLine, Along
<1>28. LossShows(q, m, y, t)
  BY <1>0, <1>1, <1>2, <1>3, <1>4, <1>5, <1>6, <1>7, <1>8, SMT DEF Same, Alike, Away, InHand,
     InQueue, InBack, LossShows, InLine, Along, OldWaits
<1>. QED BY <1>21, <1>22, <1>23, <1>24, <1>25, <1>26, <1>27, <1>28, Zenon DEF Line

(* One more at the end, and some of the oldest of the encoder's given out. *)
TakenIn(q, p, n, l) ==
  /\ l \in Int /\ l + 1 \in DOMAIN q
  /\ \A i \in DOMAIN p : i \in Int /\ i <= l /\ i \in DOMAIN q
  /\ \A k \in DOMAIN q : k \in Int /\ k <= l + 1 /\ (k # l + 1 => k \in DOMAIN p)
  /\ \A k \in DOMAIN p : /\ (q[k].key <=> p[k].key) /\ q[k].id = p[k].id /\ (q[k].old <=> p[k].old)
                         /\ Same(q[k], p[k])
                         /\ ~InBack(p[k]) => q[k].at = p[k].at
                         /\ InBack(p[k]) => q[k].at \in {"batch", "encoder"}
  /\ q[l + 1].at \in {"batch", "encoder"} /\ q[l + 1].id = 0 /\ ~q[l + 1].old /\ Same(q[l + 1], n)
  /\ \A i, j \in DOMAIN q : i < j /\ q[j].at = "batch" => q[i].at # "encoder"

(* The encoder takes a picture in, at the end, and gives out some of its *)
(* oldest.                                                               *)
LEMMA EncodeLine ==
  ASSUME NEW p, NEW q, NEW n, NEW m, NEW x, NEW y, NEW t, NEW l
  PROVE  /\ TakenIn(q, p, n, l)
         /\ Line(p, n, x, t)
         /\ Keeps(x, y)
         /\ m.miss = "none"
         => Line(q, m, y, t)
<1>0. SUFFICES ASSUME TakenIn(q, p, n, l),
                      Line(p, n, x, t),
                      Keeps(x, y),
                      m.miss = "none"
               PROVE  Line(q, m, y, t)
  BY Zenon
<1>1. InLine(p) /\ Numbered(p) /\ OldFirst(p) /\ HandIsHeld(p, t) /\ MarksAreTrue(p, x, t) /\ OldWaits(p, x)
      /\ HostMisses(p, n, x, t) /\ LossShows(p, n, x, t)
  BY <1>0, Zenon DEF Line
<1>21. InLine(q)
  BY <1>0, <1>1, SMT DEF Away, InHand, InQueue, InBack, InLine, Along, HandIsHeld, TakenIn, Same,
     Keeps
<1>22. Numbered(q)
  BY <1>0, <1>1, SMT DEF Away, InHand, InQueue, InBack, Numbered, TakenIn, Same, Keeps
<1>23. OldFirst(q)
  BY <1>0, <1>1, SMT DEF Away, InHand, InQueue, InBack, OldFirst, OldWaits, InLine, Along,
     TakenIn, Same, Keeps
<1>24. HandIsHeld(q, t)
  BY <1>0, <1>1, SMT DEF Away, InHand, InQueue, InBack, HandIsHeld, InLine, TakenIn, Same, Keeps
<1>25. MarksAreTrue(q, y, t)
  BY <1>0, <1>1, SMT DEF Away, InHand, InQueue, InBack, MarksAreTrue, InLine, TakenIn, Same, Keeps
<1>26. OldWaits(q, y)
  BY <1>0, <1>1, SMT DEF Away, InHand, InQueue, InBack, OldWaits, OldFirst, InLine, Along,
     HandIsHeld, TakenIn, Same, Keeps
<1>27. HostMisses(q, m, y, t)
  BY <1>0, <1>1, SMT DEF Away, InHand, InQueue, InBack, HostMisses, Barred, Rearming, OldWaits,
     OldFirst, InLine, Along, TakenIn, Same, Keeps
<1>28. LossShows(q, m, y, t)
  BY <1>0, <1>1, SMT DEF Away, InHand, InQueue, InBack, LossShows, InLine, Along, OldWaits,
     TakenIn, Same, Keeps
<1>. QED BY <1>21, <1>22, <1>23, <1>24, <1>25, <1>26, <1>27, <1>28, Zenon DEF Line

(* What is left behind the gates, its gaps forgotten, after the picture in hand. *)
Turned(q, g, p, o, c) ==
  /\ \A i \in DOMAIN q : i \in Int /\ i >= 1
  /\ \A k \in DOMAIN g : k \in Int /\ k >= 1 /\ k + c \in DOMAIN q
  /\ \A i \in DOMAIN q : i > c => i - c \in DOMAIN g /\ Alike(q[i], g[i - c]) /\ q[i].miss = g[i - c].miss
  /\ \/ c = 0 /\ \A i \in DOMAIN p : ~InHand(p[i])
     \/ c = 1 /\ o \in Int /\ o \in DOMAIN p /\ InHand(p[o]) /\ 1 \in DOMAIN q /\ q[1] = p[o]

(* Another viewer (PumpUdpHello): all that left or was to leave is gone but *)
(* for the one in hand, which is fenced, and the barrier is armed.          *)
LEMMA RolloverLine ==
  ASSUME NEW p, NEW q, NEW g, NEW n, NEW m, NEW r, NEW f, NEW S, NEW x, NEW y, NEW t, NEW u, NEW o, NEW c
  PROVE  /\ Turned(q, g, p, o, c)
         /\ Follows(g, p, f, S)
         /\ Inherits(g, r, p, n, f, S, "host")
         /\ Line(p, n, x, t)
         /\ \A i \in DOMAIN p : i \in S <=> ~InBack(p[i])
         /\ m.miss = r.miss
         /\ (y.awaiting <=> x.awaiting) /\ y.waiting /\ ~y.queuedKey.now /\ ~y.wireKey.now
         /\ u.pc = t.pc /\ (u.left <=> t.pc # "idle")
         => Line(q, m, y, u)
<1>0. SUFFICES ASSUME Turned(q, g, p, o, c),
                      Follows(g, p, f, S),
                      Inherits(g, r, p, n, f, S, "host"),
                      Line(p, n, x, t),
                      \A i \in DOMAIN p : i \in S <=> ~InBack(p[i]),
                      m.miss = r.miss,
                      (y.awaiting <=> x.awaiting) /\ y.waiting /\ ~y.queuedKey.now /\ ~y.wireKey.now,
                      u.pc = t.pc /\ (u.left <=> t.pc # "idle")
               PROVE  Line(q, m, y, u)
  BY Zenon
<1>1. InLine(p) /\ Numbered(p) /\ OldFirst(p) /\ HandIsHeld(p, t) /\ MarksAreTrue(p, x, t) /\ OldWaits(p, x)
      /\ HostMisses(p, n, x, t) /\ LossShows(p, n, x, t)
  BY <1>0, Zenon DEF Line
<1>2. /\ c \in {0, 1}
      /\ \A i \in DOMAIN q : i \in Int /\ i >= 1 /\ (i <= c => i = 1 /\ c = 1)
      /\ c = 1 => o \in DOMAIN p /\ InHand(p[o]) /\ 1 \in DOMAIN q /\ q[1] = p[o]
      /\ c = 0 => \A i \in DOMAIN p : ~InHand(p[i])
  BY <1>0, SMT DEF Turned
<1>3. \A i \in DOMAIN q : i > c =>
        /\ i - c \in DOMAIN g /\ f[i - c] \in Int /\ f[i - c] \in DOMAIN p
        /\ Alike(q[i], p[f[i - c]]) /\ q[i].miss = g[i - c].miss
        /\ InBack(q[i]) /\ InBack(p[f[i - c]])
  BY <1>0, SMT DEF Turned, Follows, Alike, InBack, InHand, InQueue, Away
<1>4. \A i, j \in DOMAIN q : c < i /\ i < j => f[i - c] < f[j - c]
  BY <1>0, <1>2, <1>3, SMT DEF Follows
<1>5. \A i \in DOMAIN q : i > c =>
        \/ q[i].miss = p[f[i - c]].miss
        \/ q[i].miss = "host" /\ f[i - c] - 1 \in DOMAIN p /\ ~InBack(p[f[i - c] - 1])
  BY <1>0, <1>3, SMT DEF Inherits, Bears, Same
<1>6. \A i \in DOMAIN q : i > c /\ q[i].miss \in {"host", "later"} =>
        \A j \in DOMAIN q : InBack(q[j]) => i <= j
  <2>. SUFFICES ASSUME NEW i \in DOMAIN q, i > c, q[i].miss \in {"host", "later"},
                       NEW j \in DOMAIN q, InBack(q[j]), j < i
                PROVE  FALSE
    BY <1>2, SMT
  <2>1. j > c
    BY <1>2, SMT DEF InBack, InHand
  <2>2. f[j - c] < f[i - c] /\ InBack(p[f[j - c]]) /\ f[j - c] \in DOMAIN p /\ f[i - c] \in DOMAIN p
        /\ f[j - c] \in Int /\ f[i - c] \in Int /\ InBack(p[f[i - c]])
    BY <2>1, <1>3, <1>4, SMT
  <2>3. p[f[i - c]].miss \notin {"host", "later"}
    BY <2>2, <1>1, SMT DEF HostMisses, LossShows
  <2>4. f[i - c] - 1 \in DOMAIN p /\ ~InBack(p[f[i - c] - 1])
    BY <2>3, <1>5, Zenon
  <2>. QED BY <2>2, <2>4, <1>1, SMT DEF InLine, Along, Away, InHand, InQueue, InBack
<1>7. m.miss \in {"host", "later"} => \A j \in DOMAIN q : ~InBack(q[j])
  <2>. SUFFICES ASSUME m.miss \in {"host", "later"}, NEW j \in DOMAIN q, InBack(q[j]) PROVE FALSE
    BY Zenon
  <2>1. j > c
    BY <1>2, SMT DEF InBack, InHand
  <2>2. f[j - c] \in Int /\ f[j - c] \in DOMAIN p /\ InBack(p[f[j - c]])
    BY <2>1, <1>3, SMT
  <2>3. n.miss \notin {"host", "later"}
    BY <2>2, <1>1, SMT DEF HostMisses, LossShows
  <2>4. PICK l \in Int : Bears(r, n, l \in S, "host") /\ \A i \in DOMAIN p : i <= l
    BY <1>0, Zenon DEF Inherits
  <2>5. l \in S
    BY <1>0, <2>3, <2>4, Zenon DEF Bears, Same
  <2>6. l \in DOMAIN p /\ ~InBack(p[l]) /\ f[j - c] <= l
    BY <1>0, <2>2, <2>4, <2>5, Zenon DEF Inherits
  <2>. QED BY <2>2, <2>6, <1>1, SMT DEF InLine, Along, Away, InHand, InQueue, InBack
<1>8. /\ (y.awaiting <=> x.awaiting) /\ y.waiting /\ ~y.queuedKey.now /\ ~y.wireKey.now
      /\ u.pc = t.pc /\ (u.left <=> t.pc # "idle")
  BY <1>0, Zenon
<1>9. \A i \in DOMAIN q : /\ ~Away(q[i]) /\ ~InQueue(q[i]) /\ (InBack(q[i]) => i > c)
                          /\ InHand(q[i]) => u.left
  BY <1>8, <1>1, <1>2, <1>3, SMT DEF HandIsHeld, Away, InHand, InQueue, InBack
<1>21. InLine(q)
  BY <1>8, <1>1, <1>2, <1>3, <1>4, <1>6, <1>7, SMT DEF Alike, Away, InHand, InQueue, InBack,
     InLine, Along, HandIsHeld
<1>22. Numbered(q)
  BY <1>8, <1>1, <1>2, <1>3, <1>4, <1>6, <1>7, SMT DEF Alike, Away, InHand, InQueue, InBack,
     Numbered
<1>23. OldFirst(q)
  BY <1>8, <1>1, <1>2, <1>3, <1>4, <1>6, <1>7, SMT DEF Alike, Away, InHand, InQueue, InBack,
     OldFirst, OldWaits, InLine, Along
<1>24. HandIsHeld(q, u)
  BY <1>8, <1>1, <1>2, <1>3, <1>4, <1>6, <1>7, SMT DEF Alike, Away, InHand, InQueue, InBack,
     HandIsHeld, InLine
<1>25. MarksAreTrue(q, y, u)
  BY <1>8, <1>1, <1>2, <1>3, <1>4, <1>6, <1>7, SMT DEF Alike, Away, InHand, InQueue, InBack,
     MarksAreTrue, InLine
<1>26. OldWaits(q, y)
  BY <1>8, <1>1, <1>2, <1>3, <1>4, <1>6, <1>7, SMT DEF Alike, Away, InHand, InQueue, InBack,
     OldWaits, OldFirst, InLine, Along, HandIsHeld
<1>27. HostMisses(q, m, y, u)
  BY <1>6, <1>7, <1>8, <1>9, SMT DEF HostMisses, Barred
<1>28. LossShows(q, m, y, u)
  BY <1>6, <1>7, <1>8, <1>9, SMT DEF LossShows, InBack
<1>. QED BY <1>21, <1>22, <1>23, <1>24, <1>25, <1>26, <1>27, <1>28, Zenon DEF Line

(* The picture in hand passes its first fence, and the mark of a key goes *)
(* from the queue to the wire.                                            *)
LEMMA PassFenceLine ==
  ASSUME NEW p, NEW n, NEW x, NEW y, NEW t, NEW u, NEW o
  PROVE  /\ Line(p, n, x, t)
         /\ t.pc = "dequeued" /\ ~t.left /\ u.pc = "starting" /\ ~u.left
         /\ o \in DOMAIN p /\ InHand(p[o]) /\ ~p[o].old
         /\ (y.awaiting <=> x.awaiting) /\ (y.waiting <=> x.waiting)
         /\ y.queuedKey.now => y.queuedKey = x.queuedKey /\ (p[o].key => x.queuedKey.id # p[o].id)
         /\ y.wireKey.now /\ p[o].key => y.wireKey.id = p[o].id
         /\ y.wireKey.now /\ ~p[o].key => y.wireKey = x.wireKey
         => Line(p, n, y, u)
<1>0. SUFFICES ASSUME Line(p, n, x, t),
                      t.pc = "dequeued" /\ ~t.left /\ u.pc = "starting" /\ ~u.left,
                      o \in DOMAIN p /\ InHand(p[o]) /\ ~p[o].old,
                      (y.awaiting <=> x.awaiting) /\ (y.waiting <=> x.waiting),
                      y.queuedKey.now => y.queuedKey = x.queuedKey /\ (p[o].key => x.queuedKey.id # p[o].id),
                      y.wireKey.now /\ p[o].key => y.wireKey.id = p[o].id,
                      y.wireKey.now /\ ~p[o].key => y.wireKey = x.wireKey
               PROVE  Line(p, n, y, u)
  BY Zenon
<1>1. InLine(p) /\ Numbered(p) /\ OldFirst(p) /\ HandIsHeld(p, t) /\ MarksAreTrue(p, x, t) /\ OldWaits(p, x)
      /\ HostMisses(p, n, x, t) /\ LossShows(p, n, x, t)
  BY <1>0, Zenon DEF Line
<1>21. InLine(p)
  BY <1>0, <1>1, SMT DEF InHand, InQueue, InLine, Along, HandIsHeld
<1>22. Numbered(p)
  BY <1>0, <1>1, SMT DEF InHand, InQueue, Numbered
<1>23. OldFirst(p)
  BY <1>0, <1>1, SMT DEF Away, InHand, InQueue, InBack, OldFirst, OldWaits, InLine, Along
<1>24. HandIsHeld(p, u)
  BY <1>0, <1>1, SMT DEF InHand, InQueue, HandIsHeld, InLine
<1>25. MarksAreTrue(p, y, u)
  BY <1>0, <1>1, SMT DEF InHand, InQueue, MarksAreTrue, InLine
<1>26. OldWaits(p, y)
  BY <1>0, <1>1, SMT DEF Away, InHand, InQueue, InBack, OldWaits, OldFirst, InLine, Along,
     HandIsHeld
<1>27. HostMisses(p, n, y, u)
  BY <1>0, <1>1, SMT DEF Away, InHand, InQueue, InBack, HostMisses, Barred, Rearming, OldWaits,
     OldFirst, InLine, Along
<1>28. LossShows(p, n, y, u)
  BY <1>0, <1>1, SMT DEF Away, InHand, InQueue, InBack, LossShows, InLine, Along, OldWaits
<1>. QED BY <1>21, <1>22, <1>23, <1>24, <1>25, <1>26, <1>27, <1>28, Zenon DEF Line

(* The picture in hand passes its second fence. *)
LEMMA FirstDatagramLine ==
  ASSUME NEW p, NEW n, NEW x, NEW t, NEW u
  PROVE  /\ Line(p, n, x, t)
         /\ t.pc = "starting" /\ ~t.left /\ u.pc = "sending" /\ ~u.left
         => Line(p, n, x, u)
<1>0. SUFFICES ASSUME Line(p, n, x, t),
                      t.pc = "starting" /\ ~t.left /\ u.pc = "sending" /\ ~u.left
               PROVE  Line(p, n, x, u)
  BY Zenon
<1>1. InLine(p) /\ Numbered(p) /\ OldFirst(p) /\ HandIsHeld(p, t) /\ MarksAreTrue(p, x, t) /\ OldWaits(p, x)
      /\ HostMisses(p, n, x, t) /\ LossShows(p, n, x, t)
  BY <1>0, Zenon DEF Line
<1>21. InLine(p)
  BY <1>0, <1>1, SMT DEF InHand, InQueue, InLine, Along, HandIsHeld
<1>22. Numbered(p)
  BY <1>0, <1>1, SMT DEF InHand, InQueue, Numbered
<1>23. OldFirst(p)
  BY <1>0, <1>1, SMT DEF Away, InHand, InQueue, InBack, OldFirst, OldWaits, InLine, Along
<1>24. HandIsHeld(p, u)
  BY <1>0, <1>1, SMT DEF InHand, InQueue, HandIsHeld, InLine
<1>25. MarksAreTrue(p, x, u)
  BY <1>0, <1>1, SMT DEF InHand, InQueue, MarksAreTrue, InLine
<1>26. OldWaits(p, x)
  BY <1>0, <1>1, SMT DEF Away, InHand, InQueue, InBack, OldWaits, OldFirst, InLine, Along,
     HandIsHeld
<1>27. HostMisses(p, n, x, u)
  BY <1>0, <1>1, SMT DEF Away, InHand, InQueue, InBack, HostMisses, Barred, Rearming, OldWaits,
     OldFirst, InLine, Along
<1>28. LossShows(p, n, x, u)
  BY <1>0, <1>1, SMT DEF Away, InHand, InQueue, InBack, LossShows, InLine, Along, OldWaits
<1>. QED BY <1>21, <1>22, <1>23, <1>24, <1>25, <1>26, <1>27, <1>28, Zenon DEF Line

(* The sender is idle again, with nothing in hand. *)
LEMMA IdleLine ==
  ASSUME NEW p, NEW n, NEW x, NEW y, NEW t, NEW u
  PROVE  /\ Line(p, n, x, t)
         /\ Keeps(x, y)
         /\ t.pc = "posting" \/ (t.pc = "failed" /\ t.left)
         /\ u.pc = "idle" /\ ~u.left
         => Line(p, n, y, u)
<1>0. SUFFICES ASSUME Line(p, n, x, t),
                      Keeps(x, y),
                      t.pc = "posting" \/ (t.pc = "failed" /\ t.left),
                      u.pc = "idle" /\ ~u.left
               PROVE  Line(p, n, y, u)
  BY Zenon
<1>1. InLine(p) /\ Numbered(p) /\ OldFirst(p) /\ HandIsHeld(p, t) /\ MarksAreTrue(p, x, t) /\ OldWaits(p, x)
      /\ HostMisses(p, n, x, t) /\ LossShows(p, n, x, t)
  BY <1>0, Zenon DEF Line
<1>2. (\A i \in DOMAIN p : ~InHand(p[i])) /\ ~Rearming(t)
  BY <1>0, <1>1, SMT DEF HandIsHeld, InHand, Rearming
<1>21. InLine(p)
  BY <1>0, <1>1, <1>2, SMT DEF InHand, InQueue, InLine, Along, HandIsHeld, Keeps
<1>22. Numbered(p)
  BY <1>0, <1>1, <1>2, SMT DEF InHand, InQueue, Numbered, Keeps
<1>23. OldFirst(p)
  BY <1>0, <1>1, <1>2, SMT DEF Away, InHand, InQueue, InBack, OldFirst, OldWaits, InLine, Along,
     Keeps
<1>24. HandIsHeld(p, u)
  BY <1>0, <1>1, <1>2, SMT DEF InHand, InQueue, HandIsHeld, InLine, Keeps
<1>25. MarksAreTrue(p, y, u)
  BY <1>0, <1>1, <1>2, SMT DEF InHand, InQueue, MarksAreTrue, InLine, Keeps
<1>26. OldWaits(p, y)
  BY <1>0, <1>1, <1>2, SMT DEF Away, InHand, InQueue, InBack, OldWaits, OldFirst, InLine, Along,
     HandIsHeld, Keeps
<1>27. HostMisses(p, n, y, u)
  BY <1>0, <1>1, <1>2, SMT DEF Away, InHand, InQueue, InBack, HostMisses, Barred, Rearming,
     OldWaits, OldFirst, InLine, Along, Keeps
<1>28. LossShows(p, n, y, u)
  BY <1>0, <1>1, <1>2, SMT DEF Away, InHand, InQueue, InBack, LossShows, InLine, Along, OldWaits,
     Keeps
<1>. QED BY <1>21, <1>22, <1>23, <1>24, <1>25, <1>26, <1>27, <1>28, Zenon DEF Line

-----------------------------------------------------------------------------
(* The pipe *)

(* q is what dropping S leaves of p. *)
Thinned(q, m, p, n, S, who) == \E f : Follows(q, p, f, S) /\ Inherits(q, m, p, n, f, S, who)

(* GoneFacts, in the terms of the lemmas on the line. *)
LEMMA GoneParts ==
  ASSUME NEW p \in Seq(Picture), NEW n \in Beyond, NEW S \in SUBSET DOMAIN p,
         NEW who \in Misses \ {"none"}, NEW numbered \in BOOLEAN, who = "later" => numbered
  PROVE  LET g == Gone(p, n, S, who, numbered)
         IN  /\ g.pipe \in Seq(Picture) /\ g.next \in Beyond
             /\ \E f : /\ Follows(g.pipe, p, f, S) /\ Inherits(g.pipe, g.next, p, n, f, S, who)
                       /\ Thins(g.pipe, p, S, f)
<1>. DEFINE g == Gone(p, n, S, who, numbered)
            q == g.pipe
            m == g.next
<1>1. /\ q \in Seq(Picture) /\ m \in Beyond
      /\ \E f : /\ Thins(q, p, S, f)
                /\ \A k \in DOMAIN q : /\ Alike(q[k], p[f[k]])
                                       /\ Bears(q[k], p[f[k]], f[k] - 1 \in S, who)
      /\ Bears(m, n, Len(p) \in S, who)
  BY GoneFacts
<1>. HIDE DEF q, m
<1>2. PICK f : /\ Thins(q, p, S, f)
               /\ \A k \in DOMAIN q : /\ Alike(q[k], p[f[k]])
                                      /\ Bears(q[k], p[f[k]], f[k] - 1 \in S, who)
  BY <1>1, Zenon
<1>3. /\ Len(p) \in Int /\ \A i \in DOMAIN p : i \in Int /\ i <= Len(p)
      /\ \A k \in DOMAIN q : k \in Int
  <2>1. Len(p) \in Nat /\ DOMAIN p = 1 .. Len(p) /\ Len(q) \in Nat /\ DOMAIN q = 1 .. Len(q)
    BY <1>1, SeqFacts, Zenon
  <2>. QED BY <2>1
<1>4. /\ \A k \in DOMAIN q : f[k] \in DOMAIN p /\ f[k] \notin S
      /\ \A j, k \in DOMAIN q : j < k => f[j] < f[k]
      /\ \A i \in DOMAIN p \ S : \E k \in DOMAIN q : f[k] = i
  BY <1>2, Zenon DEF Thins
<1>5. Follows(q, p, f, S)
  BY <1>2, <1>3, <1>4, Zenon DEF Follows
<1>6. Inherits(q, m, p, n, f, S, who)
  BY <1>1, <1>2, <1>3, Zenon DEF Inherits
<1>7. \E e : Follows(q, p, e, S) /\ Inherits(q, m, p, n, e, S, who) /\ Thins(q, p, S, e)
  BY <1>2, <1>5, <1>6, Zenon
<1>. QED BY <1>1, <1>7 DEF q, m

(* The same, without the places the pictures had. *)
LEMMA GoneThins ==
  ASSUME NEW p \in Seq(Picture), NEW n \in Beyond, NEW S \in SUBSET DOMAIN p,
         NEW who \in Misses \ {"none"}, NEW numbered \in BOOLEAN, who = "later" => numbered
  PROVE  LET g == Gone(p, n, S, who, numbered)
         IN  g.pipe \in Seq(Picture) /\ g.next \in Beyond /\ Thinned(g.pipe, g.next, p, n, S, who)
BY GoneParts, Zenon DEF Thinned

(* The pipe is a sequence of pictures. *)
LEMMA PipeFacts ==
  ASSUME TypeOK
  PROVE  /\ pipe \in Seq(Picture) /\ next \in Beyond
         /\ Len(pipe) \in Nat /\ DOMAIN pipe = 1 .. Len(pipe) /\ \A i \in DOMAIN pipe : pipe[i] \in Picture
<1>1. pipe \in Seq(Picture) /\ next \in Beyond
  BY Zenon DEF TypeOK, Picture, Beyond
<1>. QED BY <1>1, SeqFacts, Zenon

(* The first picture at a place. *)
LEMMA FirstFacts ==
  ASSUME TypeOK, NEW place, At(place) # {}
  PROVE  /\ First(place) \in Nat /\ First(place) \in DOMAIN pipe /\ pipe[First(place)].at = place
         /\ \A i \in DOMAIN pipe : pipe[i].at = place => First(place) <= i
<1>1. At(place) \in SUBSET Nat
  BY PipeFacts DEF At
<1>2. First(place) \in At(place) /\ \A i \in At(place) : First(place) <= i
  BY <1>1, MinFacts, Zenon DEF First
<1>. QED BY <1>1, <1>2, Zenon DEF At

(* What is in front of the first picture at a place is further along. *)
LEMMA FirstOfPipe ==
  ASSUME TypeOK, InLine(pipe), NEW place \in Places, At(place) # {}
  PROVE  FirstOf(pipe, First(place), place)
<1>. DEFINE o == First(place)
<1>1. /\ o \in Nat /\ o \in DOMAIN pipe /\ pipe[o].at = place
      /\ \A i \in DOMAIN pipe : pipe[i].at = place => o <= i
  BY FirstFacts
<1>2. \A i \in DOMAIN pipe : i \in Nat /\ pipe[i].at \in Places
  BY PipeFacts, SMT DEF Picture
<1>. HIDE DEF o
<1>3. \A i \in DOMAIN pipe : i < o => Along(pipe[i].at) <= Along(place)
  BY <1>1, Zenon DEF InLine
<1>4. \A a, b \in Places : Along(a) <= Along(b) /\ Along(b) <= Along(a) => a = b
  BY SMT DEF Places, Along
<1>5. \A i \in DOMAIN pipe : Along(place) <= Along(pipe[i].at) => o <= i
  <2>. SUFFICES ASSUME NEW i \in DOMAIN pipe, Along(place) <= Along(pipe[i].at), ~(o <= i) PROVE FALSE
    BY Zenon
  <2>1. i < o
    BY <1>1, <1>2
  <2>2. pipe[i].at = place
    BY <1>2, <1>3, <1>4, <2>1, Zenon
  <2>. QED BY <1>1, <2>2, Zenon
<1>. QED BY <1>1, <1>5, Zenon DEF FirstOf, o

(* What Drop makes of the pipe. *)
LEMMA DropThins ==
  ASSUME TypeOK, NEW S \in SUBSET DOMAIN pipe, NEW who \in Misses \ {"none"}, NEW numbered \in BOOLEAN,
         who = "later" => numbered, Drop(S, who, numbered)
  PROVE  pipe' \in Seq(Picture) /\ next' \in Beyond /\ Thinned(pipe', next', pipe, next, S, who)
<1>1. pipe \in Seq(Picture) /\ next \in Beyond
  BY PipeFacts
<1>2. LET g == Gone(pipe, next, S, who, numbered)
      IN  pipe' = g.pipe /\ next' = g.next
  BY Zenon DEF Drop
<1>3. LET g == Gone(pipe, next, S, who, numbered)
      IN  g.pipe \in Seq(Picture) /\ g.next \in Beyond /\ Thinned(g.pipe, g.next, pipe, next, S, who)
  BY <1>1, GoneThins, Zenon
<1>. QED BY <1>2, <1>3, Zenon

-----------------------------------------------------------------------------
(* The host, the sender and the viewer *)

Mark == [id : KeyIds \cup {0}, now : BOOLEAN]
HostState == [want : BOOLEAN, latch : BOOLEAN, retry : BOOLEAN, awaiting : BOOLEAN, waiting : BOOLEAN,
              queuedKey : Mark, wireKey : Mark, mail : BOOLEAN, kick : BOOLEAN,
              checked : BOOLEAN, failed : BOOLEAN]
SenderState == [pc : {"idle", "dequeued", "starting", "sending", "failed", "posting"}, left : BOOLEAN]
ViewerState == [wait : BOOLEAN, cong : BOOLEAN, dec : {"synced", "lost", "broken"}, handled : BOOLEAN,
                repeated : BOOLEAN, asked : BOOLEAN, overflow : BOOLEAN,
                stage : {"first", "pop", "pushed", "forced"}]

(* TypeOK in named parts. *)
LEMMA TypeParts ==
  TypeOK <=> /\ pipe \in Seq(Picture) /\ next \in Beyond
             /\ h \in HostState /\ s \in SenderState /\ v \in ViewerState /\ faults \in 0 .. MaxFaults
BY Zenon DEF TypeOK, Picture, Beyond, HostState, Mark, SenderState, ViewerState

(* A mark that is cleared is no mark, and one that outlives ClearIfSeq is *)
(* of another key.                                                        *)
LEMMA MarkFacts ==
  /\ NoKey \in Mark /\ ~NoKey.now
  /\ \A k \in Mark : [k EXCEPT !.now = FALSE] \in Mark /\ ~[k EXCEPT !.now = FALSE].now
  /\ \A k \in Mark : \A id : /\ ClearIfSeq(k, id) \in Mark
                             /\ ClearIfSeq(k, id).now => ClearIfSeq(k, id) = k /\ k.id # id
<1>1. NoKey \in Mark /\ ~NoKey.now
  BY DEF Mark, NoKey
<1>2. ASSUME NEW k \in Mark PROVE [k EXCEPT !.now = FALSE] \in Mark /\ ~[k EXCEPT !.now = FALSE].now
  BY Zenon DEF Mark
<1>3. ASSUME NEW k \in Mark, NEW id
      PROVE  ClearIfSeq(k, id) \in Mark /\ (ClearIfSeq(k, id).now => ClearIfSeq(k, id) = k /\ k.id # id)
  BY <1>1, Zenon DEF ClearIfSeq
<1>. QED BY <1>1, <1>2, <1>3, Zenon

(* NewEpoch, with the marks by name. *)
Marked(x, a, b) == [x EXCEPT !.awaiting = TRUE, !.retry = FALSE, !.queuedKey = a, !.wireKey = b]

(* A new epoch closes the gate and takes the marks away, the barrier is *)
(* left alone.                                                          *)
LEMMA NewEpochFacts ==
  ASSUME NEW x \in HostState
  PROVE  /\ NewEpoch(x) \in HostState /\ NewEpoch(x).awaiting /\ (NewEpoch(x).waiting <=> x.waiting)
         /\ ~NewEpoch(x).queuedKey.now /\ ~NewEpoch(x).wireKey.now
<1>. DEFINE a == [x.queuedKey EXCEPT !.now = FALSE]
            b == [x.wireKey EXCEPT !.now = FALSE]
<1>1. NewEpoch(x) = Marked(x, a, b)
  BY Zenon DEF NewEpoch, Marked
<1>2. a \in Mark /\ ~a.now /\ b \in Mark /\ ~b.now
  <2>1. x.queuedKey \in Mark /\ x.wireKey \in Mark
    BY DEF HostState
  <2>. QED BY <2>1, MarkFacts, Zenon
<1>. HIDE DEF a, b
<1>3. /\ Marked(x, a, b) \in HostState /\ Marked(x, a, b).awaiting /\ (Marked(x, a, b).waiting <=> x.waiting)
      /\ Marked(x, a, b).queuedKey = a /\ Marked(x, a, b).wireKey = b
  BY <1>2, Zenon DEF Marked, HostState
<1>. QED BY <1>1, <1>2, <1>3, Zenon

(* A request for a key closes and opens nothing. *)
LEMMA RequestKeyFacts ==
  ASSUME NEW x \in HostState
  PROVE  /\ RequestKey(x) \in HostState
         /\ (RequestKey(x).awaiting <=> x.awaiting) /\ (RequestKey(x).waiting <=> x.waiting)
         /\ RequestKey(x).queuedKey = x.queuedKey /\ RequestKey(x).wireKey = x.wireKey
BY Zenon DEF RequestKey, HostState

(* The number of faults keeps its bound. *)
LEMMA FaultFacts ==
  ASSUME faults \in 0 .. MaxFaults, NEW f
  PROVE  (Fault(f) \/ NoFault) => faults' \in 0 .. MaxFaults
BY StreamConstants, SMT DEF Fault, NoFault

-----------------------------------------------------------------------------
(* The host's main loop *)

(* The host's half of the invariant. *)
LineHolds ==
  /\ pipe \in Seq(Picture) /\ next \in Beyond /\ h \in HostState /\ s \in SenderState
     /\ faults \in 0 .. MaxFaults
  /\ Line(pipe, next, h, s)

(* The invariant in two halves: what the host and the sender keep true, and *)
(* the viewer's gate.                                                       *)
LEMMA InvParts ==
  Inv <=> LineHolds /\ v \in ViewerState /\ GateIsTrue
BY TypeParts, Zenon DEF Inv, LineHolds

(* All that the invariant says, by name. *)
LEMMA InvFacts ==
  ASSUME Inv
  PROVE  /\ TypeOK /\ LineHolds /\ Line(pipe, next, h, s) /\ v \in ViewerState /\ GateIsTrue
         /\ pipe \in Seq(Picture) /\ next \in Beyond /\ h \in HostState /\ s \in SenderState
         /\ faults \in 0 .. MaxFaults
         /\ InLine(pipe) /\ Numbered(pipe) /\ OldFirst(pipe) /\ HandIsHeld(pipe, s) /\ MarksAreTrue(pipe, h, s)
         /\ OldWaits(pipe, h) /\ HostMisses(pipe, next, h, s) /\ LossShows(pipe, next, h, s)
BY InvParts, Zenon DEF Inv, LineHolds, Line

(* The oldest of the batch is the first behind the gates. *)
LEMMA OutputFacts ==
  ASSUME Inv, At("batch") # {}
  PROVE  /\ Output \in Nat /\ Output \in DOMAIN pipe /\ pipe[Output].at = "batch" /\ InBack(pipe[Output])
         /\ \A i \in DOMAIN pipe : InBack(pipe[i]) => Output <= i
         /\ FirstOf(pipe, Output, "batch") /\ {Output} \in SUBSET DOMAIN pipe
         /\ BackLost(pipe, {Output})
<1>. DEFINE o == Output
<1>1. TypeOK /\ InLine(pipe)
  BY InvFacts
<1>2. o \in Nat /\ o \in DOMAIN pipe /\ pipe[o].at = "batch"
  BY <1>1, FirstFacts, Zenon DEF Output
<1>3. FirstOf(pipe, o, "batch")
  BY <1>1, FirstOfPipe, "batch" \in Places, Zenon DEF Output, Places
<1>4. \A i \in DOMAIN pipe : i \in Nat
  BY <1>1, PipeFacts
<1>. HIDE DEF o
<1>5. InBack(pipe[o])
  BY <1>2, SMT DEF InBack, Away, InHand, InQueue
<1>6. \A i \in DOMAIN pipe : InBack(pipe[i]) => o <= i
  BY <1>3, SMT DEF FirstOf, InBack, Away, InHand, InQueue, Along
<1>7. BackLost(pipe, {o})
  BY <1>2, <1>4, <1>5, <1>6, SMT DEF BackLost
<1>. QED BY <1>2, <1>3, <1>5, <1>6, <1>7 DEF o

(* The host drops pictures the encoder gave it or that are still in it. *)
LEMMA BackDrop ==
  ASSUME Inv, NEW S \in SUBSET DOMAIN pipe, BackLost(pipe, S),
         NEW who \in {"host", "batch"}, NEW numbered \in BOOLEAN, Drop(S, who, numbered),
         h' \in HostState, Keeps(h, h'), who = "host" => Barred(h', s), s' = s, faults' \in 0 .. MaxFaults
  PROVE  LineHolds'
<1>1. pipe' \in Seq(Picture) /\ next' \in Beyond /\ Thinned(pipe', next', pipe, next, S, who)
  <2>1. who \in Misses \ {"none"} /\ who # "later"
    BY DEF Misses
  <2>. QED BY <2>1, InvFacts, DropThins, Zenon
<1>2. PICK f : Follows(pipe', pipe, f, S) /\ Inherits(pipe', next', pipe, next, f, S, who)
  BY <1>1, Zenon DEF Thinned
<1>3. Line(pipe', next', h', s)
  BY <1>2, BackLoss, InvFacts, Zenon
<1>. QED BY <1>1, <1>3, InvFacts, Zenon DEF LineHolds

(* The epoch gate drops an output of an older epoch: a key is waited for *)
(* then.                                                                 *)
LEMMA DropOldEpochStep ==
  ASSUME Inv, DropOldEpoch
  PROVE  LineHolds'
<1>1. /\ At("batch") # {} /\ pipe[Output].old /\ Drop({Output}, "host", FALSE)
      /\ h' = h /\ s' = s /\ faults' = faults
  BY DEF DropOldEpoch, Judges
<1>2. Barred(h, s)
  BY <1>1, InvFacts, OutputFacts, Zenon DEF OldWaits, Barred
<1>3. Keeps(h, h)
  BY Zenon DEF Keeps
<1>. QED BY <1>1, <1>2, <1>3, OutputFacts, InvFacts, BackDrop

(* The epoch gate drops what is no key while it waits for one. *)
LEMMA DropAwaitingKeyStep ==
  ASSUME Inv, DropAwaitingKey
  PROVE  LineHolds'
<1>1. /\ At("batch") # {} /\ h.awaiting /\ Drop({Output}, "host", FALSE)
      /\ h' = RequestKey(h) /\ s' = s /\ faults' = faults
  BY DEF DropAwaitingKey, Judges
<1>2. h' \in HostState /\ Keeps(h, h') /\ Barred(h', s)
  BY <1>1, InvFacts, RequestKeyFacts, Zenon DEF Keeps, Barred
<1>. QED BY <1>1, <1>2, OutputFacts, InvFacts, BackDrop

(* The epoch gate drops an output nobody can place, and closes. *)
LEMMA DropUnknownEpochStep ==
  ASSUME Inv, DropUnknownEpoch
  PROVE  LineHolds'
<1>1. /\ At("batch") # {} /\ Drop({Output}, "host", FALSE)
      /\ h' = [RequestKey(h) EXCEPT !.awaiting = TRUE] /\ s' = s /\ Fault("unknown")
  BY DEF DropUnknownEpoch, Judges
<1>2. h' \in HostState /\ Keeps(h, h') /\ Barred(h', s)
  <2>. DEFINE r == RequestKey(h)
  <2>1. r \in HostState /\ (r.waiting <=> h.waiting) /\ r.queuedKey = h.queuedKey /\ r.wireKey = h.wireKey
    BY InvFacts, RequestKeyFacts
  <2>. HIDE DEF r
  <2>2. /\ [r EXCEPT !.awaiting = TRUE] \in HostState /\ [r EXCEPT !.awaiting = TRUE].awaiting
        /\ [r EXCEPT !.awaiting = TRUE].waiting = r.waiting
        /\ [r EXCEPT !.awaiting = TRUE].queuedKey = r.queuedKey
           /\ [r EXCEPT !.awaiting = TRUE].wireKey = r.wireKey
    BY <2>1, Zenon DEF HostState
  <2>3. h' = [r EXCEPT !.awaiting = TRUE]
    BY <1>1 DEF r
  <2>. QED BY <2>1, <2>2, <2>3, Zenon DEF Keeps, Barred
<1>3. faults' \in 0 .. MaxFaults
  BY <1>1, InvFacts, FaultFacts
<1>. QED BY <1>1, <1>2, <1>3, OutputFacts, InvFacts, BackDrop

(* The barrier drops what is no key. *)
LEMMA HoldForKeyStep ==
  ASSUME Inv, HoldForKey
  PROVE  LineHolds'
<1>1. /\ At("batch") # {} /\ h.waiting /\ Drop({Output}, "host", TRUE)
      /\ h' = [h EXCEPT !.mail = TRUE] /\ s' = s /\ faults' = faults
  BY DEF HoldForKey, Emits, Passes, Judges
<1>2. h' \in HostState /\ Keeps(h, h') /\ Barred(h', s)
  BY <1>1, InvFacts, Zenon DEF Keeps, Barred, HostState
<1>. QED BY <1>1, <1>2, OutputFacts, InvFacts, BackDrop

(* What a kick brought out is dropped unless it is a key: behind a closed  *)
(* barrier, or unnumbered behind the key that opened it.                   *)
LEMMA DropKickStep ==
  ASSUME Inv, DropKick
  PROVE  LineHolds'
<1>. DEFINE who == IF h.waiting THEN "host" ELSE "batch"
<1>1. /\ At("batch") # {} /\ Drop({Output}, who, FALSE)
      /\ h' = h /\ s' = s /\ faults' = faults
  BY Zenon DEF DropKick, Passes, Judges
<1>2. h' \in HostState /\ Keeps(h, h')
  BY <1>1, InvFacts, Zenon DEF Keeps
<1>3. who = "host" => Barred(h', s)
  BY <1>1, "host" # "batch", Zenon DEF Barred
<1>4. FALSE \in BOOLEAN /\ who \in {"host", "batch"}
  OBVIOUS
<1>. HIDE DEF who
<1>. QED BY <1>1, <1>2, <1>3, <1>4, OutputFacts, InvFacts, BackDrop

(* The loop notices a failed send and throws the batch away; what comes    *)
(* behind misses it unnumbered, which is the exception the property makes. *)
LEMMA CheckSendStep ==
  ASSUME Inv, CheckSend
  PROVE  LineHolds'
<1>1. h' = [h EXCEPT !.checked = TRUE, !.failed = @ /\ At("batch") = {}] /\ s' = s /\ faults' = faults
  BY DEF CheckSend
<1>2. h' \in HostState /\ Keeps(h, h')
  <2>. DEFINE b == h.failed /\ At("batch") = {}
  <2>1. b \in BOOLEAN /\ h' = [h EXCEPT !.checked = TRUE, !.failed = b]
    BY <1>1, InvFacts, Zenon DEF HostState
  <2>. HIDE DEF b
  <2>. QED BY <2>1, InvFacts, Zenon DEF Keeps, HostState
<1>3. CASE h.failed
  <2>1. Drop(At("batch"), "batch", FALSE)
    BY <1>3 DEF CheckSend
  <2>2. At("batch") \in SUBSET DOMAIN pipe
    BY DEF At
  <2>3. \A i \in DOMAIN pipe : i \in Nat /\ pipe[i].at \in Places
    BY InvFacts, PipeFacts, SMT DEF Picture
  <2>4. BackLost(pipe, At("batch"))
    BY <2>3, InvFacts, SMT DEF BackLost, InLine, Along, At, InBack, Away, InHand, InQueue, Places
  <2>5. FALSE \in BOOLEAN /\ "batch" \in {"host", "batch"} /\ "batch" # "host"
    OBVIOUS
  <2>. QED BY <1>1, <1>2, <2>1, <2>2, <2>4, <2>5, BackDrop, InvFacts
<1>4. CASE ~h.failed
  <2>1. pipe' = pipe /\ next' = next
    BY <1>4 DEF CheckSend
  <2>. QED BY <1>1, <1>2, <2>1, KeepsLine, InvFacts, Zenon DEF LineHolds
<1>. QED BY <1>3, <1>4

(* A step of the loop that leaves the pictures alone and opens no gate. *)
LEMMA StillLine ==
  ASSUME Inv, pipe' = pipe, next' = next, s' = s, h' \in HostState, Keeps(h, h'), faults' \in 0 .. MaxFaults
  PROVE  LineHolds'
BY KeepsLine, InvFacts, Zenon DEF LineHolds

(* One picture of the pipe is replaced. *)
LEMMA PutFacts ==
  ASSUME NEW p \in Seq(Picture), NEW o \in DOMAIN p, NEW r \in Picture
  PROVE  LET q == [p EXCEPT ![o] = r]
         IN  q \in Seq(Picture) /\ DOMAIN q = DOMAIN p /\ Put(q, p, o) /\ q[o] = r
<1>. DEFINE q == [p EXCEPT ![o] = r]
<1>1. Len(p) \in Nat /\ DOMAIN p = 1 .. Len(p) /\ \A i \in DOMAIN p : p[i] \in Picture
  BY SeqFacts
<1>2. DOMAIN q = DOMAIN p /\ q[o] = r /\ \A i \in DOMAIN p : i # o => q[i] = p[i]
  BY Zenon
<1>3. p \in [1 .. Len(p) -> Picture] /\ o \in 1 .. Len(p)
  BY <1>1, LenProperties, Zenon
<1>4. q \in [1 .. Len(p) -> Picture]
  BY <1>3, Zenon
<1>5. \A i \in DOMAIN p : i \in Int
  BY <1>1
<1>. HIDE DEF q
<1>6. q \in Seq(Picture)
  BY <1>1, <1>4, SeqOfFacts, Zenon
<1>7. Put(q, p, o)
  BY <1>2, <1>5, Zenon DEF Put
<1>. QED BY <1>2, <1>6, <1>7 DEF q

(* A picture at another place; under a number; and on the wire. *)
Moved(x, place) == [x EXCEPT !.at = place]
Named(x, place, id) == [x EXCEPT !.at = place, !.id = id]
Departed(x, part) == [x EXCEPT !.at = "wire", !.id = 0, !.old = FALSE, !.part = part]

(* A picture that moves on keeps what it misses; the wire takes its number *)
(* and its age away.                                                       *)
LEMMA MovedFacts ==
  ASSUME NEW x \in Picture
  PROVE  /\ \A place \in Places :
              LET y == Moved(x, place)
              IN  y \in Picture /\ y.at = place /\ Same(y, x) /\ (y.key <=> x.key) /\ (y.old <=> x.old)
                  /\ y.id = x.id /\ y.part = x.part
         /\ \A place \in Places, id \in KeyIds :
              LET y == Named(x, place, id)
              IN  y \in Picture /\ y.at = place /\ y.id = id /\ Same(y, x) /\ (y.key <=> x.key) /\ (y.old <=> x.old)
         /\ \A part \in Parts :
              LET y == Departed(x, part)
              IN  y \in Picture /\ y.at = "wire" /\ y.id = 0 /\ Same(y, x) /\ (y.key <=> x.key) /\ ~y.old
<1>1. ASSUME NEW place \in Places
      PROVE  LET y == Moved(x, place)
             IN  y \in Picture /\ y.at = place /\ Same(y, x) /\ (y.key <=> x.key) /\ (y.old <=> x.old)
                 /\ y.id = x.id /\ y.part = x.part
  BY Zenon DEF Moved, Picture, Same
<1>2. ASSUME NEW place \in Places, NEW id \in KeyIds
      PROVE  LET y == Named(x, place, id)
             IN  y \in Picture /\ y.at = place /\ y.id = id /\ Same(y, x) /\ (y.key <=> x.key) /\ (y.old <=> x.old)
  BY Zenon DEF Named, Picture, Same
<1>3. ASSUME NEW part \in Parts
      PROVE  LET y == Departed(x, part)
             IN  y \in Picture /\ y.at = "wire" /\ y.id = 0 /\ Same(y, x) /\ (y.key <=> x.key) /\ ~y.old
  <2>1. "wire" \in Places /\ 0 \in KeyIds \cup {0} /\ FALSE \in BOOLEAN
    BY DEF Places
  <2>. QED BY <2>1, Zenon DEF Departed, Picture, Same
<1>. QED BY <1>1, <1>2, <1>3, Zenon

(* The loop takes the posted reasons. *)
LEMMA TakeReasonsStep ==
  ASSUME Inv, TakeReasons
  PROVE  LineHolds'
<1>1. pipe' = pipe /\ next' = next /\ s' = s /\ faults' = faults /\ h' = [RequestKey(h) EXCEPT !.mail = FALSE]
  BY DEF TakeReasons
<1>2. h' \in HostState /\ Keeps(h, h')
  <2>. DEFINE r == RequestKey(h)
  <2>1. /\ r \in HostState /\ (r.awaiting <=> h.awaiting) /\ (r.waiting <=> h.waiting)
        /\ r.queuedKey = h.queuedKey /\ r.wireKey = h.wireKey
    BY InvFacts, RequestKeyFacts
  <2>. HIDE DEF r
  <2>2. h' = [r EXCEPT !.mail = FALSE]
    BY <1>1 DEF r
  <2>. QED BY <2>1, <2>2, Zenon DEF Keeps, HostState
<1>. QED BY <1>1, <1>2, InvFacts, StillLine

(* A latch or a retry expires, or a request reaches the mailbox. *)
LEMMA ExpiresStep ==
  ASSUME Inv, LatchExpires \/ RetryExpires \/ RequestPasses
  PROVE  LineHolds'
<1>1. pipe' = pipe /\ next' = next /\ s' = s /\ faults' = faults
  BY DEF LatchExpires, RetryExpires, RequestPasses
<1>2. \/ h' = [h EXCEPT !.latch = FALSE] \/ h' = [h EXCEPT !.retry = FALSE] \/ h' = [h EXCEPT !.mail = TRUE]
  BY Zenon DEF LatchExpires, RetryExpires, RequestPasses
<1>3. /\ [h EXCEPT !.latch = FALSE] \in HostState /\ Keeps(h, [h EXCEPT !.latch = FALSE])
      /\ [h EXCEPT !.retry = FALSE] \in HostState /\ Keeps(h, [h EXCEPT !.retry = FALSE])
      /\ [h EXCEPT !.mail = TRUE] \in HostState /\ Keeps(h, [h EXCEPT !.mail = TRUE])
  BY InvFacts, Zenon DEF Keeps, HostState
<1>. QED BY <1>1, <1>2, <1>3, InvFacts, StillLine

(* The viewer's own steps leave the host alone. *)
LEMMA Untouched ==
  ASSUME Inv, UNCHANGED <<pipe, next, h, s>>, faults' \in 0 .. MaxFaults
  PROVE  LineHolds'
BY InvFacts, Zenon DEF LineHolds

(* Older, for one picture. *)
Aging(x) == [x EXCEPT !.old = @ \/ x.at \in {"encoder", "queue", "hand"}]

(* A picture that is of an older epoch from now on is the same otherwise. *)
LEMMA AgingFacts ==
  ASSUME NEW x \in Picture
  PROVE  /\ Aging(x) \in Picture /\ Aging(x).at = x.at /\ (Aging(x).key <=> x.key) /\ Aging(x).id = x.id
         /\ Same(Aging(x), x) /\ (Aging(x).old <=> x.old \/ x.at \in {"encoder", "queue", "hand"})
<1>. DEFINE b == x.old \/ x.at \in {"encoder", "queue", "hand"}
<1>1. b \in BOOLEAN
  BY Zenon DEF Picture
<1>2. Aging(x) = [x EXCEPT !.old = b]
  BY Zenon DEF Aging
<1>. HIDE DEF b
<1>3. LET y == [x EXCEPT !.old = b]
      IN  y \in Picture /\ y.at = x.at /\ (y.key <=> x.key) /\ y.id = x.id /\ Same(y, x) /\ y.old = b
  BY <1>1, Zenon DEF Picture, Same
<1>. QED BY <1>2, <1>3, Zenon DEF b

(* Older makes all that has not left old, when no batch is under way. *)
LEMMA OlderFacts ==
  ASSUME NEW p \in Seq(Picture), \A i \in DOMAIN p : p[i].at # "batch"
  PROVE  Older(p) \in Seq(Picture) /\ Aged(Older(p), p)
<1>. DEFINE q == Older(p)
<1>1. Len(p) \in Nat /\ DOMAIN p = 1 .. Len(p) /\ \A i \in DOMAIN p : p[i] \in Picture
  BY SeqFacts
<1>2. q = [i \in DOMAIN p |-> Aging(p[i])]
  BY Zenon DEF Older, Aging
<1>3. DOMAIN q = DOMAIN p /\ \A i \in DOMAIN p : q[i] = Aging(p[i])
  BY <1>2, Zenon
<1>4. q \in [1 .. Len(p) -> Picture]
  BY <1>1, <1>2, AgingFacts, Zenon
<1>5. \A i \in DOMAIN p : i \in Int
  BY <1>1
<1>6. \A i \in DOMAIN p : ~Away(p[i]) => p[i].at \in {"encoder", "queue", "hand"}
  BY <1>1, SMT DEF Picture, Places, Away
<1>. HIDE DEF q
<1>7. q \in Seq(Picture)
  BY <1>1, <1>4, SeqOfFacts, Zenon
<1>8. \A i \in DOMAIN p : /\ q[i].at = p[i].at /\ (q[i].key <=> p[i].key) /\ q[i].id = p[i].id /\ Same(q[i], p[i])
                          /\ q[i].old <=> p[i].old \/ p[i].at \in {"encoder", "queue", "hand"}
  <2>. SUFFICES ASSUME NEW i \in DOMAIN p
                PROVE  /\ q[i].at = p[i].at /\ (q[i].key <=> p[i].key) /\ q[i].id = p[i].id /\ Same(q[i], p[i])
                       /\ q[i].old <=> p[i].old \/ p[i].at \in {"encoder", "queue", "hand"}
    OBVIOUS
  <2>1. p[i] \in Picture /\ q[i] = Aging(p[i])
    BY <1>1, <1>3, Zenon
  <2>2. /\ Aging(p[i]).at = p[i].at /\ (Aging(p[i]).key <=> p[i].key) /\ Aging(p[i]).id = p[i].id
        /\ Same(Aging(p[i]), p[i]) /\ (Aging(p[i]).old <=> p[i].old \/ p[i].at \in {"encoder", "queue", "hand"})
    BY <2>1, AgingFacts, Zenon
  <2>. QED BY <2>1, <2>2, Zenon
<1>9. Aged(q, p)
  BY <1>3, <1>5, <1>6, <1>8, Zenon DEF Aged, Same
<1>. QED BY <1>7, <1>9 DEF q

(* A flush, a restart or another geometry. *)
LEMMA FlushStep ==
  ASSUME Inv, Flush
  PROVE  LineHolds'
<1>1. /\ At("batch") = {} /\ pipe' = Older(pipe) /\ next' = next /\ s' = s /\ Fault("flush")
      /\ h' = NewEpoch(h) \/ h' = NewEpoch(RequestKey(h))
  BY Zenon DEF Flush, AtTop
<1>2. /\ h' \in HostState /\ h'.awaiting /\ (h'.waiting <=> h.waiting)
      /\ ~h'.queuedKey.now /\ ~h'.wireKey.now
  BY <1>1, InvFacts, RequestKeyFacts, NewEpochFacts, Zenon
<1>3. pipe' \in Seq(Picture) /\ Aged(pipe', pipe)
  <2>1. \A i \in DOMAIN pipe : pipe[i].at # "batch"
    BY <1>1, Zenon DEF At
  <2>. QED BY <1>1, <2>1, OlderFacts, InvFacts, Zenon
<1>4. Line(pipe', next, h', s)
  BY <1>2, <1>3, AgedLine, InvFacts, Zenon
<1>5. faults' \in 0 .. MaxFaults
  BY <1>1, InvFacts, FaultFacts
<1>. QED BY <1>1, <1>2, <1>3, <1>4, <1>5, InvFacts, Zenon DEF LineHolds

(* What the encoder holds, or gave out, is lost in a new epoch. *)
LEMMA EpochDrop ==
  ASSUME Inv, NEW S \in SUBSET DOMAIN pipe, BackLost(pipe, S), \A i \in At("batch") : i \in S,
         LET g == Gone(pipe, next, S, "host", FALSE) IN pipe' = Older(g.pipe) /\ next' = g.next,
         h' \in HostState, h'.awaiting, h'.waiting <=> h.waiting, ~h'.queuedKey.now, ~h'.wireKey.now,
         s' = s, faults' \in 0 .. MaxFaults
  PROVE  LineHolds'
<1>. DEFINE g == Gone(pipe, next, S, "host", FALSE)
            q == g.pipe
            m == g.next
            y == [h EXCEPT !.awaiting = TRUE]
<1>1. q \in Seq(Picture) /\ m \in Beyond /\ Thinned(q, m, pipe, next, S, "host")
  <2>1. "host" \in Misses \ {"none"} /\ "host" # "later" /\ FALSE \in BOOLEAN
    BY DEF Misses
  <2>. QED BY <2>1, InvFacts, GoneThins
<1>2. pipe' = Older(q) /\ next' = m
  OBVIOUS
<1>3. Keeps(h, y) /\ y.awaiting /\ y.waiting = h.waiting
  BY InvFacts, Zenon DEF Keeps, HostState
<1>. HIDE DEF q, m, y
<1>4. PICK f : Follows(q, pipe, f, S) /\ Inherits(q, m, pipe, next, f, S, "host")
  BY <1>1, Zenon DEF Thinned
<1>5. Line(q, m, y, s)
  BY <1>3, <1>4, BackLoss, InvFacts, Zenon DEF Barred
<1>6. pipe' \in Seq(Picture) /\ Aged(pipe', q)
  <2>1. \A i \in DOMAIN q : q[i].at # "batch"
    BY <1>4, Zenon DEF Follows, Alike, At
  <2>. QED BY <1>1, <1>2, <2>1, OlderFacts, Zenon
<1>7. Line(pipe', m, h', s)
  BY <1>3, <1>5, <1>6, AgedLine, Zenon
<1>. QED BY <1>1, <1>2, <1>6, <1>7, InvFacts, Zenon DEF LineHolds

(* An encode call fails after it gave something out. *)
LEMMA EncodeFailsStep ==
  ASSUME Inv, EncodeFails
  PROVE  LineHolds'
<1>1. At("batch") = {} /\ At("encoder") # {} /\ Fault("output") /\ h' = RequestKey(NewEpoch(h)) /\ s' = s
  BY DEF EncodeFails, AtTop
<1>2. PICK i \in At("encoder") :
        LET g == Gone(pipe, next, First("encoder") .. i, "host", FALSE)
        IN  pipe' = Older(g.pipe) /\ next' = g.next
  BY Zenon DEF EncodeFails
<1>. DEFINE o == First("encoder")
            S == o .. i
<1>3. o \in Nat /\ o \in DOMAIN pipe /\ pipe[o].at = "encoder" /\ FirstOf(pipe, o, "encoder")
  BY <1>1, FirstFacts, FirstOfPipe, InvFacts, "encoder" \in Places, Zenon DEF Places
<1>4. Len(pipe) \in Nat /\ DOMAIN pipe = 1 .. Len(pipe) /\ \A j \in DOMAIN pipe : pipe[j].at \in Places
  BY InvFacts, PipeFacts, SMT DEF Picture
<1>5. i \in Nat /\ i \in DOMAIN pipe /\ pipe[i].at = "encoder"
  BY <1>4 DEF At
<1>. HIDE DEF o
<1>6. S \in SUBSET DOMAIN pipe
  BY <1>3, <1>4, <1>5
<1>7. BackLost(pipe, S)
  <2>1. \A j \in DOMAIN pipe : InBack(pipe[j]) => o <= j
    <3>1. \A j \in DOMAIN pipe : InBack(pipe[j]) => pipe[j].at = "encoder"
      BY <1>1, <1>4, SMT DEF At, InBack, Away, InHand, InQueue, Places
    <3>. QED BY <1>3, <3>1, SMT DEF FirstOf, Along
  <2>2. \A j \in S : InBack(pipe[j])
    <3>1. \A j \in S : j \in DOMAIN pipe /\ o <= j /\ j \in Nat
      BY <1>3, <1>5, <1>6
    <3>2. \A j \in S : Along(pipe[o].at) <= Along(pipe[j].at)
      BY <1>3, <3>1, InvFacts, SMT DEF InLine, Along
    <3>. QED BY <1>3, <3>2, SMT DEF Along, InBack, Away, InHand, InQueue
  <2>. QED BY <1>3, <1>4, <1>5, <2>1, <2>2, SMT DEF BackLost
<1>8. /\ h' \in HostState /\ h'.awaiting /\ (h'.waiting <=> h.waiting)
      /\ ~h'.queuedKey.now /\ ~h'.wireKey.now
  BY <1>1, InvFacts, RequestKeyFacts, NewEpochFacts, Zenon
<1>9. faults' \in 0 .. MaxFaults
  BY <1>1, InvFacts, FaultFacts
<1>10. LET g == Gone(pipe, next, S, "host", FALSE)
       IN  pipe' = Older(g.pipe) /\ next' = g.next
  BY <1>2 DEF o
<1>11. \A j \in At("batch") : j \in S
  BY <1>1
<1>. HIDE DEF S
<1>. QED BY <1>1, <1>6, <1>7, <1>8, <1>9, <1>10, <1>11, EpochDrop, Zenon

(* A new encoder, in a new epoch. *)
LEMMA ResetEncoderStep ==
  ASSUME Inv, ResetEncoder
  PROVE  LineHolds'
<1>. DEFINE S == At("batch") \cup At("encoder")
<1>1. /\ Fault("rebuilt") /\ h' = [RequestKey(NewEpoch(h)) EXCEPT !.latch = FALSE] /\ s' = s
      /\ LET g == Gone(pipe, next, S, "host", FALSE)
         IN  pipe' = Older(g.pipe) /\ next' = g.next
  BY Zenon DEF ResetEncoder
<1>2. \A j \in DOMAIN pipe : j \in Int /\ pipe[j].at \in Places
  BY InvFacts, PipeFacts, SMT DEF Picture
<1>3. S \in SUBSET DOMAIN pipe /\ BackLost(pipe, S) /\ \A j \in At("batch") : j \in S
  BY <1>2, SMT DEF At, BackLost, InBack, Away, InHand, InQueue, Places
<1>4. /\ h' \in HostState /\ h'.awaiting /\ (h'.waiting <=> h.waiting)
      /\ ~h'.queuedKey.now /\ ~h'.wireKey.now
  <2>. DEFINE r == RequestKey(NewEpoch(h))
  <2>1. r \in HostState /\ r.awaiting /\ (r.waiting <=> h.waiting) /\ ~r.queuedKey.now /\ ~r.wireKey.now
    BY InvFacts, RequestKeyFacts, NewEpochFacts, Zenon
  <2>. HIDE DEF r
  <2>2. h' = [r EXCEPT !.latch = FALSE]
    BY <1>1 DEF r
  <2>. QED BY <2>1, <2>2, Zenon DEF HostState
<1>5. faults' \in 0 .. MaxFaults
  BY <1>1, InvFacts, FaultFacts
<1>. HIDE DEF S
<1>. QED BY <1>1, <1>3, <1>4, <1>5, EpochDrop, Zenon

(* The queue stayed full: it is dropped with the output that did not fit. *)
LEMMA DropAndResyncStep ==
  ASSUME Inv, DropAndResync
  PROVE  LineHolds'
<1>. DEFINE S == At("queue") \cup {Output}
<1>1. /\ At("batch") # {} /\ Drop(S, "host", TRUE) /\ Fault("stall") /\ s' = s
      /\ h' = [h EXCEPT !.queuedKey = NoKey, !.waiting = TRUE, !.mail = TRUE]
  BY DEF DropAndResync, Emits, Passes, Judges
<1>2. S \in SUBSET DOMAIN pipe
  BY <1>1, OutputFacts DEF At
<1>3. /\ h' \in HostState /\ h'.awaiting = h.awaiting /\ h'.waiting /\ ~h'.queuedKey.now
         /\ h'.wireKey = h.wireKey
  BY <1>1, MarkFacts, InvFacts, Zenon DEF HostState
<1>4. pipe' \in Seq(Picture) /\ next' \in Beyond /\ Thinned(pipe', next', pipe, next, S, "host")
  <2>1. "host" \in Misses \ {"none"} /\ "host" # "later" /\ TRUE \in BOOLEAN
    BY DEF Misses
  <2>. HIDE DEF S
  <2>. QED BY <1>1, <1>2, <2>1, InvFacts, DropThins, Zenon
<1>5. PICK f : Follows(pipe', pipe, f, S) /\ Inherits(pipe', next', pipe, next, f, S, "host")
  BY <1>4, Zenon DEF Thinned
<1>6. /\ \A i \in S : InQueue(pipe[i]) \/ InBack(pipe[i])
      /\ \A i \in DOMAIN pipe : InQueue(pipe[i]) => i \in S
  BY <1>1, OutputFacts, Zenon DEF At, InQueue
<1>7. \A i \in S : \A j \in DOMAIN pipe : InBack(pipe[j]) /\ j < i => j \in S
  <2>1. \A i \in DOMAIN pipe : i \in Int
    BY InvFacts, PipeFacts
  <2>2. Output \in Int /\ Output \in DOMAIN pipe /\ \A j \in DOMAIN pipe : InBack(pipe[j]) => Output <= j
    BY <1>1, OutputFacts, SMT
  <2>3. \A i, j \in DOMAIN pipe : InQueue(pipe[i]) /\ InBack(pipe[j]) /\ j < i => FALSE
    BY <2>1, InvFacts, SMT DEF InLine, Along, InQueue, InBack, InHand, Away
  <2>. QED BY <2>1, <2>2, <2>3, SMT DEF At, InQueue
<1>8. (h'.awaiting <=> h.awaiting) /\ (s.left <=> s.left)
      /\ (s.pc = s.pc \/ (s.pc = "failed" /\ s.pc = "posting" /\ ~s.left))
  BY <1>3
<1>9. Line(pipe', next', h', s)
  <2>. HIDE DEF S
  <2>. QED BY <1>3, <1>5, <1>6, <1>7, <1>8, QueueLoss, InvFacts, Zenon
<1>10. faults' \in 0 .. MaxFaults
  BY <1>1, InvFacts, FaultFacts
<1>. QED BY <1>1, <1>3, <1>4, <1>9, <1>10, InvFacts, Zenon DEF LineHolds

(* An output that is no key goes to the queue. *)
LEMMA EnqueueStep ==
  ASSUME Inv, Enqueue
  PROVE  LineHolds'
<1>. DEFINE o == Output
            r == Moved(pipe[o], "queue")
<1>1. /\ At("batch") # {} /\ ~pipe[o].key /\ ~h.waiting /\ ~h.awaiting /\ ~pipe[o].old
      /\ pipe' = [pipe EXCEPT ![o].at = "queue"]
      /\ next' = next /\ h' = h /\ s' = s /\ faults' = faults
  BY DEF Enqueue, Emits, Passes, Judges
<1>2. o \in DOMAIN pipe /\ FirstOf(pipe, o, "batch") /\ pipe[o] \in Picture
  BY <1>1, OutputFacts, InvFacts, PipeFacts
<1>. HIDE DEF o
<1>3. r \in Picture /\ r.at = "queue" /\ Same(r, pipe[o]) /\ (r.key <=> pipe[o].key) /\ (r.old <=> pipe[o].old)
      /\ r.id = pipe[o].id
  BY <1>2, MovedFacts, "queue" \in Places DEF Places
<1>4. pipe' = [pipe EXCEPT ![o] = r]
  BY <1>1, <1>2, Zenon DEF Moved
<1>. HIDE DEF r
<1>5. pipe' \in Seq(Picture) /\ Put(pipe', pipe, o) /\ pipe'[o] = r
  BY <1>2, <1>3, <1>4, PutFacts, InvFacts
<1>6. Line(pipe', next, h, s)
  <2>1. /\ pipe'[o].at = "queue" /\ ~pipe'[o].key /\ ~pipe[o].key /\ ~pipe'[o].old /\ ~pipe[o].old
        /\ pipe'[o].id = pipe[o].id /\ Same(pipe'[o], pipe[o])
    BY <1>1, <1>3, <1>5, Zenon
  <2>. QED BY <1>1, <1>2, <1>5, <2>1, EnqueueLine, InvFacts, Zenon
<1>. QED BY <1>1, <1>5, <1>6, InvFacts, Zenon DEF LineHolds

(* A number is free: one key waits at most, one is in hand, and two are marked. *)
LEMMA FreeIdFacts ==
  ASSUME Inv
  PROVE  FreeId \in KeyIds
<1>. DEFINE Used == {pipe[i].id : i \in DOMAIN pipe} \cup {h.queuedKey.id, h.wireKey.id}
<1>1. \A i \in DOMAIN pipe : i \in Int
  BY InvFacts, PipeFacts
<1>2. \E a : \A i \in DOMAIN pipe : InQueue(pipe[i]) /\ pipe[i].key => pipe[i].id = a
  <2>1. CASE \E j \in DOMAIN pipe : InQueue(pipe[j]) /\ pipe[j].key
    <3>1. PICK j \in DOMAIN pipe : InQueue(pipe[j]) /\ pipe[j].key
      BY <2>1
    <3>2. \A i \in DOMAIN pipe : InQueue(pipe[i]) /\ pipe[i].key => i = j
      BY <1>1, <3>1, InvFacts, SMT DEF InLine
    <3>. QED BY <3>2, Zenon
  <2>. QED BY <2>1, Zenon
<1>3. \E b : \A i \in DOMAIN pipe : InHand(pipe[i]) => pipe[i].id = b
  BY InvFacts, Zenon DEF InLine
<1>4. PICK a : \A i \in DOMAIN pipe : InQueue(pipe[i]) /\ pipe[i].key => pipe[i].id = a
  BY <1>2, Zenon
<1>5. PICK b : \A i \in DOMAIN pipe : InHand(pipe[i]) => pipe[i].id = b
  BY <1>3, Zenon
<1>. DEFINE c == h.queuedKey.id
            d == h.wireKey.id
<1>6. \A x \in Used : x \in {0, a, b, c, d}
  <2>1. \A i \in DOMAIN pipe : pipe[i].id \in {0, a, b}
    BY <1>4, <1>5, InvFacts, Zenon DEF Numbered
  <2>. QED BY <2>1, Zenon
<1>. HIDE DEF Used, c, d
<1>7. \E x \in KeyIds : x \notin Used
  <2>. SUFFICES ASSUME \A x \in KeyIds : x \in Used PROVE FALSE
    BY Zenon
  <2>1. 1 \in Used /\ 2 \in Used /\ 3 \in Used /\ 4 \in Used /\ 5 \in Used
    BY DEF KeyIds
  <2>2. 1 \in {0, a, b, c, d} /\ 2 \in {0, a, b, c, d} /\ 3 \in {0, a, b, c, d} /\ 4 \in {0, a, b, c, d}
        /\ 5 \in {0, a, b, c, d}
    BY <2>1, <1>6, Zenon
  <2>. QED BY <2>2, SMT
<1>8. KeyIds \ Used \in SUBSET Nat /\ KeyIds \ Used # {}
  BY <1>7 DEF KeyIds
<1>9. Min(KeyIds \ Used) \in KeyIds \ Used
  BY <1>8, MinFacts, Zenon
<1>. QED BY <1>9, Zenon DEF FreeId, Used

(* A key goes to the queue, under a free number, and clears it. *)
LEMMA EnqueueKeyStep ==
  ASSUME Inv, EnqueueKey
  PROVE  LineHolds'
<1>. DEFINE o == Output
            id == FreeId
            x == Named(pipe[o], "queue", id)
            r == [pipe EXCEPT ![o].at = "queue", ![o].id = id]
            S == At("queue")
            g == Gone(r, next, S, "host", TRUE)
<1>1. /\ At("batch") # {} /\ pipe[o].key /\ ~pipe[o].old /\ pipe' = g.pipe /\ next' = g.next
      /\ s' = s /\ faults' = faults
      /\ h' = [h EXCEPT !.awaiting = FALSE, !.waiting = FALSE, !.queuedKey = [id |-> id, now |-> TRUE],
                        !.want = FALSE, !.latch = FALSE, !.retry = FALSE]
  BY Zenon DEF EnqueueKey, Emits, Passes, Judges
<1>2. o \in DOMAIN pipe /\ FirstOf(pipe, o, "batch") /\ pipe[o] \in Picture /\ id \in KeyIds
  BY <1>1, OutputFacts, InvFacts, PipeFacts, FreeIdFacts
<1>3. S \in SUBSET DOMAIN pipe /\ \A i \in DOMAIN pipe : i \in S <=> InQueue(pipe[i])
  BY DEF At, InQueue
<1>. HIDE DEF o, id, S
<1>4. x \in Picture /\ x.at = "queue" /\ x.id = id /\ (x.key <=> pipe[o].key) /\ (x.old <=> pipe[o].old)
  BY <1>2, MovedFacts, "queue" \in Places DEF Places
<1>5. r = [pipe EXCEPT ![o] = x]
  BY <1>2, Zenon DEF Named
<1>. HIDE DEF x, r
<1>6. r \in Seq(Picture) /\ Put(r, pipe, o) /\ r[o] = x /\ DOMAIN r = DOMAIN pipe
  BY <1>2, <1>4, <1>5, PutFacts, InvFacts
<1>7. g.pipe \in Seq(Picture) /\ g.next \in Beyond /\ Thinned(g.pipe, g.next, r, next, S, "host")
  <2>1. "host" \in Misses \ {"none"} /\ "host" # "later" /\ TRUE \in BOOLEAN
    BY DEF Misses
  <2>2. S \in SUBSET DOMAIN r
    BY <1>3, <1>6, Zenon
  <2>. QED BY <1>6, <2>1, <2>2, GoneThins, InvFacts
<1>. HIDE DEF g
<1>8. pipe' \in Seq(Picture) /\ next' \in Beyond /\ Thinned(pipe', next', r, next, S, "host")
  BY <1>1, <1>7, Zenon
<1>9. PICK f : Follows(pipe', r, f, S) /\ Inherits(pipe', next', r, next, f, S, "host")
  BY <1>8, Zenon DEF Thinned
<1>10. h' \in HostState /\ ~h'.awaiting /\ ~h'.waiting /\ h'.queuedKey.id = id /\ h'.wireKey = h.wireKey
  <2>. DEFINE k == [id |-> id, now |-> TRUE]
  <2>1. k \in Mark /\ k.id = id
    BY <1>2 DEF Mark
  <2>. HIDE DEF k
  <2>2. h' = [h EXCEPT !.awaiting = FALSE, !.waiting = FALSE, !.queuedKey = k,
                       !.want = FALSE, !.latch = FALSE, !.retry = FALSE]
    BY <1>1, Zenon DEF k
  <2>. QED BY <2>1, <2>2, InvFacts, Zenon DEF HostState
<1>11. r[o].at = "queue" /\ r[o].key /\ ~r[o].old /\ ~pipe[o].old /\ r[o].id # 0 /\ r[o].id = id
  <2>1. id # 0
    BY <1>2 DEF KeyIds
  <2>. QED BY <1>1, <1>4, <1>6, <2>1, Zenon
<1>12. Line(pipe', next', h', s)
  BY <1>2, <1>3, <1>6, <1>9, <1>10, <1>11, EnqueueKeyLine, InvFacts, Zenon
<1>. QED BY <1>1, <1>8, <1>10, <1>12, InvFacts, Zenon DEF LineHolds

(* What an encode call may leave the pipe as. *)
LEMMA ReleasesTakeIn ==
  ASSUME Inv, At("batch") = {}, NEW e \in Picture, e.at = "encoder", e.id = 0, ~e.old, Same(e, next),
         NEW q \in Releases(Append(pipe, e))
  PROVE  q \in Seq(Picture) /\ TakenIn(q, pipe, next, Len(pipe))
<1>. DEFINE p == Append(pipe, e)
            E == {i \in DOMAIN p : p[i].at = "encoder"}
            Out(n) == {i \in E : Cardinality({j \in E : j <= i}) <= n}
            l == Len(pipe)
<1>1. pipe \in Seq(Picture) /\ l \in Nat /\ DOMAIN pipe = 1 .. l /\ \A i \in DOMAIN pipe : pipe[i] \in Picture
  BY InvFacts, PipeFacts
<1>2. p \in Seq(Picture) /\ Len(p) = l + 1 /\ (\A i \in 1 .. l : p[i] = pipe[i]) /\ p[l + 1] = e
  BY <1>1, AppendProperties
<1>3. DOMAIN p = 1 .. l + 1 /\ \A i \in DOMAIN p : p[i] \in Picture
  <2>1. DOMAIN p = 1 .. Len(p) /\ \A i \in DOMAIN p : p[i] \in Picture
    BY <1>2, SeqFacts, Zenon
  <2>. QED BY <1>2, <2>1, Zenon
<1>. HIDE DEF p
<1>4. PICK n \in 0 .. Cardinality(E) :
        q = [i \in DOMAIN p |-> IF i \in Out(n) THEN [p[i] EXCEPT !.at = "batch"] ELSE p[i]]
  <2>1. q \in Releases(p)
    BY DEF p
  <2>. QED BY <2>1, Zenon DEF Releases
<1>5. /\ n \in Int
      /\ \A i \in E : Rank(E, i) \in Nat
      /\ \A i, j \in E : i < j => Rank(E, i) < Rank(E, j)
  <2>1. E \in SUBSET (1 .. l + 1) /\ l + 1 \in Nat
    BY <1>1, <1>3
  <2>. HIDE DEF E
  <2>2. /\ Cardinality(E) \in Nat
        /\ \A i \in E : Rank(E, i) \in 1 .. Cardinality(E)
        /\ \A i, j \in E : i < j => Rank(E, i) < Rank(E, j)
    BY <2>1, RankFacts, Zenon
  <2>. QED BY <2>2, SMT
<1>6. \A i : i \in Out(n) <=> i \in E /\ Rank(E, i) <= n
  BY Zenon DEF Rank
<1>7. \A i \in E : i \in DOMAIN p /\ p[i].at = "encoder"
  OBVIOUS
<1>8. \A i \in DOMAIN p : p[i].at = "encoder" => i \in E
  OBVIOUS
<1>9. DOMAIN q = DOMAIN p /\ \A i \in DOMAIN p : q[i] = IF i \in Out(n) THEN Moved(p[i], "batch") ELSE p[i]
  BY <1>4, Zenon DEF Moved
<1>10. "batch" \in Places
  BY DEF Places
<1>. HIDE DEF E, Out
<1>11. \A i \in DOMAIN p : /\ q[i] \in Picture /\ (q[i].key <=> p[i].key) /\ q[i].id = p[i].id
                           /\ (q[i].old <=> p[i].old) /\ Same(q[i], p[i])
                           /\ q[i].at = IF i \in Out(n) THEN "batch" ELSE p[i].at
  <2>. SUFFICES ASSUME NEW i \in DOMAIN p
                PROVE  /\ q[i] \in Picture /\ (q[i].key <=> p[i].key) /\ q[i].id = p[i].id
                       /\ (q[i].old <=> p[i].old) /\ Same(q[i], p[i])
                       /\ q[i].at = IF i \in Out(n) THEN "batch" ELSE p[i].at
    OBVIOUS
  <2>1. CASE i \in Out(n)
    <3>1. q[i] = Moved(p[i], "batch") /\ p[i] \in Picture
      BY <1>3, <1>9, <2>1, Zenon
    <3>2. LET y == Moved(p[i], "batch")
          IN  y \in Picture /\ y.at = "batch" /\ Same(y, p[i]) /\ (y.key <=> p[i].key) /\ (y.old <=> p[i].old)
              /\ y.id = p[i].id
      BY <3>1, <1>10, MovedFacts
    <3>. QED BY <3>1, <3>2, <2>1, Zenon
  <2>2. CASE i \notin Out(n)
    <3>1. q[i] = p[i] /\ p[i] \in Picture
      BY <1>3, <1>9, <2>2, Zenon
    <3>. QED BY <3>1, <2>2, Zenon DEF Same
  <2>. QED BY <2>1, <2>2
<1>12. q \in Seq(Picture)
  <2>1. q \in [1 .. l + 1 -> Picture]
    <3>1. q = [i \in DOMAIN p |-> q[i]]
      BY <1>4, Zenon
    <3>. QED BY <3>1, <1>3, <1>11, Zenon
  <2>2. l + 1 \in Nat
    BY <1>1
  <2>. QED BY <2>1, <2>2, SeqOfFacts, Zenon
<1>13. \A i, j \in DOMAIN q : i < j /\ q[j].at = "batch" => q[i].at # "encoder"
  <2>. SUFFICES ASSUME NEW i \in DOMAIN p, NEW j \in DOMAIN p, i < j, q[j].at = "batch", q[i].at = "encoder"
                PROVE  FALSE
    BY <1>9, Zenon
  <2>1. p[j].at # "batch"
    <3>1. \A k \in 1 .. l : pipe[k].at # "batch"
      BY <1>1, Zenon DEF At
    <3>2. j \in 1 .. l \/ j = l + 1
      BY <1>1, <1>3
    <3>. QED BY <3>1, <3>2, <1>2, "encoder" # "batch", Zenon
  <2>2. j \in Out(n)
    BY <1>11, <2>1, Zenon
  <2>3. i \notin Out(n) /\ p[i].at = "encoder"
    BY <1>11, "encoder" # "batch", Zenon
  <2>4. i \in E /\ j \in E /\ Rank(E, j) <= n /\ ~(Rank(E, i) <= n)
    BY <1>6, <1>8, <2>2, <2>3, Zenon
  <2>5. Rank(E, i) < Rank(E, j) /\ Rank(E, i) \in Nat /\ Rank(E, j) \in Nat
    BY <1>5, <2>4, Zenon
  <2>. QED BY <1>5, <2>4, <2>5
<1>14. \A k \in 1 .. l : /\ ~InBack(pipe[k]) => k \notin Out(n)
                         /\ InBack(pipe[k]) => pipe[k].at \in {"batch", "encoder"}
  BY <1>1, <1>2, <1>6, <1>7, SMT DEF InBack, Away, InHand, InQueue, Picture, Places
<1>15. l + 1 \in DOMAIN p /\ \A k \in 1 .. l : k \in DOMAIN p
  BY <1>1, <1>3
<1>16. /\ l \in Int
       /\ \A i \in DOMAIN pipe : i \in Int /\ i <= l
       /\ \A k \in DOMAIN q : k \in Int /\ k <= l + 1 /\ (k # l + 1 => k \in DOMAIN pipe)
  BY <1>1, <1>3, <1>9
<1>17. \A k \in DOMAIN pipe : /\ k \in DOMAIN q
                              /\ (q[k].key <=> pipe[k].key) /\ q[k].id = pipe[k].id
                                 /\ (q[k].old <=> pipe[k].old)
                              /\ Same(q[k], pipe[k])
                              /\ ~InBack(pipe[k]) => q[k].at = pipe[k].at
                              /\ InBack(pipe[k]) => q[k].at \in {"batch", "encoder"}
  <2>. SUFFICES ASSUME NEW k \in DOMAIN pipe
                PROVE  /\ k \in DOMAIN q
                       /\ (q[k].key <=> pipe[k].key) /\ q[k].id = pipe[k].id /\ (q[k].old <=> pipe[k].old)
                       /\ Same(q[k], pipe[k])
                       /\ ~InBack(pipe[k]) => q[k].at = pipe[k].at
                       /\ InBack(pipe[k]) => q[k].at \in {"batch", "encoder"}
    OBVIOUS
  <2>1. k \in DOMAIN p /\ p[k] = pipe[k] /\ k \in 1 .. l
    BY <1>1, <1>2, <1>15, Zenon
  <2>. QED BY <2>1, <1>9, <1>11, <1>14, Zenon
<1>18. /\ q[l + 1].at \in {"batch", "encoder"} /\ q[l + 1].id = 0 /\ ~q[l + 1].old /\ Same(q[l + 1], next)
       /\ l + 1 \in DOMAIN q
  BY <1>2, <1>9, <1>11, <1>15, Zenon DEF Same
<1>19. TakenIn(q, pipe, next, l)
  BY <1>13, <1>16, <1>17, <1>18, Zenon DEF TakenIn
<1>. QED BY <1>12, <1>19

(* The loop hands a tick's input to the encoder. *)
LEMMA EncodeStep ==
  ASSUME Inv, Encode
  PROVE  LineHolds'
<1>1. /\ At("batch") = {} /\ next' = [miss |-> "none", gap |-> FALSE] /\ s' = s
      /\ \E k \in BOOLEAN : pipe' \in Releases(Append(pipe, Encoded(k)))
      /\ \E x \in Inputs :
           h' \in {[x EXCEPT !.checked = FALSE, !.latch = @ \/ ForceKey(x)],
                   [x EXCEPT !.checked = FALSE, !.retry = TRUE], [x EXCEPT !.checked = FALSE, !.latch = TRUE]}
  <2>1. \A x : ForceKey(x) \in BOOLEAN
    BY Zenon DEF ForceKey
  <2>. HIDE DEF ForceKey
  <2>. QED BY <2>1, Zenon DEF Encode, AtTop
<1>2. \E f : Fault(f) \/ NoFault
  BY Zenon DEF Encode
<1>3. PICK k \in BOOLEAN : pipe' \in Releases(Append(pipe, Encoded(k)))
  BY <1>1
<1>. DEFINE e == Encoded(k)
<1>4. e \in Picture /\ e.at = "encoder" /\ e.id = 0 /\ ~e.old /\ Same(e, next)
  BY InvFacts, SMT DEF Encoded, Picture, Beyond, Places, Parts, Same
<1>5. pipe' \in Seq(Picture) /\ TakenIn(pipe', pipe, next, Len(pipe))
  <2>. HIDE DEF e
  <2>. QED BY <1>1, <1>3, <1>4, ReleasesTakeIn DEF e
<1>6. h' \in HostState /\ Keeps(h, h')
  <2>1. PICK x \in Inputs :
           h' \in {[x EXCEPT !.checked = FALSE, !.latch = @ \/ ForceKey(x)],
                   [x EXCEPT !.checked = FALSE, !.retry = TRUE], [x EXCEPT !.checked = FALSE, !.latch = TRUE]}
    BY <1>1, Zenon
  <2>2. x \in HostState /\ Keeps(h, x)
    <3>1. x \in {[h EXCEPT !.kick = FALSE], [RequestKey(h) EXCEPT !.kick = TRUE]}
      BY Zenon DEF Inputs
    <3>2. [h EXCEPT !.kick = FALSE] \in HostState /\ Keeps(h, [h EXCEPT !.kick = FALSE])
      BY InvFacts, Zenon DEF HostState, Keeps
    <3>3. RequestKey(h) \in HostState /\ Keeps(h, RequestKey(h))
      BY InvFacts, Zenon DEF RequestKey, HostState, Keeps
    <3>. DEFINE r == RequestKey(h)
    <3>. HIDE DEF r
    <3>4. r \in HostState => [r EXCEPT !.kick = TRUE] \in HostState
      BY Zenon DEF HostState
    <3>5. r \in HostState /\ Keeps(h, r) => Keeps(h, [r EXCEPT !.kick = TRUE])
      BY Zenon DEF HostState, Keeps
    <3>. QED BY <3>1, <3>2, <3>3, <3>4, <3>5, Zenon DEF r
  <2>. DEFINE b == x.latch \/ ForceKey(x)
  <2>3. b \in BOOLEAN
    BY Zenon
  <2>4. h' \in {[x EXCEPT !.checked = FALSE, !.latch = b],
                [x EXCEPT !.checked = FALSE, !.retry = TRUE], [x EXCEPT !.checked = FALSE, !.latch = TRUE]}
    BY <2>1, Zenon
  <2>. HIDE DEF b
  <2>5. /\ [x EXCEPT !.checked = FALSE, !.latch = b] \in HostState
        /\ Keeps(h, [x EXCEPT !.checked = FALSE, !.latch = b])
    BY <2>2, <2>3, Zenon DEF HostState, Keeps
  <2>6. /\ [x EXCEPT !.checked = FALSE, !.retry = TRUE] \in HostState
        /\ Keeps(h, [x EXCEPT !.checked = FALSE, !.retry = TRUE])
    BY <2>2, Zenon DEF HostState, Keeps
  <2>7. /\ [x EXCEPT !.checked = FALSE, !.latch = TRUE] \in HostState
        /\ Keeps(h, [x EXCEPT !.checked = FALSE, !.latch = TRUE])
    BY <2>2, Zenon DEF HostState, Keeps
  <2>. QED BY <2>4, <2>5, <2>6, <2>7, Zenon
<1>7. next' \in Beyond /\ next'.miss = "none"
  BY <1>1, SMT DEF Beyond, Misses
<1>8. Line(pipe', next', h', s)
  BY <1>5, <1>6, <1>7, EncodeLine, InvFacts, Zenon
<1>9. faults' \in 0 .. MaxFaults
  BY <1>2, FaultFacts, InvFacts
<1>. QED BY <1>1, <1>5, <1>6, <1>7, <1>8, <1>9, InvFacts, Zenon DEF LineHolds

(* The gap of a picture, in a stream nobody has seen yet. *)
Fresh(x) == [x EXCEPT !.gap = FALSE]

(* A picture whose gap is forgotten is the same otherwise. *)
LEMMA FreshFacts ==
  /\ \A x \in Picture : Fresh(x) \in Picture /\ Alike(Fresh(x), x) /\ Fresh(x).miss = x.miss
  /\ \A x \in Beyond : Fresh(x) \in Beyond /\ Fresh(x).miss = x.miss
BY Zenon DEF Fresh, Picture, Beyond, Alike

(* The sender has nothing in hand, or one picture, the one of Hand. *)
LEMMA HandFacts ==
  ASSUME Inv
  PROVE  \/ At("hand") = {} /\ Cardinality(At("hand")) = 0 /\ \A i \in DOMAIN pipe : ~InHand(pipe[i])
         \/ /\ At("hand") # {} /\ Cardinality(At("hand")) = 1
            /\ Hand \in Int /\ Hand \in DOMAIN pipe /\ InHand(pipe[Hand]) /\ pipe[Hand] \in Picture
            /\ \A i \in DOMAIN pipe : InHand(pipe[i]) => i = Hand
<1>1. CASE At("hand") = {}
  <2>1. \A i \in DOMAIN pipe : ~InHand(pipe[i])
    BY <1>1, Zenon DEF At, InHand
  <2>. QED BY <1>1, <2>1, FS_EmptySet, Zenon
<1>2. CASE At("hand") # {}
  <2>1. Hand \in Nat /\ Hand \in DOMAIN pipe /\ pipe[Hand].at = "hand"
    BY <1>2, FirstFacts, InvFacts, Zenon DEF Hand
  <2>2. InHand(pipe[Hand]) /\ pipe[Hand] \in Picture
    BY <2>1, PipeFacts, InvFacts DEF InHand
  <2>3. \A i \in DOMAIN pipe : InHand(pipe[i]) => i = Hand
    BY <2>1, <2>2, InvFacts, Zenon DEF InLine
  <2>4. At("hand") = {Hand}
    <3>1. \A i \in At("hand") : i = Hand
      BY <2>3, Zenon DEF At, InHand
    <3>2. Hand \in At("hand")
      BY <2>1, Zenon DEF At
    <3>. QED BY <3>1, <3>2, Zenon
  <2>5. Cardinality({Hand}) = 1
    BY FS_Singleton, Zenon
  <2>. QED BY <1>2, <2>1, <2>2, <2>3, <2>4, <2>5
<1>. QED BY <1>1, <1>2

(* Another viewer says hello. *)
LEMMA RolloverStep ==
  ASSUME Inv, Rollover
  PROVE  LineHolds'
<1>. DEFINE S == (At("queue") \cup At("wire") \cup At("held")) \cup At("hand")
            g == Gone(pipe, next, S, "host", FALSE)
            r == g.pipe
            c == Cardinality(At("hand"))
            a == [i \in 1 .. c |-> pipe[Hand]]
            b == [i \in DOMAIN r |-> Fresh(r[i])]
<1>1. /\ pipe' = a \o b /\ next' = Fresh(g.next) /\ Fault("viewer")
      /\ h' = [RequestKey(h) EXCEPT !.waiting = TRUE, !.queuedKey = NoKey, !.wireKey = NoKey]
      /\ s' = [s EXCEPT !.left = (s.pc # "idle")]
  BY Zenon DEF Rollover, Fresh, Hand
<1>2. \A i \in DOMAIN pipe : i \in Int /\ pipe[i].at \in Places
  BY InvFacts, PipeFacts, SMT DEF Picture
<1>3. S \in SUBSET DOMAIN pipe /\ \A i \in DOMAIN pipe : i \in S <=> ~InBack(pipe[i])
  BY <1>2, SMT DEF At, InBack, Away, InHand, InQueue, Places
<1>4. r \in Seq(Picture) /\ g.next \in Beyond /\ Thinned(r, g.next, pipe, next, S, "host")
  <2>1. "host" \in Misses \ {"none"} /\ "host" # "later" /\ FALSE \in BOOLEAN
    BY DEF Misses
  <2>. HIDE DEF S
  <2>. QED BY <1>3, <2>1, GoneThins, InvFacts
<1>. HIDE DEF S, r, c
<1>5. Len(r) \in Nat /\ DOMAIN r = 1 .. Len(r) /\ \A i \in DOMAIN r : r[i] \in Picture
  BY <1>4, SeqFacts, Zenon
<1>6. b \in Seq(Picture) /\ Len(b) = Len(r)
  <2>1. b \in [1 .. Len(r) -> Picture]
    BY <1>5, FreshFacts, Zenon
  <2>. HIDE DEF b
  <2>. QED BY <2>1, <1>5, SeqOfFacts, Zenon
<1>7. \/ c = 0 /\ \A i \in DOMAIN pipe : ~InHand(pipe[i])
      \/ c = 1 /\ Hand \in Int /\ Hand \in DOMAIN pipe /\ InHand(pipe[Hand]) /\ pipe[Hand] \in Picture
  BY HandFacts, Zenon DEF c
<1>8. a \in Seq(Picture) /\ Len(a) = c /\ c \in Nat
  <2>1. c \in Nat
    BY <1>7, Zenon, 0 \in Nat, 1 \in Nat
  <2>2. CASE c = 0
    <3>1. 1 .. c = {}
      BY <2>2
    <3>2. a \in [1 .. c -> Picture]
      BY <3>1, Zenon
    <3>. HIDE DEF a
    <3>. QED BY <2>1, <3>2, SeqOfFacts, Zenon
  <2>3. CASE c = 1
    <3>1. pipe[Hand] \in Picture
      BY <1>7, <2>3, 0 # 1
    <3>2. a \in [1 .. c -> Picture]
      BY <3>1, Zenon
    <3>. HIDE DEF a
    <3>. QED BY <2>1, <3>2, SeqOfFacts, Zenon
  <2>. QED BY <1>7, <2>2, <2>3
<1>9. /\ pipe' \in Seq(Picture) /\ Len(pipe') = c + Len(r)
      /\ \A i \in 1 .. c + Len(r) : pipe'[i] = IF i <= c THEN a[i] ELSE b[i - c]
  <2>. HIDE DEF a, b
  <2>1. /\ a \o b \in Seq(Picture) /\ Len(a \o b) = Len(a) + Len(b)
        /\ \A i \in 1 .. Len(a) + Len(b) : (a \o b)[i] = IF i <= Len(a) THEN a[i] ELSE b[i - Len(a)]
    BY <1>6, <1>8, ConcatProperties, Zenon
  <2>. QED BY <1>1, <1>6, <1>8, <2>1, Zenon
<1>10. DOMAIN pipe' = 1 .. c + Len(r)
  BY <1>9, SeqFacts, Zenon
<1>11. \A k \in DOMAIN r : b[k] = Fresh(r[k])
  BY Zenon
<1>12. \A i \in 1 .. c : a[i] = pipe[Hand]
  BY Zenon
<1>. HIDE DEF a, b
<1>13. /\ \A i \in DOMAIN pipe' : i \in Int /\ i >= 1
       /\ \A k \in DOMAIN r : k \in Int /\ k >= 1 /\ k + c \in DOMAIN pipe'
       /\ \A i \in DOMAIN pipe' : i > c => i - c \in DOMAIN r /\ pipe'[i] = b[i - c]
       /\ c = 1 => 1 \in DOMAIN pipe' /\ pipe'[1] = a[1] /\ 1 \in 1 .. c
  BY <1>5, <1>8, <1>9, <1>10
<1>14. \A i \in DOMAIN pipe' : i > c =>
         i - c \in DOMAIN r /\ Alike(pipe'[i], r[i - c]) /\ pipe'[i].miss = r[i - c].miss
  BY <1>5, <1>11, <1>13, FreshFacts, Zenon
<1>15. Turned(pipe', r, pipe, Hand, c)
  BY <1>7, <1>12, <1>13, <1>14, Zenon DEF Turned
<1>16. PICK f : Follows(r, pipe, f, S) /\ Inherits(r, g.next, pipe, next, f, S, "host")
  BY <1>4, Zenon DEF Thinned
<1>17. next' \in Beyond /\ next'.miss = g.next.miss
  BY <1>1, <1>4, FreshFacts, Zenon
<1>18. h' \in HostState /\ h'.awaiting = h.awaiting /\ h'.waiting /\ ~h'.queuedKey.now /\ ~h'.wireKey.now
  <2>. DEFINE y == RequestKey(h)
  <2>1. y \in HostState /\ y.awaiting = h.awaiting
    BY InvFacts, Zenon DEF RequestKey, HostState
  <2>. HIDE DEF y
  <2>2. h' = [y EXCEPT !.waiting = TRUE, !.queuedKey = NoKey, !.wireKey = NoKey]
    BY <1>1, Zenon DEF y
  <2>. QED BY <2>1, <2>2, MarkFacts, Zenon DEF HostState
<1>19. s' \in SenderState /\ s'.pc = s.pc /\ (s'.left <=> s.pc # "idle")
  <2>. DEFINE t == (s.pc # "idle")
  <2>1. t \in BOOLEAN
    OBVIOUS
  <2>2. s' = [s EXCEPT !.left = t]
    BY <1>1, Zenon
  <2>. HIDE DEF t
  <2>3. s' \in SenderState /\ s'.pc = s.pc /\ s'.left = t
    BY <2>1, <2>2, InvFacts, Zenon DEF SenderState
  <2>. QED BY <2>3, Zenon DEF t
<1>20. Line(pipe', next', h', s')
  <2>1. h'.awaiting <=> h.awaiting
    BY <1>18
  <2>. HIDE DEF g
  <2>. QED BY <1>3, <1>15, <1>16, <1>17, <1>18, <1>19, <2>1, RolloverLine, InvFacts, Zenon
<1>21. faults' \in 0 .. MaxFaults
  BY <1>1, FaultFacts, InvFacts
<1>. QED BY <1>9, <1>17, <1>18, <1>19, <1>20, <1>21, Zenon DEF LineHolds

-----------------------------------------------------------------------------
(* The sender *)

(* Between Dequeue and the end of a send the sender has its picture in hand. *)
LEMMA HeldInHand ==
  ASSUME Inv, s.pc \in {"dequeued", "starting", "sending"}
  PROVE  /\ Hand \in Int /\ Hand \in DOMAIN pipe /\ pipe[Hand].at = "hand" /\ InHand(pipe[Hand])
         /\ pipe[Hand] \in Picture /\ {Hand} \in SUBSET DOMAIN pipe
<1>1. \E i \in DOMAIN pipe : InHand(pipe[i])
  BY InvFacts, Zenon DEF HandIsHeld
<1>2. /\ Hand \in Int /\ Hand \in DOMAIN pipe /\ InHand(pipe[Hand]) /\ pipe[Hand] \in Picture
  BY <1>1, HandFacts, Zenon
<1>. QED BY <1>2, Zenon DEF InHand

(* The marks without that of a key. *)
QueueCleared(x, id) == [x EXCEPT !.queuedKey = ClearIfSeq(@, id)]
WireCleared(x, id) == [x EXCEPT !.wireKey = ClearIfSeq(@, id)]

(* What ClearIfSeq does to the host's marks. *)
LEMMA ClearedFacts ==
  ASSUME NEW x \in HostState, NEW id
  PROVE  /\ QueueCleared(x, id) \in HostState /\ QueueCleared(x, id).awaiting = x.awaiting
         /\ QueueCleared(x, id).waiting = x.waiting /\ QueueCleared(x, id).wireKey = x.wireKey
         /\ QueueCleared(x, id).queuedKey.now =>
              QueueCleared(x, id).queuedKey = x.queuedKey /\ x.queuedKey.id # id
         /\ WireCleared(x, id) \in HostState /\ WireCleared(x, id).awaiting = x.awaiting
         /\ WireCleared(x, id).waiting = x.waiting /\ WireCleared(x, id).queuedKey = x.queuedKey
         /\ WireCleared(x, id).wireKey.now =>
              WireCleared(x, id).wireKey = x.wireKey /\ x.wireKey.id # id
<1>. DEFINE a == ClearIfSeq(x.queuedKey, id)
            b == ClearIfSeq(x.wireKey, id)
            y == QueueCleared(x, id)
            z == WireCleared(x, id)
<1>1. x.queuedKey \in Mark /\ x.wireKey \in Mark
  BY Zenon DEF HostState
<1>2. /\ a \in Mark /\ (a.now => a = x.queuedKey /\ x.queuedKey.id # id)
      /\ b \in Mark /\ (b.now => b = x.wireKey /\ x.wireKey.id # id)
  BY <1>1, MarkFacts, Zenon
<1>3. y = [x EXCEPT !.queuedKey = a] /\ z = [x EXCEPT !.wireKey = b]
  BY Zenon DEF QueueCleared, WireCleared
<1>. HIDE DEF a, b, y, z
<1>4. y \in HostState /\ y.awaiting = x.awaiting /\ y.waiting = x.waiting /\ y.wireKey = x.wireKey
      /\ y.queuedKey = a
  BY <1>2, <1>3, Zenon DEF HostState
<1>5. z \in HostState /\ z.awaiting = x.awaiting /\ z.waiting = x.waiting
      /\ z.queuedKey = x.queuedKey /\ z.wireKey = b
  BY <1>2, <1>3, Zenon DEF HostState
<1>6. /\ y.queuedKey.now => y.queuedKey = x.queuedKey /\ x.queuedKey.id # id
      /\ z.wireKey.now => z.wireKey = x.wireKey /\ x.wireKey.id # id
  BY <1>2, <1>4, <1>5, Zenon
<1>. QED BY <1>4, <1>5, <1>6 DEF y, z

(* The idle sender. *)
LEMMA IdleFacts == Idle \in SenderState /\ Idle.pc = "idle" /\ ~Idle.left
BY DEF Idle, SenderState

(* Taking one out leaves the rest in order, as they are. *)
LEMMA RemoveAtFacts ==
  ASSUME NEW p \in Seq(Picture), NEW o \in DOMAIN p
  PROVE  LET q == RemoveAt(p, o)
         IN  q \in Seq(Picture) /\ \E f : Follows(q, p, f, {o}) /\ \A k \in DOMAIN q : Same(q[k], p[f[k]])
<1>. DEFINE q == RemoveAt(p, o)
            a == SubSeq(p, 1, o - 1)
            b == SubSeq(p, o + 1, Len(p))
            n == Len(p)
<1>1. n \in Nat /\ DOMAIN p = 1 .. n /\ \A i \in DOMAIN p : p[i] \in Picture
  BY SeqFacts
<1>2. o \in 1 .. n /\ 1 \in Int /\ o - 1 \in Int /\ o + 1 \in Int /\ n \in Int
  BY <1>1
<1>3. a \in Seq(Picture) /\ Len(a) = o - 1 /\ \A i \in 1 .. o - 1 : a[i] = p[i]
  <2>1. \A i \in 1 .. o - 1 : p[i] \in Picture
    BY <1>1, <1>2
  <2>2. /\ a \in Seq(Picture) /\ Len(a) = (IF 1 <= o - 1 THEN (o - 1) - 1 + 1 ELSE 0)
        /\ \A i \in 1 .. (o - 1) - 1 + 1 : a[i] = p[1 + i - 1]
    BY <1>2, <2>1, SubSeqProperties
  <2>. HIDE DEF a
  <2>3. \A i \in 1 .. o - 1 : i \in 1 .. (o - 1) - 1 + 1 /\ 1 + i - 1 = i
    BY <1>2
  <2>. QED BY <1>2, <2>2, <2>3
<1>4. b \in Seq(Picture) /\ Len(b) = n - o /\ \A i \in 1 .. n - o : b[i] = p[o + i]
  <2>1. \A i \in o + 1 .. n : p[i] \in Picture
    BY <1>1, <1>2
  <2>2. /\ b \in Seq(Picture) /\ Len(b) = (IF o + 1 <= n THEN n - (o + 1) + 1 ELSE 0)
        /\ \A i \in 1 .. n - (o + 1) + 1 : b[i] = p[(o + 1) + i - 1]
    BY <1>2, <2>1, SubSeqProperties
  <2>. HIDE DEF b
  <2>3. o \in Int /\ n \in Int /\ o <= n
    BY <1>2
  <2>4. n - (o + 1) + 1 = n - o /\ \A i \in Int : (o + 1) + i - 1 = o + i
    BY <2>3
  <2>5. \A i \in 1 .. n - o : b[i] = p[o + i]
    <3>. TAKE i \in 1 .. n - o
    <3>1. b[i] = p[(o + 1) + i - 1]
      BY <2>2, <2>4, Zenon
    <3>2. i \in Int
      OBVIOUS
    <3>. QED BY <3>1, <3>2, <2>4, Zenon
  <2>6. Len(b) = n - o
    BY <2>2, <2>3
  <2>. QED BY <2>2, <2>5, <2>6
<1>5. q = a \o b
  BY Zenon DEF RemoveAt
<1>. HIDE DEF a, b, q
<1>6. /\ q \in Seq(Picture) /\ Len(q) = Len(a) + Len(b)
      /\ \A i \in 1 .. Len(a) + Len(b) : q[i] = IF i <= Len(a) THEN a[i] ELSE b[i - Len(a)]
  BY <1>3, <1>4, <1>5, ConcatProperties, Zenon
<1>7. DOMAIN q = 1 .. n - 1
  <2>1. DOMAIN q = 1 .. Len(q)
    BY <1>6, SeqFacts, Zenon
  <2>. QED BY <1>2, <1>3, <1>4, <1>6, <2>1
<1>. DEFINE f == [k \in 1 .. n - 1 |-> IF k < o THEN k ELSE k + 1]
<1>8. \A k \in 1 .. n - 1 : f[k] = IF k < o THEN k ELSE k + 1
  OBVIOUS
<1>. HIDE DEF f
<1>9. \A k \in DOMAIN q : q[k] = p[f[k]]
  <2>. SUFFICES ASSUME NEW k \in 1 .. n - 1 PROVE q[k] = p[f[k]]
    BY <1>7
  <2>1. q[k] = IF k <= o - 1 THEN a[k] ELSE b[k - (o - 1)]
    <3>1. Len(a) = o - 1 /\ Len(b) = n - o
      BY <1>3, <1>4, Zenon
    <3>2. k \in 1 .. (o - 1) + (n - o)
      BY <1>2
    <3>. QED BY <1>6, <3>1, <3>2, Zenon
  <2>2. CASE k < o
    BY <1>2, <1>3, <1>8, <2>1, <2>2
  <2>3. CASE ~(k < o)
    <3>1. k - (o - 1) \in 1 .. n - o /\ o + (k - (o - 1)) = k + 1 /\ ~(k <= o - 1)
      BY <1>2, <2>3
    <3>2. q[k] = p[o + (k - (o - 1))]
      BY <1>4, <2>1, <3>1, Zenon
    <3>3. f[k] = k + 1
      BY <1>8, <2>3, Zenon
    <3>. QED BY <3>1, <3>2, <3>3, Zenon
  <2>. QED BY <2>2, <2>3
<1>10. /\ \A k \in DOMAIN q : k \in Int /\ f[k] \in Int /\ f[k] \in DOMAIN p /\ f[k] \notin {o}
       /\ \A i \in DOMAIN p : i \in Int
       /\ \A j, k \in DOMAIN q : j < k => f[j] < f[k]
  BY <1>1, <1>2, <1>7, <1>8
<1>11. \A i \in DOMAIN p : i \notin {o} => \E k \in DOMAIN q : f[k] = i
  <2>. SUFFICES ASSUME NEW i \in 1 .. n, i # o PROVE \E k \in 1 .. n - 1 : f[k] = i
    BY <1>1, <1>7
  <2>1. CASE i < o
    <3>1. i \in 1 .. n - 1 /\ f[i] = i
      BY <1>2, <1>8, <2>1
    <3>. QED BY <3>1
  <2>2. CASE ~(i < o)
    <3>1. i - 1 \in 1 .. n - 1 /\ f[i - 1] = i
      BY <1>2, <1>8, <2>2
    <3>. QED BY <3>1
  <2>. QED BY <2>1, <2>2
<1>12. \A k \in DOMAIN q : Alike(q[k], p[f[k]]) /\ Same(q[k], p[f[k]])
  BY <1>9, Zenon DEF Alike, Same
<1>13. Follows(q, p, f, {o})
  BY <1>10, <1>11, <1>12, Zenon DEF Follows
<1>. QED BY <1>6, <1>12, <1>13 DEF q

(* The sender takes a picture. *)
LEMMA DequeueStep ==
  ASSUME Inv, Dequeue
  PROVE  LineHolds'
<1>. DEFINE o == First("queue")
            r == Moved(pipe[o], "hand")
<1>1. /\ At("queue") # {} /\ s.pc = "idle" /\ pipe' = [pipe EXCEPT ![o].at = "hand"]
      /\ next' = next /\ h' = h /\ s' = [s EXCEPT !.pc = "dequeued"] /\ faults' = faults
  BY DEF Dequeue
<1>2. o \in DOMAIN pipe /\ FirstOf(pipe, o, "queue") /\ pipe[o] \in Picture
  <2>1. o \in DOMAIN pipe /\ FirstOf(pipe, o, "queue")
    BY <1>1, FirstFacts, FirstOfPipe, InvFacts, "queue" \in Places, Zenon DEF Places
  <2>. QED BY <2>1, PipeFacts, InvFacts, Zenon
<1>. HIDE DEF o
<1>3. r \in Picture /\ r.at = "hand" /\ Same(r, pipe[o]) /\ (r.key <=> pipe[o].key) /\ (r.old <=> pipe[o].old)
      /\ r.id = pipe[o].id
  BY <1>2, MovedFacts, "hand" \in Places DEF Places
<1>4. pipe' = [pipe EXCEPT ![o] = r]
  BY <1>1, <1>2, Zenon DEF Moved
<1>. HIDE DEF r
<1>5. pipe' \in Seq(Picture) /\ Put(pipe', pipe, o) /\ pipe'[o] = r
  BY <1>2, <1>3, <1>4, PutFacts, InvFacts
<1>6. s' \in SenderState /\ s'.pc = "dequeued" /\ (s'.left <=> s.left)
  BY <1>1, InvFacts, Zenon DEF SenderState
<1>7. Line(pipe', next, h, s')
  <2>1. /\ pipe'[o].at = "hand" /\ Same(pipe'[o], pipe[o]) /\ (pipe'[o].key <=> pipe[o].key)
        /\ (pipe'[o].old <=> pipe[o].old) /\ pipe'[o].id = pipe[o].id
    BY <1>3, <1>5, Zenon
  <2>. QED BY <1>1, <1>2, <1>5, <1>6, <2>1, DequeueLine, InvFacts, Zenon
<1>. QED BY <1>1, <1>5, <1>6, <1>7, InvFacts, Zenon DEF LineHolds

(* What is in hand is given up. *)
LEMMA HandStep ==
  ASSUME Inv, s.pc \in {"dequeued", "starting", "sending"}, h' \in HostState, s' \in SenderState, ~s'.left,
         s.left => pipe' = RemoveAt(pipe, Hand) /\ next' = next /\ s'.pc = "idle",
         ~s.left => Drop({Hand}, "host", TRUE) /\ (s'.pc = "failed" \/ (s'.pc = "idle" /\ pipe[Hand].old)),
         h'.awaiting = h.awaiting, h'.waiting = h.waiting,
         h'.queuedKey.now => h'.queuedKey = h.queuedKey
                             /\ (s.pc = "dequeued" => ~pipe[Hand].key \/ h.queuedKey.id # pipe[Hand].id),
         h'.wireKey.now => h'.wireKey = h.wireKey
                           /\ (s.pc = "dequeued" \/ ~pipe[Hand].key \/ h.wireKey.id # pipe[Hand].id),
         faults' \in 0 .. MaxFaults
  PROVE  LineHolds'
<1>. DEFINE o == Hand
            S == {o}
<1>1. o \in Int /\ o \in DOMAIN pipe /\ pipe[o].at = "hand" /\ S \in SUBSET DOMAIN pipe
  BY HeldInHand, Zenon
<1>. HIDE DEF o
<1>2. CASE s.left
  <2>1. pipe' = RemoveAt(pipe, o) /\ next' = next /\ s'.pc = "idle"
    BY <1>2, Zenon DEF o
  <2>2. pipe' \in Seq(Picture) /\ \E f : Follows(pipe', pipe, f, {o}) /\ \A k \in DOMAIN pipe' : Same(pipe'[k], pipe[f[k]])
    BY <1>1, <2>1, RemoveAtFacts, InvFacts
  <2>3. PICK f : Follows(pipe', pipe, f, {o}) /\ \A k \in DOMAIN pipe' : Same(pipe'[k], pipe[f[k]])
    BY <2>2, Zenon
  <2>4. Line(pipe', next, h', s')
    BY <1>1, <1>2, <2>1, <2>3, HandRemoved, InvFacts, Zenon DEF o
  <2>. QED BY <2>1, <2>2, <2>4, InvFacts, Zenon DEF LineHolds
<1>3. CASE ~s.left
  <2>1. pipe' \in Seq(Picture) /\ next' \in Beyond /\ Thinned(pipe', next', pipe, next, S, "host")
    <3>1. "host" \in Misses \ {"none"} /\ "host" # "later" /\ TRUE \in BOOLEAN
      BY DEF Misses
    <3>2. Drop(S, "host", TRUE)
      BY <1>3 DEF o
    <3>. HIDE DEF S
    <3>. QED BY <1>1, <3>1, <3>2, InvFacts, DropThins
  <2>2. PICK f : Follows(pipe', pipe, f, S) /\ Inherits(pipe', next', pipe, next, f, S, "host")
    BY <2>1, Zenon DEF Thinned
  <2>3. Line(pipe', next', h', s')
    BY <1>1, <1>3, <2>2, HandLoss, InvFacts, Zenon DEF o
  <2>. QED BY <2>1, <2>3, Zenon DEF LineHolds
<1>. QED BY <1>2, <1>3

(* The fences before the send drop the picture in hand. *)
LEMMA FencedStep ==
  ASSUME Inv, Fenced
  PROVE  LineHolds'
<1>. DEFINE a == pipe[Hand]
            y == QueueCleared(h, a.id)
<1>1. /\ s.pc = "dequeued" /\ (s.left \/ a.old) /\ DropHand /\ s' = Idle /\ faults' = faults
      /\ h' = IF a.key THEN y ELSE h
  BY DEF Fenced, QueueCleared
<1>2. /\ y \in HostState /\ y.awaiting = h.awaiting /\ y.waiting = h.waiting /\ y.wireKey = h.wireKey
      /\ y.queuedKey.now => y.queuedKey = h.queuedKey /\ h.queuedKey.id # a.id
  BY ClearedFacts, InvFacts
<1>. HIDE DEF y
<1>3. /\ h' \in HostState /\ h'.awaiting = h.awaiting /\ h'.waiting = h.waiting /\ h'.wireKey = h.wireKey
      /\ h'.queuedKey.now => h'.queuedKey = h.queuedKey /\ (~a.key \/ h.queuedKey.id # a.id)
  BY <1>1, <1>2, InvFacts, Zenon
<1>4. s' \in SenderState /\ ~s'.left /\ s'.pc = "idle"
  BY <1>1, IdleFacts
<1>5. /\ s.left => pipe' = RemoveAt(pipe, Hand) /\ next' = next
      /\ ~s.left => Drop({Hand}, "host", TRUE)
  BY <1>1, Zenon DEF DropHand
<1>. QED BY <1>1, <1>3, <1>4, <1>5, HandStep, InvFacts

(* After a send the mark of its key is gone, every other one stands. *)
LEMMA SendOverFacts ==
  ASSUME Inv
  PROVE  LET y == SendOver(h)
         IN  /\ y \in HostState /\ y.awaiting = h.awaiting /\ y.waiting = h.waiting /\ y.queuedKey = h.queuedKey
             /\ y.wireKey.now => y.wireKey = h.wireKey /\ (~pipe[Hand].key \/ h.wireKey.id # pipe[Hand].id)
<1>. DEFINE a == pipe[Hand]
            y == WireCleared(h, a.id)
<1>1. /\ y \in HostState /\ y.awaiting = h.awaiting /\ y.waiting = h.waiting /\ y.queuedKey = h.queuedKey
      /\ y.wireKey.now => y.wireKey = h.wireKey /\ h.wireKey.id # a.id
  BY ClearedFacts, InvFacts
<1>2. SendOver(h) = IF a.key THEN y ELSE h
  BY DEF SendOver, WireCleared
<1>. HIDE DEF y
<1>. QED BY <1>1, <1>2, InvFacts, Zenon

(* The epoch changed before the first datagram, or the viewer between two. *)
LEMMA EpochChangedStep ==
  ASSUME Inv, EpochChanged
  PROVE  LineHolds'
<1>1. /\ \/ s.pc = "starting" /\ (s.left \/ pipe[Hand].old)
         \/ s.pc = "sending" /\ s.left
      /\ DropHand /\ s' = Idle /\ faults' = faults /\ h' = SendOver(h)
  BY DEF EpochChanged
<1>2. /\ h' \in HostState /\ h'.awaiting = h.awaiting /\ h'.waiting = h.waiting /\ h'.queuedKey = h.queuedKey
      /\ h'.wireKey.now => h'.wireKey = h.wireKey /\ (~pipe[Hand].key \/ h.wireKey.id # pipe[Hand].id)
  BY <1>1, SendOverFacts
<1>3. s' \in SenderState /\ ~s'.left /\ s'.pc = "idle"
  BY <1>1, IdleFacts
<1>4. /\ s.left => pipe' = RemoveAt(pipe, Hand) /\ next' = next
      /\ ~s.left => Drop({Hand}, "host", TRUE)
  BY <1>1, Zenon DEF DropHand
<1>5. s.pc # "dequeued" /\ s.pc \in {"dequeued", "starting", "sending"} /\ (~s.left => pipe[Hand].old)
  BY <1>1
<1>. QED BY <1>1, <1>2, <1>3, <1>4, <1>5, HandStep, InvFacts, Zenon

(* What is in hand leaves, whole or not. *)
LEMMA OnWireStep ==
  ASSUME Inv, s.pc = "sending", ~s.left, NEW part \in Parts, pipe' = OnWire(part), next' = next,
         h' \in HostState, h'.awaiting = h.awaiting, h'.waiting = h.waiting, h'.queuedKey = h.queuedKey,
         h'.wireKey.now => h'.wireKey = h.wireKey /\ (~pipe[Hand].key \/ h.wireKey.id # pipe[Hand].id),
         s' \in SenderState, s'.pc \in {"idle", "failed"}, ~s'.left, faults' \in 0 .. MaxFaults
  PROVE  LineHolds'
<1>. DEFINE o == Hand
            r == Departed(pipe[o], part)
<1>1. o \in DOMAIN pipe /\ pipe[o].at = "hand" /\ pipe[o] \in Picture
  BY HeldInHand
<1>. HIDE DEF o
<1>2. r \in Picture /\ r.at = "wire" /\ r.id = 0 /\ Same(r, pipe[o]) /\ (r.key <=> pipe[o].key) /\ ~r.old
  BY <1>1, MovedFacts
<1>3. pipe' = [pipe EXCEPT ![o] = r]
  BY <1>1, Zenon DEF OnWire, Departed, o
<1>. HIDE DEF r
<1>. DEFINE q == [pipe EXCEPT ![o] = r]
<1>8. q \in Seq(Picture) /\ Put(q, pipe, o) /\ q[o] = r
  <2>1. pipe \in Seq(Picture)
    BY InvFacts
  <2>. QED BY <1>1, <1>2, <2>1, PutFacts, Zenon
<1>. HIDE DEF q
<1>4. pipe' \in Seq(Picture) /\ Put(pipe', pipe, o) /\ pipe'[o] = r
  BY <1>3, <1>8, Zenon DEF q
<1>5. /\ pipe'[o].at = "wire" /\ Same(pipe'[o], pipe[o]) /\ (pipe'[o].key <=> pipe[o].key) /\ pipe'[o].id = 0
      /\ ~pipe'[o].old
  BY <1>2, <1>4, Zenon
<1>6. /\ (h'.awaiting <=> h.awaiting) /\ (h'.waiting <=> h.waiting) /\ h'.queuedKey = h.queuedKey
      /\ h'.wireKey.now => h'.wireKey = h.wireKey /\ (pipe[o].key => h.wireKey.id # pipe[o].id)
  BY Zenon DEF o
<1>7. Line(pipe', next, h', s')
  BY <1>1, <1>4, <1>5, <1>6, WireLine, InvFacts, Zenon
<1>. QED BY <1>4, <1>7, InvFacts, Zenon DEF LineHolds

(* A picture left whole. *)
LEMMA SentStep ==
  ASSUME Inv, Sent
  PROVE  LineHolds'
<1>1. /\ s.pc = "sending" /\ ~s.left /\ pipe' = OnWire("whole") /\ h' = SendOver(h) /\ s' = Idle
      /\ next' = next /\ faults' = faults /\ "whole" \in Parts
  BY DEF Sent, Parts
<1>2. /\ h' \in HostState /\ h'.awaiting = h.awaiting /\ h'.waiting = h.waiting /\ h'.queuedKey = h.queuedKey
      /\ h'.wireKey.now => h'.wireKey = h.wireKey /\ (~pipe[Hand].key \/ h.wireKey.id # pipe[Hand].id)
  BY <1>1, SendOverFacts
<1>3. s' \in SenderState /\ ~s'.left /\ s'.pc = "idle"
  BY <1>1, IdleFacts
<1>. QED BY <1>1, <1>2, <1>3, OnWireStep, InvFacts

(* A datagram could not be sent: the sender is about to arm the barrier, *)
(* and nothing else is sent before it does.                              *)
LEMMA SendErrorStep ==
  ASSUME Inv, SendError
  PROVE  LineHolds'
<1>1. /\ s.pc = "sending" /\ ~s.left /\ Fault("send") /\ h' = [SendOver(h) EXCEPT !.failed = TRUE]
      /\ s' = [s EXCEPT !.pc = "failed"]
      /\ Drop({Hand}, "host", TRUE) \/ (pipe' = OnWire("fresh") /\ next' = next)
  BY DEF SendError
<1>2. /\ h' \in HostState /\ h'.awaiting = h.awaiting /\ h'.waiting = h.waiting /\ h'.queuedKey = h.queuedKey
      /\ h'.wireKey.now => h'.wireKey = h.wireKey /\ (~pipe[Hand].key \/ h.wireKey.id # pipe[Hand].id)
  <2>. DEFINE y == SendOver(h)
  <2>1. /\ y \in HostState /\ y.awaiting = h.awaiting /\ y.waiting = h.waiting /\ y.queuedKey = h.queuedKey
        /\ y.wireKey.now => y.wireKey = h.wireKey /\ (~pipe[Hand].key \/ h.wireKey.id # pipe[Hand].id)
    BY SendOverFacts
  <2>. HIDE DEF y
  <2>2. h' = [y EXCEPT !.failed = TRUE]
    BY <1>1 DEF y
  <2>3. /\ h' \in HostState /\ h'.awaiting = y.awaiting /\ h'.waiting = y.waiting /\ h'.queuedKey = y.queuedKey
        /\ h'.wireKey = y.wireKey
    BY <2>1, <2>2, Zenon DEF HostState
  <2>. QED BY <2>1, <2>3, Zenon
<1>3. s' \in SenderState /\ ~s'.left /\ s'.pc = "failed"
  BY <1>1, InvFacts, Zenon DEF SenderState
<1>4. faults' \in 0 .. MaxFaults
  BY <1>1, InvFacts, FaultFacts
<1>5. CASE Drop({Hand}, "host", TRUE)
  BY <1>1, <1>2, <1>3, <1>4, <1>5, HandStep
<1>6. CASE pipe' = OnWire("fresh") /\ next' = next
  <2>1. "fresh" \in Parts
    BY DEF Parts
  <2>. QED BY <1>1, <1>2, <1>3, <1>4, <1>6, <2>1, OnWireStep
<1>. QED BY <1>1, <1>5, <1>6

(* The picture in hand passes the fences. *)
LEMMA PassFenceStep ==
  ASSUME Inv, PassFence
  PROVE  LineHolds'
<1>. DEFINE a == pipe[Hand]
            k == [id |-> a.id, now |-> TRUE]
            y == [h EXCEPT !.wireKey = k, !.queuedKey = ClearIfSeq(@, a.id)]
<1>1. /\ s.pc = "dequeued" /\ ~s.left /\ ~a.old /\ s' = [s EXCEPT !.pc = "starting"]
      /\ h' = IF a.key THEN y ELSE h
      /\ pipe' = pipe /\ next' = next /\ faults' = faults
  BY Zenon DEF PassFence
<1>2. Hand \in DOMAIN pipe /\ InHand(a) /\ a \in Picture
  BY <1>1, HeldInHand
<1>3. k \in Mark /\ k.id = a.id
  BY <1>2, SMT DEF Mark, Picture
<1>. HIDE DEF k
<1>4. /\ y \in HostState /\ y.awaiting = h.awaiting /\ y.waiting = h.waiting /\ y.wireKey = k
      /\ y.queuedKey.now => y.queuedKey = h.queuedKey /\ h.queuedKey.id # a.id
  <2>. DEFINE c == ClearIfSeq(h.queuedKey, a.id)
  <2>1. c \in Mark /\ (c.now => c = h.queuedKey /\ h.queuedKey.id # a.id)
    <3>1. h.queuedKey \in Mark
      BY InvFacts, Zenon DEF HostState
    <3>. QED BY <3>1, MarkFacts, Zenon
  <2>2. y = [h EXCEPT !.wireKey = k, !.queuedKey = c]
    BY Zenon
  <2>. HIDE DEF c, y
  <2>3. /\ y \in HostState /\ y.awaiting = h.awaiting /\ y.waiting = h.waiting /\ y.wireKey = k
        /\ y.queuedKey = c
    BY <1>3, <2>1, <2>2, InvFacts, Zenon DEF HostState
  <2>. QED BY <2>1, <2>3, Zenon
<1>. HIDE DEF y
<1>5. /\ h' \in HostState /\ (h'.awaiting <=> h.awaiting) /\ (h'.waiting <=> h.waiting)
      /\ h'.queuedKey.now => h'.queuedKey = h.queuedKey /\ (a.key => h.queuedKey.id # a.id)
      /\ h'.wireKey.now /\ a.key => h'.wireKey.id = a.id
      /\ h'.wireKey.now /\ ~a.key => h'.wireKey = h.wireKey
  BY <1>1, <1>3, <1>4, InvFacts, Zenon
<1>6. s' \in SenderState /\ s'.pc = "starting" /\ ~s'.left
  BY <1>1, InvFacts, Zenon DEF SenderState
<1>7. Line(pipe, next, h', s')
  BY <1>1, <1>2, <1>5, <1>6, PassFenceLine, InvFacts, Zenon
<1>. QED BY <1>1, <1>5, <1>6, <1>7, InvFacts, Zenon DEF LineHolds

(* Its first datagram passes the fence in the send loop. *)
LEMMA FirstDatagramStep ==
  ASSUME Inv, FirstDatagram
  PROVE  LineHolds'
<1>1. /\ s.pc = "starting" /\ ~s.left /\ s' = [s EXCEPT !.pc = "sending"]
      /\ pipe' = pipe /\ next' = next /\ h' = h /\ faults' = faults
  BY DEF FirstDatagram
<1>2. s' \in SenderState /\ s'.pc = "sending" /\ ~s'.left
  BY <1>1, InvFacts, Zenon DEF SenderState
<1>. QED BY <1>1, <1>2, FirstDatagramLine, InvFacts, Zenon DEF LineHolds

(* The sender posts its reason to the loop. *)
LEMMA PostStep ==
  ASSUME Inv, Post
  PROVE  LineHolds'
<1>1. /\ s.pc = "posting" /\ h' = [h EXCEPT !.mail = TRUE] /\ s' = Idle
      /\ pipe' = pipe /\ next' = next /\ faults' = faults
  BY DEF Post
<1>2. h' \in HostState /\ Keeps(h, h')
  BY <1>1, InvFacts, Zenon DEF HostState, Keeps
<1>. QED BY <1>1, <1>2, IdleFacts, IdleLine, InvFacts, Zenon DEF LineHolds

(* After a failed send the queue is dropped and the barrier armed, under *)
(* the sender's mutex, unless the viewer is another by now.              *)
LEMMA RearmStep ==
  ASSUME Inv, Rearm
  PROVE  LineHolds'
<1>1. s.pc = "failed" /\ faults' = faults
  BY DEF Rearm
<1>2. CASE s.left
  <2>1. s' = Idle /\ pipe' = pipe /\ next' = next /\ h' = h
    BY <1>2 DEF Rearm
  <2>2. Keeps(h, h)
    BY Zenon DEF Keeps
  <2>. QED BY <1>1, <1>2, <2>1, <2>2, IdleFacts, IdleLine, InvFacts, Zenon DEF LineHolds
<1>3. CASE ~s.left
  <2>. DEFINE S == At("queue")
  <2>1. /\ Drop(S, "host", TRUE) /\ h' = [h EXCEPT !.queuedKey = NoKey, !.waiting = TRUE]
        /\ s' = [s EXCEPT !.pc = "posting"]
    BY <1>3, Zenon DEF Rearm
  <2>2. \A i \in DOMAIN pipe : i \in Int
    BY InvFacts, PipeFacts
  <2>3. /\ S \in SUBSET DOMAIN pipe
        /\ \A i \in S : InQueue(pipe[i]) \/ InBack(pipe[i])
        /\ \A i \in DOMAIN pipe : InQueue(pipe[i]) => i \in S
    BY Zenon DEF At, InQueue
  <2>4. \A i \in S : \A j \in DOMAIN pipe : InBack(pipe[j]) /\ j < i => j \in S
    BY <2>2, InvFacts, SMT DEF At, InLine, Along, InQueue, InBack, InHand, Away
  <2>5. /\ h' \in HostState /\ h'.awaiting = h.awaiting /\ h'.waiting /\ ~h'.queuedKey.now
           /\ h'.wireKey = h.wireKey
    BY <2>1, MarkFacts, InvFacts, Zenon DEF HostState
  <2>6. s' \in SenderState /\ s'.pc = "posting" /\ s'.left = s.left
    BY <2>1, InvFacts, Zenon DEF SenderState
  <2>7. pipe' \in Seq(Picture) /\ next' \in Beyond /\ Thinned(pipe', next', pipe, next, S, "host")
    <3>1. "host" \in Misses \ {"none"} /\ "host" # "later" /\ TRUE \in BOOLEAN
      BY DEF Misses
    <3>. HIDE DEF S
    <3>. QED BY <2>1, <2>3, <3>1, InvFacts, DropThins, Zenon
  <2>8. PICK f : Follows(pipe', pipe, f, S) /\ Inherits(pipe', next', pipe, next, f, S, "host")
    BY <2>7, Zenon DEF Thinned
  <2>9. (h'.awaiting <=> h.awaiting) /\ (s'.left <=> s.left)
        /\ (s'.pc = s.pc \/ (s.pc = "failed" /\ s'.pc = "posting" /\ ~s.left))
    BY <1>1, <1>3, <2>5, <2>6, Zenon
  <2>. HIDE DEF S
  <2>10. Line(pipe', next', h', s')
    BY <2>3, <2>4, <2>5, <2>8, <2>9, QueueLoss, InvFacts, Zenon
  <2>. QED BY <1>1, <2>5, <2>6, <2>7, <2>10, InvFacts, Zenon DEF LineHolds
<1>. QED BY <1>2, <1>3

-----------------------------------------------------------------------------
(* The network and the viewer *)

(* The network or the viewer drops pictures. *)
LEMMA AwayDrop ==
  ASSUME Inv, NEW S \in SUBSET DOMAIN pipe, \A i \in S : Away(pipe[i]), Drop(S, "later", TRUE),
         h' = h, s' = s, faults' \in 0 .. MaxFaults
  PROVE  LineHolds'
<1>1. pipe' \in Seq(Picture) /\ next' \in Beyond /\ Thinned(pipe', next', pipe, next, S, "later")
  <2>1. "later" \in Misses \ {"none"} /\ TRUE \in BOOLEAN
    BY DEF Misses
  <2>. QED BY <2>1, InvFacts, DropThins, Zenon
<1>2. PICK f : Follows(pipe', pipe, f, S) /\ Inherits(pipe', next', pipe, next, f, S, "later")
  BY <1>1, Zenon DEF Thinned
<1>3. Line(pipe', next', h, s)
  BY <1>2, AwayLoss, InvFacts, Zenon
<1>. QED BY <1>1, <1>3, InvFacts, Zenon DEF LineHolds

(* A picture is lost in the network or the ingress queue. *)
LEMMA LoseStep ==
  ASSUME Inv, Lose
  PROVE  LineHolds'
<1>1. /\ At("wire") # {} /\ Drop({First("wire")}, "later", TRUE) /\ h' = h /\ s' = s
      /\ Fault("lost") \/ Fault("overflow")
  BY Zenon DEF Lose
<1>2. First("wire") \in DOMAIN pipe /\ pipe[First("wire")].at = "wire"
  BY <1>1, FirstFacts, InvFacts, Zenon
<1>3. {First("wire")} \in SUBSET DOMAIN pipe /\ \A i \in {First("wire")} : Away(pipe[i])
  BY <1>2, Zenon DEF Away
<1>4. faults' \in 0 .. MaxFaults
  BY <1>1, FaultFacts, InvFacts
<1>. QED BY <1>1, <1>3, <1>4, AwayDrop

(* The chunks of a held one. *)
Chunked(x, part) == [x EXCEPT !.part = part]

(* Chunks of a held picture come, or are waited for. *)
LEMMA ChunkLine ==
  ASSUME Inv, NEW i \in DOMAIN pipe, NEW part \in Parts, pipe' = [pipe EXCEPT ![i] = Chunked(pipe[i], part)],
         next' = next, h' = h, s' = s, faults' \in 0 .. MaxFaults
  PROVE  LineHolds'
<1>. DEFINE r == Chunked(pipe[i], part)
            f == [k \in DOMAIN pipe |-> k]
<1>1. pipe[i] \in Picture
  BY InvFacts, PipeFacts
<1>2. r \in Picture /\ Alike(r, pipe[i]) /\ Same(r, pipe[i])
  BY <1>1, Zenon DEF Chunked, Picture, Alike, Same
<1>3. pipe' = [pipe EXCEPT ![i] = r]
  OBVIOUS
<1>. DEFINE q == [pipe EXCEPT ![i] = r]
            S == {}
<1>. HIDE DEF r
<1>11. q \in Seq(Picture) /\ DOMAIN q = DOMAIN pipe /\ Put(q, pipe, i) /\ q[i] = r
  <2>1. pipe \in Seq(Picture)
    BY InvFacts
  <2>. QED BY <1>2, <2>1, PutFacts, Zenon
<1>. HIDE DEF q
<1>4. pipe' \in Seq(Picture) /\ DOMAIN pipe' = DOMAIN pipe /\ Put(pipe', pipe, i) /\ pipe'[i] = r
  BY <1>3, <1>11, Zenon DEF q
<1>5. \A k \in DOMAIN pipe' : Alike(pipe'[k], pipe[k]) /\ Same(pipe'[k], pipe[k]) /\ f[k] = k
  BY <1>2, <1>4, Zenon DEF Put, Alike, Same
<1>6. Len(pipe) \in Int /\ \A k \in DOMAIN pipe : k \in Int /\ k <= Len(pipe)
  <2>1. Len(pipe) \in Nat /\ DOMAIN pipe = 1 .. Len(pipe)
    BY PipeFacts, InvFacts
  <2>. QED BY <2>1
<1>. HIDE DEF f
<1>7. Follows(pipe', pipe, f, S)
  BY <1>4, <1>5, <1>6, SMT DEF Follows
<1>8. \A a, b : Same(a, b) => Bears(a, b, FALSE, "later")
  BY DEF Same, Bears
<1>9. Inherits(pipe', next, pipe, next, f, S, "later")
  <2>1. \A l : (l \in S) = FALSE
    OBVIOUS
  <2>2. Same(next, next)
    BY Zenon DEF Same
  <2>. QED BY <1>5, <1>6, <1>8, <2>1, <2>2, Zenon DEF Inherits
<1>10. Line(pipe', next, h, s)
  <2>1. \A k \in S : Away(pipe[k])
    OBVIOUS
  <2>. HIDE DEF S
  <2>. QED BY <1>7, <1>9, <2>1, AwayLoss, InvFacts, Zenon
<1>. QED BY <1>4, <1>10, InvFacts, Zenon DEF LineHolds

(* Time passes for an incomplete picture. *)
LEMMA WaitsStep ==
  ASSUME Inv, Waits
  PROVE  LineHolds'
<1>1. /\ next' = next /\ h' = h /\ s' = s /\ faults' = faults
      /\ \E i \in At("held") :
           pipe' = [pipe EXCEPT ![i].part = IF @ = "fresh" THEN "over" ELSE "spent"]
  BY Zenon DEF Waits
<1>2. PICK i \in At("held") :
        pipe' = [pipe EXCEPT ![i].part = IF @ = "fresh" THEN "over" ELSE "spent"]
  BY <1>1
<1>3. i \in DOMAIN pipe
  BY DEF At
<1>4. \E part \in Parts : pipe' = [pipe EXCEPT ![i] = Chunked(pipe[i], part)]
  <2>. DEFINE part == IF pipe[i].part = "fresh" THEN "over" ELSE "spent"
  <2>1. part \in Parts
    BY DEF Parts
  <2>2. pipe' = [pipe EXCEPT ![i] = Chunked(pipe[i], part)]
    BY <1>2, <1>3, Zenon DEF Chunked
  <2>. QED BY <2>1, <2>2, Zenon
<1>. QED BY <1>1, <1>3, <1>4, ChunkLine, InvFacts, Zenon

(* An incomplete picture is completed. *)
LEMMA CompleteStep ==
  ASSUME Inv, Complete
  PROVE  LineHolds'
<1>1. /\ next' = next /\ h' = h /\ s' = s /\ faults' = faults
      /\ \E i \in At("held") \ Whole : pipe' = [pipe EXCEPT ![i].part = "whole"]
  BY Zenon DEF Complete
<1>2. PICK i \in At("held") \ Whole : pipe' = [pipe EXCEPT ![i].part = "whole"]
  BY <1>1
<1>3. i \in DOMAIN pipe /\ "whole" \in Parts
  BY DEF At, Parts
<1>4. pipe' = [pipe EXCEPT ![i] = Chunked(pipe[i], "whole")]
  BY <1>2, <1>3, Zenon DEF Chunked
<1>. QED BY <1>1, <1>3, <1>4, ChunkLine, InvFacts, Zenon

(* The greatest of a set of numbers that is bounded. *)
LEMMA MaxFacts ==
  ASSUME NEW n \in Nat, NEW S \in SUBSET (1 .. n), S # {}
  PROVE  Max(S) \in S /\ \A y \in S : y <= Max(S)
<1>. DEFINE T == {n - x : x \in S}
<1>1. T \in SUBSET Nat /\ T # {}
  <2>1. \A x \in S : n - x \in Nat
    OBVIOUS
  <2>. QED BY <2>1, Zenon
<1>2. PICK z \in T : \A y \in T : z <= y
  BY <1>1, LeastExists, Zenon
<1>3. PICK x \in S : z = n - x
  BY <1>2
<1>4. \A y \in S : n - y \in T
  OBVIOUS
<1>. HIDE DEF T
<1>5. \A y \in S : x >= y
  <2>. TAKE y \in S
  <2>1. z <= n - y
    BY <1>2, <1>4, Zenon
  <2>. QED BY <1>3, <2>1
<1>6. Max(S) \in S /\ \A y \in S : Max(S) >= y
  BY <1>5, Zenon DEF Max
<1>7. \A a, b \in S : a >= b => b <= a
  OBVIOUS
<1>. QED BY <1>6, <1>7, Zenon

(* What is in front of a held one is held. *)
LEMMA HeldFirst ==
  ASSUME Inv, NEW i \in DOMAIN pipe, pipe[i].at = "held"
  PROVE  \A j \in 1 .. i : j \in DOMAIN pipe /\ pipe[j].at = "held" /\ Away(pipe[j])
<1>1. Len(pipe) \in Nat /\ DOMAIN pipe = 1 .. Len(pipe) /\ \A k \in DOMAIN pipe : pipe[k].at \in Places
  BY InvFacts, PipeFacts, SMT DEF Picture
<1>. TAKE j \in 1 .. i
<1>2. j \in DOMAIN pipe /\ (j < i \/ j = i)
  BY <1>1
<1>3. Along(pipe[j].at) <= 1
  BY <1>2, InvFacts, SMT DEF InLine, Along
<1>. QED BY <1>1, <1>2, <1>3, SMT DEF Along, Places, Away

(* PopDelivery gives up what is in front of the newest complete key, or the *)
(* oldest.                                                                  *)
LEMMA ShedStep ==
  ASSUME Inv, Shed
  PROVE  LineHolds'
<1>. DEFINE S == IF WholeKeys # {} THEN 1 .. Max(WholeKeys) - 1 ELSE {1}
<1>1. /\ Drop(S, "later", TRUE) /\ h' = h /\ s' = s /\ faults' = faults /\ Whole # {}
  BY DEF Shed, CanShed
<1>2. Len(pipe) \in Nat /\ DOMAIN pipe = 1 .. Len(pipe)
  BY InvFacts, PipeFacts
<1>3. S \in SUBSET DOMAIN pipe /\ \A i \in S : Away(pipe[i])
  <2>1. CASE WholeKeys # {}
    <3>1. WholeKeys \in SUBSET (1 .. Len(pipe))
      BY <1>2, Zenon DEF WholeKeys, Whole, At
    <3>. DEFINE m == Max(WholeKeys)
    <3>2. m \in WholeKeys
      BY <1>2, <2>1, <3>1, MaxFacts, Zenon
    <3>3. m \in DOMAIN pipe /\ pipe[m].at = "held"
      BY <3>2, Zenon DEF WholeKeys, Whole, At
    <3>. HIDE DEF m
    <3>4. \A j \in 1 .. m - 1 : j \in 1 .. m
      BY <1>2, <3>3
    <3>5. S = 1 .. m - 1
      BY <2>1 DEF m
    <3>. HIDE DEF S
    <3>. QED BY <3>3, <3>4, <3>5, HeldFirst, Zenon
  <2>2. CASE WholeKeys = {}
    <3>1. PICK i \in DOMAIN pipe : pipe[i].at = "held"
      BY <1>1, Zenon DEF Whole, At
    <3>2. 1 \in 1 .. i
      BY <1>2
    <3>. QED BY <2>2, <3>1, <3>2, HeldFirst, Zenon
  <2>. QED BY <2>1, <2>2
<1>. HIDE DEF S
<1>. QED BY <1>1, <1>3, AwayDrop, InvFacts

(* The first one is taken from the pipe. *)
LEMMA TailFacts ==
  ASSUME NEW p \in Seq(Picture), 1 \in DOMAIN p
  PROVE  LET q == Tail(p)
         IN  q \in Seq(Picture) /\ \E f : Follows(q, p, f, {1}) /\ \A k \in DOMAIN q : Same(q[k], p[f[k]])
<1>. DEFINE q == Tail(p)
            n == Len(p)
            f == [k \in DOMAIN q |-> k + 1]
<1>1. n \in Nat /\ DOMAIN p = 1 .. n /\ p # <<>>
  BY SeqFacts
<1>2. q \in Seq(Picture) /\ Len(q) = n - 1 /\ \A i \in 1 .. Len(q) : q[i] = p[i + 1]
  BY <1>1, HeadTailProperties, Zenon
<1>3. DOMAIN q = 1 .. n - 1
  BY <1>2, SeqFacts, Zenon
<1>4. \A k \in DOMAIN q : f[k] = k + 1 /\ q[k] = p[f[k]]
  BY <1>2, <1>3
<1>. HIDE DEF f, q
<1>5. /\ \A k \in DOMAIN q : k \in Int /\ f[k] \in Int /\ f[k] \in DOMAIN p /\ f[k] \notin {1}
      /\ \A i \in DOMAIN p : i \in Int
      /\ \A j, k \in DOMAIN q : j < k => f[j] < f[k]
  BY <1>1, <1>3, <1>4
<1>6. \A i \in DOMAIN p : i \notin {1} => \E k \in DOMAIN q : f[k] = i
  <2>. SUFFICES ASSUME NEW i \in 1 .. n, i # 1 PROVE \E k \in DOMAIN q : f[k] = i
    BY <1>1
  <2>1. i - 1 \in 1 .. n - 1 /\ (i - 1) + 1 = i
    BY <1>1
  <2>. QED BY <1>3, <1>4, <2>1, Zenon
<1>7. \A k \in DOMAIN q : Alike(q[k], p[f[k]]) /\ Same(q[k], p[f[k]])
  BY <1>4, Zenon DEF Alike, Same
<1>8. Follows(q, p, f, {1})
  BY <1>5, <1>6, <1>7, Zenon DEF Follows
<1>. QED BY <1>2, <1>7, <1>8 DEF q

(* A picture is handed to the frame gate. *)
LEMMA DeliverStep ==
  ASSUME Inv, Deliver
  PROVE  LineHolds'
<1>. DEFINE S == {1}
<1>1. /\ 1 \in DOMAIN pipe /\ pipe[1].at = "held" /\ pipe' = Tail(pipe)
      /\ next' = next /\ h' = h /\ s' = s
  BY DEF Deliver, HeadWhole, Whole, At
<1>2. faults' \in 0 .. MaxFaults
  <2>1. \E f : Fault(f) \/ NoFault
    BY Zenon DEF Deliver
  <2>. QED BY <2>1, FaultFacts, InvFacts
<1>3. pipe' \in Seq(Picture) /\ \E f : Follows(pipe', pipe, f, S) /\ \A k \in DOMAIN pipe' : Same(pipe'[k], pipe[f[k]])
  BY <1>1, TailFacts, InvFacts
<1>4. \A i \in S : Away(pipe[i])
  BY <1>1, Zenon DEF Away
<1>5. Len(pipe) \in Int /\ (\A k \in DOMAIN pipe : k \in Int /\ k <= Len(pipe)) /\ S \in SUBSET DOMAIN pipe
  <2>1. Len(pipe) \in Nat /\ DOMAIN pipe = 1 .. Len(pipe)
    BY PipeFacts, InvFacts
  <2>. QED BY <1>1, <2>1
<1>. HIDE DEF S
<1>6. PICK f : Follows(pipe', pipe, f, S) /\ \A k \in DOMAIN pipe' : Same(pipe'[k], pipe[f[k]])
  BY <1>3, Zenon
<1>7. \A a, b, hit : Same(a, b) => Bears(a, b, hit, "later")
  BY Zenon DEF Same, Bears
<1>8. Inherits(pipe', next, pipe, next, f, S, "later")
  <2>1. Same(next, next)
    BY Zenon DEF Same
  <2>. QED BY <1>5, <1>6, <1>7, <2>1, Zenon DEF Inherits
<1>9. Line(pipe', next, h, s)
  BY <1>4, <1>6, <1>8, AwayLoss, InvFacts, Zenon
<1>. QED BY <1>1, <1>2, <1>3, <1>9, InvFacts, Zenon DEF LineHolds

(* The maintenance gives up a head that is stuck. *)
LEMMA MaintainStep ==
  ASSUME Inv, Maintain
  PROVE  LineHolds'
<1>1. h' = h /\ s' = s /\ faults' = faults
  BY DEF Maintain
<1>2. CASE Stuck
  <2>1. Drop({1}, "later", TRUE)
    BY <1>2, Zenon DEF Maintain
  <2>2. PICK i \in DOMAIN pipe : pipe[i].at = "held"
    BY <1>2, Zenon DEF Stuck, At
  <2>3. 1 \in 1 .. i
    BY InvFacts, PipeFacts
  <2>4. {1} \in SUBSET DOMAIN pipe /\ \A j \in {1} : Away(pipe[j])
    BY <2>2, <2>3, HeldFirst, Zenon
  <2>. QED BY <1>1, <2>1, <2>4, AwayDrop, InvFacts
<1>3. CASE ~Stuck
  <2>1. pipe' = pipe /\ next' = next
    BY <1>3, Zenon DEF Maintain
  <2>. QED BY <1>1, <2>1, InvFacts, Zenon DEF LineHolds
<1>. QED BY <1>2, <1>3

(* A picture that has arrived is held. *)
LEMMA PlaceHeld ==
  ASSUME NEW p \in Seq(Picture), NEW n, NEW o \in DOMAIN p, NEW r \in Picture,
         Line(p, n, h, s), FirstOf(p, o, "wire"),
         r.at = "held", Same(r, p[o]), r.key <=> p[o].key, r.old <=> p[o].old, r.id = p[o].id
  PROVE  [p EXCEPT ![o] = r] \in Seq(Picture) /\ Line([p EXCEPT ![o] = r], n, h, s)
<1>. DEFINE q == [p EXCEPT ![o] = r]
<1>1. q \in Seq(Picture) /\ Put(q, p, o) /\ q[o] = r
  BY PutFacts, Zenon
<1>. HIDE DEF q
<1>2. Line(q, n, h, s)
  BY <1>1, HeldLine, Zenon
<1>. QED BY <1>1, <1>2 DEF q

(* When the first one goes, the others move up by one. *)
LEMMA FirstGoes ==
  ASSUME NEW p \in Seq(Picture), NEW q \in Seq(Picture), NEW f, Thins(q, p, {1}, f)
  PROVE  /\ \A k \in DOMAIN q : f[k] = k + 1 /\ f[k] \in DOMAIN p
         /\ \A i \in DOMAIN p : i # 1 => i - 1 \in DOMAIN q
<1>1. Len(p) \in Nat /\ DOMAIN p = 1 .. Len(p) /\ Len(q) \in Nat /\ DOMAIN q = 1 .. Len(q)
  BY SeqFacts
<1>2. /\ \A k \in DOMAIN q : f[k] \in DOMAIN p /\ f[k] # 1 /\ Rank(DOMAIN p \ {1}, f[k]) = k
      /\ \A i \in DOMAIN p : i # 1 => \E k \in DOMAIN q : f[k] = i
  BY Zenon DEF Thins
<1>3. \A i \in DOMAIN p : i # 1 => Rank(DOMAIN p \ {1}, i) = i - 1
  <2>. SUFFICES ASSUME NEW i \in DOMAIN p, i # 1 PROVE Rank(DOMAIN p \ {1}, i) = i - 1
    OBVIOUS
  <2>1. {j \in DOMAIN p \ {1} : j <= i} = 2 .. i
    BY <1>1
  <2>2. i \in Int /\ i >= 2
    BY <1>1
  <2>3. Cardinality(2 .. i) = i - 1
    BY <2>2, FS_Interval
  <2>. QED BY <2>1, <2>3, Zenon DEF Rank
<1>4. \A k \in DOMAIN q : f[k] = k + 1 /\ f[k] \in DOMAIN p
  <2>. TAKE k \in DOMAIN q
  <2>1. f[k] \in DOMAIN p /\ f[k] - 1 = k
    BY <1>2, <1>3
  <2>. QED BY <1>1, <2>1
<1>5. ASSUME NEW i \in DOMAIN p, i # 1 PROVE i - 1 \in DOMAIN q
  <2>1. PICK k \in DOMAIN q : f[k] = i
    BY <1>2, <1>5
  <2>. QED BY <1>1, <1>4, <2>1
<1>. QED BY <1>4, <1>5

(* With no room left the assembler evicts the first it holds: what arrives *)
(* is still the first of the wire, one place further in front.             *)
LEMMA Evicted ==
  ASSUME Inv, NEW i \in DOMAIN pipe, FirstOf(pipe, i, "wire"), NEW evicts \in BOOLEAN,
         evicts => 1 \in DOMAIN pipe /\ pipe[1].at = "held"
  PROVE  LET g == Gone(pipe, next, IF evicts THEN {1} ELSE {}, "later", TRUE)
             j == IF evicts THEN i - 1 ELSE i
         IN  /\ g.pipe \in Seq(Picture) /\ g.next \in Beyond /\ Line(g.pipe, g.next, h, s)
             /\ j \in DOMAIN g.pipe /\ FirstOf(g.pipe, j, "wire")
<1>. DEFINE S == IF evicts THEN {1} ELSE {}
            j == IF evicts THEN i - 1 ELSE i
            g == Gone(pipe, next, S, "later", TRUE)
            q == g.pipe
            m == g.next
<1>1. CASE ~evicts
  <2>1. S = {} /\ j = i
    BY <1>1
  <2>2. g = [pipe |-> pipe, next |-> next]
    BY <2>1, Zenon DEF Gone
  <2>3. q = pipe /\ m = next
    <3>. HIDE DEF g
    <3>. QED BY <2>2
  <2>. HIDE DEF S, j, g
  <2>4. q \in Seq(Picture) /\ m \in Beyond /\ Line(q, m, h, s) /\ j \in DOMAIN q /\ FirstOf(q, j, "wire")
    BY <2>1, <2>3, InvFacts, Zenon
  <2>. QED BY <2>4 DEF g, S, j
<1>2. CASE evicts
  <2>1. 1 \in DOMAIN pipe /\ pipe[1].at = "held" /\ j = i - 1 /\ S = {1}
    BY <1>2
  <2>2. \A k \in DOMAIN pipe : k \in Int
    BY InvFacts, PipeFacts
  <2>3. /\ q \in Seq(Picture) /\ m \in Beyond
        /\ \E f : Follows(q, pipe, f, {1}) /\ Inherits(q, m, pipe, next, f, {1}, "later") /\ Thins(q, pipe, {1}, f)
    <3>1. S \in SUBSET DOMAIN pipe
      BY <2>1
    <3>2. "later" \in Misses \ {"none"} /\ TRUE \in BOOLEAN
      BY DEF Misses
    <3>. HIDE DEF S
    <3>. QED BY <2>1, <3>1, <3>2, InvFacts, GoneParts
  <2>. HIDE DEF q, m, j, S, g
  <2>4. PICK f : Follows(q, pipe, f, {1}) /\ Inherits(q, m, pipe, next, f, {1}, "later")
        /\ Thins(q, pipe, {1}, f)
    BY <2>3, Zenon
  <2>5. Line(q, m, h, s)
    <3>. DEFINE T == {1}
    <3>1. \A k \in T : Away(pipe[k])
      BY <2>1, Zenon DEF Away
    <3>2. Follows(q, pipe, f, T) /\ Inherits(q, m, pipe, next, f, T, "later")
      BY <2>4
    <3>. HIDE DEF T
    <3>. QED BY <3>1, <3>2, InvFacts, AwayLoss, Zenon
  <2>6. /\ \A k \in DOMAIN q : f[k] = k + 1 /\ f[k] \in DOMAIN pipe
        /\ \A k \in DOMAIN pipe : k # 1 => k - 1 \in DOMAIN q
    BY <2>3, <2>4, InvFacts, FirstGoes
  <2>7. i # 1
    BY <2>1 DEF FirstOf
  <2>8. j \in DOMAIN q /\ j + 1 = i
    BY <2>1, <2>2, <2>6, <2>7
  <2>9. \A k \in DOMAIN q : q[k].at = pipe[f[k]].at /\ k \in Int
    BY <2>4, Zenon DEF Follows, Alike
  <2>10. \A k \in DOMAIN pipe : Along("wire") <= Along(pipe[k].at) => i <= k
    BY Zenon DEF FirstOf
  <2>11. FirstOf(q, j, "wire")
    <3>1. q[j].at = "wire"
      BY <2>6, <2>8, <2>9 DEF FirstOf
    <3>2. ASSUME NEW k \in DOMAIN q, Along("wire") <= Along(q[k].at) PROVE j <= k
      <4>1. i <= k + 1
        BY <2>6, <2>9, <2>10, <3>2, Zenon
      <4>. QED BY <2>2, <2>8, <2>9, <4>1
    <3>. QED BY <3>1, <3>2, Zenon DEF FirstOf
  <2>. QED BY <2>3, <2>5, <2>8, <2>11 DEF q, m, j, S, g
<1>. QED BY <1>1, <1>2

(* A picture begins to arrive. *)
LEMMA ArriveStep ==
  ASSUME Inv, Arrive
  PROVE  LineHolds'
<1>. DEFINE i == First("wire")
            evicts == Cardinality(At("held")) >= HeldMax
            g == Gone(pipe, next, IF evicts THEN {1} ELSE {}, "later", TRUE)
            j == IF evicts THEN i - 1 ELSE i
            p == g.pipe
            a == Moved(p[j], "held")
            b == Chunked(a, "fresh")
<1>1. /\ At("wire") # {} /\ h' = h /\ s' = s /\ next' = g.next
      /\ \/ pipe' = [p EXCEPT ![j].at = "held"] /\ NoFault
         \/ pipe' = [[p EXCEPT ![j].at = "held"] EXCEPT ![j].part = "fresh"] /\ Fault("part")
  BY Zenon DEF Arrive
<1>2. i \in DOMAIN pipe /\ FirstOf(pipe, i, "wire")
  BY <1>1, FirstFacts, FirstOfPipe, InvFacts, "wire" \in Places, Zenon DEF Places
<1>3. evicts \in BOOLEAN
  OBVIOUS
<1>4. evicts => 1 \in DOMAIN pipe /\ pipe[1].at = "held"
  <2>. SUFFICES ASSUME evicts PROVE 1 \in DOMAIN pipe /\ pipe[1].at = "held"
    OBVIOUS
  <2>1. At("held") # {}
    <3>1. Cardinality({}) = 0
      BY FS_EmptySet
    <3>2. ~(0 >= HeldMax)
      BY StreamConstants
    <3>. QED BY <3>1, <3>2
  <2>2. PICK k \in DOMAIN pipe : pipe[k].at = "held"
    BY <2>1, Zenon DEF At
  <2>3. 1 \in 1 .. k
    BY InvFacts, PipeFacts
  <2>. QED BY <2>2, <2>3, HeldFirst, Zenon
<1>. HIDE DEF i, evicts
<1>5. /\ p \in Seq(Picture) /\ g.next \in Beyond /\ Line(p, g.next, h, s)
      /\ j \in DOMAIN p /\ FirstOf(p, j, "wire")
  BY <1>2, <1>3, <1>4, Evicted
<1>. HIDE DEF g, j, p
<1>6. p[j] \in Picture
  BY <1>5, SeqFacts
<1>7. a \in Picture /\ a.at = "held" /\ Same(a, p[j]) /\ (a.key <=> p[j].key)
      /\ (a.old <=> p[j].old) /\ a.id = p[j].id
  BY <1>6, MovedFacts, "held" \in Places DEF Places
<1>8. b \in Picture /\ b.at = "held" /\ Same(b, p[j]) /\ (b.key <=> p[j].key)
      /\ (b.old <=> p[j].old) /\ b.id = p[j].id
  <2>1. "fresh" \in Parts
    BY DEF Parts
  <2>. HIDE DEF a
  <2>2. b \in Picture /\ b.at = a.at /\ Same(b, a) /\ (b.key <=> a.key) /\ (b.old <=> a.old) /\ b.id = a.id
    BY <1>7, <2>1, Zenon DEF Chunked, Picture, Same
  <2>. HIDE DEF b
  <2>. QED BY <1>7, <2>2, Zenon DEF Same
<1>9. CASE pipe' = [p EXCEPT ![j].at = "held"] /\ NoFault
  <2>1. pipe' = [p EXCEPT ![j] = a]
    BY <1>9, Zenon DEF Moved
  <2>2. faults' \in 0 .. MaxFaults
    BY <1>9, FaultFacts, InvFacts
  <2>. HIDE DEF a
  <2>3. pipe' \in Seq(Picture) /\ Line(pipe', g.next, h, s)
    BY <1>5, <1>7, <2>1, PlaceHeld
  <2>. QED BY <1>1, <1>5, <2>2, <2>3, InvFacts, Zenon DEF LineHolds
<1>10. CASE pipe' = [[p EXCEPT ![j].at = "held"] EXCEPT ![j].part = "fresh"] /\ Fault("part")
  <2>1. pipe' = [p EXCEPT ![j] = b]
    <3>. DEFINE q == [p EXCEPT ![j] = a]
    <3>1. q = [p EXCEPT ![j].at = "held"] /\ DOMAIN q = DOMAIN p /\ q[j] = a
      BY <1>5, Zenon DEF Moved
    <3>2. pipe' = [q EXCEPT ![j] = b]
      <4>. HIDE DEF q, a
      <4>. QED BY <1>10, <3>1, Zenon DEF Chunked
    <3>3. [q EXCEPT ![j] = b] = [p EXCEPT ![j] = b]
      <4>. HIDE DEF a, b
      <4>. QED BY Zenon
    <3>. QED BY <3>2, <3>3
  <2>2. faults' \in 0 .. MaxFaults
    BY <1>10, FaultFacts, InvFacts
  <2>. HIDE DEF b
  <2>3. pipe' \in Seq(Picture) /\ Line(pipe', g.next, h, s)
    BY <1>5, <1>8, <2>1, PlaceHeld
  <2>. QED BY <1>1, <1>5, <2>2, <2>3, InvFacts, Zenon DEF LineHolds
<1>. QED BY <1>1, <1>9, <1>10

-----------------------------------------------------------------------------
(* The gate *)

(* The gate is open only for a decoder that is in step, or when a gap was *)
(* passed over.                                                           *)
Truth(x) ==
  /\ ~x.wait /\ ~x.cong => x.dec = "synced" \/ x.repeated
  /\ x.dec = "broken" => x.repeated
Sound(x) == x \in ViewerState /\ Truth(x)
GateHolds == Sound(v)

(* The invariant in the same two halves, with the gate as a state of the *)
(* viewer.                                                               *)
LEMMA GateParts ==
  Inv <=> LineHolds /\ GateHolds
BY InvParts, Zenon DEF GateHolds, Sound, Truth, GateIsTrue, OnlyARepeatedGapShows

(* Asking for a key changes nothing at the gate. *)
LEMMA AskedFacts ==
  ASSUME NEW x, Sound(x), NEW b \in BOOLEAN
  PROVE  /\ Sound([x EXCEPT !.asked = b])
         /\ ([x EXCEPT !.asked = b].wait <=> x.wait) /\ ([x EXCEPT !.asked = b].cong <=> x.cong)
BY Zenon DEF Sound, Truth, ViewerState

(* Nor does the next stage of a pass. *)
LEMMA StageFacts ==
  ASSUME NEW x, Sound(x), NEW b \in {"first", "pop", "pushed", "forced"}
  PROVE  Sound([x EXCEPT !.stage = b])
BY Zenon DEF Sound, Truth, ViewerState

(* Recover closes the gate, and the decoder starts anew. *)
LEMMA RecoverFacts ==
  ASSUME NEW x \in ViewerState
  PROVE  Sound(Recover(x)) /\ Recover(x).wait /\ (Recover(x).cong <=> x.cong) /\ Recover(x).dec = "lost"
<1>1. /\ Recover(x) \in ViewerState /\ Recover(x).wait /\ (Recover(x).cong <=> x.cong)
      /\ Recover(x).dec = "lost"
  BY Zenon DEF Recover, ViewerState
<1>2. Truth(Recover(x))
  BY <1>1 DEF Truth
<1>. QED BY <1>1, <1>2, Zenon DEF Sound

(* After handle_udp_discontinuity the gate is closed, or it was passed over *)
(* in this pass.                                                            *)
LEMMA HandleFacts ==
  ASSUME NEW x, Sound(x)
  PROVE  Sound(HandleDiscontinuity(x)) /\ (HandleDiscontinuity(x).wait \/ HandleDiscontinuity(x).repeated)
<1>. DEFINE b == x.repeated \/ ~x.wait
            y == [x EXCEPT !.repeated = b]
            z == [x EXCEPT !.handled = TRUE]
<1>0. x \in ViewerState /\ Truth(x) /\ b \in BOOLEAN
  BY Zenon DEF Sound, ViewerState
<1>1. CASE x.handled
  <2>1. HandleDiscontinuity(x) = y
    BY <1>1, Zenon DEF HandleDiscontinuity
  <2>2. (x.repeated => b) /\ (b \/ x.wait)
    BY Zenon
  <2>. HIDE DEF b
  <2>3. Sound(y) /\ (y.wait \/ y.repeated)
    BY <1>0, <2>2, Zenon DEF Sound, Truth, ViewerState
  <2>. QED BY <2>1, <2>3, Zenon
<1>2. z \in ViewerState /\ (z.wait <=> x.wait) /\ (z.cong <=> x.cong) /\ z.dec = x.dec
      /\ (z.repeated <=> x.repeated)
  BY <1>0, Zenon DEF ViewerState
<1>. HIDE DEF z
<1>3. CASE ~x.handled /\ x.wait
  <2>1. HandleDiscontinuity(x) = z
    BY <1>3, Zenon DEF HandleDiscontinuity, z
  <2>. QED BY <1>0, <1>2, <1>3, <2>1, Zenon DEF Sound, Truth
<1>4. CASE ~x.handled /\ ~x.wait
  <2>1. HandleDiscontinuity(x) = Recover(z)
    BY <1>4, Zenon DEF HandleDiscontinuity, z
  <2>. QED BY <1>2, <2>1, RecoverFacts, Zenon
<1>. QED BY <1>1, <1>3, <1>4, Zenon

(* A pass that begins with an overflow handles it. *)
LEMMA BeginPassFacts ==
  ASSUME NEW x, Sound(x), NEW y \in BeginPass(x)
  PROVE  Sound(y)
<1>. DEFINE c == [x EXCEPT !.handled = FALSE, !.overflow = FALSE]
            z == IF x.overflow THEN HandleDiscontinuity(c) ELSE c
<1>1. \E stage \in {"first", "pop"} : y = [z EXCEPT !.stage = stage]
  BY Zenon DEF BeginPass
<1>2. Sound(c)
  BY Zenon DEF Sound, Truth, ViewerState
<1>. HIDE DEF c
<1>3. Sound(z)
  BY <1>2, HandleFacts, Zenon
<1>. HIDE DEF z
<1>4. \A stage \in {"first", "pop"} : Sound([z EXCEPT !.stage = stage])
  BY <1>3, StageFacts
<1>. QED BY <1>1, <1>4, Zenon

(* A gap in front of a picture that is no key closes the gate, or was *)
(* passed over.                                                       *)
LEMMA NoteGapFacts ==
  ASSUME NEW x, Sound(x), NEW a
  PROVE  LET y == NoteSequenceGap(x, a) IN Sound(y) /\ (a.gap /\ ~a.key => y.wait \/ y.repeated)
<1>1. CASE ~a.gap
  BY <1>1, Zenon DEF NoteSequenceGap
<1>2. CASE a.gap /\ a.key
  <2>1. NoteSequenceGap(x, a) = [x EXCEPT !.wait = TRUE]
    BY <1>2, Zenon DEF NoteSequenceGap
  <2>2. Sound([x EXCEPT !.wait = TRUE])
    BY Zenon DEF Sound, Truth, ViewerState
  <2>. QED BY <1>2, <2>1, <2>2, Zenon
<1>3. CASE a.gap /\ ~a.key
  <2>1. NoteSequenceGap(x, a) = HandleDiscontinuity(x)
    BY <1>3, Zenon DEF NoteSequenceGap
  <2>. QED BY <2>1, HandleFacts, Zenon
<1>. QED BY <1>1, <1>2, <1>3, Zenon

(* A decoder that is not fed is no worse for it behind a closed gate. *)
LEMMA SkippedFacts ==
  ASSUME NEW x, Sound(x), x.wait \/ x.cong
  PROVE  Sound(Skipped(x))
<1>. DEFINE d == IF x.dec = "broken" THEN x.dec ELSE "lost"
<1>1. x \in ViewerState /\ Truth(x)
  BY Zenon DEF Sound
<1>2. Skipped(x) = [x EXCEPT !.dec = d]
  BY Zenon DEF Skipped
<1>3. d \in {"synced", "lost", "broken"} /\ (d = "broken" => x.dec = "broken")
  OBVIOUS
<1>. HIDE DEF d
<1>4. Sound([x EXCEPT !.dec = d])
  BY <1>1, <1>3, Zenon DEF Sound, Truth, ViewerState
<1>. QED BY <1>2, <1>4, Zenon

(* Refusing a picture is safe: the gate is closed. *)
LEMMA RefusedFacts ==
  ASSUME NEW x, Sound(x), x.wait \/ x.cong, NEW y \in Refused(x)
  PROVE  Sound(y)
<1>. DEFINE z == Skipped(x)
<1>1. \E b \in {x.asked, x.asked \/ (x.wait /\ ~x.cong)} : y = [z EXCEPT !.asked = b]
  BY Zenon DEF Refused
<1>2. \A b \in {x.asked, x.asked \/ (x.wait /\ ~x.cong)} : b \in BOOLEAN
  BY Zenon DEF Sound, ViewerState
<1>3. Sound(z)
  BY SkippedFacts
<1>. HIDE DEF z
<1>4. PICK b \in {x.asked, x.asked \/ (x.wait /\ ~x.cong)} : y = [z EXCEPT !.asked = b]
  BY <1>1
<1>5. b \in BOOLEAN
  BY <1>2
<1>. QED BY <1>3, <1>4, <1>5, AskedFacts

(* What is admitted ends the congestion and leaves the rest. *)
LEMMA AdmittedFacts ==
  ASSUME NEW x, Sound(x), NEW a, ~Refuses(x, a)
  PROVE  /\ Admitted(x) \in ViewerState /\ (Admitted(x).wait <=> x.wait) /\ ~Admitted(x).cong
         /\ Admitted(x).dec = x.dec /\ (Admitted(x).repeated <=> x.repeated)
BY Zenon DEF Sound, ViewerState, Admitted

(* What is decoded: a key, or one that misses nothing the gate does not know of. *)
LEMMA DecodedFacts ==
  ASSUME NEW x \in ViewerState, NEW a,
         a.key \/ x.dec = "synced" \/ x.repeated,
         a.key \/ a.miss \in {"none", "batch"} \/ x.repeated
  PROVE  Sound(Decoded(x, a))
<1>1. CASE a.key
  <2>1. Decoded(x, a) = [x EXCEPT !.wait = FALSE, !.dec = "synced", !.repeated = FALSE]
    BY <1>1, Zenon DEF Decoded
  <2>2. Sound([x EXCEPT !.wait = FALSE, !.dec = "synced", !.repeated = FALSE])
    BY Zenon DEF Sound, Truth, ViewerState
  <2>. QED BY <2>1, <2>2, Zenon
<1>2. CASE ~a.key
  <2>. DEFINE d == IF x.dec = "synced" /\ a.miss \in {"none", "batch"} THEN x.dec ELSE "broken"
  <2>1. Decoded(x, a) = [x EXCEPT !.wait = FALSE, !.dec = d]
    BY <1>2, Zenon DEF Decoded
  <2>2. d \in {"synced", "lost", "broken"} /\ (d = "synced" \/ x.repeated)
    <3>1. x.repeated \in BOOLEAN
      BY DEF ViewerState
    <3>. QED BY <1>2, <3>1
  <2>. HIDE DEF d
  <2>3. d = "broken" => x.repeated
    BY <2>2
  <2>4. Sound([x EXCEPT !.wait = FALSE, !.dec = d])
    BY <2>2, <2>3, Zenon DEF Sound, Truth, ViewerState
  <2>. QED BY <2>1, <2>4, Zenon
<1>. QED BY <1>1, <1>2, Zenon

(* The frame gate lets through only keys and what misses nothing, or *)
(* nothing that shows.                                               *)
LEMMA GatedFacts ==
  ASSUME NEW x, Sound(x), NEW a, NEW y \in Gated(x, a),
         a.key \/ a.miss \in {"none", "batch"} \/ x.wait \/ x.repeated
  PROVE  Sound(y)
<1>1. CASE Refuses(x, a)
  <2>1. y \in Refused(x) /\ (x.wait \/ x.cong)
    BY <1>1, Zenon DEF Gated, Refuses
  <2>. QED BY <2>1, RefusedFacts
<1>2. CASE ~Refuses(x, a)
  <2>1. y = Decoded(Admitted(x), a)
    BY <1>2 DEF Gated
  <2>2. a.key \/ (~x.wait /\ ~x.cong)
    BY <1>2, Zenon DEF Refuses
  <2>3. /\ a.key \/ x.dec = "synced" \/ x.repeated
        /\ a.key \/ a.miss \in {"none", "batch"} \/ x.repeated
    BY <2>2, Zenon DEF Sound, Truth
  <2>4. /\ Admitted(x) \in ViewerState /\ Admitted(x).dec = x.dec /\ (Admitted(x).repeated <=> x.repeated)
    BY <1>2, AdmittedFacts
  <2>. QED BY <2>1, <2>3, <2>4, DecodedFacts, Zenon
<1>. QED BY <1>1, <1>2

(* Congestion closes the gate. *)
LEMMA CongestedFacts ==
  ASSUME NEW x \in ViewerState
  PROVE  Sound(Congested(x)) /\ Congested(x).wait
<1>. DEFINE z == Recover(x)
<1>1. z \in ViewerState /\ z.wait /\ z.dec = "lost"
  BY RecoverFacts DEF Sound
<1>2. Congested(x) = [z EXCEPT !.cong = TRUE]
  BY DEF Congested
<1>. HIDE DEF z
<1>3. Sound([z EXCEPT !.cong = TRUE]) /\ [z EXCEPT !.cong = TRUE].wait
  BY <1>1, Zenon DEF Sound, Truth, ViewerState
<1>. QED BY <1>2, <1>3, Zenon

(* A picture passes the gate or not: no picture the viewer holds misses one *)
(* the host dropped, and one that misses a later loss shows its gap, so the *)
(* gate is closed before it or was passed over.                             *)
LEMMA DeliverGate ==
  ASSUME Inv, Deliver
  PROVE  GateHolds'
<1>. DEFINE a == pipe[1]
            x == NoteSequenceGap(v, a)
<1>1. \/ v' \in Gated(x, a) \/ v' = Stale(x) \/ v' \in Lagging(x, a)
      \/ ~Refuses(x, a) /\ v' = Congested(Admitted(x))
  BY Zenon DEF Deliver
<1>2. 1 \in DOMAIN pipe /\ Away(a) /\ ~InBack(a) /\ ~InHand(a) /\ a.miss \in Misses
  <2>1. 1 \in DOMAIN pipe /\ a.at = "held"
    BY DEF Deliver, HeadWhole, Whole, At
  <2>2. a \in Picture
    BY <2>1, InvFacts, PipeFacts, Zenon
  <2>. QED BY <2>1, <2>2, SMT DEF Away, InBack, InHand, Picture
<1>3. a.key \/ a.miss # "host"
  BY <1>2, InvFacts, Zenon DEF HostMisses
<1>4. a.miss = "later" /\ ~a.key => a.gap
  BY <1>2, InvFacts, Zenon DEF LossShows
<1>5. Sound(x) /\ (a.gap /\ ~a.key => x.wait \/ x.repeated)
  <2>1. Sound(v)
    BY GateParts, Zenon DEF GateHolds
  <2>. QED BY <2>1, NoteGapFacts
<1>. HIDE DEF x, a
<1>6. a.key \/ a.miss \in {"none", "batch"} \/ x.wait \/ x.repeated
  <2>1. a.miss \in {"none", "batch"} \/ a.miss = "host" \/ a.miss = "later"
    BY <1>2 DEF Misses
  <2>. QED BY <1>3, <1>4, <1>5, <2>1, Zenon
<1>7. x \in ViewerState
  BY <1>5 DEF Sound
<1>8. CASE v' \in Gated(x, a)
  <2>1. Sound(v')
    BY <1>5, <1>6, <1>8, GatedFacts
  <2>. QED BY <2>1, Zenon DEF GateHolds
<1>9. CASE v' = Stale(x)
  <2>1. Sound(v')
    BY <1>5, <1>7, <1>9, SkippedFacts, RecoverFacts, Zenon DEF Stale
  <2>. QED BY <2>1, Zenon DEF GateHolds
<1>10. CASE v' \in Lagging(x, a)
  <2>. DEFINE c == Congested(x)
  <2>1. Sound(c) /\ c.wait
    BY <1>7, CongestedFacts
  <2>2. v' \in Gated(c, a) \/ (a.key /\ v' = Decoded(c, a))
    BY <1>10 DEF Lagging
  <2>. HIDE DEF c
  <2>3. Sound(v')
    BY <2>1, <2>2, GatedFacts, DecodedFacts, Zenon DEF Sound
  <2>. QED BY <2>3, Zenon DEF GateHolds
<1>11. CASE ~Refuses(x, a) /\ v' = Congested(Admitted(x))
  <2>1. Sound(v')
    BY <1>5, <1>11, AdmittedFacts, CongestedFacts, Zenon
  <2>. QED BY <2>1, Zenon DEF GateHolds
<1>. QED BY <1>1, <1>8, <1>9, <1>10, <1>11, Zenon

(* What the maintenance gives up closes the gate. *)
LEMMA MaintainGate ==
  ASSUME Inv, Maintain
  PROVE  GateHolds'
<1>. DEFINE z == IF Stuck THEN HandleDiscontinuity(v) ELSE v
<1>1. PICK x \in Ticked(z) : IF v.stage = "first" THEN v' = [x EXCEPT !.stage = "pop"] ELSE v' \in BeginPass(x)
  BY Zenon DEF Maintain
<1>2. Sound(v)
  BY GateParts, Zenon DEF GateHolds
<1>3. Sound(z)
  BY <1>2, HandleFacts, Zenon
<1>. HIDE DEF z
<1>4. PICK b \in {z.asked, z.asked \/ z.wait \/ z.cong} : x = [z EXCEPT !.asked = b]
  BY Zenon DEF Ticked
<1>5. b \in BOOLEAN
  BY <1>3, <1>4, Zenon DEF Sound, ViewerState
<1>6. Sound(x)
  BY <1>3, <1>4, <1>5, AskedFacts
<1>7. CASE v.stage = "first"
  <2>1. v' = [x EXCEPT !.stage = "pop"]
    BY <1>1, <1>7
  <2>2. Sound(v')
    BY <1>6, <2>1, StageFacts
  <2>. QED BY <2>2, Zenon DEF GateHolds
<1>8. CASE v.stage # "first"
  <2>1. v' \in BeginPass(x)
    BY <1>1, <1>8
  <2>2. Sound(v')
    BY <1>6, <2>1, BeginPassFacts
  <2>. QED BY <2>2, Zenon DEF GateHolds
<1>. QED BY <1>7, <1>8

(* A pass ends. *)
LEMMA EndPassGate ==
  ASSUME Inv, EndPass
  PROVE  GateHolds'
<1>1. v' \in BeginPass(v) /\ Sound(v)
  BY GateParts, Zenon DEF EndPass, GateHolds
<1>2. Sound(v')
  BY <1>1, BeginPassFacts
<1>. QED BY <1>2, Zenon DEF GateHolds

(* The next stage of a pass. *)
LEMMA NextStageGate ==
  ASSUME Inv, Arrive \/ Complete \/ Timeout
  PROVE  GateHolds'
<1>1. (v' = [v EXCEPT !.stage = "pushed"] \/ v' = [v EXCEPT !.stage = "forced"]) /\ Sound(v)
  BY GateParts, Zenon DEF Arrive, Complete, Timeout, GateHolds
<1>2. Sound(v')
  BY <1>1, StageFacts
<1>. QED BY <1>2, Zenon DEF GateHolds

(* A request leaves the viewer. *)
LEMMA RequestGate ==
  ASSUME Inv, RequestPasses \/ RequestRefused
  PROVE  GateHolds'
<1>1. v' = [v EXCEPT !.asked = FALSE] /\ Sound(v)
  BY GateParts, Zenon DEF RequestPasses, RequestRefused, GateHolds
<1>2. Sound(v')
  BY <1>1, AskedFacts
<1>. QED BY <1>2, Zenon DEF GateHolds

(* An overflow of the ingress queue is kept for the next pass. *)
LEMMA LoseGate ==
  ASSUME Inv, Lose
  PROVE  GateHolds'
<1>1. (v' = v \/ v' = [v EXCEPT !.overflow = TRUE]) /\ Sound(v)
  BY GateParts, Zenon DEF Lose, GateHolds
<1>2. Sound([v EXCEPT !.overflow = TRUE])
  BY <1>1, Zenon DEF Sound, Truth, ViewerState
<1>3. Sound(v')
  BY <1>1, <1>2
<1>. QED BY <1>3, Zenon DEF GateHolds

(* A new viewer waits for a key. *)
LEMMA NewcomerFacts == Sound(Newcomer)
BY DEF Sound, Truth, ViewerState, Newcomer

(* A new viewer takes over. *)
LEMMA RolloverGate ==
  ASSUME Rollover
  PROVE  GateHolds'
<1>1. v' = Newcomer
  BY DEF Rollover
<1>. QED BY <1>1, NewcomerFacts, Zenon DEF GateHolds

(* The other steps leave the viewer alone. *)
LEMMA SameGate ==
  ASSUME Inv, v' = v
  PROVE  GateHolds'
BY GateParts, Zenon DEF GateHolds

-----------------------------------------------------------------------------
(* The theorems *)

(* The invariant holds when a session starts: the gate and the barrier are *)
(* closed, nothing is under way.                                           *)
LEMMA InitInv == Init => Inv
<1>. SUFFICES ASSUME Init PROVE Inv
  OBVIOUS
<1>1. pipe = <<>> /\ next = [miss |-> "host", gap |-> FALSE] /\ s = Idle /\ v = Newcomer /\ faults = 0
      /\ h = [want |-> TRUE, latch |-> FALSE, retry |-> FALSE, awaiting |-> TRUE, waiting |-> TRUE,
              queuedKey |-> NoKey, wireKey |-> NoKey, mail |-> FALSE, kick |-> FALSE,
              checked |-> TRUE, failed |-> FALSE]
  BY DEF Init
<1>2. pipe \in Seq(Picture) /\ DOMAIN pipe = {}
  BY <1>1
<1>3. next \in Beyond /\ next.miss = "host" /\ ~next.gap
  BY <1>1 DEF Beyond, Misses
<1>4. h \in HostState /\ h.awaiting /\ h.waiting /\ ~h.queuedKey.now /\ ~h.wireKey.now
  <2>1. NoKey \in Mark /\ ~NoKey.now
    BY MarkFacts
  <2>. QED BY <1>1, <2>1, Zenon DEF HostState
<1>5. s \in SenderState /\ s.pc = "idle" /\ ~s.left
  BY <1>1, IdleFacts
<1>6. faults \in 0 .. MaxFaults
  BY <1>1, StreamConstants
<1>7. Line(pipe, next, h, s)
  <2>1. InLine(pipe) /\ Numbered(pipe) /\ OldFirst(pipe) /\ OldWaits(pipe, h)
    BY <1>2, Zenon DEF InLine, Numbered, OldFirst, OldWaits
  <2>2. HandIsHeld(pipe, s)
    BY <1>2, <1>5, SMT DEF HandIsHeld
  <2>3. MarksAreTrue(pipe, h, s)
    BY <1>4, Zenon DEF MarksAreTrue
  <2>4. HostMisses(pipe, next, h, s)
    BY <1>2, <1>4, Zenon DEF HostMisses, Barred
  <2>5. LossShows(pipe, next, h, s)
    BY <1>2, <1>3, SMT DEF LossShows
  <2>. QED BY <2>1, <2>2, <2>3, <2>4, <2>5, Zenon DEF Line
<1>8. GateHolds
  BY <1>1, NewcomerFacts, Zenon DEF GateHolds
<1>. QED BY <1>2, <1>3, <1>4, <1>5, <1>6, <1>7, <1>8, GateParts, Zenon DEF LineHolds

(* The two halves, after a step. *)
LEMMA InvNext == LineHolds' /\ GateHolds' => Inv'
BY GateParts, PTL

(* The steps of the host's main loop keep the invariant. *)
LEMMA HostInv ==
  ASSUME Inv, Host
  PROVE  Inv'
<1>1. CASE TakeReasons
  <2>1. LineHolds'
    BY <1>1, TakeReasonsStep
  <2>2. v' = v
    BY <1>1 DEF TakeReasons
  <2>. QED BY <2>1, <2>2, SameGate, InvNext, Zenon
<1>2. CASE Encode
  <2>1. LineHolds'
    BY <1>2, EncodeStep
  <2>2. v' = v
    BY <1>2, Zenon DEF Encode
  <2>. QED BY <2>1, <2>2, SameGate, InvNext, Zenon
<1>3. CASE EncodeFails
  <2>1. LineHolds'
    BY <1>3, EncodeFailsStep
  <2>2. v' = v
    BY <1>3, Zenon DEF EncodeFails
  <2>. QED BY <2>1, <2>2, SameGate, InvNext, Zenon
<1>4. CASE CheckSend
  <2>1. LineHolds'
    BY <1>4, CheckSendStep
  <2>2. v' = v
    BY <1>4, Zenon DEF CheckSend
  <2>. QED BY <2>1, <2>2, SameGate, InvNext, Zenon
<1>5. CASE LatchExpires \/ RetryExpires
  <2>1. LineHolds'
    BY <1>5, ExpiresStep
  <2>2. v' = v
    BY <1>5 DEF LatchExpires, RetryExpires
  <2>. QED BY <2>1, <2>2, SameGate, InvNext, Zenon
<1>6. CASE Flush
  <2>1. LineHolds'
    BY <1>6, FlushStep
  <2>2. v' = v
    BY <1>6, Zenon DEF Flush
  <2>. QED BY <2>1, <2>2, SameGate, InvNext, Zenon
<1>7. CASE DropOldEpoch
  <2>1. LineHolds'
    BY <1>7, DropOldEpochStep
  <2>2. v' = v
    BY <1>7, Zenon DEF DropOldEpoch
  <2>. QED BY <2>1, <2>2, SameGate, InvNext, Zenon
<1>8. CASE DropAwaitingKey
  <2>1. LineHolds'
    BY <1>8, DropAwaitingKeyStep
  <2>2. v' = v
    BY <1>8, Zenon DEF DropAwaitingKey
  <2>. QED BY <2>1, <2>2, SameGate, InvNext, Zenon
<1>9. CASE DropUnknownEpoch
  <2>1. LineHolds'
    BY <1>9, DropUnknownEpochStep
  <2>2. v' = v
    BY <1>9, Zenon DEF DropUnknownEpoch
  <2>. QED BY <2>1, <2>2, SameGate, InvNext, Zenon
<1>10. CASE ResetEncoder
  <2>1. LineHolds'
    BY <1>10, ResetEncoderStep
  <2>2. v' = v
    BY <1>10, Zenon DEF ResetEncoder
  <2>. QED BY <2>1, <2>2, SameGate, InvNext, Zenon
<1>11. CASE EnqueueKey
  <2>1. LineHolds'
    BY <1>11, EnqueueKeyStep
  <2>2. v' = v
    BY <1>11, Zenon DEF EnqueueKey
  <2>. QED BY <2>1, <2>2, SameGate, InvNext, Zenon
<1>12. CASE HoldForKey
  <2>1. LineHolds'
    BY <1>12, HoldForKeyStep
  <2>2. v' = v
    BY <1>12, Zenon DEF HoldForKey
  <2>. QED BY <2>1, <2>2, SameGate, InvNext, Zenon
<1>13. CASE DropAndResync
  <2>1. LineHolds'
    BY <1>13, DropAndResyncStep
  <2>2. v' = v
    BY <1>13, Zenon DEF DropAndResync
  <2>. QED BY <2>1, <2>2, SameGate, InvNext, Zenon
<1>14. CASE Enqueue
  <2>1. LineHolds'
    BY <1>14, EnqueueStep
  <2>2. v' = v
    BY <1>14, Zenon DEF Enqueue
  <2>. QED BY <2>1, <2>2, SameGate, InvNext, Zenon
<1>16. CASE DropKick
  <2>1. LineHolds'
    BY <1>16, DropKickStep
  <2>2. v' = v
    BY <1>16, Zenon DEF DropKick
  <2>. QED BY <2>1, <2>2, SameGate, InvNext, Zenon
<1>15. CASE Rollover
  BY <1>15, RolloverStep, RolloverGate, InvNext, Zenon
<1>. QED
  BY <1>1, <1>2, <1>3, <1>4, <1>5, <1>6, <1>7, <1>8, <1>9, <1>10, <1>11, <1>12, <1>13, <1>14,
     <1>15, <1>16, Zenon
  DEF Host

(* The steps of the sender thread keep it. *)
LEMMA SenderInv ==
  ASSUME Inv, Sender
  PROVE  Inv'
<1>1. LineHolds'
  BY DequeueStep, FencedStep, PassFenceStep, FirstDatagramStep, EpochChangedStep, SentStep,
     SendErrorStep,
     RearmStep, PostStep, Zenon DEF Sender
<1>2. v' = v
  BY Zenon DEF Sender, Dequeue, Fenced, PassFence, FirstDatagram, EpochChanged, Sent, SendError,
     Rearm, Post
<1>. QED BY <1>1, <1>2, SameGate, InvNext, Zenon

(* The steps of the network and of time keep it. *)
LEMMA OutsideInv ==
  ASSUME Inv, Outside
  PROVE  Inv'
<1>1. CASE Lose
  BY <1>1, LoseStep, LoseGate, InvNext, Zenon
<1>2. CASE RequestPasses
  BY <1>2, ExpiresStep, RequestGate, InvNext, Zenon
<1>3. CASE RequestRefused
  <2>1. UNCHANGED <<pipe, next, h, s>> /\ faults' \in 0 .. MaxFaults
    BY <1>3, InvFacts, Zenon DEF RequestRefused
  <2>2. LineHolds'
    BY <2>1, Untouched
  <2>. QED BY <1>3, <2>2, RequestGate, InvNext, Zenon
<1>4. CASE Waits
  <2>1. LineHolds'
    BY <1>4, WaitsStep
  <2>2. v' = v
    BY <1>4, Zenon DEF Waits
  <2>. QED BY <2>1, <2>2, SameGate, InvNext, Zenon
<1>. QED BY <1>1, <1>2, <1>3, <1>4, Zenon DEF Outside

(* The steps of the viewer's receiver keep it. *)
LEMMA ReceiverInv ==
  ASSUME Inv, Receiver
  PROVE  Inv'
<1>1. CASE Shed
  <2>1. LineHolds'
    BY <1>1, ShedStep
  <2>2. v' = v
    BY <1>1, Zenon DEF Shed
  <2>. QED BY <2>1, <2>2, SameGate, InvNext, Zenon
<1>2. CASE Deliver
  BY <1>2, DeliverStep, DeliverGate, InvNext, Zenon
<1>3. CASE Maintain
  BY <1>3, MaintainStep, MaintainGate, InvNext, Zenon
<1>4. CASE Arrive
  BY <1>4, ArriveStep, NextStageGate, InvNext, Zenon
<1>5. CASE Complete
  BY <1>5, CompleteStep, NextStageGate, InvNext, Zenon
<1>6. CASE Timeout
  <2>1. UNCHANGED <<pipe, next, h, s>> /\ faults' \in 0 .. MaxFaults
    BY <1>6, InvFacts, Zenon DEF Timeout
  <2>2. LineHolds'
    BY <2>1, Untouched
  <2>. QED BY <1>6, <2>2, NextStageGate, InvNext, Zenon
<1>7. CASE EndPass
  <2>1. UNCHANGED <<pipe, next, h, s>> /\ faults' \in 0 .. MaxFaults
    BY <1>7, InvFacts, Zenon DEF EndPass
  <2>2. LineHolds'
    BY <2>1, Untouched
  <2>. QED BY <1>7, <2>2, EndPassGate, InvNext, Zenon
<1>. QED BY <1>1, <1>2, <1>3, <1>4, <1>5, <1>6, <1>7, Zenon DEF Receiver

(* The line and the gate hold in every state, for every size of the *)
(* encoder's backlog, of the queues and of the faults.              *)
THEOREM Inductive == Spec => []Inv
<1>1. ASSUME Inv, UNCHANGED vars PROVE Inv'
  <2>1. pipe' = pipe /\ next' = next /\ h' = h /\ s' = s /\ v' = v /\ faults' = faults
    BY <1>1, Zenon DEF vars
  <2>2. LineHolds'
    BY <1>1, <2>1, InvFacts, Zenon DEF LineHolds
  <2>. QED BY <1>1, <2>1, <2>2, SameGate, InvNext, Zenon
<1>2. Inv /\ [Next]_vars => Inv'
  BY <1>1, HostInv, SenderInv, OutsideInv, ReceiverInv, Zenon DEF Next
<1>. QED BY <1>2, InitInv, PTL DEF Spec

(* Every variable keeps its type; in particular a key always finds a free *)
(* number.                                                                *)
THEOREM Typed == Spec => []TypeOK
<1>1. Inv => TypeOK
  BY DEF Inv
<1>. QED BY <1>1, Inductive, PTL

(* A key that is said to be queued or on the wire, of this session and    *)
(* epoch (keyQueued_ and keyOnWire_), is there: a request that is put off *)
(* for it is not put off for nothing.                                     *)
THEOREM KeyMarksHold == Spec => []KeyStateIsTrue
<1>1. Inv => KeyStateIsTrue
  <2>. SUFFICES ASSUME Inv PROVE KeyStateIsTrue
    OBVIOUS
  <2>1. MarksAreTrue(pipe, h, s)
    BY InvFacts
  <2>. QED BY <2>1, Zenon DEF MarksAreTrue, KeyStateIsTrue, KeyMark
<1>. QED BY <1>1, Inductive, PTL

(* Whatever the host dropped itself, the next picture that leaves is a *)
(* keyframe, but for what it throws away unnumbered with its way open: *)
(* a batch after a failed send, and behind the key of a kick.          *)
THEOREM ChainsAreWhole == Spec => []HostSendsWholeChains
<1>1. Inv => HostSendsWholeChains
  <2>. SUFFICES ASSUME Inv PROVE HostSendsWholeChains
    OBVIOUS
  <2>1. HostMisses(pipe, next, h, s)
    BY InvFacts
  <2>. QED BY <2>1, Zenon DEF HostMisses, HostSendsWholeChains, At, Away
<1>. QED BY <1>1, Inductive, PTL

(* The decoder is not given a picture that lacks the one before it, but *)
(* after a second gap in one pass of the receiver, which                *)
(* handle_udp_discontinuity passes over.                                *)
THEOREM NoGarbageShows == Spec => []OnlyARepeatedGapShows
<1>1. Inv => OnlyARepeatedGapShows
  BY DEF Inv, GateIsTrue
<1>. QED BY <1>1, Inductive, PTL
==============================================================================
