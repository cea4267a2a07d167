--------------------------- MODULE SummaryProofs ---------------------------
(***************************************************************************)
(* What is shown of traffic: the report of a capture file, for any packets *)
(* a file may hold in any order; the overview of the store, for any rows,  *)
(* names and imported files; and the packets a display filter selects, for *)
(* any text. The first two are tables of sums, so the module begins with   *)
(* the sum of a table.                                                     *)
(***************************************************************************)
EXTENDS CaptureReport, Overview, DisplayFilter, FiniteSetTheorems, FunctionTheorems, SequenceTheorems,
        WellFoundedInduction, TLAPS

(* Of the naturals in a set there is a least.                              *)
LEMMA LeastNat ==
  ASSUME NEW T \in SUBSET Nat, T # {}
  PROVE  \E x \in T : \A y \in T : x <= y
<1> DEFINE R == OpToRel(<, Nat)
<1>1. IsWellFoundedOn(R, Nat)
  BY NatLessThanWellFounded
<1>2. \A x, y \in Nat : y < x => <<y, x>> \in R
  BY DEF OpToRel
<1> HIDE DEF R
<1>3. PICK x \in T : \A y \in T : ~ (<<y, x>> \in R)
  BY <1>1, WFMin
<1>4. \A y \in T : y \in Nat /\ x \in Nat /\ ~(y < x)
  BY <1>2, <1>3
<1>5. \A y \in T : x <= y
  BY <1>4
<1> QED
  BY <1>5

(* Of the finite sets that are wrong one is smallest: without any element  *)
(* it is right.                                                            *)
LEMMA SmallestWrong ==
  ASSUME NEW D, IsFiniteSet(D), NEW Wrong \in SUBSET SUBSET D, Wrong # {}
  PROVE  \E S \in Wrong : \A x \in S : S \ {x} \notin Wrong
<1> DEFINE Sizes == {Cardinality(S) : S \in Wrong}
<1>1. \A S \in Wrong : IsFiniteSet(S) /\ Cardinality(S) \in Nat
  BY FS_Subset, FS_CardinalityType
<1>2. Sizes \in SUBSET Nat /\ Sizes # {}
  BY <1>1
<1>3. PICK n \in Sizes : \A m \in Sizes : n <= m
  <2> HIDE DEF Sizes
  <2> QED
    BY <1>2, LeastNat
<1>4. PICK S \in Wrong : Cardinality(S) = n
  BY <1>3
<1>5. ASSUME NEW x \in S, S \ {x} \in Wrong PROVE FALSE
  <2>1. Cardinality(S \ {x}) = Cardinality(S) - 1
    BY <1>1, <1>4, FS_RemoveElement
  <2>2. n <= Cardinality(S \ {x}) /\ n \in Nat
    BY <1>1, <1>3, <1>5
  <2> QED
    BY <1>4, <2>1, <2>2
<1> QED
  BY <1>4, <1>5

(* The sums over the subsets of what f is defined on, as TotalOf takes     *)
(* them.                                                                   *)
Taken(S) == CHOOSE y \in S : TRUE
SumsSet(t, f, D) ==
  t = [S \in SUBSET D |-> IF S = {} THEN 0 ELSE f[Taken(S)] + t[S \ {Taken(S)}]]

LEMMA TakenIs == \A S : S # {} => Taken(S) \in S
  BY DEF Taken

(* Sums of integers are integers.                                          *)
LEMMA SumsSetInt ==
  ASSUME NEW D, IsFiniteSet(D), NEW f, \A x \in D : f[x] \in Int, NEW t, SumsSet(t, f, D)
  PROVE  t \in [SUBSET D -> Int]
<1> DEFINE Wrong == {S \in SUBSET D : t[S] \notin Int}
<1>1. SUFFICES ASSUME Wrong # {} PROVE FALSE
  <2>1. Wrong = {} => \A S \in SUBSET D : t[S] \in Int
    OBVIOUS
  <2>2. t = [S \in SUBSET D |-> t[S]]
    BY DEF SumsSet
  <2> QED
    BY <1>1, <2>1, <2>2
<1>2. PICK S \in Wrong : \A x \in S : S \ {x} \notin Wrong
  <2>1. Wrong \in SUBSET SUBSET D
    OBVIOUS
  <2> HIDE DEF Wrong
  <2> QED
    BY <1>1, <2>1, SmallestWrong
<1>3. t[S] = IF S = {} THEN 0 ELSE f[Taken(S)] + t[S \ {Taken(S)}]
  BY <1>2 DEF SumsSet
<1>4. S # {} => f[Taken(S)] \in Int /\ t[S \ {Taken(S)}] \in Int
  BY <1>2, TakenIs
<1> QED
  BY <1>2, <1>3, <1>4

(* There are such sums: those of the sets of up to n elements, for any n.  *)
LEMMA SumsSetExists ==
  ASSUME NEW D, IsFiniteSet(D), NEW f
  PROVE  \E t : SumsSet(t, f, D)
<1> DEFINE Upto(n) == {S \in SUBSET D : Cardinality(S) <= n}
           step(t, S) == IF S = {} THEN 0 ELSE f[Taken(S)] + t[S \ {Taken(S)}]
           Up(n) == \E t : t = [S \in Upto(n) |-> step(t, S)]
           all == Cardinality(D)
           Wrong == {n \in Nat : ~Up(n)}
<1>1. all \in Nat /\ \A S \in SUBSET D : IsFiniteSet(S) /\ Cardinality(S) \in Nat /\ Cardinality(S) <= all
  BY FS_CardinalityType, FS_Subset
<1>2. \A S \in SUBSET D : S # {} => /\ Taken(S) \in S /\ S \ {Taken(S)} \in SUBSET D
                                    /\ Cardinality(S \ {Taken(S)}) = Cardinality(S) - 1
  BY <1>1, TakenIs, FS_RemoveElement
<1>3. Up(0)
  <2>1. \A S \in Upto(0) : S = {}
    BY <1>1, FS_EmptySet
  <2> DEFINE t == [S \in Upto(0) |-> 0]
  <2>2. t = [S \in Upto(0) |-> step(t, S)]
    BY <2>1
  <2> QED
    BY <2>2
<1>4. ASSUME NEW n \in Nat, Up(n) PROVE Up(n + 1)
  <2>1. PICK t : t = [S \in Upto(n) |-> step(t, S)]
    BY <1>4
  <2> DEFINE h == [S \in Upto(n + 1) |-> step(t, S)]
  <2>2. ASSUME NEW S \in Upto(n + 1) PROVE h[S] = step(h, S)
    <3>1. CASE S = {}
      BY <3>1
    <3>2. CASE S # {}
      <4> DEFINE R == S \ {Taken(S)}
      <4>1. R \in Upto(n) /\ R \in Upto(n + 1)
        BY <1>1, <1>2, <3>2
      <4>2. t[R] = step(t, R)
        BY <2>1, <4>1
      <4>3. h[R] = step(t, R)
        BY <4>1
      <4>4. h[S] = step(t, S)
        BY <2>2
      <4> QED
        BY <3>2, <4>2, <4>3, <4>4
    <3> QED
      BY <3>1, <3>2
  <2>3. h = [S \in Upto(n + 1) |-> step(h, S)]
    <3>1. h = [S \in Upto(n + 1) |-> h[S]]
      OBVIOUS
    <3> HIDE DEF h
    <3> QED
      BY <2>2, <3>1
  <2> QED
    BY <2>3
<1>5. Wrong = {}
  <2> HIDE DEF Up
  <2>1. SUFFICES ASSUME Wrong # {} PROVE FALSE
    BY <2>1
  <2>2. PICK n \in Wrong : \A m \in Wrong : n <= m
    <3>1. Wrong \in SUBSET Nat
      OBVIOUS
    <3> HIDE DEF Wrong
    <3> QED
      BY <2>1, <3>1, LeastNat
  <2>3. n # 0 /\ n - 1 \in Nat /\ n - 1 \notin Wrong
    BY <1>3, <2>2
  <2> QED
    BY <1>4, <2>2, <2>3
<1>6. Up(all)
  <2> HIDE DEF Up
  <2> QED
    BY <1>1, <1>5
<1>7. Upto(all) = SUBSET D
  BY <1>1
<1> QED
  BY <1>6, <1>7 DEF SumsSet

(* It does not matter which element is taken first.                        *)
LEMMA SumsSetAny ==
  ASSUME NEW D, IsFiniteSet(D), NEW f, \A x \in D : f[x] \in Int, NEW t, SumsSet(t, f, D),
         NEW S \in SUBSET D, NEW x \in S
  PROVE  t[S] = f[x] + t[S \ {x}]
<1> DEFINE Wrong == {R \in SUBSET D : \E y \in R : t[R] # f[y] + t[R \ {y}]}
<1>1. t \in [SUBSET D -> Int]
  BY SumsSetInt
<1>2. \A R \in SUBSET D : R # {} => Taken(R) \in R /\ t[R] = f[Taken(R)] + t[R \ {Taken(R)}]
  BY TakenIs DEF SumsSet
<1>3. SUFFICES ASSUME Wrong # {} PROVE FALSE
  BY <1>3
<1>4. PICK R \in Wrong : \A y \in R : R \ {y} \notin Wrong
  <2>1. Wrong \in SUBSET SUBSET D
    OBVIOUS
  <2> HIDE DEF Wrong
  <2> QED
    BY <1>3, <2>1, SmallestWrong
<1>5. PICK y \in R : t[R] # f[y] + t[R \ {y}]
  BY <1>4
<1> DEFINE z == Taken(R)
<1>6. z \in R /\ t[R] = f[z] + t[R \ {z}] /\ z # y
  BY <1>2, <1>4, <1>5
<1> HIDE DEF z
<1>7. t[R \ {z}] = f[y] + t[(R \ {z}) \ {y}]
  BY <1>4, <1>5, <1>6
<1>8. t[R \ {y}] = f[z] + t[(R \ {y}) \ {z}]
  BY <1>4, <1>5, <1>6
<1>9. (R \ {z}) \ {y} = (R \ {y}) \ {z}
  OBVIOUS
<1>10. f[y] \in Int /\ f[z] \in Int /\ t[(R \ {y}) \ {z}] \in Int
  BY <1>1, <1>4, <1>5, <1>6
<1>11. \A a, b, c, r, p, q \in Int : r = b + p /\ p = a + c /\ q = b + c => r = a + q
  OBVIOUS
<1>12. t[R] \in Int /\ t[R \ {z}] \in Int /\ t[R \ {y}] \in Int
  BY <1>1, <1>4
<1>13. t[R \ {z}] = f[y] + t[(R \ {y}) \ {z}]
  BY <1>7, <1>9
<1> QED
  BY ONLY <1>5, <1>6, <1>8, <1>10, <1>11, <1>12, <1>13

(* Sums of equal numbers are equal.                                        *)
LEMMA SumsSetSame ==
  ASSUME NEW D, IsFiniteSet(D), NEW f, NEW t, SumsSet(t, f, D),
         NEW E \in SUBSET D, NEW g, NEW u, SumsSet(u, g, E), \A x \in E : f[x] = g[x]
  PROVE  t[E] = u[E]
<1> DEFINE Wrong == {R \in SUBSET E : t[R] # u[R]}
<1>1. SUFFICES ASSUME Wrong # {} PROVE FALSE
  BY <1>1
<1>2. IsFiniteSet(E)
  BY FS_Subset
<1>3. PICK R \in Wrong : \A y \in R : R \ {y} \notin Wrong
  <2>1. Wrong \in SUBSET SUBSET E
    OBVIOUS
  <2> HIDE DEF Wrong
  <2> QED
    BY <1>1, <1>2, <2>1, SmallestWrong
<1>4. t[R] = (IF R = {} THEN 0 ELSE f[Taken(R)] + t[R \ {Taken(R)}]) /\ R \in SUBSET E
  BY <1>3 DEF SumsSet
<1>5. u[R] = IF R = {} THEN 0 ELSE g[Taken(R)] + u[R \ {Taken(R)}]
  BY <1>3 DEF SumsSet
<1>6. R # {} => f[Taken(R)] = g[Taken(R)] /\ t[R \ {Taken(R)}] = u[R \ {Taken(R)}]
  BY <1>3, <1>4, TakenIs
<1> QED
  BY <1>3, <1>4, <1>5, <1>6

-----------------------------------------------------------------------------
(* Total: a table with a finite domain of integers.                        *)
Table(f, S) == f = [x \in DOMAIN f |-> f[x]] /\ IsFiniteSet(DOMAIN f) /\ \A x \in DOMAIN f : f[x] \in S

(* TotalOf is the sum such a table of sums has for the whole domain.       *)
LEMMA TotalIs ==
  ASSUME NEW f, IsFiniteSet(DOMAIN f)
  PROVE  \E t : SumsSet(t, f, DOMAIN f) /\ TotalOf(f) = t[DOMAIN f]
<1>1. TotalOf(f) = (CHOOSE t : SumsSet(t, f, DOMAIN f))[DOMAIN f]
  BY DEF TotalOf, SumsSet, Taken
<1> QED
  BY <1>1, SumsSetExists

LEMMA TotalEmpty == ASSUME NEW f, DOMAIN f = {} PROVE TotalOf(f) = 0
<1>1. PICK t : SumsSet(t, f, {}) /\ TotalOf(f) = t[{}]
  BY TotalIs, FS_EmptySet
<1> QED
  BY <1>1 DEF SumsSet

LEMMA TotalInt == ASSUME NEW f, Table(f, Int) PROVE TotalOf(f) \in Int
<1>1. PICK t : SumsSet(t, f, DOMAIN f) /\ TotalOf(f) = t[DOMAIN f]
  BY TotalIs DEF Table
<1>2. t \in [SUBSET DOMAIN f -> Int]
  BY <1>1, SumsSetInt DEF Table
<1> QED
  BY <1>1, <1>2

Without(f, k) == [x \in DOMAIN f \ {k} |-> f[x]]

(* An entry taken out leaves a sum smaller by it.                          *)
LEMMA TotalSplit ==
  ASSUME NEW f, Table(f, Int), NEW k \in DOMAIN f
  PROVE  Table(Without(f, k), Int) /\ TotalOf(f) = f[k] + TotalOf(Without(f, k))
<1> DEFINE D == DOMAIN f
           E == D \ {k}
           g == Without(f, k)
<1>1. IsFiniteSet(D) /\ IsFiniteSet(E) /\ \A x \in D : f[x] \in Int
  BY FS_Subset DEF Table
<1>2. DOMAIN g = E /\ g = [x \in E |-> g[x]] /\ \A x \in E : g[x] = f[x]
  BY DEF Without
<1>3. Table(g, Int)
  BY <1>1, <1>2 DEF Table
<1>4. PICK t : SumsSet(t, f, D) /\ TotalOf(f) = t[D]
  BY <1>1, TotalIs
<1> HIDE DEF g
<1>5. PICK u : SumsSet(u, g, E) /\ TotalOf(g) = u[E]
  <2>1. IsFiniteSet(DOMAIN g)
    BY <1>1, <1>2
  <2>2. \E u : SumsSet(u, g, DOMAIN g) /\ TotalOf(g) = u[DOMAIN g]
    BY <2>1, TotalIs
  <2> QED
    BY <1>2, <2>2
<1>6. t[D] = f[k] + t[E]
  <2>1. D \in SUBSET D /\ k \in D
    OBVIOUS
  <2> HIDE DEF D
  <2>2. t[D] = f[k] + t[D \ {k}]
    BY <1>1, <1>4, <2>1, SumsSetAny
  <2> QED
    BY <2>2
<1>7. t[E] = u[E]
  BY <1>1, <1>2, <1>4, <1>5, SumsSetSame
<1> QED
  BY <1>3, <1>4, <1>5, <1>6, <1>7 DEF g

(* An entry set changes the sum by what it changes.                        *)
LEMMA TotalWith ==
  ASSUME NEW f, Table(f, Int), NEW k, NEW v \in Int
  PROVE  /\ Table(With(f, k, v), Int)
         /\ Lookup(f, k, 0) \in Int
         /\ TotalOf(With(f, k, v)) = TotalOf(f) + v - Lookup(f, k, 0)
<1> DEFINE g == With(f, k, v)
<1>1. DOMAIN g = DOMAIN f \cup {k} /\ k \in DOMAIN g /\ g[k] = v
      /\ \A x \in DOMAIN f \ {k} : g[x] = f[x]
  BY DEF With
<1>2. IsFiniteSet(DOMAIN g)
  BY <1>1, FS_AddElement DEF Table
<1>3. Table(g, Int)
  <2>1. g = [x \in DOMAIN g |-> g[x]]
    BY DEF With
  <2>2. \A x \in DOMAIN g : g[x] \in Int
    BY DEF With, Table
  <2> QED
    BY <1>2, <2>1, <2>2 DEF Table
<1>4. Without(g, k) = [x \in DOMAIN f \ {k} |-> f[x]]
  <2>1. DOMAIN g \ {k} = DOMAIN f \ {k}
    BY <1>1
  <2> QED
    BY <1>1, <2>1 DEF Without
<1> HIDE DEF g
<1>5. Table(Without(g, k), Int) /\ TotalOf(g) = v + TotalOf(Without(g, k))
  BY <1>1, <1>3, TotalSplit
<1>6. TotalOf(f) \in Int /\ TotalOf(Without(g, k)) \in Int
  BY <1>5, TotalInt
<1>7. CASE k \in DOMAIN f
  <2>1. TotalOf(f) = f[k] + TotalOf(Without(f, k)) /\ f[k] \in Int
    BY <1>7, TotalSplit DEF Table
  <2>2. Without(f, k) = Without(g, k)
    BY <1>4 DEF Without
  <2> QED
    BY <1>3, <1>5, <1>6, <1>7, <2>1, <2>2 DEF Lookup, g
<1>8. CASE k \notin DOMAIN f
  <2>1. DOMAIN f \ {k} = DOMAIN f /\ f = [x \in DOMAIN f |-> f[x]]
    BY <1>8 DEF Table
  <2>2. Without(g, k) = f
    BY <1>4, <2>1
  <2> QED
    BY <1>3, <1>5, <1>6, <1>8, <2>2 DEF Lookup, g
<1> QED
  BY <1>7, <1>8

-----------------------------------------------------------------------------
(* Keys of the two tables.                                                 *)
SameWay(r, q) == r.src = q.src /\ r.sport = q.sport /\ r.dst = q.dst /\ r.dport = q.dport
OtherWay(r, q) == r.src = q.dst /\ r.sport = q.dport /\ r.dst = q.src /\ r.dport = q.sport

(* A conversation is a transport and a pair of ends, met either way.       *)
LEMMA ConvKeySame ==
  ASSUME NEW r \in FilePackets, NEW q \in FilePackets
  PROVE  ConvKey(r) = ConvKey(q) <=> r.transport = q.transport /\ (SameWay(r, q) \/ OtherWay(r, q))
<1>1. /\ r.sport \in Nat /\ r.dport \in Nat /\ q.sport \in Nat /\ q.dport \in Nat
      /\ AddressOrder[r.src] \in Nat /\ AddressOrder[r.dst] \in Nat
      /\ AddressOrder[q.src] \in Nat /\ AddressOrder[q.dst] \in Nat
      /\ AddressOrder[r.src] = AddressOrder[r.dst] => r.src = r.dst
  BY RepAssumption
<1>2. ConvKey(r) = ConvKey(q) =>
        r.transport = q.transport /\ (SameWay(r, q) \/ OtherWay(r, q))
  BY DEF ConvKey, SameWay, OtherWay
<1>3. r.transport = q.transport /\ SameWay(r, q) => ConvKey(r) = ConvKey(q)
  BY DEF ConvKey, SameWay, SourceFirst
<1>4. OtherWay(r, q) => \/ SourceFirst(r) /\ ~SourceFirst(q)
                        \/ ~SourceFirst(r) /\ SourceFirst(q)
                        \/ SameWay(r, q)
  BY <1>1 DEF OtherWay, SourceFirst, SameWay
<1>5. r.transport = q.transport /\ OtherWay(r, q) => ConvKey(r) = ConvKey(q)
  BY <1>3, <1>4 DEF ConvKey, OtherWay
<1> QED
  BY <1>2, <1>3, <1>5

(* So is a session, whichever end is taken for the client.                 *)
LEMMA StreamKeySame ==
  ASSUME NEW r \in FilePackets, NEW q \in FilePackets
  PROVE  StreamKey(r) = StreamKey(q) <=> r.transport = q.transport /\ (SameWay(r, q) \/ OtherWay(r, q))
<1>1. /\ r.sport \in Nat /\ r.dport \in Nat /\ q.sport \in Nat /\ q.dport \in Nat
      /\ EndOrder[r.src] \in Nat /\ EndOrder[r.dst] \in Nat
      /\ EndOrder[q.src] \in Nat /\ EndOrder[q.dst] \in Nat
      /\ EndOrder[r.src] = EndOrder[r.dst] => r.src = r.dst
  BY RepAssumption
<1>2. StreamKey(r) = StreamKey(q) =>
        r.transport = q.transport /\ (SameWay(r, q) \/ OtherWay(r, q))
  BY DEF StreamKey, SameWay, OtherWay
<1>3. r.transport = q.transport /\ SameWay(r, q) => StreamKey(r) = StreamKey(q)
  BY DEF StreamKey, SameWay, SourceIsClient
<1>4. OtherWay(r, q) => \/ SourceIsClient(r) /\ ~SourceIsClient(q)
                        \/ ~SourceIsClient(r) /\ SourceIsClient(q)
                        \/ SameWay(r, q)
  BY <1>1 DEF OtherWay, SourceIsClient, SameWay
<1>5. r.transport = q.transport /\ OtherWay(r, q) => StreamKey(r) = StreamKey(q)
  BY <1>3, <1>4 DEF StreamKey, OtherWay
<1> QED
  BY <1>2, <1>3, <1>5

(* The tables tell the same packets apart.                                 *)
LEMMA KeysAgree ==
  \A r, q \in FilePackets : ConvKey(r) = ConvKey(q) <=> StreamKey(r) = StreamKey(q)
BY ConvKeySame, StreamKeySame

-----------------------------------------------------------------------------
(* Columns of a table.                                                     *)
PerBytes(f) == [k \in DOMAIN f |-> f[k].bytes]
PerPackets(f) == [k \in DOMAIN f |-> f[k].packets]

(* A packet of n bytes counted under k adds one packet and n bytes.        *)
LEMMA CountColumns ==
  ASSUME NEW f, IsFiniteSet(DOMAIN f), \A x \in DOMAIN f : f[x].packets \in Nat /\ f[x].bytes \in Nat,
         NEW k, NEW n \in Nat, NEW v, v.packets = Lookup(PerPackets(f), k, 0) + 1,
         v.bytes = Lookup(PerBytes(f), k, 0) + n
  PROVE  LET g == With(f, k, v) IN
         /\ IsFiniteSet(DOMAIN g) /\ \A x \in DOMAIN g : g[x].packets \in Nat /\ g[x].bytes \in Nat
         /\ TotalOf(PerPackets(g)) = TotalOf(PerPackets(f)) + 1
         /\ TotalOf(PerBytes(g)) = TotalOf(PerBytes(f)) + n
<1> DEFINE g == With(f, k, v)
<1>1. Table(PerPackets(f), Int) /\ Table(PerBytes(f), Int)
  BY DEF Table, PerPackets, PerBytes
<1>2. Lookup(PerPackets(f), k, 0) \in Nat /\ Lookup(PerBytes(f), k, 0) \in Nat
  BY DEF Lookup, PerPackets, PerBytes
<1>3. v.packets \in Nat /\ v.bytes \in Nat
  BY <1>2
<1>4. DOMAIN g = DOMAIN f \cup {k} /\ g[k] = v /\ \A x \in DOMAIN f \ {k} : g[x] = f[x]
  BY DEF With
<1>5. IsFiniteSet(DOMAIN g)
  BY <1>4, FS_AddElement
<1>6. \A x \in DOMAIN g : g[x].packets \in Nat /\ g[x].bytes \in Nat
  BY <1>3, <1>4
<1>7. PerPackets(g) = With(PerPackets(f), k, v.packets)
  BY <1>4 DEF PerPackets, With
<1>8. PerBytes(g) = With(PerBytes(f), k, v.bytes)
  BY <1>4 DEF PerBytes, With
<1> HIDE DEF g
<1>9. TotalOf(PerPackets(g)) = TotalOf(PerPackets(f)) + v.packets - Lookup(PerPackets(f), k, 0)
  BY <1>1, <1>3, <1>7, TotalWith
<1>10. TotalOf(PerBytes(g)) = TotalOf(PerBytes(f)) + v.bytes - Lookup(PerBytes(f), k, 0)
  BY <1>1, <1>3, <1>8, TotalWith
<1>11. TotalOf(PerPackets(f)) \in Int /\ TotalOf(PerBytes(f)) \in Int
  BY <1>1, TotalInt
<1> QED
  BY <1>2, <1>5, <1>6, <1>9, <1>10, <1>11 DEF g

(* A sum of one number more.                                               *)
LEMMA TotalOneMore ==
  ASSUME NEW f, Table(f, Int), NEW g, NEW n, n \notin DOMAIN f, DOMAIN g = DOMAIN f \cup {n},
         g = [x \in DOMAIN g |-> g[x]], \A x \in DOMAIN f : g[x] = f[x], g[n] \in Int
  PROVE  TotalOf(g) = TotalOf(f) + g[n]
<1>1. g = With(f, n, g[n])
  <2>1. \A x \in DOMAIN f \cup {n} : g[x] = IF x = n THEN g[n] ELSE f[x]
    OBVIOUS
  <2>2. g = [x \in DOMAIN f \cup {n} |-> g[x]]
    OBVIOUS
  <2> QED
    BY ONLY <2>1, <2>2 DEF With
<1>2. TotalOf(With(f, n, g[n])) = TotalOf(f) + g[n] - Lookup(f, n, 0)
  BY TotalWith
<1>3. TotalOf(f) \in Int /\ Lookup(f, n, 0) = 0
  BY TotalInt DEF Lookup
<1> QED
  BY <1>1, <1>2, <1>3

(* What the packets of a set of positions carry.                           *)
BytesIn(s, I) == TotalOf([i \in I |-> s[i].len])
PayloadIn(s, I) == TotalOf([i \in I |-> Len(s[i].payload)])
Transported(s) == {i \in DOMAIN s : s[i].transport # ""}
Ips(s) == {i \in DOMAIN s : s[i].ip}

(* A sequence of packets with one more, index by index.                    *)
LEMMA AppendIs ==
  ASSUME NEW s \in Seq(FilePackets), NEW r \in FilePackets
  PROVE  LET n == Len(s) + 1
             t == Append(s, r)
         IN /\ t \in Seq(FilePackets) /\ Len(t) = n /\ n \in Nat /\ n \notin DOMAIN s
            /\ DOMAIN t = DOMAIN s \cup {n} /\ t[n] = r /\ \A i \in DOMAIN s : t[i] = s[i]
            /\ \A i \in DOMAIN s : s[i] \in FilePackets
            /\ IsFiniteSet(DOMAIN s) /\ Cardinality(DOMAIN s) = Len(s)
<1>1. Append(s, r) \in Seq(FilePackets) /\ Len(Append(s, r)) = Len(s) + 1
      /\ Append(s, r)[Len(s) + 1] = r /\ \A i \in 1 .. Len(s) : Append(s, r)[i] = s[i]
  BY AppendProperties
<1>2. DOMAIN s = 1 .. Len(s) /\ DOMAIN Append(s, r) = 1 .. Len(s) + 1 /\ Len(s) \in Nat
  BY <1>1
<1>3. IsFiniteSet(1 .. Len(s)) /\ Cardinality(1 .. Len(s)) = Len(s)
  BY <1>2, FS_Interval
<1> QED
  BY <1>1, <1>2, <1>3

(* What one more packet adds to the sums over some of the packets.         *)
LEMMA CarriedAppend ==
  ASSUME NEW s \in Seq(FilePackets), NEW r \in FilePackets, NEW I \in SUBSET DOMAIN s
  PROVE  LET n == Len(s) + 1
             t == Append(s, r)
         IN /\ BytesIn(t, I) = BytesIn(s, I) /\ BytesIn(t, I \cup {n}) = BytesIn(s, I) + r.len
            /\ PayloadIn(t, I) = PayloadIn(s, I) /\ PayloadIn(t, I \cup {n}) = PayloadIn(s, I) + Len(r.payload)
            /\ BytesIn(s, I) \in Int /\ PayloadIn(s, I) \in Int
<1> DEFINE n == Len(s) + 1
           t == Append(s, r)
           b == [i \in I |-> s[i].len]
           c == [i \in I \cup {n} |-> t[i].len]
           p == [i \in I |-> Len(s[i].payload)]
           q == [i \in I \cup {n} |-> Len(t[i].payload)]
<1>1. /\ n \notin DOMAIN s /\ t[n] = r /\ \A i \in DOMAIN s : t[i] = s[i] /\ s[i] \in FilePackets
      /\ IsFiniteSet(I)
  BY AppendIs, FS_Subset
<1> HIDE DEF n, t
<1>2. \A x \in FilePackets : x.len \in Int /\ Len(x.payload) \in Int
  <2>1. \A x \in FilePackets : x.payload \in Seq(STRING) /\ x.len \in Nat
    BY RepAssumption
  <2> QED
    BY <2>1
<1>3. [i \in I |-> t[i].len] = b /\ [i \in I |-> Len(t[i].payload)] = p
  BY <1>1
<1>4. Table(b, Int) /\ Table(p, Int)
  BY <1>1, <1>2 DEF Table
<1>5. TotalOf(c) = TotalOf(b) + r.len
  <2>1. n \notin DOMAIN b /\ DOMAIN c = DOMAIN b \cup {n} /\ c[n] = r.len /\ r.len \in Int
        /\ \A x \in DOMAIN b : c[x] = b[x]
    BY <1>1, <1>2
  <2>2. c = [x \in DOMAIN c |-> c[x]]
    OBVIOUS
  <2> HIDE DEF b, c
  <2> QED
    BY <1>4, <2>1, <2>2, TotalOneMore
<1>6. TotalOf(q) = TotalOf(p) + Len(r.payload)
  <2>1. n \notin DOMAIN p /\ DOMAIN q = DOMAIN p \cup {n} /\ q[n] = Len(r.payload) /\ Len(r.payload) \in Int
        /\ \A x \in DOMAIN p : q[x] = p[x]
    BY <1>1, <1>2
  <2>2. q = [x \in DOMAIN q |-> q[x]]
    OBVIOUS
  <2> HIDE DEF p, q
  <2> QED
    BY <1>4, <2>1, <2>2, TotalOneMore
<1>7. TotalOf(b) \in Int /\ TotalOf(p) \in Int
  BY <1>4, TotalInt
<1> QED
  BY <1>3, <1>5, <1>6, <1>7 DEF BytesIn, PayloadIn, n, t

(* The packets with a transport, and those with addresses.                 *)
LEMMA SetsAppend ==
  ASSUME NEW s \in Seq(FilePackets), NEW r \in FilePackets
  PROVE  LET n == Len(s) + 1
             t == Append(s, r)
         IN /\ Transported(t) = IF r.transport # "" THEN Transported(s) \cup {n} ELSE Transported(s)
            /\ Ips(t) = IF r.ip THEN Ips(s) \cup {n} ELSE Ips(s)
            /\ Cardinality(Ips(t)) = Cardinality(Ips(s)) + IF r.ip THEN 1 ELSE 0
            /\ Cardinality(Ips(s)) \in Nat
<1> DEFINE n == Len(s) + 1
           t == Append(s, r)
<1>1. /\ n \notin DOMAIN s /\ DOMAIN t = DOMAIN s \cup {n} /\ t[n] = r
      /\ \A i \in DOMAIN s : t[i] = s[i] /\ IsFiniteSet(DOMAIN s)
  BY AppendIs
<1> HIDE DEF n, t
<1>2. Transported(t) = IF r.transport # "" THEN Transported(s) \cup {n} ELSE Transported(s)
  BY <1>1 DEF Transported
<1>3. Ips(t) = IF r.ip THEN Ips(s) \cup {n} ELSE Ips(s)
  BY <1>1 DEF Ips
<1>4. IsFiniteSet(Ips(s)) /\ n \notin Ips(s)
  <2>1. IsFiniteSet(DOMAIN s)
    BY AppendIs
  <2> QED
    BY <1>1, <2>1, FS_Subset DEF Ips
<1>5. Cardinality(Ips(s)) \in Nat /\ Cardinality(Ips(s) \cup {n}) = Cardinality(Ips(s)) + 1
  BY <1>4, FS_AddElement, FS_CardinalityType
<1>6. Cardinality(Ips(t)) = Cardinality(Ips(s)) + IF r.ip THEN 1 ELSE 0
  <2>1. CASE r.ip
    BY <1>3, <1>5, <2>1
  <2>2. CASE ~ r.ip
    BY <1>3, <1>5, <2>2
  <2> QED
    BY <2>1, <2>2
<1>7. Cardinality(Ips(s)) \in Nat
  BY <1>5
<1> QED
  BY ONLY <1>2, <1>3, <1>6, <1>7 DEF n, t

(* What the tables of a report hold.                                       *)
Times == {r.at : r \in FilePackets}
Apps == {r.proto : r \in FilePackets}
CountRec == [packets : Nat, bytes : Nat]
ConvRec == [packets : Nat, bytes : Nat, first : Times, last : Times, app : Apps]
StreamRec == [packets : Nat, app : Apps, c2s : Seq(STRING), s2c : Seq(STRING), c2sBytes : Nat, s2cBytes : Nat]
PerPayload(ss) == [k \in DOMAIN ss |-> ss[k].c2sBytes + ss[k].s2cBytes]
HeadOf(ss, k, up) == IF k \notin DOMAIN ss THEN <<>> ELSE IF up THEN ss[k].c2s ELSE ss[k].s2c
OfClient(k, r) == r.src = k.client /\ r.sport = k.clientPort

(* What the assumption says of one packet.                                 *)
LEMMA PacketType ==
  ASSUME NEW r \in FilePackets
  PROVE  /\ r.at \in Times /\ r.proto \in Apps /\ r.len \in Nat /\ r.ip \in BOOLEAN
         /\ (r.transport # "" => r.ip) /\ r.payload \in Seq(STRING) /\ Len(r.payload) \in Nat
<1>1. r.payload \in Seq(STRING) /\ r.len \in Nat /\ r.ip \in BOOLEAN /\ (r.transport # "" => r.ip)
  BY RepAssumption
<1>2. r.at \in Times /\ r.proto \in Apps
  BY DEF Times, Apps
<1>3. Len(r.payload) \in Nat
  BY ONLY <1>1, LenProperties
<1> QED
  BY <1>1, <1>2, <1>3

(* A table without entries has no sums.                                    *)
LEMMA EmptyTable == \A S : Table(<<>>, S) /\ TotalOf(<<>>) = 0
<1>1. DOMAIN <<>> = {} /\ <<>> = [x \in DOMAIN <<>> |-> <<>>[x]]
  OBVIOUS
<1>2. TotalOf(<<>>) = 0
  BY <1>1, TotalEmpty
<1> QED
  BY <1>1, <1>2, FS_EmptySet DEF Table

(* A typed entry keeps a table typed.                                      *)
LEMMA TableWith ==
  ASSUME NEW S, NEW f, Table(f, S), NEW k, NEW v \in S
  PROVE  Table(With(f, k, v), S) /\ With(f, k, v)[k] = v /\ DOMAIN With(f, k, v) = DOMAIN f \cup {k}
         /\ \A x \in DOMAIN f : x # k => With(f, k, v)[x] = f[x]
<1>1. IsFiniteSet(DOMAIN f \cup {k})
  BY FS_AddElement DEF Table
<1> QED
  BY <1>1 DEF Table, With

(* A counted packet, in a table of counts.                                 *)
LEMMA CountTable ==
  ASSUME NEW f, Table(f, CountRec), NEW k, NEW n \in Nat
  PROVE  LET g == With(f, k, Count(Lookup(f, k, NoCount), n)) IN
         /\ Table(g, CountRec)
         /\ TotalOf(PerPackets(g)) = TotalOf(PerPackets(f)) + 1
         /\ TotalOf(PerBytes(g)) = TotalOf(PerBytes(f)) + n
<1> DEFINE c == Lookup(f, k, NoCount)
           v == Count(c, n)
<1>1. c \in CountRec /\ c.packets = Lookup(PerPackets(f), k, 0) /\ c.bytes = Lookup(PerBytes(f), k, 0)
  BY DEF Lookup, Table, CountRec, NoCount, PerPackets, PerBytes
<1> HIDE DEF c
<1> DEFINE t == [c EXCEPT !.packets = @ + 1]
           u == [t EXCEPT !.bytes = c.bytes + n]
<1>a. v = u
  BY Zenon DEF Count
<1>b. t \in CountRec /\ t.packets = c.packets + 1 /\ t.bytes = c.bytes
  BY <1>1 DEF CountRec
<1> HIDE DEF t
<1>c. u \in CountRec /\ u.packets = t.packets /\ u.bytes = c.bytes + n
  BY <1>1, <1>b DEF CountRec
<1>2. v \in CountRec /\ v.packets = c.packets + 1 /\ v.bytes = c.bytes + n
  BY <1>a, <1>b, <1>c
<1> HIDE DEF v
<1>3. IsFiniteSet(DOMAIN f) /\ \A x \in DOMAIN f : f[x].packets \in Nat /\ f[x].bytes \in Nat
  BY DEF Table, CountRec
<1>4. Table(With(f, k, v), CountRec)
  BY <1>2, TableWith
<1>5. v.packets = Lookup(PerPackets(f), k, 0) + 1 /\ v.bytes = Lookup(PerBytes(f), k, 0) + n
  BY <1>1, <1>2
<1>6. TotalOf(PerPackets(With(f, k, v))) = TotalOf(PerPackets(f)) + 1
      /\ TotalOf(PerBytes(With(f, k, v))) = TotalOf(PerBytes(f)) + n
  BY <1>3, <1>5, CountColumns
<1> QED
  BY <1>4, <1>6 DEF v, c

(* A number added to an entry, in a table of numbers.                      *)
LEMMA PlusTable ==
  ASSUME NEW f, Table(f, Nat), NEW k, NEW n \in Nat
  PROVE  Table(Plus(f, k, n), Nat) /\ TotalOf(Plus(f, k, n)) = TotalOf(f) + n
<1>1. Table(f, Int)
  BY DEF Table
<1>2. Lookup(f, k, 0) \in Nat
  BY DEF Lookup, Table
<1> DEFINE v == Lookup(f, k, 0) + n
<1>3. v \in Nat /\ v \in Int
  BY <1>2
<1>4. Table(With(f, k, v), Nat)
  BY <1>3, TableWith
<1>5. TotalOf(With(f, k, v)) = TotalOf(f) + v - Lookup(f, k, 0)
  <2> HIDE DEF v
  <2> QED
    BY <1>1, <1>3, TotalWith
<1>6. TotalOf(f) \in Int
  BY <1>1, TotalInt
<1> QED
  BY <1>2, <1>4, <1>5, <1>6 DEF Plus

(* A conversation counts a packet, or begins with it.                      *)
LEMMA ConverseIs ==
  ASSUME NEW convs, Table(convs, ConvRec), NEW r \in FilePackets, r.transport # ""
  PROVE  \E v \in ConvRec : /\ Converse(convs, r) = With(convs, ConvKey(r), v)
                            /\ v.packets = Lookup(PerPackets(convs), ConvKey(r), 0) + 1
                            /\ v.bytes = Lookup(PerBytes(convs), ConvKey(r), 0) + r.len
<1> DEFINE k == ConvKey(r)
           new == [packets |-> 0, bytes |-> 0, first |-> r.at, last |-> r.at, app |-> r.proto]
           c == Lookup(convs, k, new)
           v == [Count(c, r.len) EXCEPT !.last = r.at, !.app = Named(@, r)]
<1>1. r.at \in Times /\ r.proto \in Apps /\ r.len \in Nat /\ r.ip
  BY PacketType
<1>2. Converse(convs, r) = With(convs, k, v)
  BY <1>1 DEF Converse
<1>3. new \in ConvRec
  BY <1>1 DEF ConvRec
<1> HIDE DEF k
<1>4. c \in ConvRec /\ c.packets = Lookup(PerPackets(convs), k, 0) /\ c.bytes = Lookup(PerBytes(convs), k, 0)
  BY <1>3 DEF Lookup, Table, PerPackets, PerBytes
<1> HIDE DEF c, new
<1> DEFINE t == [c EXCEPT !.packets = @ + 1]
           u == [t EXCEPT !.bytes = c.bytes + r.len]
           w == [u EXCEPT !.last = r.at]
           z == [w EXCEPT !.app = Named(w.app, r)]
<1>0. c \in ConvRec /\ r.len \in Nat
  BY <1>1, <1>4
<1>a. t \in ConvRec /\ t.packets = c.packets + 1 /\ t.bytes = c.bytes
  BY ONLY <1>0 DEF ConvRec
<1>b. t \in ConvRec => u \in ConvRec /\ u.packets = t.packets /\ u.bytes = c.bytes + r.len
  <2> HIDE DEF t
  <2> QED
    BY ONLY <1>0 DEF ConvRec
<1>5. Count(c, r.len) = u
  BY Zenon DEF Count
<1>6. v = z
  <2>1. v = [[Count(c, r.len) EXCEPT !.last = r.at] EXCEPT !.app = Named(Count(c, r.len).app, r)]
    BY Zenon
  <2>2. w.app = u.app
    <3>1. \A e \in ConvRec : [e EXCEPT !.last = r.at].app = e.app
      BY ONLY TRUE DEF ConvRec
    <3>2. u \in ConvRec
      BY <1>a, <1>b
    <3> HIDE DEF u
    <3> QED
      BY ONLY <3>1, <3>2
  <2> QED
    BY Zenon, <1>5, <2>1, <2>2
<1> HIDE DEF t
<1>8. u \in ConvRec
  BY <1>a, <1>b
<1> HIDE DEF u
<1>9. w \in ConvRec /\ w.packets = u.packets /\ w.bytes = u.bytes
  BY ONLY <1>1, <1>8 DEF ConvRec
<1> HIDE DEF w
<1>10. Named(w.app, r) \in Apps
  BY ONLY <1>1, <1>9 DEF Named, ConvRec
<1>11. z \in ConvRec /\ z.packets = w.packets /\ z.bytes = w.bytes
  BY ONLY <1>9, <1>10 DEF ConvRec
<1>12. v \in ConvRec /\ v.packets = c.packets + 1 /\ v.bytes = c.bytes + r.len
  BY <1>6, <1>a, <1>b, <1>8, <1>9, <1>11
<1> QED
  BY <1>2, <1>4, <1>12 DEF k

(* A session takes a packet into the direction it went, and into no other. *)
LEMMA StreamsAddIs ==
  ASSUME NEW ss, Table(ss, StreamRec), NEW r \in FilePackets, r.transport # ""
  PROVE  LET k == StreamKey(r) IN
         \E v \in StreamRec :
           /\ StreamsAdd(ss, r) = With(ss, k, v)
           /\ v.packets = Lookup(PerPackets(ss), k, 0) + 1
           /\ v.c2sBytes + v.s2cBytes = Lookup(PerPayload(ss), k, 0) + Len(r.payload)
           /\ v.c2s = IF OfClient(k, r) THEN Kept(HeadOf(ss, k, TRUE), r.payload) ELSE HeadOf(ss, k, TRUE)
           /\ v.s2c = IF OfClient(k, r) THEN HeadOf(ss, k, FALSE) ELSE Kept(HeadOf(ss, k, FALSE), r.payload)
<1> DEFINE k == StreamKey(r)
           s == Lookup(ss, k, NewStream(r))
           v == Received(s, k, r)
<1>1. r.proto \in Apps /\ r.payload \in Seq(STRING) /\ Len(r.payload) \in Nat
  BY PacketType
<1>2. StreamsAdd(ss, r) = With(ss, k, v)
  BY DEF StreamsAdd
<1>3. NewStream(r) \in StreamRec
  BY <1>1, EmptySeq DEF NewStream, StreamRec
<1> HIDE DEF k
<1>4. /\ s \in StreamRec /\ s.packets = Lookup(PerPackets(ss), k, 0)
      /\ s.c2sBytes + s.s2cBytes = Lookup(PerPayload(ss), k, 0)
      /\ s.c2s = HeadOf(ss, k, TRUE) /\ s.s2c = HeadOf(ss, k, FALSE)
  <2>1. CASE k \in DOMAIN ss
    BY <2>1 DEF Lookup, Table, PerPackets, PerPayload, HeadOf
  <2>2. CASE k \notin DOMAIN ss
    <3>1. s = NewStream(r)
      BY <2>2 DEF Lookup
    <3>2. s.packets = 0 /\ s.c2sBytes = 0 /\ s.s2cBytes = 0 /\ s.c2s = <<>> /\ s.s2c = <<>>
      BY ONLY <3>1 DEF NewStream
    <3>3. Lookup(PerPackets(ss), k, 0) = 0 /\ Lookup(PerPayload(ss), k, 0) = 0
      BY <2>2 DEF Lookup, PerPackets, PerPayload
    <3> QED
      BY ONLY <1>3, <2>2, <3>1, <3>2, <3>3 DEF HeadOf
  <2> QED
    BY <2>1, <2>2
<1> HIDE DEF s
<1> DEFINE app == IF s.app = "unknown" THEN r.proto ELSE Named(s.app, r)
           m == Len(r.payload)
           p == [s EXCEPT !.packets = @ + 1]
           t == [p EXCEPT !.app = app]
           c == Kept(t.c2s, r.payload)
           d == Kept(t.s2c, r.payload)
           c1 == [t EXCEPT !.c2s = c]
           c2 == [c1 EXCEPT !.c2sBytes = t.c2sBytes + m]
           d1 == [t EXCEPT !.s2c = d]
           d2 == [d1 EXCEPT !.s2cBytes = t.s2cBytes + m]
<1>5. v = IF OfClient(k, r) THEN c2 ELSE d2
  <2> DEFINE q == [s EXCEPT !.packets = @ + 1, !.app = IF @ = "unknown" THEN r.proto ELSE Named(@, r)]
  <2>1. q = t
    BY Zenon
  <2>2. v = IF OfClient(k, r)
            THEN [q EXCEPT !.c2s = Kept(@, r.payload), !.c2sBytes = @ + Len(r.payload)]
            ELSE [q EXCEPT !.s2c = Kept(@, r.payload), !.s2cBytes = @ + Len(r.payload)]
    BY Zenon DEF Received, OfClient
  <2>3. v = IF OfClient(k, r)
            THEN [t EXCEPT !.c2s = Kept(@, r.payload), !.c2sBytes = @ + Len(r.payload)]
            ELSE [t EXCEPT !.s2c = Kept(@, r.payload), !.s2cBytes = @ + Len(r.payload)]
    <3> HIDE DEF q, t, v
    <3> QED
      BY Zenon, <2>1, <2>2
  <2> QED
    BY Zenon, <2>3
<1>0. s \in StreamRec
  BY <1>4
<1>6. app \in Apps
  BY ONLY <1>0, <1>1 DEF Named, StreamRec
<1> HIDE DEF app, v
<1>7. p \in StreamRec /\ p.packets = s.packets + 1 /\ p.c2s = s.c2s /\ p.s2c = s.s2c
      /\ p.c2sBytes = s.c2sBytes /\ p.s2cBytes = s.s2cBytes
  BY ONLY <1>0 DEF StreamRec
<1> HIDE DEF p
<1>8. t \in StreamRec /\ t.packets = p.packets /\ t.c2s = p.c2s /\ t.s2c = p.s2c
      /\ t.c2sBytes = p.c2sBytes /\ t.s2cBytes = p.s2cBytes
  BY ONLY <1>6, <1>7 DEF StreamRec
<1> HIDE DEF t
<1>9. c \in Seq(STRING) /\ d \in Seq(STRING) /\ m \in Nat
  <2>1. t.c2s \in Seq(STRING) /\ t.s2c \in Seq(STRING)
    BY <1>8 DEF StreamRec
  <2> QED
    BY <1>1, <2>1, ConcatProperties DEF Kept
<1>10. t.c2sBytes \in Nat /\ t.s2cBytes \in Nat
  BY <1>8 DEF StreamRec
<1> HIDE DEF c, d, m
<1>11. CASE OfClient(k, r)
  <2>1. c1 \in StreamRec /\ c1.packets = t.packets /\ c1.c2s = c /\ c1.s2c = t.s2c
        /\ c1.s2cBytes = t.s2cBytes
    BY ONLY <1>8, <1>9 DEF StreamRec
  <2> HIDE DEF c1
  <2>5. t.c2sBytes + m \in Nat
    BY ONLY <1>9, <1>10
  <2>6. \A n \in Nat : \A y \in StreamRec :
          LET e == [y EXCEPT !.c2sBytes = n] IN
          e \in StreamRec /\ e.packets = y.packets /\ e.c2s = y.c2s /\ e.s2c = y.s2c /\ e.c2sBytes = n /\ e.s2cBytes = y.s2cBytes
    BY ONLY TRUE DEF StreamRec
  <2>2. c2 \in StreamRec /\ c2.packets = c1.packets /\ c2.c2s = c1.c2s /\ c2.s2c = c1.s2c
        /\ c2.c2sBytes = t.c2sBytes + m /\ c2.s2cBytes = c1.s2cBytes
    BY ONLY <2>1, <2>5, <2>6
  <2>3. v = c2
    BY <1>5, <1>11
  <2>4. v.c2sBytes + v.s2cBytes = t.c2sBytes + t.s2cBytes + m
    BY ONLY <1>9, <1>10, <2>1, <2>2, <2>3
  <2> QED
    BY <1>2, <1>4, <1>7, <1>8, <1>11, <2>1, <2>2, <2>3, <2>4 DEF k, c, m
<1>12. CASE ~ OfClient(k, r)
  <2>1. d1 \in StreamRec /\ d1.packets = t.packets /\ d1.s2c = d /\ d1.c2s = t.c2s
        /\ d1.c2sBytes = t.c2sBytes
    BY ONLY <1>8, <1>9 DEF StreamRec
  <2> HIDE DEF d1
  <2>5. t.s2cBytes + m \in Nat
    BY ONLY <1>9, <1>10
  <2>6. \A n \in Nat : \A y \in StreamRec :
          LET e == [y EXCEPT !.s2cBytes = n] IN
          e \in StreamRec /\ e.packets = y.packets /\ e.c2s = y.c2s /\ e.s2c = y.s2c /\ e.s2cBytes = n /\ e.c2sBytes = y.c2sBytes
    BY ONLY TRUE DEF StreamRec
  <2>2. d2 \in StreamRec /\ d2.packets = d1.packets /\ d2.c2s = d1.c2s /\ d2.s2c = d1.s2c
        /\ d2.s2cBytes = t.s2cBytes + m /\ d2.c2sBytes = d1.c2sBytes
    BY ONLY <2>1, <2>5, <2>6
  <2>3. v = d2
    BY <1>5, <1>12
  <2>4. v.c2sBytes + v.s2cBytes = t.c2sBytes + t.s2cBytes + m
    BY ONLY <1>9, <1>10, <2>1, <2>2, <2>3
  <2> QED
    BY <1>2, <1>4, <1>7, <1>8, <1>12, <2>1, <2>2, <2>3, <2>4 DEF k, d, m
<1> QED
  BY <1>11, <1>12

(* FlattenSeq: the joins of the beginnings of a sequence of sequences.     *)
Joins(f, s, n) == f = [i \in 1 .. n |-> IF i = 1 THEN s[i] ELSE f[i - 1] \o s[i]]

(* Of any sequence of sequences there are the joins.                       *)
LEMMA JoinsExist ==
  ASSUME NEW s, NEW m \in Nat
  PROVE  \E f : Joins(f, s, m)
<1> DEFINE step(f, i) == IF i = 1 THEN s[i] ELSE f[i - 1] \o s[i]
           Up(n) == \E f : f = [i \in 1 .. n |-> step(f, i)]
           Wrong == {n \in Nat : ~Up(n)}
<1>1. Up(0)
  <2> DEFINE f == [i \in 1 .. 0 |-> {}]
  <2>1. f = [i \in 1 .. 0 |-> step(f, i)]
    OBVIOUS
  <2> QED
    BY <2>1
<1>2. ASSUME NEW n \in Nat, Up(n) PROVE Up(n + 1)
  <2>1. PICK f : f = [i \in 1 .. n |-> step(f, i)]
    BY <1>2
  <2> DEFINE h == [i \in 1 .. n + 1 |-> step(f, i)]
  <2>2. \A i \in 1 .. n : h[i] = step(f, i) /\ f[i] = step(f, i)
    <3>1. \A i \in 1 .. n : i \in 1 .. n + 1
      OBVIOUS
    <3>2. \A i \in 1 .. n : f[i] = step(f, i)
      <4> HIDE DEF step
      <4> QED
        BY <2>1
    <3> HIDE DEF step
    <3> QED
      BY <3>1, <3>2
  <2>3. \A i \in 1 .. n + 1 : i # 1 => i - 1 \in 1 .. n
    OBVIOUS
  <2>4. \A i \in 1 .. n + 1 : h[i] = step(h, i)
    <3>1. \A i \in 1 .. n + 1 : h[i] = step(f, i)
      OBVIOUS
    <3>2. \A i \in 1 .. n : h[i] = f[i]
      BY <2>2
    <3> HIDE DEF h
    <3> QED
      BY <2>3, <3>1, <3>2
  <2>5. h = [i \in 1 .. n + 1 |-> h[i]]
    OBVIOUS
  <2> HIDE DEF h
  <2>6. h = [i \in 1 .. n + 1 |-> step(h, i)]
    BY <2>4, <2>5
  <2> QED
    BY <2>6
<1>3. Wrong = {}
  <2> HIDE DEF Up
  <2>1. SUFFICES ASSUME Wrong # {} PROVE FALSE
    BY <2>1
  <2>2. PICK n \in Wrong : \A k \in Wrong : n <= k
    <3>1. Wrong \in SUBSET Nat
      OBVIOUS
    <3> HIDE DEF Wrong
    <3> QED
      BY <2>1, <3>1, LeastNat
  <2>3. n # 0 /\ n - 1 \in Nat /\ n - 1 \notin Wrong
    BY <1>1, <2>2
  <2> QED
    BY <1>2, <2>2, <2>3
<1>4. Up(m)
  <2> HIDE DEF Up
  <2> QED
    BY <1>3
<1> QED
  BY <1>4 DEF Joins

(* Joins of strings are strings.                                           *)
LEMMA JoinsType ==
  ASSUME NEW V, NEW s \in Seq(Seq(V)), NEW f, Joins(f, s, Len(s))
  PROVE  \A i \in 1 .. Len(s) : f[i] \in Seq(V)
<1> DEFINE T == {i \in 1 .. Len(s) : f[i] \notin Seq(V)}
<1>1. SUFFICES ASSUME T # {} PROVE FALSE
  BY <1>1
<1>2. Len(s) \in Nat /\ \A i \in 1 .. Len(s) : s[i] \in Seq(V)
  OBVIOUS
<1>3. PICK i \in T : \A k \in T : i <= k
  <2>1. T \in SUBSET Nat
    BY <1>2
  <2> HIDE DEF T
  <2> QED
    BY <1>1, <2>1, LeastNat
<1>4. f[i] = IF i = 1 THEN s[i] ELSE f[i - 1] \o s[i]
  BY <1>3 DEF Joins
<1>5. CASE i = 1
  BY <1>2, <1>3, <1>4, <1>5
<1>6. CASE i # 1
  <2>1. i - 1 \in 1 .. Len(s) /\ i - 1 \notin T
    BY <1>2, <1>3, <1>6
  <2>2. f[i - 1] \in Seq(V) /\ s[i] \in Seq(V)
    BY <1>2, <1>3, <2>1
  <2>3. f[i - 1] \o s[i] \in Seq(V)
    BY ONLY <2>2, ConcatProperties
  <2> QED
    BY <1>3, <1>4, <1>6, <2>3
<1> QED
  BY <1>5, <1>6

(* Joins of equal beginnings are equal.                                    *)
LEMMA JoinsSame ==
  ASSUME NEW s, NEW t, NEW m \in Nat, \A i \in 1 .. m : s[i] = t[i],
         NEW f, Joins(f, s, m), NEW g, Joins(g, t, m + 1)
  PROVE  \A i \in 1 .. m : f[i] = g[i]
<1> DEFINE T == {i \in 1 .. m : f[i] # g[i]}
<1>1. SUFFICES ASSUME T # {} PROVE FALSE
  BY <1>1
<1>2. PICK i \in T : \A k \in T : i <= k
  <2>1. T \in SUBSET Nat
    OBVIOUS
  <2> HIDE DEF T
  <2> QED
    BY <1>1, <2>1, LeastNat
<1>3. i \in 1 .. m /\ i \in 1 .. m + 1
  BY <1>2
<1>4. f[i] = (IF i = 1 THEN s[i] ELSE f[i - 1] \o s[i]) /\ g[i] = IF i = 1 THEN t[i] ELSE g[i - 1] \o t[i]
  BY <1>3 DEF Joins
<1>5. i # 1 => i - 1 \in 1 .. m /\ i - 1 \notin T
  BY <1>2, <1>3
<1>6. i # 1 => f[i - 1] = g[i - 1]
  BY <1>5
<1> QED
  BY <1>2, <1>3, <1>4, <1>6

(* FlattenSeq is the last of the joins.                                    *)
LEMMA FlattenIs ==
  ASSUME NEW s, Len(s) \in Nat, Len(s) # 0
  PROVE  \E f : Joins(f, s, Len(s)) /\ FlattenSeq(s) = f[Len(s)]
<1>1. FlattenSeq(s) = (CHOOSE f : Joins(f, s, Len(s)))[Len(s)]
  BY DEF FlattenSeq, Joins
<1> QED
  BY <1>1, JoinsExist

(* One sequence more is one more to append.                                *)
LEMMA FlattenAppend ==
  ASSUME NEW V, NEW s, s \in Seq(Seq(V)), NEW p, p \in Seq(V)
  PROVE  FlattenSeq(s) \in Seq(V) /\ FlattenSeq(Append(s, p)) = FlattenSeq(s) \o p
<1> DEFINE t == Append(s, p)
           n == Len(s)
<1>1. t \in Seq(Seq(V)) /\ Len(t) = n + 1 /\ t[n + 1] = p /\ \A i \in 1 .. n : s[i] = t[i]
  BY AppendProperties
<1>2. n \in Nat
  BY LenProperties
<1> HIDE DEF t
<1>3. PICK g : Joins(g, t, n + 1) /\ FlattenSeq(t) = g[n + 1]
  BY <1>1, <1>2, FlattenIs
<1>4. g[n + 1] = IF n = 0 THEN p ELSE g[n] \o p
  <2>1. n + 1 \in 1 .. n + 1 /\ (n + 1) - 1 = n /\ (n + 1 = 1 <=> n = 0)
    BY <1>2
  <2> HIDE DEF n
  <2>2. g[n + 1] = IF n + 1 = 1 THEN t[n + 1] ELSE g[(n + 1) - 1] \o t[n + 1]
    BY <1>3, <2>1 DEF Joins
  <2> QED
    BY <1>1, <2>1, <2>2
<1>5. CASE n = 0
  <2>1. s = <<>> /\ FlattenSeq(s) = <<>>
    BY <1>5, EmptySeq DEF FlattenSeq
  <2>2. <<>> \o p = p /\ <<>> \in Seq(V)
    BY ConcatEmptySeq, EmptySeq
  <2> QED
    BY <1>3, <1>4, <1>5, <2>1, <2>2 DEF t
<1>6. CASE n # 0
  <2>1. PICK f : Joins(f, s, n) /\ FlattenSeq(s) = f[n]
    BY <1>2, <1>6, FlattenIs
  <2>2. f[n] = g[n] /\ f[n] \in Seq(V)
    <3>1. n \in 1 .. n /\ n <= n + 1 /\ n + 1 \in Nat
      BY <1>2, <1>6
    <3>2. \A i \in 1 .. n : f[i] = g[i]
      <4> HIDE DEF n
      <4>1. \A i \in 1 .. n : s[i] = t[i]
        BY <1>1
      <4>2. Joins(f, s, n) /\ Joins(g, t, n + 1)
        BY <1>3, <2>1
      <4> QED
        BY ONLY <1>2, <4>1, <4>2, JoinsSame
    <3>3. \A i \in 1 .. n : f[i] \in Seq(V)
      BY <2>1, JoinsType
    <3> HIDE DEF n
    <3> QED
      BY <3>1, <3>2, <3>3
  <2> QED
    BY <1>3, <1>4, <1>6, <2>1, <2>2 DEF t
<1> QED
  BY <1>5, <1>6

(* A beginning of a sequence stays one when the sequence goes on.          *)
Beginning(h, all) == IsPrefix(h, all) /\ (h = all \/ Len(h) >= MaxStream)

(* A prefix, index by index.                                               *)
LEMMA PrefixIs ==
  ASSUME NEW V, NEW h \in Seq(V), NEW s \in Seq(V)
  PROVE  IsPrefix(h, s) <=> Len(h) <= Len(s) /\ \A i \in 1 .. Len(h) : h[i] = s[i]
<1>1. Len(h) \in Nat /\ Len(s) \in Nat
  BY LenProperties
<1>2. SubSeq(h, 1, Len(h)) = h
  BY SubSeqFull
<1>3. CASE Len(h) <= Len(s)
  <2> DEFINE t == SubSeq(s, 1, Len(h))
  <2>1. t \in Seq(V) /\ Len(t) = Len(h) /\ \A i \in 1 .. Len(h) : t[i] = s[i]
    <3>1. 1 \in 1 .. Len(s) + 1 /\ Len(h) \in 1 - 1 .. Len(s)
      BY <1>1, <1>3
    <3>2. t \in Seq(V) /\ Len(t) = Len(h) - 1 + 1 /\ \A i \in 1 .. Len(h) - 1 + 1 : t[i] = s[1 + i - 1]
      BY <3>1, SubSeqProperties
    <3>3. \A i \in 1 .. Len(h) : 1 + i - 1 = i
      BY <1>1
    <3> HIDE DEF t
    <3> QED
      BY <1>1, <3>2, <3>3
  <2> HIDE DEF t
  <2>2. h = t <=> \A i \in 1 .. Len(h) : h[i] = s[i]
    <3>1. (\A i \in 1 .. Len(h) : h[i] = t[i]) => h = t
      BY <2>1, SeqEqual
    <3> QED
      BY <2>1, <3>1
  <2> QED
    BY <1>2, <1>3, <2>2 DEF IsPrefix, t
<1>4. CASE ~(Len(h) <= Len(s))
  BY <1>4 DEF IsPrefix
<1> QED
  BY <1>3, <1>4

(* A head that is unbroken stays so when Kept takes a payload.             *)
LEMMA BeginningKept ==
  ASSUME NEW V, NEW h \in Seq(V), NEW s \in Seq(V), NEW p \in Seq(V), Beginning(h, s)
  PROVE  Beginning(Kept(h, p), s \o p)
<1>1. Len(h) \in Nat /\ Len(s) \in Nat /\ MaxStream \in Nat
  BY LenProperties, RepAssumption
<1>2. s \o p \in Seq(V) /\ Len(s \o p) \in Nat /\ Len(s \o p) >= Len(s) /\ \A i \in 1 .. Len(s) : (s \o p)[i] = s[i]
  <2>1. s \o p \in Seq(V) /\ Len(s \o p) = Len(s) + Len(p)
        /\ \A i \in 1 .. Len(s) + Len(p) : (s \o p)[i] = IF i <= Len(s) THEN s[i] ELSE p[i - Len(s)]
    BY ConcatProperties
  <2>2. Len(p) \in Nat
    BY LenProperties
  <2> QED
    BY <1>1, <2>1, <2>2
<1>3. CASE Len(h) < MaxStream
  <2>1. h = s
    BY <1>1, <1>3 DEF Beginning
  <2>2. Kept(h, p) = s \o p
    BY <1>3, <2>1 DEF Kept
  <2>3. IsPrefix(s \o p, s \o p)
    <3> DEFINE x == s \o p
    <3>1. x \in Seq(V) /\ Len(x) <= Len(x)
      BY <1>2
    <3> HIDE DEF x
    <3>2. IsPrefix(x, x)
      BY ONLY <3>1, PrefixIs
    <3> QED
      BY <3>2 DEF x
  <2> QED
    BY <2>2, <2>3 DEF Beginning
<1>4. CASE ~(Len(h) < MaxStream)
  <2>1. Kept(h, p) = h
    BY <1>4 DEF Kept
  <2>2. Len(h) <= Len(s) /\ \A i \in 1 .. Len(h) : h[i] = s[i]
    BY PrefixIs DEF Beginning
  <2>3. Len(h) <= Len(s \o p) /\ \A i \in 1 .. Len(h) : h[i] = (s \o p)[i]
    BY <1>1, <1>2, <2>2
  <2>4. IsPrefix(h, s \o p)
    BY <1>2, <2>3, PrefixIs
  <2> QED
    BY <1>1, <1>4, <2>1, <2>4 DEF Beginning
<1> QED
  BY <1>3, <1>4

(* What a packet adds to one direction of a stream.                        *)
Share(k, up, r) == IF r.transport # "" /\ StreamKey(r) = k /\ OfClient(k, r) = up THEN r.payload ELSE <<>>
WentIn(s, k, up) == FlattenSeq([i \in DOMAIN s |-> Share(k, up, s[i])])

(* What went one way goes on with what the packet adds.                    *)
LEMMA WentAppend ==
  ASSUME NEW s, s \in Seq(FilePackets), NEW r, r \in FilePackets, NEW k, NEW up
  PROVE  /\ WentIn(s, k, up) \in Seq(STRING) /\ Share(k, up, r) \in Seq(STRING)
         /\ WentIn(Append(s, r), k, up) = WentIn(s, k, up) \o Share(k, up, r)
<1> DEFINE n == Len(s) + 1
           t == Append(s, r)
           a == [i \in DOMAIN s |-> Share(k, up, s[i])]
           b == [i \in DOMAIN t |-> Share(k, up, t[i])]
           p == Share(k, up, r)
<1>1. \A x \in FilePackets : Share(k, up, x) \in Seq(STRING)
  <2>1. \A x \in FilePackets : x.payload \in Seq(STRING)
    BY RepAssumption
  <2>2. <<>> \in Seq(STRING)
    OBVIOUS
  <2> QED
    BY <2>1, <2>2 DEF Share
<1>2. /\ t \in Seq(FilePackets) /\ Len(t) = n /\ DOMAIN t = 1 .. n /\ DOMAIN s = 1 .. Len(s)
      /\ t[n] = r /\ \A i \in 1 .. Len(s) : t[i] = s[i] /\ s[i] \in FilePackets
  <2>1. /\ t \in Seq(FilePackets) /\ Len(t) = n /\ t[n] = r
        /\ \A i \in 1 .. Len(s) : t[i] = s[i]
    BY AppendProperties
  <2>2. DOMAIN s = 1 .. Len(s) /\ \A i \in 1 .. Len(s) : s[i] \in FilePackets
    BY LenProperties, ElementOfSeq
  <2>3. DOMAIN t = 1 .. n
    BY <2>1, LenProperties
  <2> QED
    BY <2>1, <2>2, <2>3
<1>3. Len(s) \in Nat
  BY LenProperties
<1>4. a \in Seq(Seq(STRING)) /\ Len(a) = Len(s)
  <2>1. a = [i \in 1 .. Len(s) |-> Share(k, up, s[i])] /\ \A i \in 1 .. Len(s) : Share(k, up, s[i]) \in Seq(STRING)
    BY <1>1, <1>2
  <2> QED
    BY ONLY <1>3, <2>1, LenProperties
<1>5. b = Append(a, p)
  <2>1. Append(a, p) \in Seq(Seq(STRING)) /\ Len(Append(a, p)) = Len(s) + 1
        /\ Append(a, p)[Len(s) + 1] = p /\ \A i \in 1 .. Len(s) : Append(a, p)[i] = a[i]
    <3> HIDE DEF a, p
    <3>1. p \in Seq(STRING)
      BY <1>1 DEF p
    <3> QED
      BY <1>4, <3>1, AppendProperties
  <2>2. \A i \in 1 .. Len(s) : a[i] = Share(k, up, t[i])
    BY <1>2
  <2>3. \A i \in 1 .. n : Append(a, p)[i] = Share(k, up, t[i])
    <3> HIDE DEF a, t
    <3> QED
      BY <1>2, <1>3, <2>1, <2>2
  <2>4. Append(a, p) = [i \in 1 .. n |-> Append(a, p)[i]]
    <3> HIDE DEF a, p
    <3> QED
      BY <1>3, <2>1, LenProperties
  <2> HIDE DEF a, p
  <2> QED
    BY <1>2, <2>3, <2>4
<1>6. p \in Seq(STRING)
  BY <1>1
<1>7. FlattenSeq(a) \in Seq(STRING) /\ FlattenSeq(Append(a, p)) = FlattenSeq(a) \o p
  <2> HIDE DEF a, p
  <2> QED
    BY ONLY <1>4, <1>6, FlattenAppend
<1> QED
  BY <1>5, <1>6, <1>7 DEF WentIn

-----------------------------------------------------------------------------
(* The invariant of a report.                                              *)
TypedTables ==
  /\ fed \in Seq(FilePackets)
  /\ agg.total \in Nat
  /\ Table(agg.proto, CountRec) /\ Table(agg.buckets, CountRec) /\ Table(agg.convs, ConvRec)
  /\ Table(agg.sent, Nat) /\ Table(agg.recv, Nat) /\ Table(agg.ipPackets, Nat)
  /\ Table(streams, StreamRec)

(* Every table has the sum of the packets it is about.                     *)
Sums ==
  /\ agg.total = BytesIn(fed, DOMAIN fed)
  /\ TotalOf(PerBytes(agg.convs)) = BytesIn(fed, Transported(fed))
  /\ TotalOf(PerBytes(agg.buckets)) = agg.total /\ TotalOf(PerPackets(agg.buckets)) = Len(fed)
  /\ TotalOf(PerBytes(agg.proto)) = agg.total /\ TotalOf(PerPackets(agg.proto)) = Len(fed)
  /\ TotalOf(agg.sent) = BytesIn(fed, Ips(fed)) /\ TotalOf(agg.recv) = BytesIn(fed, Ips(fed))
  /\ TotalOf(agg.ipPackets) = 2 * Cardinality(Ips(fed))
  /\ TotalOf(PerPayload(streams)) = PayloadIn(fed, Transported(fed))

(* The keys of the tables are those of the packets read, and a             *)
(* conversation counts the packets its session counts.                     *)
KeysMet ==
  /\ DOMAIN agg.convs = {ConvKey(fed[i]) : i \in Transported(fed)}
  /\ DOMAIN streams = {StreamKey(fed[i]) : i \in Transported(fed)}
  /\ \A i \in Transported(fed) : agg.convs[ConvKey(fed[i])].packets = streams[StreamKey(fed[i])].packets

(* The keys a session may have.                                            *)
StreamKeys == {StreamKey(r) : r \in FilePackets}
(* Each head is the beginning of what went its way.                        *)
HeadsKept ==
  \A k \in StreamKeys, up \in BOOLEAN : Beginning(HeadOf(streams, k, up), WentIn(fed, k, up))

(* The inductive invariant of a report.                                    *)
RepInv == TypedTables /\ Sums /\ KeysMet /\ HeadsKept

(* The four parts of the invariant, a packet later: the types,             *)
LEMMA FeedTypes ==
  ASSUME TypedTables, NEW r \in FilePackets, FeedPacket(r)
  PROVE  TypedTables'
<1>1. agg' = AggAdd(agg, r) /\ streams' = StreamsAdd(streams, r) /\ fed' = Append(fed, r)
  BY DEF FeedPacket
<1>2. r.len \in Nat /\ r.ip \in BOOLEAN
  BY PacketType
<1>3. fed' \in Seq(FilePackets)
  <2>1. fed \in Seq(FilePackets)
    BY DEF TypedTables
  <2> QED
    BY <1>1, <2>1, AppendIs
<1>4. agg'.total \in Nat
  <2>1. agg'.total = agg.total + r.len
    BY <1>1 DEF AggAdd
  <2>2. agg.total \in Nat
    BY DEF TypedTables
  <2> QED
    BY ONLY <1>2, <2>1, <2>2
<1>5. Table(agg'.proto, CountRec) /\ Table(agg'.buckets, CountRec)
  <2>1. /\ agg'.proto = With(agg.proto, r.proto, Count(Lookup(agg.proto, r.proto, NoCount), r.len))
        /\ agg'.buckets = With(agg.buckets, r.at, Count(Lookup(agg.buckets, r.at, NoCount), r.len))
    BY <1>1 DEF AggAdd
  <2>2. Table(agg.proto, CountRec) /\ Table(agg.buckets, CountRec)
    BY DEF TypedTables
  <2> QED
    BY <1>2, <2>1, <2>2, CountTable
<1>6. Table(agg'.convs, ConvRec)
  <2>1. agg'.convs = Converse(agg.convs, r) /\ Table(agg.convs, ConvRec)
    BY <1>1 DEF AggAdd, TypedTables
  <2>2. CASE r.transport = ""
    BY <2>1, <2>2 DEF Converse
  <2>3. CASE r.transport # ""
    <3>1. PICK v \in ConvRec : agg'.convs = With(agg.convs, ConvKey(r), v)
      BY <2>1, <2>3, ConverseIs
    <3>2. Table(With(agg.convs, ConvKey(r), v), ConvRec)
      BY <2>1, TableWith
    <3> QED
      BY <3>1, <3>2
  <2> QED
    BY <2>2, <2>3
<1>7. Table(agg'.sent, Nat) /\ Table(agg'.recv, Nat) /\ Table(agg'.ipPackets, Nat)
  <2>1. /\ agg'.sent = IF r.ip THEN Plus(agg.sent, r.src, r.len) ELSE agg.sent
        /\ agg'.recv = IF r.ip THEN Plus(agg.recv, r.dst, r.len) ELSE agg.recv
        /\ agg'.ipPackets = IF r.ip THEN Plus(Plus(agg.ipPackets, r.src, 1), r.dst, 1) ELSE agg.ipPackets
    BY <1>1 DEF AggAdd
  <2>2. Table(agg.sent, Nat) /\ Table(agg.recv, Nat) /\ Table(agg.ipPackets, Nat)
    BY DEF TypedTables
  <2>3. Table(Plus(agg.sent, r.src, r.len), Nat) /\ Table(Plus(agg.recv, r.dst, r.len), Nat)
        /\ Table(Plus(agg.ipPackets, r.src, 1), Nat)
    BY <1>2, <2>2, PlusTable
  <2>4. Table(Plus(Plus(agg.ipPackets, r.src, 1), r.dst, 1), Nat)
    BY <2>3, PlusTable
  <2> QED
    BY <2>1, <2>2, <2>3, <2>4
<1>8. Table(streams', StreamRec)
  <2>1. Table(streams, StreamRec)
    BY DEF TypedTables
  <2>2. CASE r.transport = ""
    BY <1>1, <2>1, <2>2 DEF StreamsAdd
  <2>3. CASE r.transport # ""
    <3>1. PICK v \in StreamRec : streams' = With(streams, StreamKey(r), v)
      BY <1>1, <2>1, <2>3, StreamsAddIs
    <3>2. Table(With(streams, StreamKey(r), v), StreamRec)
      BY <2>1, TableWith
    <3> QED
      BY <3>1, <3>2
  <2> QED
    BY <2>2, <2>3
<1> QED
  BY <1>3, <1>4, <1>5, <1>6, <1>7, <1>8 DEF TypedTables

(* the sums,                                                               *)
LEMMA FeedSums ==
  ASSUME TypedTables, Sums, NEW r \in FilePackets, FeedPacket(r)
  PROVE  Sums'
<1> DEFINE n == Len(fed) + 1
           t == Append(fed, r)
<1>1. agg' = AggAdd(agg, r) /\ streams' = StreamsAdd(streams, r) /\ fed' = t
  BY DEF FeedPacket
<1>2. r.len \in Nat /\ r.ip \in BOOLEAN /\ (r.transport # "" => r.ip)
  BY PacketType
<1>3. fed \in Seq(FilePackets)
  BY DEF TypedTables
<1>4. Len(fed) \in Nat /\ Len(t) = n /\ DOMAIN t = DOMAIN fed \cup {n}
  BY <1>3, AppendIs, LenProperties
<1>5. \A I \in SUBSET DOMAIN fed :
         /\ BytesIn(t, I) = BytesIn(fed, I) /\ BytesIn(t, I \cup {n}) = BytesIn(fed, I) + r.len
         /\ PayloadIn(t, I) = PayloadIn(fed, I) /\ PayloadIn(t, I \cup {n}) = PayloadIn(fed, I) + Len(r.payload)
  BY <1>3, CarriedAppend
<1>6. /\ Transported(t) = IF r.transport # "" THEN Transported(fed) \cup {n} ELSE Transported(fed)
      /\ Ips(t) = IF r.ip THEN Ips(fed) \cup {n} ELSE Ips(fed)
      /\ Cardinality(Ips(t)) = Cardinality(Ips(fed)) + IF r.ip THEN 1 ELSE 0
      /\ Cardinality(Ips(fed)) \in Nat
  BY <1>3, SetsAppend
<1>7. Transported(fed) \in SUBSET DOMAIN fed /\ Ips(fed) \in SUBSET DOMAIN fed
  BY DEF Transported, Ips
<1> HIDE DEF t, n
<1>8. agg'.total = BytesIn(t, DOMAIN t) /\ agg'.total = agg.total + r.len
  <2>1. agg'.total = agg.total + r.len
    BY <1>1 DEF AggAdd
  <2>2. agg.total = BytesIn(fed, DOMAIN fed)
    BY DEF Sums
  <2> QED
    BY <1>4, <1>5, <2>1, <2>2
<1>9. /\ TotalOf(PerBytes(agg'.buckets)) = agg'.total /\ TotalOf(PerPackets(agg'.buckets)) = n
      /\ TotalOf(PerBytes(agg'.proto)) = agg'.total /\ TotalOf(PerPackets(agg'.proto)) = n
  <2>1. /\ agg'.proto = With(agg.proto, r.proto, Count(Lookup(agg.proto, r.proto, NoCount), r.len))
        /\ agg'.buckets = With(agg.buckets, r.at, Count(Lookup(agg.buckets, r.at, NoCount), r.len))
    BY <1>1 DEF AggAdd
  <2>2. Table(agg.proto, CountRec) /\ Table(agg.buckets, CountRec)
    BY DEF TypedTables
  <2>3. /\ TotalOf(PerPackets(agg'.proto)) = TotalOf(PerPackets(agg.proto)) + 1
        /\ TotalOf(PerBytes(agg'.proto)) = TotalOf(PerBytes(agg.proto)) + r.len
        /\ TotalOf(PerPackets(agg'.buckets)) = TotalOf(PerPackets(agg.buckets)) + 1
        /\ TotalOf(PerBytes(agg'.buckets)) = TotalOf(PerBytes(agg.buckets)) + r.len
    <3>1. r.len \in Nat
      BY <1>2
    <3>2. \A f : \A k : Table(f, CountRec) =>
            LET g == With(f, k, Count(Lookup(f, k, NoCount), r.len)) IN
            /\ TotalOf(PerPackets(g)) = TotalOf(PerPackets(f)) + 1
            /\ TotalOf(PerBytes(g)) = TotalOf(PerBytes(f)) + r.len
      BY ONLY <3>1, CountTable
    <3> QED
      BY ONLY <2>1, <2>2, <3>2
  <2>4. /\ TotalOf(PerBytes(agg.buckets)) = agg.total /\ TotalOf(PerPackets(agg.buckets)) = Len(fed)
        /\ TotalOf(PerBytes(agg.proto)) = agg.total /\ TotalOf(PerPackets(agg.proto)) = Len(fed)
    BY DEF Sums
  <2> QED
    BY <1>8, <2>3, <2>4 DEF n
<1>10. TotalOf(PerBytes(agg'.convs)) = BytesIn(t, Transported(t))
  <2>1. agg'.convs = Converse(agg.convs, r) /\ Table(agg.convs, ConvRec)
        /\ TotalOf(PerBytes(agg.convs)) = BytesIn(fed, Transported(fed))
    BY <1>1 DEF AggAdd, TypedTables, Sums
  <2>2. CASE r.transport = ""
    <3>1. agg'.convs = agg.convs
      BY <2>1, <2>2 DEF Converse
    <3> QED
      BY <1>5, <1>6, <1>7, <2>1, <2>2, <3>1
  <2>3. CASE r.transport # ""
    <3> DEFINE k == ConvKey(r)
    <3>1. PICK v \in ConvRec : /\ agg'.convs = With(agg.convs, k, v)
                               /\ v.packets = Lookup(PerPackets(agg.convs), k, 0) + 1
                               /\ v.bytes = Lookup(PerBytes(agg.convs), k, 0) + r.len
      BY <2>1, <2>3, ConverseIs
    <3>2. IsFiniteSet(DOMAIN agg.convs)
          /\ \A x \in DOMAIN agg.convs : agg.convs[x].packets \in Nat /\ agg.convs[x].bytes \in Nat
      BY <2>1 DEF Table, ConvRec
    <3> HIDE DEF k
    <3>3. TotalOf(PerBytes(agg'.convs)) = TotalOf(PerBytes(agg.convs)) + r.len
      <4>1. r.len \in Nat
        BY <1>2
      <4>2. TotalOf(PerBytes(With(agg.convs, k, v))) = TotalOf(PerBytes(agg.convs)) + r.len
        BY ONLY <3>1, <3>2, <4>1, CountColumns
      <4> QED
        BY <3>1, <4>2
    <3>4. BytesIn(t, Transported(t)) = BytesIn(fed, Transported(fed)) + r.len
      BY <1>5, <1>6, <1>7, <2>3
    <3> QED
      BY <2>1, <3>3, <3>4
  <2> QED
    BY <2>2, <2>3
<1>11. /\ TotalOf(agg'.sent) = BytesIn(t, Ips(t)) /\ TotalOf(agg'.recv) = BytesIn(t, Ips(t))
       /\ TotalOf(agg'.ipPackets) = 2 * Cardinality(Ips(t))
  <2>1. /\ agg'.sent = IF r.ip THEN Plus(agg.sent, r.src, r.len) ELSE agg.sent
        /\ agg'.recv = IF r.ip THEN Plus(agg.recv, r.dst, r.len) ELSE agg.recv
        /\ agg'.ipPackets = IF r.ip THEN Plus(Plus(agg.ipPackets, r.src, 1), r.dst, 1) ELSE agg.ipPackets
    BY <1>1 DEF AggAdd
  <2>2. Table(agg.sent, Nat) /\ Table(agg.recv, Nat) /\ Table(agg.ipPackets, Nat)
    BY DEF TypedTables
  <2>3. TotalOf(agg.sent) = BytesIn(fed, Ips(fed)) /\ TotalOf(agg.recv) = BytesIn(fed, Ips(fed))
        /\ TotalOf(agg.ipPackets) = 2 * Cardinality(Ips(fed))
    BY DEF Sums
  <2>4. CASE r.ip
    <3>1. TotalOf(Plus(agg.sent, r.src, r.len)) = TotalOf(agg.sent) + r.len
          /\ TotalOf(Plus(agg.recv, r.dst, r.len)) = TotalOf(agg.recv) + r.len
          /\ TotalOf(Plus(agg.ipPackets, r.src, 1)) = TotalOf(agg.ipPackets) + 1
          /\ Table(Plus(agg.ipPackets, r.src, 1), Nat)
      BY <1>2, <2>2, PlusTable
    <3>2. TotalOf(Plus(Plus(agg.ipPackets, r.src, 1), r.dst, 1)) = TotalOf(Plus(agg.ipPackets, r.src, 1)) + 1
      BY <3>1, PlusTable
    <3>3. BytesIn(t, Ips(t)) = BytesIn(fed, Ips(fed)) + r.len
      BY <1>5, <1>6, <1>7, <2>4
    <3>4. Cardinality(Ips(t)) = Cardinality(Ips(fed)) + 1 /\ Cardinality(Ips(fed)) \in Nat
      BY <1>6, <2>4
    <3>5. TotalOf(agg'.ipPackets) = TotalOf(agg.ipPackets) + 1 + 1
      BY <2>1, <2>4, <3>1, <3>2
    <3>6. TotalOf(agg'.ipPackets) = 2 * Cardinality(Ips(t))
      BY ONLY <2>3, <3>4, <3>5
    <3> QED
      BY <2>1, <2>3, <2>4, <3>1, <3>3, <3>6
  <2>5. CASE ~ r.ip
    <3>1. Ips(t) = Ips(fed)
      BY <1>6, <2>5
    <3> QED
      BY <1>5, <1>7, <2>1, <2>3, <2>5, <3>1
  <2> QED
    BY <2>4, <2>5
<1>12. TotalOf(PerPayload(streams')) = PayloadIn(t, Transported(t))
  <2>1. Table(streams, StreamRec) /\ TotalOf(PerPayload(streams)) = PayloadIn(fed, Transported(fed))
    BY DEF TypedTables, Sums
  <2>2. CASE r.transport = ""
    <3>1. streams' = streams
      BY <1>1, <2>2 DEF StreamsAdd
    <3> QED
      BY <1>5, <1>6, <1>7, <2>1, <2>2, <3>1
  <2>3. CASE r.transport # ""
    <3> DEFINE k == StreamKey(r)
    <3>1. PICK v \in StreamRec : /\ streams' = With(streams, k, v)
                                 /\ v.c2sBytes + v.s2cBytes = Lookup(PerPayload(streams), k, 0) + Len(r.payload)
      BY <1>1, <2>1, <2>3, StreamsAddIs
    <3> HIDE DEF k
    <3> DEFINE m == v.c2sBytes + v.s2cBytes
    <3>2. m \in Int
      BY DEF StreamRec
    <3>3. Table(PerPayload(streams), Int)
      <4>1. \A x \in DOMAIN streams : streams[x].c2sBytes + streams[x].s2cBytes \in Int
        BY <2>1 DEF Table, StreamRec
      <4>2. IsFiniteSet(DOMAIN streams)
        BY <2>1 DEF Table
      <4> QED
        BY <4>1, <4>2 DEF PerPayload, Table
    <3>4. PerPayload(streams') = With(PerPayload(streams), k, m)
      BY <3>1 DEF PerPayload, With
    <3> HIDE DEF m
    <3>5. TotalOf(PerPayload(streams')) = TotalOf(PerPayload(streams)) + m - Lookup(PerPayload(streams), k, 0)
          /\ Lookup(PerPayload(streams), k, 0) \in Int
      BY <3>2, <3>3, <3>4, TotalWith
    <3>6. TotalOf(PerPayload(streams)) \in Int /\ Len(r.payload) \in Nat
      BY <3>3, TotalInt, PacketType
    <3>7. m = Lookup(PerPayload(streams), k, 0) + Len(r.payload)
      BY <3>1 DEF m
    <3>8. TotalOf(PerPayload(streams')) = TotalOf(PerPayload(streams)) + Len(r.payload)
      BY ONLY <3>5, <3>6, <3>7
    <3>9. PayloadIn(t, Transported(t)) = PayloadIn(fed, Transported(fed)) + Len(r.payload)
      BY <1>5, <1>6, <1>7, <2>3
    <3> QED
      BY <2>1, <3>8, <3>9
  <2> QED
    BY <2>2, <2>3
<1> QED
  BY <1>1, <1>4, <1>8, <1>9, <1>10, <1>11, <1>12 DEF Sums

(* the keys,                                                               *)
LEMMA FeedKeys ==
  ASSUME TypedTables, KeysMet, NEW r \in FilePackets, FeedPacket(r)
  PROVE  KeysMet'
<1> DEFINE n == Len(fed) + 1
           t == Append(fed, r)
           ck == ConvKey(r)
           sk == StreamKey(r)
           T == Transported(fed)
<1>1. agg'.convs = Converse(agg.convs, r) /\ streams' = StreamsAdd(streams, r) /\ fed' = t
  BY DEF FeedPacket, AggAdd
<1>2. fed \in Seq(FilePackets) /\ Table(agg.convs, ConvRec) /\ Table(streams, StreamRec)
  BY DEF TypedTables
<1>3. /\ \A i \in T : t[i] = fed[i] /\ fed[i] \in FilePackets
      /\ n \notin T /\ t[n] = r
  <2>1. n \notin DOMAIN fed /\ t[n] = r /\ \A i \in DOMAIN fed : t[i] = fed[i] /\ fed[i] \in FilePackets
    BY <1>2, AppendIs
  <2> HIDE DEF n, t
  <2> QED
    BY <2>1 DEF Transported
<1>4. Transported(t) = IF r.transport # "" THEN T \cup {n} ELSE T
  BY <1>2, SetsAppend
<1>5. /\ DOMAIN agg.convs = {ConvKey(fed[i]) : i \in T}
      /\ DOMAIN streams = {StreamKey(fed[i]) : i \in T}
      /\ \A i \in T : agg.convs[ConvKey(fed[i])].packets = streams[StreamKey(fed[i])].packets
  BY DEF KeysMet
<1> HIDE DEF n, t, T
<1>6. CASE r.transport = ""
  <2>1. agg'.convs = agg.convs /\ streams' = streams
    BY <1>1, <1>6 DEF Converse, StreamsAdd
  <2>2. Transported(t) = T /\ \A i \in T : t[i] = fed[i]
    BY <1>3, <1>4, <1>6
  <2>3. /\ {ConvKey(t[i]) : i \in T} = {ConvKey(fed[i]) : i \in T}
        /\ {StreamKey(t[i]) : i \in T} = {StreamKey(fed[i]) : i \in T}
    BY <2>2
  <2>4. \A i \in T : agg'.convs[ConvKey(t[i])].packets = streams'[StreamKey(t[i])].packets
    BY <1>5, <2>1, <2>2
  <2>5. DOMAIN agg'.convs = {ConvKey(t[i]) : i \in T} /\ DOMAIN streams' = {StreamKey(t[i]) : i \in T}
    BY <1>5, <2>1, <2>3
  <2> QED
    BY ONLY <1>1, <2>2, <2>4, <2>5 DEF KeysMet
<1>7. CASE r.transport # ""
  <2>1. PICK v \in ConvRec :
                 /\ agg'.convs = With(agg.convs, ck, v)
                 /\ v.packets = Lookup(PerPackets(agg.convs), ck, 0) + 1
    BY <1>1, <1>2, <1>7, ConverseIs
  <2>2. PICK w \in StreamRec :
                 /\ streams' = With(streams, sk, w)
                 /\ w.packets = Lookup(PerPackets(streams), sk, 0) + 1
    BY <1>1, <1>2, <1>7, StreamsAddIs
  <2>3. \A i \in T : ConvKey(fed[i]) = ck <=> StreamKey(fed[i]) = sk
    BY <1>3, KeysAgree
  <2> HIDE DEF ck, sk
  <2>4. v.packets = w.packets
    <3>1. CASE ck \in DOMAIN agg.convs
      <4>1. PICK i \in T : ConvKey(fed[i]) = ck
        BY <1>5, <3>1
      <4>2. StreamKey(fed[i]) = sk /\ sk \in DOMAIN streams
        BY <1>5, <2>3, <4>1
      <4>3. agg.convs[ck].packets = streams[sk].packets
        BY <1>5, <4>1, <4>2
      <4>4. Lookup(PerPackets(agg.convs), ck, 0) = agg.convs[ck].packets
            /\ Lookup(PerPackets(streams), sk, 0) = streams[sk].packets
        BY <3>1, <4>2 DEF Lookup, PerPackets
      <4> QED
        BY <2>1, <2>2, <4>3, <4>4
    <3>2. CASE ck \notin DOMAIN agg.convs
      <4>1. sk \notin DOMAIN streams
        BY <1>5, <2>3, <3>2
      <4>2. Lookup(PerPackets(agg.convs), ck, 0) = 0 /\ Lookup(PerPackets(streams), sk, 0) = 0
        BY <3>2, <4>1 DEF Lookup, PerPackets
      <4> QED
        BY <2>1, <2>2, <4>2
    <3> QED
      BY <3>1, <3>2
  <2>5. /\ DOMAIN agg'.convs = DOMAIN agg.convs \cup {ck} /\ DOMAIN streams' = DOMAIN streams \cup {sk}
        /\ agg'.convs[ck] = v /\ streams'[sk] = w
        /\ \A x \in DOMAIN agg.convs : x # ck => agg'.convs[x] = agg.convs[x]
        /\ \A x \in DOMAIN streams : x # sk => streams'[x] = streams[x]
    BY <2>1, <2>2 DEF With
  <2>6. ConvKey(t[n]) = ck /\ StreamKey(t[n]) = sk
    BY <1>3 DEF ck, sk
  <2>7. Transported(t) = T \cup {n}
    BY <1>4, <1>7
  <2>8. DOMAIN agg'.convs = {ConvKey(t[i]) : i \in T \cup {n}}
    BY <1>3, <1>5, <2>5, <2>6
  <2>9. DOMAIN streams' = {StreamKey(t[i]) : i \in T \cup {n}}
    BY <1>3, <1>5, <2>5, <2>6
  <2>10. ASSUME NEW i \in T \cup {n}
         PROVE  agg'.convs[ConvKey(t[i])].packets = streams'[StreamKey(t[i])].packets
    <3>1. CASE i = n
      BY <2>4, <2>5, <2>6, <3>1
    <3>2. CASE i \in T
      <4>1. t[i] = fed[i] /\ ConvKey(fed[i]) \in DOMAIN agg.convs /\ StreamKey(fed[i]) \in DOMAIN streams
            /\ agg.convs[ConvKey(fed[i])].packets = streams[StreamKey(fed[i])].packets
        BY <1>3, <1>5, <3>2
      <4>2. ConvKey(fed[i]) = ck <=> StreamKey(fed[i]) = sk
        BY <2>3, <3>2
      <4> QED
        BY <2>4, <2>5, <4>1, <4>2
    <3> QED
      BY <3>1, <3>2
  <2> QED
    BY <1>1, <2>7, <2>8, <2>9, <2>10 DEF KeysMet
<1> QED
  BY <1>6, <1>7

(* and the heads.                                                          *)
LEMMA FeedHeads ==
  ASSUME TypedTables, HeadsKept, NEW r \in FilePackets, FeedPacket(r)
  PROVE  HeadsKept'
<1>1. streams' = StreamsAdd(streams, r) /\ fed' = Append(fed, r)
  BY DEF FeedPacket
<1>2. fed \in Seq(FilePackets) /\ Table(streams, StreamRec) /\ r.payload \in Seq(STRING)
  BY PacketType DEF TypedTables
<1>3. \A k, up : HeadOf(streams, k, up) \in Seq(STRING)
  BY <1>2, EmptySeq DEF HeadOf, Table, StreamRec
<1> DEFINE sk == StreamKey(r)
<1>4. SUFFICES ASSUME NEW k \in StreamKeys, NEW up \in BOOLEAN
               PROVE  Beginning(HeadOf(streams', k, up), WentIn(fed', k, up))
  BY DEF HeadsKept
<1> DEFINE h == HeadOf(streams, k, up)
           all == WentIn(fed, k, up)
           p == Share(k, up, r)
<1>5. Beginning(h, all) /\ h \in Seq(STRING)
  BY <1>3 DEF HeadsKept
<1>6. all \in Seq(STRING) /\ p \in Seq(STRING) /\ WentIn(fed', k, up) = all \o p
  BY <1>1, <1>2, WentAppend
<1> HIDE DEF all
<1>7. CASE r.transport = "" \/ k # sk
  <2>1. p = <<>>
    BY <1>7 DEF Share
  <2>2. all \o p = all
    BY <1>6, <2>1, ConcatEmptySeq
  <2>3. HeadOf(streams', k, up) = h
    <3>1. CASE r.transport = ""
      BY <1>1, <3>1 DEF StreamsAdd
    <3>2. CASE r.transport # "" /\ k # sk
      <4>1. PICK v : streams' = With(streams, sk, v)
        BY <1>1, <1>2, <3>2, StreamsAddIs
      <4> HIDE DEF sk
      <4> QED
        BY <3>2, <4>1 DEF With, HeadOf
    <3> QED
      BY <1>7, <3>1, <3>2
  <2> QED
    BY <1>5, <1>6, <2>2, <2>3
<1>8. CASE r.transport # "" /\ k = sk
  <2>1. PICK v \in StreamRec :
          /\ streams' = With(streams, sk, v)
          /\ v.c2s = IF OfClient(sk, r) THEN Kept(HeadOf(streams, sk, TRUE), r.payload) ELSE HeadOf(streams, sk, TRUE)
          /\ v.s2c = IF OfClient(sk, r) THEN HeadOf(streams, sk, FALSE) ELSE Kept(HeadOf(streams, sk, FALSE), r.payload)
    BY <1>1, <1>2, <1>8, StreamsAddIs
  <2>2. HeadOf(streams', k, up) = IF up THEN v.c2s ELSE v.s2c
    <3>1. sk \in DOMAIN streams' /\ streams'[sk] = v
      BY <2>1 DEF With
    <3> QED
      BY <1>8, <3>1 DEF HeadOf
  <2>3. OfClient(k, r) \in BOOLEAN
    BY DEF OfClient
  <2>4. CASE OfClient(k, r) = up
    <3>1. p = r.payload
      BY <1>8, <2>4 DEF Share
    <3>2. HeadOf(streams', k, up) = Kept(h, p)
      BY <1>8, <2>1, <2>2, <2>4, <3>1
    <3>3. Beginning(Kept(h, p), all \o p)
      <4> HIDE DEF h, p
      <4> QED
        BY <1>5, <1>6, BeginningKept
    <3> QED
      BY <1>6, <3>2, <3>3
  <2>5. CASE OfClient(k, r) # up
    <3>1. p = <<>>
      BY <2>5 DEF Share
    <3>2. all \o p = all
      BY <1>6, <3>1, ConcatEmptySeq
    <3>3. HeadOf(streams', k, up) = h
      BY <1>8, <2>1, <2>2, <2>3, <2>5
    <3> QED
      BY <1>5, <1>6, <3>2, <3>3
  <2> QED
    BY <2>4, <2>5
<1> QED
  BY <1>7, <1>8

LEMMA RepInitially == RepInit => RepInv
<1> SUFFICES ASSUME RepInit PROVE RepInv
  OBVIOUS
<1>1. /\ agg.total = 0 /\ agg.proto = <<>> /\ agg.buckets = <<>> /\ agg.convs = <<>>
      /\ agg.sent = <<>> /\ agg.recv = <<>> /\ agg.ipPackets = <<>>
      /\ streams = <<>> /\ fed = <<>>
  BY DEF RepInit, NewAggregator
<1>2. DOMAIN fed = {} /\ Transported(fed) = {} /\ Ips(fed) = {} /\ Len(fed) = 0
  BY <1>1 DEF Transported, Ips
<1>3. BytesIn(fed, {}) = 0 /\ PayloadIn(fed, {}) = 0
  <2>1. \A f : DOMAIN f = {} => TotalOf(f) = 0
    BY TotalEmpty
  <2> QED
    BY <2>1 DEF BytesIn, PayloadIn
<1>4. PerBytes(<<>>) = <<>> /\ PerPackets(<<>>) = <<>> /\ PerPayload(<<>>) = <<>>
  <2>1. \A f : f = [x \in DOMAIN f |-> f[x]] /\ DOMAIN f = {} => f = <<>>
    OBVIOUS
  <2>2. DOMAIN <<>> = {}
    OBVIOUS
  <2> QED
    BY <2>2 DEF PerBytes, PerPackets, PerPayload
<1>5. TypedTables
  <2>1. fed \in Seq(FilePackets)
    BY <1>1
  <2> QED
    BY <1>1, <2>1, EmptyTable DEF TypedTables
<1>6. Sums
  <2>1. TotalOf(<<>>) = 0 /\ Cardinality({}) = 0
    BY EmptyTable, FS_EmptySet
  <2>2. Cardinality(Ips(fed)) = 0 /\ 2 * 0 = 0
    BY <1>2, <2>1
  <2>3. PerBytes(agg.convs) = <<>> /\ PerBytes(agg.buckets) = <<>> /\ PerPackets(agg.buckets) = <<>>
        /\ PerBytes(agg.proto) = <<>> /\ PerPackets(agg.proto) = <<>> /\ PerPayload(streams) = <<>>
    BY <1>1, <1>4
  <2>4. BytesIn(fed, DOMAIN fed) = 0 /\ BytesIn(fed, Transported(fed)) = 0 /\ BytesIn(fed, Ips(fed)) = 0
        /\ PayloadIn(fed, Transported(fed)) = 0
    BY <1>2, <1>3
  <2> QED
    BY <1>1, <1>2, <2>1, <2>2, <2>3, <2>4 DEF Sums
<1>7. KeysMet
  <2>1. DOMAIN agg.convs = {} /\ DOMAIN streams = {}
    BY <1>1
  <2> QED
    BY <1>2, <2>1 DEF KeysMet
<1>8. HeadsKept
  <2>1. ASSUME NEW k \in StreamKeys, NEW up \in BOOLEAN
        PROVE  Beginning(HeadOf(streams, k, up), WentIn(fed, k, up))
    <3>1. HeadOf(streams, k, up) = <<>>
      BY <1>1 DEF HeadOf
    <3>2. WentIn(fed, k, up) = <<>>
      <4>1. [i \in DOMAIN fed |-> Share(k, up, fed[i])] = <<>>
        BY <1>2
      <4>2. FlattenSeq(<<>>) = <<>>
        BY DEF FlattenSeq
      <4> QED
        BY <4>1, <4>2 DEF WentIn
    <3>3. IsPrefix(<<>>, <<>>)
      <4>1. <<>> \in Seq(STRING) /\ Len(<<>>) = 0
        BY EmptySeq
      <4>2. SubSeq(<<>>, 1, 0) = <<>>
        BY SubSeqEmpty
      <4> QED
        BY <4>1, <4>2 DEF IsPrefix
    <3> QED
      BY <3>1, <3>2, <3>3 DEF Beginning
  <2> QED
    BY <2>1 DEF HeadsKept
<1> QED
  BY <1>5, <1>6, <1>7, <1>8 DEF RepInv

LEMMA RepStep == RepInv /\ [RepNext]_repVars => RepInv'
<1> SUFFICES ASSUME RepInv, [RepNext]_repVars PROVE RepInv'
  OBVIOUS
<1>1. ASSUME NEW r \in FilePackets, FeedPacket(r) PROVE RepInv'
  BY <1>1, FeedTypes, FeedSums, FeedKeys, FeedHeads DEF RepInv
<1>2. CASE UNCHANGED <<agg, streams, fed>>
  BY <1>2 DEF RepInv, TypedTables, Sums, KeysMet, HeadsKept
<1>3. ASSUME NEW how \in {"eof", "error"}, EndFile(how) PROVE RepInv'
  BY <1>2, <1>3 DEF EndFile
<1>4. CASE UNCHANGED repVars
  BY <1>2, <1>4 DEF repVars
<1> QED
  BY <1>1, <1>3, <1>4 DEF RepNext

(* What the invariant says of a report.                                    *)
LEMMA AddsUp == RepInv => ReportAddsUp
<1> SUFFICES ASSUME Sums PROVE ReportAddsUp
  BY DEF RepInv
<1>1. /\ \A I : TotalOf([i \in I |-> fed[i].len]) = BytesIn(fed, I)
      /\ TotalOf([i \in Transported(fed) |-> Len(fed[i].payload)]) = PayloadIn(fed, Transported(fed))
  BY DEF BytesIn, PayloadIn
<1>2. {i \in DOMAIN fed : fed[i].transport # ""} = Transported(fed) /\ {i \in DOMAIN fed : fed[i].ip} = Ips(fed)
  BY DEF Transported, Ips
<1>3. /\ \A f : [k \in DOMAIN f |-> f[k].bytes] = PerBytes(f) /\ [k \in DOMAIN f |-> f[k].packets] = PerPackets(f)
      /\ [k \in DOMAIN streams |-> streams[k].c2sBytes + streams[k].s2cBytes] = PerPayload(streams)
  BY DEF PerBytes, PerPackets, PerPayload
<1> QED
  BY <1>1, <1>2, <1>3 DEF Sums, ReportAddsUp

(* The two key sets have one size, and each conversation has its session.  *)
LEMMA EachOnce == RepInv => OneSessionEach
<1> SUFFICES ASSUME RepInv PROVE OneSessionEach
  OBVIOUS
<1> DEFINE T == Transported(fed)
<1>1. \A i \in T : fed[i] \in FilePackets
  <2>1. fed \in Seq(FilePackets)
    BY DEF RepInv, TypedTables
  <2>2. DOMAIN fed = 1 .. Len(fed) /\ \A i \in 1 .. Len(fed) : fed[i] \in FilePackets
    BY <2>1, LenProperties, ElementOfSeq
  <2> QED
    BY <2>2 DEF Transported
<1>2. /\ DOMAIN agg.convs = {ConvKey(fed[i]) : i \in T}
      /\ DOMAIN streams = {StreamKey(fed[i]) : i \in T}
      /\ \A i \in T : agg.convs[ConvKey(fed[i])].packets = streams[StreamKey(fed[i])].packets
      /\ IsFiniteSet(DOMAIN agg.convs)
  BY DEF RepInv, KeysMet, TypedTables, Table
<1>3. \A i, j \in T : ConvKey(fed[i]) = ConvKey(fed[j]) <=> StreamKey(fed[i]) = StreamKey(fed[j])
  BY <1>1, KeysAgree
<1> HIDE DEF T
<1>4. Cardinality(DOMAIN streams) = Cardinality(DOMAIN agg.convs)
  <2> DEFINE A == DOMAIN agg.convs
             B == DOMAIN streams
             at(c) == CHOOSE i \in T : ConvKey(fed[i]) = c
             f == [c \in A |-> StreamKey(fed[at(c)])]
  <2>1. \A c \in A : at(c) \in T /\ ConvKey(fed[at(c)]) = c
    BY <1>2
  <2> HIDE DEF at
  <2>2. \A c \in A : f[c] \in B
    BY <1>2, <2>1
  <2>3. \A c, d \in A : f[c] = f[d] => c = d
    BY <1>3, <2>1
  <2>4. ASSUME NEW k \in B PROVE \E c \in A : f[c] = k
    <3>1. PICK i \in T : k = StreamKey(fed[i])
      BY <1>2
    <3>2. ConvKey(fed[i]) \in A
      BY <1>2
    <3> QED
      BY <1>3, <2>1, <3>1, <3>2
  <2>5. f \in [A -> B]
    BY <2>2
  <2> HIDE DEF f, A, B
  <2>6. f \in Bijection(A, B)
    BY <2>3, <2>4, <2>5 DEF Bijection, Injection, Surjection, IsInjective
  <2>7. IsFiniteSet(A)
    BY <1>2 DEF A
  <2>8. Cardinality(B) = Cardinality(A)
    BY <2>6, <2>7, FS_Bijection DEF ExistsBijection
  <2> QED
    BY <2>8 DEF A, B
<1> DEFINE ends(k) == {<<k.a, k.aPort>>, <<k.b, k.bPort>>}
           ofSession(k) == {<<k.client, k.clientPort>>, <<k.server, k.serverPort>>}
<1>5. ASSUME NEW c \in DOMAIN agg.convs
      PROVE  \E k \in DOMAIN streams : /\ k.transport = c.transport /\ ofSession(k) = ends(c)
                                       /\ streams[k].packets = agg.convs[c].packets
  <2>1. PICK i \in T : c = ConvKey(fed[i])
    BY <1>2
  <2> DEFINE k == StreamKey(fed[i])
             r == fed[i]
  <2>2. k \in DOMAIN streams /\ streams[k].packets = agg.convs[c].packets
    BY <1>2, <2>1
  <2>3. c.transport = r.transport /\ ends(c) = {<<r.src, r.sport>>, <<r.dst, r.dport>>}
    <3>1. c = ConvKey(r)
      BY <2>1
    <3> HIDE DEF r
    <3> QED
      BY ONLY <3>1 DEF ConvKey
  <2>4. k.transport = r.transport /\ ofSession(k) = {<<r.src, r.sport>>, <<r.dst, r.dport>>}
    <3>1. k = StreamKey(r)
      OBVIOUS
    <3> HIDE DEF r, k
    <3> QED
      BY ONLY <3>1 DEF StreamKey
  <2> HIDE DEF k, r, ends, ofSession
  <2> QED
    BY <2>2, <2>3, <2>4
<1> QED
  BY <1>4, <1>5 DEF OneSessionEach

(* Heads are the beginnings FlattenSeq gives.                              *)
LEMMA Unbroken == RepInv => HeadsUnbroken
<1> SUFFICES ASSUME RepInv PROVE HeadsUnbroken
  OBVIOUS
<1>1. DOMAIN streams \subseteq StreamKeys
  <2>1. fed \in Seq(FilePackets)
    BY DEF RepInv, TypedTables
  <2>2. DOMAIN fed = 1 .. Len(fed) /\ \A i \in 1 .. Len(fed) : fed[i] \in FilePackets
    BY <2>1, LenProperties, ElementOfSeq
  <2>3. DOMAIN streams = {StreamKey(fed[i]) : i \in Transported(fed)}
    BY DEF RepInv, KeysMet
  <2> QED
    BY <2>2, <2>3 DEF Transported, StreamKeys
<1>2. ASSUME NEW k \in DOMAIN streams, NEW up \in BOOLEAN
      PROVE  Beginning(IF up THEN streams[k].c2s ELSE streams[k].s2c, WentIn(fed, k, up))
  <2>1. Beginning(HeadOf(streams, k, up), WentIn(fed, k, up))
    BY <1>1 DEF RepInv, HeadsKept
  <2> QED
    BY <2>1 DEF HeadOf
<1>3. \A k \in DOMAIN streams : /\ Beginning(streams[k].c2s, WentIn(fed, k, TRUE))
                                /\ Beginning(streams[k].s2c, WentIn(fed, k, FALSE))
  BY <1>2
<1> QED
  BY <1>3 DEF HeadsUnbroken, Beginning, WentIn, Share, OfClient

(* Whatever packets a file holds, in whatever order, the tables of its     *)
(* report agree with each other and with the packets, each conversation is *)
(* one session, and what is kept of a direction is its beginning           *)
(* (analyze.go aggregator.add, sessions.go streamTable.add).               *)
THEOREM ReportIsFaithful == RepSpec => []ReportFaithful
<1>1. RepInv => ReportFaithful
  BY AddsUp, EachOnce, Unbroken DEF ReportFaithful
<1> QED
  BY RepInitially, RepStep, <1>1, PTL DEF RepSpec

(* Of a finite set that is not empty, one has the most.                    *)
LEMMA OneHasMost ==
  ASSUME NEW D, IsFiniteSet(D), D # {}, NEW b, \A x \in D : b[x] \in Int
  PROVE  \E x \in D : \A y \in D : b[x] >= b[y]
<1> DEFINE Most(S) == \E x \in S : \A y \in S : b[x] >= b[y]
           Wrong == {S \in SUBSET D : S # {} /\ ~Most(S)}
<1>1. SUFFICES ASSUME Wrong # {} PROVE FALSE
  BY <1>1
<1>2. PICK S \in Wrong : \A x \in S : S \ {x} \notin Wrong
  <2>1. Wrong \in SUBSET SUBSET D
    OBVIOUS
  <2> HIDE DEF Wrong
  <2> QED
    BY <1>1, <2>1, SmallestWrong
<1>3. PICK x \in S : TRUE
  BY <1>2
<1>4. \A y \in S : b[y] \in Int
  BY <1>2
<1>5. CASE S \ {x} = {}
  <2>1. \A y \in S : y = x
    BY <1>5
  <2> QED
    BY <1>2, <1>3, <1>4, <2>1
<1>6. CASE S \ {x} # {}
  <2>1. Most(S \ {x})
    BY <1>2, <1>3, <1>6
  <2>2. PICK m \in S \ {x} : \A y \in S \ {x} : b[m] >= b[y]
    BY <2>1
  <2>3. CASE b[m] >= b[x]
    <3>1. \A y \in S : b[m] >= b[y]
      BY <2>2, <2>3
    <3> QED
      BY <1>2, <2>2, <3>1
  <2>4. CASE ~(b[m] >= b[x])
    <3>1. \A y \in S \ {x} : b[y] \in Int /\ b[m] \in Int /\ b[x] \in Int /\ b[m] >= b[y]
      BY <1>3, <1>4, <2>2
    <3>2. \A y \in S \ {x} : b[x] >= b[y]
      BY <2>4, <3>1
    <3>3. b[x] >= b[x]
      BY <1>3, <1>4
    <3> QED
      BY <1>2, <1>3, <3>2, <3>3
  <2> QED
    BY <2>3, <2>4
<1> QED
  BY <1>5, <1>6

(* Of a finite set there are n that have at least as much as the others.   *)
LEMMA TopExists ==
  ASSUME NEW D, IsFiniteSet(D), NEW b, \A x \in D : b[x] \in Int, NEW n \in Nat, n <= Cardinality(D)
  PROVE  \E T \in SUBSET D : Cardinality(T) = n /\ \A x \in T, y \in D \ T : b[x] >= b[y]
<1> DEFINE Top(m) == \E T \in SUBSET D : Cardinality(T) = m /\ \A x \in T, y \in D \ T : b[x] >= b[y]
           Wrong == {m \in Nat : m <= Cardinality(D) /\ ~Top(m)}
<1>1. SUFFICES ASSUME Wrong # {} PROVE FALSE
  BY <1>1
<1>2. PICK m \in Wrong : \A k \in Wrong : m <= k
  <2>1. Wrong \in SUBSET Nat
    OBVIOUS
  <2> HIDE DEF Wrong
  <2> QED
    BY <1>1, <2>1, LeastNat
<1>3. Cardinality(D) \in Nat
  BY FS_CardinalityType
<1>4. CASE m = 0
  <2>1. {} \in SUBSET D /\ Cardinality({}) = 0
    BY FS_EmptySet
  <2>2. Top(0)
    BY <2>1
  <2> QED
    BY <1>2, <1>4, <2>2
<1>5. CASE m # 0
  <2>1. Top(m - 1)
    <3> HIDE DEF Top
    <3>1. m - 1 \in Nat /\ m - 1 <= Cardinality(D) /\ ~(m <= m - 1)
      BY <1>2, <1>3, <1>5
    <3> QED
      BY <1>2, <3>1
  <2>2. PICK T \in SUBSET D : Cardinality(T) = m - 1 /\ \A x \in T, y \in D \ T : b[x] >= b[y]
    BY <2>1
  <2>3. IsFiniteSet(T) /\ IsFiniteSet(D \ T)
    BY FS_Subset
  <2>4. D \ T # {}
    <3>1. m <= Cardinality(D) /\ m \in Nat
      BY <1>2
    <3>2. Cardinality(T) # Cardinality(D)
      BY <1>3, <2>2, <3>1
    <3> QED
      BY <3>2
  <2>5. PICK z \in D \ T : \A y \in D \ T : b[z] >= b[y]
    BY <2>3, <2>4, OneHasMost
  <2> DEFINE U == T \cup {z}
  <2>6. U \in SUBSET D /\ Cardinality(U) = m
    <3>1. Cardinality(T \cup {z}) = Cardinality(T) + 1
      BY <2>3, <2>5, FS_AddElement
    <3> QED
      BY <1>2, <2>2, <2>5, <3>1
  <2>7. \A x \in U, y \in D \ U : b[x] >= b[y]
    BY <2>2, <2>5
  <2>8. Top(m)
    BY <2>6, <2>7
  <2> QED
    BY <1>2, <2>8
<1> QED
  BY <1>4, <1>5

(* The bounds of a report: the packets of a file, how it ends, and the     *)
(* order in which the sessions are listed.                                 *)
Within == Len(fed) <= MaxPackets /\ ended \in {"no", "eof", "error"}
          /\ \E V : order \in Seq(V)
          /\ {order[i] : i \in 1 .. Len(order)} = DOMAIN streams

LEMMA WithinStep == TypedTables /\ Within /\ [RepNext]_repVars => Within'
<1> SUFFICES ASSUME TypedTables, Within, [RepNext]_repVars PROVE Within'
  OBVIOUS
<1>1. ASSUME NEW r \in FilePackets, FeedPacket(r) PROVE Within'
  <2>1. fed' = Append(fed, r) /\ Len(fed) < MaxPackets /\ ended' = ended /\ fed \in Seq(FilePackets)
    BY <1>1 DEF FeedPacket, TypedTables
  <2>2. Len(fed') <= MaxPackets
    <3>1. Len(fed') = Len(fed) + 1 /\ Len(fed) \in Nat /\ MaxPackets \in Nat
      BY <2>1, AppendIs, LenProperties, RepAssumption
    <3> QED
      BY <2>1, <3>1
  <2>3. PICK V : order \in Seq(V)
    BY DEF Within
  <2> DEFINE k == StreamKey(r)
  <2>4. order' = (IF r.transport = "" \/ k \in DOMAIN streams THEN order ELSE Append(order, k))
        /\ streams' = StreamsAdd(streams, r)
    BY <1>1 DEF FeedPacket
  <2>5. DOMAIN streams' = IF r.transport = "" THEN DOMAIN streams ELSE DOMAIN streams \cup {k}
    BY <2>4 DEF StreamsAdd, With
  <2> HIDE DEF k
  <2>6. CASE r.transport = "" \/ k \in DOMAIN streams
    <3>1. order' = order /\ DOMAIN streams' = DOMAIN streams
      BY <2>4, <2>5, <2>6
    <3> QED
      BY <2>1, <2>2, <2>3, <3>1 DEF Within
  <2>7. CASE ~(r.transport = "" \/ k \in DOMAIN streams)
    <3> DEFINE W == V \cup {k}
    <3>1. order \in Seq(W) /\ k \in W
      BY <2>3
    <3> HIDE DEF W
    <3>2. order' = Append(order, k) /\ DOMAIN streams' = DOMAIN streams \cup {k}
      BY <2>4, <2>5, <2>7
    <3>3. order' \in Seq(W) /\ Len(order') = Len(order) + 1 /\ order'[Len(order) + 1] = k
          /\ (\A i \in 1 .. Len(order) : order'[i] = order[i]) /\ Len(order) \in Nat
      BY <3>1, <3>2, AppendProperties, LenProperties
    <3>4. {order'[i] : i \in 1 .. Len(order) + 1} = {order[i] : i \in 1 .. Len(order)} \cup {k}
      BY <3>3
    <3>5. {order[i] : i \in 1 .. Len(order)} = DOMAIN streams
      BY DEF Within
    <3>6. {order'[i] : i \in 1 .. Len(order')} = DOMAIN streams'
      BY <3>2, <3>3, <3>4, <3>5
    <3>7. ended' \in {"no", "eof", "error"}
      BY <2>1 DEF Within
    <3> QED
      BY <2>2, <3>3, <3>6, <3>7 DEF Within
  <2> QED
    BY <2>6, <2>7
<1>2. ASSUME NEW how \in {"eof", "error"}, EndFile(how) PROVE Within'
  BY <1>2 DEF EndFile, Within
<1>3. CASE UNCHANGED repVars
  BY <1>3 DEF repVars, Within
<1> QED
  BY <1>1, <1>2, <1>3 DEF RepNext

(* There is always a list of the busiest.                                  *)
LEMMA TalkersListed == TypedTables => TalkerLists # {}
<1> SUFFICES ASSUME TypedTables PROVE TalkerLists # {}
  OBVIOUS
<1> DEFINE D == DOMAIN agg.ipPackets
           b == [x \in D |-> BytesOf(x)]
           n == IF Cardinality(D) <= MaxTalkers THEN Cardinality(D) ELSE MaxTalkers
<1>1. IsFiniteSet(D) /\ \A x \in D : b[x] \in Int
  <2>1. Table(agg.sent, Nat) /\ Table(agg.recv, Nat) /\ Table(agg.ipPackets, Nat)
    BY DEF TypedTables
  <2>2. \A f, x : Table(f, Nat) => Lookup(f, x, 0) \in Nat
    BY DEF Lookup, Table
  <2>3. \A x : Lookup(agg.sent, x, 0) \in Nat /\ Lookup(agg.recv, x, 0) \in Nat
    BY <2>1, <2>2
  <2>4. \A x : BytesOf(x) \in Int
    BY <2>3 DEF BytesOf
  <2> QED
    BY <2>1, <2>4 DEF Table
<1>2. n \in Nat /\ n <= Cardinality(D)
  <2>1. Cardinality(D) \in Nat
    <3> HIDE DEF D
    <3> QED
      BY <1>1, FS_CardinalityType
  <2>2. MaxTalkers \in Nat
    BY RepAssumption
  <2> QED
    BY ONLY <2>1, <2>2
<1>3. \E T \in SUBSET D : Cardinality(T) = n /\ \A x \in T, y \in D \ T : b[x] >= b[y]
  <2> HIDE DEF D, b, n
  <2> QED
    BY <1>1, <1>2, TopExists
<1>4. PICK T \in SUBSET D : Cardinality(T) = n /\ \A x \in T, y \in D \ T : b[x] >= b[y]
  BY <1>3
<1>5. \A x \in T, y \in D \ T : BytesOf(x) >= BytesOf(y)
  BY <1>4
<1> QED
  BY <1>4, <1>5 DEF TalkerLists

(* A report can be drawn at any time: the tables are of their types, the   *)
(* streams are listed once met, and there is a list of the busiest.        *)
THEOREM ReportTypes == RepSpec => []RepTypeOK
<1>1. RepInit => Within
  <2>1. MaxPackets \in Nat
    BY RepAssumption
  <2>4. 0 <= MaxPackets
    BY ONLY <2>1
  <2>5. <<>> \in Seq({}) /\ Len(<<>>) = 0 /\ DOMAIN <<>> = {}
    BY EmptySeq
  <2>2. RepInit => fed = <<>> /\ order = <<>> /\ streams = <<>> /\ ended = "no"
    BY DEF RepInit
  <2>3. {order[i] : i \in 1 .. 0} = {}
    OBVIOUS
  <2> QED
    BY <2>4, <2>5, <2>2, <2>3 DEF Within
<1>2. RepInv /\ Within => RepTypeOK
  BY TalkersListed DEF RepTypeOK, RepInv, Within, TypedTables
<1>3. RepInv /\ Within /\ [RepNext]_repVars => Within'
  BY WithinStep DEF RepInv
<1> QED
  BY RepInitially, RepStep, <1>1, <1>2, <1>3, PTL DEF RepSpec

(* The values a finite set takes are finitely many.                        *)
LEMMA ImageFinite ==
  ASSUME NEW S, IsFiniteSet(S), NEW key
  PROVE  IsFiniteSet({key[i] : i \in S}) /\ Cardinality({key[i] : i \in S}) <= Cardinality(S)
<1> DEFINE T == {key[i] : i \in S}
           g == [i \in S |-> key[i]]
<1>1. g \in Surjection(S, T)
  BY DEF Surjection
<1> QED
  BY <1>1, FS_Surjection

-----------------------------------------------------------------------------
(* Volumes: sums over the rows a view reads, here of any table b of        *)
(* numbers over a finite set.                                              *)
Vol(b, I) == TotalOf([i \in I |-> b[i]])

(* A row taken out leaves a volume smaller by its bytes.                   *)
LEMMA VolSplit ==
  ASSUME NEW D, IsFiniteSet(D), NEW b, \A i \in D : b[i] \in Nat, NEW I \in SUBSET D, NEW x \in I
  PROVE  Vol(b, I) = b[x] + Vol(b, I \ {x})
<1> DEFINE f == [i \in I |-> b[i]]
<1>1. Table(f, Int) /\ x \in DOMAIN f /\ f[x] = b[x]
  BY FS_Subset DEF Table
<1>2. Without(f, x) = [i \in I \ {x} |-> b[i]]
  BY DEF Without
<1> HIDE DEF f
<1>3. TotalOf(f) = f[x] + TotalOf(Without(f, x))
  BY <1>1, TotalSplit
<1> QED
  BY <1>1, <1>2, <1>3 DEF Vol, f

LEMMA VolEmpty == \A b : Vol(b, {}) = 0
<1> SUFFICES ASSUME NEW b PROVE Vol(b, {}) = 0
  OBVIOUS
<1>1. DOMAIN [i \in {} |-> b[i]] = {}
  OBVIOUS
<1> QED
  BY <1>1, TotalEmpty DEF Vol

(* More rows have no less volume.                                          *)
LEMMA VolMore ==
  ASSUME NEW D, IsFiniteSet(D), NEW b, \A i \in D : b[i] \in Nat, NEW I \in SUBSET D
  PROVE  /\ Vol(b, I) \in Nat
         /\ \A J \in SUBSET I : Vol(b, J) <= Vol(b, I)
<1> DEFINE Right(S) == Vol(b, S) \in Nat /\ \A J \in SUBSET S : Vol(b, J) \in Nat /\ Vol(b, J) <= Vol(b, S)
           Wrong == {S \in SUBSET D : ~ Right(S)}
<1>1. SUFFICES ASSUME Wrong # {} PROVE FALSE
  BY <1>1
<1>2. PICK S \in Wrong : \A x \in S : S \ {x} \notin Wrong
  <2>1. Wrong \in SUBSET SUBSET D
    OBVIOUS
  <2> HIDE DEF Wrong
  <2> QED
    BY <1>1, <2>1, SmallestWrong
<1>3. \A x \in S : S \ {x} \in SUBSET D /\ Right(S \ {x})
  BY <1>2
<1>4. \A x \in S : Vol(b, S) = b[x] + Vol(b, S \ {x}) /\ b[x] \in Nat
  BY <1>2, VolSplit
<1> HIDE DEF Wrong
<1>5. Vol(b, S) \in Nat
  <2>1. CASE S = {}
    <3>1. Vol(b, {}) = 0
      BY VolEmpty
    <3>2. Vol(b, S) = 0
      BY <2>1, <3>1
    <3> QED
      BY <3>2
  <2>2. CASE S # {}
    <3>1. PICK x \in S : TRUE
      BY <2>2
    <3>2. Vol(b, S \ {x}) \in Nat
      BY <1>3
    <3>3. Vol(b, S) = b[x] + Vol(b, S \ {x}) /\ b[x] \in Nat
      BY <1>4
    <3> QED
      BY <3>2, <3>3
  <2> QED
    BY <2>1, <2>2
<1>6. ASSUME NEW J \in SUBSET S PROVE Vol(b, J) \in Nat /\ Vol(b, J) <= Vol(b, S)
  <2>1. CASE J = S
    BY <1>5, <2>1
  <2>2. CASE J # S
    <3>1. PICK x \in S : x \notin J
      BY <2>2
    <3>2. J \in SUBSET (S \ {x}) /\ Right(S \ {x})
      BY <1>3, <3>1
    <3>3. Vol(b, J) \in Nat /\ Vol(b, J) <= Vol(b, S \ {x}) /\ Vol(b, S \ {x}) \in Nat
      BY <3>2
    <3> QED
      BY <1>4, <3>1, <3>3
  <2> QED
    BY <2>1, <2>2
<1> QED
  BY <1>2, <1>5, <1>6 DEF Wrong

(* Nothing but zeros adds up to zero.                                      *)
LEMMA NothingTotals ==
  ASSUME NEW K, IsFiniteSet(K)
  PROVE  TotalOf([k \in K |-> 0]) = 0
<1> DEFINE b == [k \in K |-> 0]
           Wrong == {S \in SUBSET K : Vol(b, S) # 0}
<1>1. K \in Wrong => Wrong # {}
  OBVIOUS
<1>2. SUFFICES ASSUME Wrong # {} PROVE FALSE
  BY <1>2 DEF Vol
<1>3. PICK S \in Wrong : \A x \in S : S \ {x} \notin Wrong
  <2>1. Wrong \in SUBSET SUBSET K
    OBVIOUS
  <2> HIDE DEF Wrong
  <2> QED
    BY <1>2, <2>1, SmallestWrong
<1>4. \A k \in K : b[k] = 0 /\ b[k] \in Nat
  OBVIOUS
<1> HIDE DEF b
<1>5. \A x \in S : Vol(b, S) = b[x] + Vol(b, S \ {x})
  BY <1>3, <1>4, VolSplit
<1>6. \A x \in S : Vol(b, S \ {x}) = 0
  BY <1>3
<1>7. Vol(b, {}) = 0 /\ Vol(b, S) # 0
  BY <1>3, VolEmpty
<1>8. S # {}
  BY <1>7
<1>9. PICK x \in S : TRUE
  BY <1>8
<1>10. Vol(b, S) = b[x] + Vol(b, S \ {x}) /\ Vol(b, S \ {x}) = 0 /\ b[x] = 0
  BY <1>3, <1>4, <1>5, <1>6
<1> QED
  BY <1>7, <1>10

(* Rows sorted by a key account for the same volume, whatever the key.     *)
LEMMA Partition ==
  ASSUME NEW D, IsFiniteSet(D), NEW b, \A i \in D : b[i] \in Nat,
         NEW I \in SUBSET D, NEW K, IsFiniteSet(K), NEW key, \A i \in I : key[i] \in K
  PROVE  TotalOf([k \in K |-> Vol(b, {i \in I : key[i] = k})]) = Vol(b, I)
<1> DEFINE Of(S, k) == {i \in S : key[i] = k}
           g(S) == [k \in K |-> Vol(b, Of(S, k))]
           Wrong == {S \in SUBSET I : TotalOf(g(S)) # Vol(b, S)}
<1>1. SUFFICES ASSUME Wrong # {} PROVE FALSE
  BY <1>1
<1>2. PICK S \in Wrong : \A x \in S : S \ {x} \notin Wrong
  <2>1. Wrong \in SUBSET SUBSET I /\ IsFiniteSet(I)
    BY FS_Subset
  <2> HIDE DEF Wrong
  <2> QED
    BY <1>1, <2>1, SmallestWrong
<1>3. S \in SUBSET D
  BY <1>2
<1>4. \A T \in SUBSET D, k \in K : Vol(b, Of(T, k)) \in Nat
  <2>1. \A T \in SUBSET D, k \in K : Of(T, k) \in SUBSET D
    OBVIOUS
  <2> HIDE DEF Of
  <2> QED
    BY <2>1, VolMore
<1>5. CASE S = {}
  <2>1. \A k \in K : Of(S, k) = {}
    BY <1>5
  <2>2. g(S) = [k \in K |-> 0]
    BY <2>1, VolEmpty
  <2>3. TotalOf(g(S)) = Vol(b, S)
    BY <1>5, <2>2, NothingTotals, VolEmpty
  <2> QED
    BY <1>2, <2>3
<1>6. ASSUME NEW x \in S PROVE FALSE
  <2> DEFINE R == S \ {x}
             y == key[x]
             h == g(R)
  <2>1. R \in SUBSET D /\ TotalOf(h) = Vol(b, R) /\ y \in K /\ x \in D
    BY <1>2
  <2>2. Of(S, y) \ {x} = Of(R, y) /\ x \in Of(S, y) /\ Of(S, y) \in SUBSET D
    BY <1>3
  <2>3. \A k \in K \ {y} : Of(S, k) = Of(R, k)
    OBVIOUS
  <2>4. Vol(b, Of(S, y)) = b[x] + Vol(b, Of(R, y))
    <3> HIDE DEF Of, y, R
    <3> QED
      BY <2>2, VolSplit
  <2>5. Vol(b, S) = b[x] + Vol(b, R)
    BY <1>3, VolSplit
  <2>6. \A k \in K : h[k] = Vol(b, Of(R, k)) /\ h[k] \in Nat
    <3> HIDE DEF Of, R
    <3> QED
      BY <1>4, <2>1
  <2>7. DOMAIN h = K /\ h = [k \in K |-> h[k]]
    OBVIOUS
  <2>8. g(S) = With(h, y, b[x] + h[y])
    <3>1. \A k \in K : Vol(b, Of(S, k)) = IF k = y THEN b[x] + h[y] ELSE h[k]
      <4> HIDE DEF Of, R, h, y
      <4> QED
        BY <2>1, <2>3, <2>4, <2>6
    <3>2. K \cup {y} = K
      BY <2>1
    <3> HIDE DEF h, Of, y, R
    <3>3. With(h, y, b[x] + h[y]) = [k \in K |-> IF k = y THEN b[x] + h[y] ELSE h[k]]
      BY <2>7, <3>2 DEF With
    <3> QED
      BY <3>1, <3>3
  <2>9. Table(h, Int)
    <3> HIDE DEF h, Of, y, R
    <3> QED
      BY <2>6, <2>7 DEF Table
  <2>10. Lookup(h, y, 0) = h[y] /\ h[y] \in Nat /\ b[x] \in Nat
    <3> HIDE DEF h, Of, y, R
    <3> QED
      BY <2>1, <2>6, <2>7 DEF Lookup
  <2>11. TotalOf(g(S)) = TotalOf(h) + (b[x] + h[y]) - h[y]
    <3> HIDE DEF h, Of, y, R, g
    <3>1. b[x] + h[y] \in Int
      BY <2>10
    <3>2. TotalOf(With(h, y, b[x] + h[y])) = TotalOf(h) + (b[x] + h[y]) - Lookup(h, y, 0)
      BY <2>9, <3>1, TotalWith
    <3> QED
      BY <2>8, <2>10, <3>2
  <2>12. Vol(b, R) \in Nat
    BY <2>1, VolMore
  <2>13. TotalOf(g(S)) = Vol(b, S)
    <3> HIDE DEF h, y, R, g
    <3> QED
      BY <2>1, <2>5, <2>10, <2>11, <2>12
  <2> QED
    BY <1>2, <2>13
<1> QED
  BY <1>5, <1>6

-----------------------------------------------------------------------------
(* The rows of the store.                                                  *)
AnyRow == LiveRows \cup UNION {{Files[f][i] : i \in 1 .. Len(Files[f])} : f \in DOMAIN Files}
StoredRows == {Stored(c, ts, iface) : c \in AnyRow, ts \in Nat, iface \in Nics \cup DOMAIN Files}
RowsTyped == rows \in Seq(StoredRows)

(* Rows are numbered, and have bytes and a time.                           *)
LEMMA RowFacts ==
  ASSUME RowsTyped
  PROVE  /\ DOMAIN rows = 1 .. Len(rows) /\ Len(rows) \in Nat /\ IsFiniteSet(DOMAIN rows)
         /\ \A i \in DOMAIN rows : rows[i].bytes \in Nat /\ rows[i].ts \in Nat
<1>1. DOMAIN rows = 1 .. Len(rows) /\ Len(rows) \in Nat /\ \A i \in DOMAIN rows : rows[i] \in StoredRows
  BY DEF RowsTyped
<1>2. IsFiniteSet(1 .. Len(rows))
  BY <1>1, FS_Interval
<1>3. \A c \in AnyRow : c.bytes \in Nat
  BY OverAssumption DEF AnyRow
<1>4. \A r \in StoredRows : r.bytes \in Nat /\ r.ts \in Nat
  BY <1>3 DEF StoredRows, Stored
<1> QED
  BY <1>1, <1>2, <1>4

RowBytes == [i \in DOMAIN rows |-> rows[i].bytes]

(* Volumes of rows are volumes of the table of their bytes.                *)
LEMMA VolumeIs ==
  \A I \in SUBSET DOMAIN rows : VolumeOf(I) = Vol(RowBytes, I)
<1> SUFFICES ASSUME NEW I \in SUBSET DOMAIN rows PROVE VolumeOf(I) = Vol(RowBytes, I)
  OBVIOUS
<1>1. [i \in I |-> rows[i].bytes] = [i \in I |-> RowBytes[i]]
  BY DEF RowBytes
<1> QED
  BY <1>1 DEF VolumeOf, Vol

(* The volume of some rows is a number, and that of fewer rows no larger.  *)
LEMMA VolumeMore ==
  ASSUME RowsTyped, NEW I \in SUBSET DOMAIN rows
  PROVE  VolumeOf(I) \in Nat /\ \A J \in SUBSET I : VolumeOf(J) <= VolumeOf(I)
<1>1. IsFiniteSet(DOMAIN rows) /\ \A i \in DOMAIN rows : RowBytes[i] \in Nat
  BY RowFacts DEF RowBytes
<1>2. Vol(RowBytes, I) \in Nat /\ \A J \in SUBSET I : Vol(RowBytes, J) <= Vol(RowBytes, I)
  BY <1>1, VolMore
<1> QED
  BY <1>2, VolumeIs

(* What a table by some key of the rows accounts for, when it has an entry *)
(* for every key met.                                                      *)
LEMMA KeyedTotal ==
  ASSUME RowsTyped, NEW I \in SUBSET DOMAIN rows, NEW K, IsFiniteSet(K),
         NEW key, \A i \in I : key[i] \in K
  PROVE  TotalOf([k \in K |-> VolumeOf({i \in I : key[i] = k})]) = VolumeOf(I)
<1>1. IsFiniteSet(DOMAIN rows) /\ \A i \in DOMAIN rows : RowBytes[i] \in Nat
  BY RowFacts DEF RowBytes
<1>2. TotalOf([k \in K |-> Vol(RowBytes, {i \in I : key[i] = k})]) = Vol(RowBytes, I)
  BY <1>1, Partition
<1>3. \A k \in K : VolumeOf({i \in I : key[i] = k}) = Vol(RowBytes, {i \in I : key[i] = k})
  BY VolumeIs
<1>4. [k \in K |-> VolumeOf({i \in I : key[i] = k})] = [k \in K |-> Vol(RowBytes, {i \in I : key[i] = k})]
  BY <1>3
<1> QED
  BY <1>2, <1>4, VolumeIs

(* A view grouped by any key accounts for the rows it groups.              *)
LEMMA GroupedTotal ==
  ASSUME RowsTyped, NEW key, DOMAIN key \in SUBSET DOMAIN rows
  PROVE  /\ TotalOf(Grouped(key)) = VolumeOf(DOMAIN key)
         /\ IsFiniteSet(DOMAIN Grouped(key))
         /\ \A k \in DOMAIN Grouped(key) : Grouped(key)[k] \in Nat
<1> DEFINE I == DOMAIN key
           K == {key[i] : i \in I}
<1>1. IsFiniteSet(K)
  <2>1. IsFiniteSet(I)
    BY RowFacts, FS_Subset
  <2> QED
    BY <2>1, ImageFinite
<1>2. \A i \in I : key[i] \in K
  OBVIOUS
<1>3. \A k : {i \in I : key[i] = k} \in SUBSET DOMAIN rows
  OBVIOUS
<1>4. \A k : VolumeOf({i \in I : key[i] = k}) \in Nat
  BY <1>3, VolumeMore
<1>5. Grouped(key) = [k \in K |-> VolumeOf({i \in I : key[i] = k})]
  BY DEF Grouped
<1> HIDE DEF K
<1>6. TotalOf([k \in K |-> VolumeOf({i \in I : key[i] = k})]) = VolumeOf(I)
  BY <1>1, <1>2, KeyedTotal
<1> QED
  BY <1>1, <1>4, <1>5, <1>6

-----------------------------------------------------------------------------
(* The rows a view reads.                                                  *)
LEMMA NewestIn == \A t, I, n : Newest(t, I, n) \in SUBSET I
BY DEF Newest

(* All rows are among the newest n when there are at most n.               *)
LEMMA NewestAll ==
  ASSUME NEW t, NEW I, IsFiniteSet(I), \A i \in I : t[i].ts \in Nat /\ i \in Nat,
         NEW n \in Nat, Cardinality(I) <= n
  PROVE  Newest(t, I, n) = I
<1> SUFFICES ASSUME NEW i \in I PROVE Cardinality({j \in I : Newer(t, j, i)}) < n
  BY DEF Newest
<1> DEFINE J == {j \in I : Newer(t, j, i)}
<1>1. ~ Newer(t, i, i)
  BY DEF Newer
<1>2. J \in SUBSET (I \ {i})
  BY <1>1
<1>3. IsFiniteSet(I \ {i}) /\ Cardinality(I \ {i}) = Cardinality(I) - 1 /\ Cardinality(I) \in Nat
  BY FS_RemoveElement, FS_CardinalityType
<1> HIDE DEF J
<1>4. Cardinality(J) <= Cardinality(I) - 1 /\ Cardinality(J) \in Nat
  BY <1>2, <1>3, FS_Subset, FS_CardinalityType
<1> QED
  BY <1>3, <1>4 DEF J

(* A query answers with rows of the store.                                 *)
LEMMA ConnectionsIn == \A f : Connections(f) \in SUBSET DOMAIN rows
<1> SUFFICES ASSUME NEW f PROVE Connections(f) \in SUBSET DOMAIN rows
  OBVIOUS
<1>1. \A I, n : Newest(rows, I, n) \in SUBSET I
  BY NewestIn
<1> QED
  BY <1>1 DEF Connections

(* A view of an interface that has no more rows than it may read reads all *)
(* of them.                                                                *)
LEMMA ReadsAll ==
  ASSUME RowsTyped, NEW iface, Cardinality(RowsOf(iface)) <= ViewRows
  PROVE  Scoped(iface) = RowsOf(iface)
<1> DEFINE f == [NoFilter EXCEPT !.iface = iface, !.limit = ViewRows]
<1>1. f.limit = ViewRows /\ ViewRows \in Nat \ {0} /\ \A c : Passes(c, f) <=> iface = "" \/ c.iface = iface
  BY OverAssumption DEF NoFilter, Passes
<1> HIDE DEF f
<1>2. {i \in DOMAIN rows : Passes(rows[i], f)} = RowsOf(iface)
  BY <1>1 DEF RowsOf
<1>3. IsFiniteSet(RowsOf(iface)) /\ \A i \in RowsOf(iface) : rows[i].ts \in Nat /\ i \in Nat
  <2>1. RowsOf(iface) \in SUBSET DOMAIN rows
    BY DEF RowsOf
  <2>2. \A i \in DOMAIN rows : rows[i].ts \in Nat /\ i \in Nat
    BY RowFacts
  <2>3. IsFiniteSet(RowsOf(iface))
    BY <2>1, RowFacts, FS_Subset
  <2> QED
    BY <2>1, <2>2, <2>3
<1>4. Newest(rows, RowsOf(iface), ViewRows) = RowsOf(iface)
  <2>1. ViewRows \in Nat
    BY <1>1
  <2> QED
    BY <1>3, <2>1, NewestAll
<1>5. Connections(f) = Newest(rows, RowsOf(iface), ViewRows)
  <2>1. (IF f.limit <= 0 THEN 1000 ELSE f.limit) = ViewRows
    <3>1. ViewRows \in Nat /\ ViewRows # 0
      BY <1>1
    <3>2. ~ (ViewRows <= 0)
      BY ONLY <3>1
    <3> QED
      BY ONLY <1>1, <3>2
  <2>2. Connections(f) =
          Newest(rows, {i \in DOMAIN rows : Passes(rows[i], f)}, IF f.limit <= 0 THEN 1000 ELSE f.limit)
    BY DEF Connections
  <2> QED
    BY ONLY <1>2, <2>1, <2>2
<1> QED
  BY <1>4, <1>5 DEF Scoped, f

(* The points of the trend account for the rows it reads.                  *)
LEMMA TrendTotal ==
  ASSUME RowsTyped, NEW f
  PROVE  TotalOf(TimeSeries(f)) = VolumeOf(Connections(f))
<1> DEFINE I == Connections(f)
           spans == {Slot(p[1]) .. Slot(p[2]) : p \in I \X I}
           slots == UNION spans
           K == {q * Bucket : q \in slots}
           key == [i \in I |-> Slot(i) * Bucket]
<1>1. I \in SUBSET DOMAIN rows /\ IsFiniteSet(I)
  BY ConnectionsIn, RowFacts, FS_Subset
<1>2. \A i \in I : Slot(i) \in Int
  <2>1. Bucket \in Nat \ {0} /\ \A i \in I : rows[i].ts \in Nat
    BY <1>1, RowFacts, OverAssumption
  <2>2. \A n, b \in Nat : b # 0 => n \div b \in Int
    OBVIOUS
  <2> QED
    BY <2>1, <2>2 DEF Slot
<1>3. IsFiniteSet(slots)
  <2> DEFINE g == [p \in I \X I |-> Slot(p[1]) .. Slot(p[2])]
  <2>1. IsFiniteSet(I \X I)
    BY <1>1, FS_Product
  <2>2. spans = {g[p] : p \in I \X I}
    OBVIOUS
  <2>3. IsFiniteSet(spans)
    <3> HIDE DEF g, spans, I
    <3> QED
      BY <2>1, <2>2, ImageFinite
  <2>4. \A T \in spans : IsFiniteSet(T)
    BY <1>2, FS_Interval
  <2> QED
    BY <2>3, <2>4, FS_UNION
<1>4. IsFiniteSet(K)
  <2> DEFINE h == [q \in slots |-> q * Bucket]
  <2> HIDE DEF slots
  <2>1. K = {h[q] : q \in slots}
    OBVIOUS
  <2> HIDE DEF h, K
  <2> QED
    BY <1>3, <2>1, ImageFinite
<1>5. \A i \in I : key[i] = Slot(i) * Bucket /\ key[i] \in K
  <2>1. \A i \in I : Slot(i) \in Slot(i) .. Slot(i)
    BY <1>2
  <2>2. \A i \in I : Slot(i) \in slots
    <3> SUFFICES ASSUME NEW i \in I PROVE Slot(i) \in slots
      OBVIOUS
    <3>1. <<i, i>> \in I \X I /\ <<i, i>>[1] = i /\ <<i, i>>[2] = i
      OBVIOUS
    <3>2. Slot(i) .. Slot(i) \in spans
      BY <3>1
    <3> QED
      BY <2>1, <3>2
  <2> HIDE DEF slots
  <2>3. \A q \in slots : q * Bucket \in K
    OBVIOUS
  <2>4. \A i \in I : key[i] = Slot(i) * Bucket
    OBVIOUS
  <2> HIDE DEF K, key
  <2> QED
    BY <2>2, <2>3, <2>4
<1>6. TimeSeries(f) = [k \in K |-> VolumeOf({i \in I : Slot(i) * Bucket = k})]
  BY DEF TimeSeries
<1>7. \A k : {i \in I : Slot(i) * Bucket = k} = {i \in I : key[i] = k}
  OBVIOUS
<1> HIDE DEF K, key, I
<1>8. TotalOf([k \in K |-> VolumeOf({i \in I : key[i] = k})]) = VolumeOf(I)
  BY <1>1, <1>4, <1>5, KeyedTotal
<1>9. [k \in K |-> VolumeOf({i \in I : Slot(i) * Bucket = k})] = [k \in K |-> VolumeOf({i \in I : key[i] = k})]
  BY <1>7
<1> QED
  BY <1>6, <1>8, <1>9 DEF I

(* A ranking of one begins with the largest.                               *)
LEMMA RankedFirst ==
  ASSUME RowsTyped, NEW iface, NEW T \in TopN(iface, "device", 1),
         NEW mac \in DOMAIN Ranked(iface, "device")
  PROVE  \E largest \in T : Ranked(iface, "device")[mac] <= Ranked(iface, "device")[largest]
<1> DEFINE by == Ranked(iface, "device")
           key == [i \in Scoped(iface) |-> rows[i].mac]
<1>1. by = Grouped(key)
  BY DEF Ranked
<1>2. DOMAIN key \in SUBSET DOMAIN rows
  BY ConnectionsIn DEF Scoped
<1> HIDE DEF key, by
<1>3. IsFiniteSet(DOMAIN by) /\ \A k \in DOMAIN by : by[k] \in Nat
  BY <1>1, <1>2, GroupedTotal
<1>4. /\ T \in SUBSET DOMAIN by
      /\ Cardinality(T) = IF Cardinality(DOMAIN by) <= 1 THEN Cardinality(DOMAIN by) ELSE 1
      /\ \A x \in T, y \in DOMAIN by \ T : by[x] >= by[y]
  BY DEF TopN, by
<1>5. mac \in DOMAIN by
  BY DEF by
<1>6. T # {}
  <2>1. Cardinality(DOMAIN by) \in Nat /\ Cardinality(DOMAIN by) # 0
    BY <1>3, <1>5, FS_CardinalityType, FS_EmptySet
  <2>2. Cardinality(T) # 0
    BY <1>4, <2>1
  <2> QED
    BY <2>2, FS_EmptySet
<1>7. PICK x \in T : TRUE
  BY <1>6
<1>8. by[x] \in Nat /\ by[mac] \in Nat
  BY <1>3, <1>4, <1>5, <1>7
<1>9. CASE mac \in T
  BY <1>8, <1>9 DEF by
<1>10. CASE mac \notin T
  <2>1. by[x] >= by[mac]
    BY <1>4, <1>5, <1>7, <1>10
  <2> QED
    BY <1>7, <1>8, <2>1 DEF by
<1> QED
  BY <1>9, <1>10

(* The views agree in any state of typed rows.                             *)
LEMMA AllViewsAgree == ASSUME RowsTyped PROVE ViewsAgree
<1> SUFFICES ASSUME NEW iface \in Scopes
             PROVE  LET all == ConnectionTotals(iface)
                        shown == VolumeOf(Scoped(iface))
                        devices == Ranked(iface, "device")
                    IN /\ TotalOf(IpView(iface)) = shown /\ TotalOf(ProtocolView(iface)) = shown
                       /\ TotalOf(devices) = shown
                       /\ TotalOf(Ranked(iface, "domain")) <= shown
                       /\ TotalOf(TimeSeries([NoFilter EXCEPT !.iface = iface, !.limit = ViewRows])) = shown
                       /\ all.count <= ViewRows => shown = all.bytes
                       /\ \A T \in TopN(iface, "device", 1), mac \in DOMAIN devices :
                            \E largest \in T : devices[mac] <= devices[largest]
  BY DEF ViewsAgree
<1> DEFINE I == Scoped(iface)
           shown == VolumeOf(I)
<1>1. I \in SUBSET DOMAIN rows
  BY ConnectionsIn DEF Scoped
<1>2. TotalOf(IpView(iface)) = shown
  <2> DEFINE key == [i \in I |-> rows[i].dst]
  <2>1. DOMAIN key = I /\ IpView(iface) = Grouped(key)
    BY DEF IpView
  <2> HIDE DEF key, I
  <2> QED
    BY <1>1, <2>1, GroupedTotal
<1>3. TotalOf(ProtocolView(iface)) = shown
  <2> DEFINE key == [i \in I |-> rows[i].proto]
  <2>1. DOMAIN key = I /\ ProtocolView(iface) = Grouped(key)
    BY DEF ProtocolView
  <2> HIDE DEF key, I
  <2> QED
    BY <1>1, <2>1, GroupedTotal
<1>4. TotalOf(Ranked(iface, "device")) = shown
  <2> DEFINE key == [i \in I |-> rows[i].mac]
  <2>1. DOMAIN key = I /\ Ranked(iface, "device") = Grouped(key)
    BY DEF Ranked
  <2> HIDE DEF key, I
  <2> QED
    BY <1>1, <2>1, GroupedTotal
<1>5. TotalOf(Ranked(iface, "domain")) <= shown
  <2> DEFINE key == [i \in NamedRows(I) |-> NameOf(rows[i])]
  <2>1. DOMAIN key = NamedRows(I) /\ Ranked(iface, "domain") = Grouped(key)
    BY DEF Ranked
  <2>2. NamedRows(I) \in SUBSET I
    BY DEF NamedRows
  <2> HIDE DEF key, I
  <2>3. TotalOf(Grouped(key)) = VolumeOf(NamedRows(I))
    <3>1. DOMAIN key \in SUBSET DOMAIN rows
      BY <1>1, <2>1, <2>2
    <3> QED
      BY <2>1, <3>1, GroupedTotal
  <2>4. VolumeOf(NamedRows(I)) <= VolumeOf(I)
    BY <1>1, <2>2, VolumeMore
  <2> QED
    BY <2>1, <2>3, <2>4
<1>6. TotalOf(TimeSeries([NoFilter EXCEPT !.iface = iface, !.limit = ViewRows])) = shown
  BY TrendTotal DEF Scoped
<1>7. ConnectionTotals(iface).count <= ViewRows => shown = ConnectionTotals(iface).bytes
  BY ReadsAll DEF ConnectionTotals
<1>8. \A T \in TopN(iface, "device", 1), mac \in DOMAIN Ranked(iface, "device") :
        \E largest \in T : Ranked(iface, "device")[mac] <= Ranked(iface, "device")[largest]
  BY RankedFirst
<1> QED
  BY <1>2, <1>3, <1>4, <1>5, <1>6, <1>7, <1>8

-----------------------------------------------------------------------------
(* The rows a file has in the store.                                       *)
Mine(s, f) == {i \in DOMAIN s : s[i].iface = f}
MinePlaced(s, f) == {i \in Mine(s, f) : HasPlace(s[i])}
PlacedUpTo(f, n) == {i \in 1 .. n : HasPlace(Files[f][i])}
FileNames == DOMAIN Files \ (Nics \cup {""})

(* What the replays of a file have stored, each so many rows, and of them  *)
(* how many with a place.                                                  *)
Progress(f) == [k \in ReplaysOf(f) |-> replays[k].stored]
PlacedBy(f) == [k \in ReplaysOf(f) |-> Cardinality(PlacedUpTo(f, replays[k].stored))]
StoredOf(f) == TotalOf(Progress(f))
PlacedOf(f) == TotalOf(PlacedBy(f))

(* A sum of what is not negative is not negative.                          *)
LEMMA TotalNotNegative ==
  ASSUME NEW f, Table(f, Int), \A x \in DOMAIN f : f[x] >= 0
  PROVE  TotalOf(f) >= 0
<1>1. IsFiniteSet(DOMAIN f) /\ \A x \in DOMAIN f : f[x] \in Int
  BY DEF Table
<1>2. PICK t : SumsSet(t, f, DOMAIN f) /\ TotalOf(f) = t[DOMAIN f]
  BY <1>1, TotalIs
<1>3. t \in [SUBSET DOMAIN f -> Int]
  BY <1>1, <1>2, SumsSetInt
<1> DEFINE Wrong == {S \in SUBSET DOMAIN f : t[S] < 0}
<1>4. SUFFICES ASSUME Wrong # {} PROVE FALSE
  BY <1>2, <1>3, <1>4
<1>5. PICK S \in Wrong : \A x \in S : S \ {x} \notin Wrong
  <2>1. Wrong \in SUBSET SUBSET DOMAIN f
    OBVIOUS
  <2> HIDE DEF Wrong
  <2> QED
    BY <1>1, <1>4, <2>1, SmallestWrong
<1>6. S # {}
  BY <1>2, <1>5 DEF SumsSet
<1>7. PICK x \in S : TRUE
  BY <1>6
<1>8. S \in SUBSET DOMAIN f /\ S \ {x} \in SUBSET DOMAIN f /\ t[S \ {x}] \in Int
  BY <1>3, <1>5
<1>9. t[S] = f[x] + t[S \ {x}]
  BY <1>1, <1>2, <1>7, <1>8, SumsSetAny
<1>10. ~ (t[S \ {x}] < 0)
  BY <1>5, <1>7, <1>8
<1> QED
  BY <1>1, <1>5, <1>7, <1>8, <1>9, <1>10

(* An entry that changes moves the sum by as much.                         *)
LEMMA TotalMoved ==
  ASSUME NEW f, Table(f, Int), NEW g, NEW k \in DOMAIN f, g[k] \in Int,
         g = [x \in DOMAIN f |-> g[x]], \A x \in DOMAIN f : x # k => g[x] = f[x]
  PROVE  TotalOf(f) \in Int /\ TotalOf(g) = TotalOf(f) + g[k] - f[k]
<1>1. g = With(f, k, g[k])
  <2>1. DOMAIN f \cup {k} = DOMAIN f
    OBVIOUS
  <2>2. \A x \in DOMAIN f : g[x] = IF x = k THEN g[k] ELSE f[x]
    OBVIOUS
  <2>3. g = [x \in DOMAIN f |-> IF x = k THEN g[k] ELSE f[x]]
    BY <2>2
  <2> QED
    BY ONLY <2>1, <2>3 DEF With
<1>2. Lookup(f, k, 0) = f[k]
  BY DEF Lookup
<1>3. TotalOf(With(f, k, g[k])) = TotalOf(f) + g[k] - Lookup(f, k, 0)
  BY TotalWith
<1> QED
  BY <1>1, <1>2, <1>3, TotalInt

(* A set may have one more element.                                        *)
LEMMA OneMore ==
  \A S, n, p : IsFiniteSet(S) /\ n \notin S =>
    Cardinality(IF p THEN S \cup {n} ELSE S) = Cardinality(S) + (IF p THEN 1 ELSE 0)
<1> SUFFICES ASSUME NEW S, NEW n, NEW p, IsFiniteSet(S), n \notin S
             PROVE  Cardinality(IF p THEN S \cup {n} ELSE S) = Cardinality(S) + (IF p THEN 1 ELSE 0)
  OBVIOUS
<1>1. Cardinality(S \cup {n}) = Cardinality(S) + 1 /\ Cardinality(S) \in Nat
  BY FS_AddElement, FS_CardinalityType
<1>2. CASE p
  BY <1>1, <1>2
<1>3. CASE ~ p
  BY <1>1, <1>3
<1> QED
  BY <1>2, <1>3

(* A row stored is one more of its interface, and of no other.             *)
LEMMA MineAppend ==
  ASSUME NEW s, s \in Seq(StoredRows), NEW r, r \in StoredRows, NEW f
  PROVE  /\ IsFiniteSet(Mine(s, f)) /\ IsFiniteSet(MinePlaced(s, f))
         /\ Cardinality(Mine(Append(s, r), f))
              = Cardinality(Mine(s, f)) + (IF r.iface = f THEN 1 ELSE 0)
         /\ Cardinality(MinePlaced(Append(s, r), f))
              = Cardinality(MinePlaced(s, f)) + (IF r.iface = f /\ HasPlace(r) THEN 1 ELSE 0)
<1> DEFINE t == Append(s, r)
           n == Len(s) + 1
<1>1. /\ Len(s) \in Nat /\ DOMAIN s = 1 .. Len(s)
      /\ DOMAIN t = DOMAIN s \cup {n} /\ n \notin DOMAIN s
      /\ t[n] = r /\ \A i \in DOMAIN s : t[i] = s[i]
  OBVIOUS
<1> HIDE DEF t, n
<1>2. IsFiniteSet(DOMAIN s)
  BY <1>1, FS_Interval
<1>3. /\ IsFiniteSet(Mine(s, f)) /\ IsFiniteSet(MinePlaced(s, f))
      /\ Cardinality(Mine(s, f)) \in Nat /\ Cardinality(MinePlaced(s, f)) \in Nat
      /\ n \notin Mine(s, f) /\ n \notin MinePlaced(s, f)
  <2>1. Mine(s, f) \in SUBSET DOMAIN s /\ MinePlaced(s, f) \in SUBSET DOMAIN s
    BY DEF Mine, MinePlaced
  <2>2. IsFiniteSet(Mine(s, f)) /\ IsFiniteSet(MinePlaced(s, f))
    BY <1>2, <2>1, FS_Subset
  <2> QED
    BY <1>1, <2>1, <2>2, FS_CardinalityType
<1>4. Mine(t, f) = IF r.iface = f THEN Mine(s, f) \cup {n} ELSE Mine(s, f)
  BY <1>1 DEF Mine
<1>5. MinePlaced(t, f) = IF r.iface = f /\ HasPlace(r) THEN MinePlaced(s, f) \cup {n} ELSE MinePlaced(s, f)
  BY <1>1, <1>4 DEF MinePlaced, Mine
<1>6. Cardinality(Mine(t, f)) = Cardinality(Mine(s, f)) + (IF r.iface = f THEN 1 ELSE 0)
  BY <1>3, <1>4, OneMore
<1>7. Cardinality(MinePlaced(t, f))
        = Cardinality(MinePlaced(s, f)) + (IF r.iface = f /\ HasPlace(r) THEN 1 ELSE 0)
  BY <1>3, <1>5, OneMore
<1> QED
  BY <1>3, <1>6, <1>7 DEF t

(* The rows of a file with a place, one row further.                       *)
LEMMA PlacedNext ==
  ASSUME NEW f, NEW n \in Nat
  PROVE  /\ IsFiniteSet(PlacedUpTo(f, n)) /\ PlacedUpTo(f, 0) = {}
         /\ Cardinality(PlacedUpTo(f, n + 1))
              = Cardinality(PlacedUpTo(f, n)) + (IF HasPlace(Files[f][n + 1]) THEN 1 ELSE 0)
<1>1. IsFiniteSet(1 .. n) /\ PlacedUpTo(f, n) \in SUBSET (1 .. n)
  BY FS_Interval DEF PlacedUpTo
<1>2. IsFiniteSet(PlacedUpTo(f, n)) /\ Cardinality(PlacedUpTo(f, n)) \in Nat /\ n + 1 \notin PlacedUpTo(f, n)
  BY <1>1, FS_Subset, FS_CardinalityType
<1>3. PlacedUpTo(f, n + 1)
        = IF HasPlace(Files[f][n + 1]) THEN PlacedUpTo(f, n) \cup {n + 1} ELSE PlacedUpTo(f, n)
  <2>1. \A i : i \in 1 .. n + 1 <=> i \in 1 .. n \/ i = n + 1
    OBVIOUS
  <2> QED
    BY <2>1 DEF PlacedUpTo
<1>4. PlacedUpTo(f, 0) = {}
  BY DEF PlacedUpTo
<1> QED
  BY <1>2, <1>3, <1>4, OneMore

-----------------------------------------------------------------------------
(* The invariant of the store: a file's rows are those its replays have    *)
(* stored so far, and as many of them have a place as of its own.          *)
FilesStored ==
  \A f \in FileNames :
    /\ Cardinality(Mine(rows, f)) = StoredOf(f)
    /\ Cardinality(MinePlaced(rows, f)) = PlacedOf(f)

(* The inductive invariant of the overview.                                *)
OverInv == RowsTyped /\ OverTypeOK /\ FilesStored

LEMMA OverBounds == MaxTime \in Nat /\ 1 <= MaxTime /\ MaxRows \in Nat
<1>1. MaxTime \in Nat \ {0} /\ MaxRows \in Nat
  BY OverAssumption
<1>2. MaxTime \in Nat /\ MaxTime # 0
  BY <1>1
<1> QED
  BY ONLY <1>1, <1>2

LEMMA OverInitially == OverInit => OverInv
<1> SUFFICES ASSUME OverInit PROVE OverInv
  OBVIOUS
<1>1. rows = <<>> /\ replays = <<>> /\ nic = "" /\ tick = 1
  BY DEF OverInit
<1> DEFINE none == <<>>
<1>2. \A S : none \in Seq(S) /\ Len(none) = 0 /\ DOMAIN none = {}
  OBVIOUS
<1>3. rows = none /\ replays = none
  BY <1>1
<1> HIDE DEF none
<1>4. RowsTyped /\ OverTypeOK
  <2>1. Len(rows) <= MaxRows
    BY <1>2, <1>3, OverBounds
  <2>2. tick = 1
    BY <1>1
  <2>3. tick \in 1 .. MaxTime
    BY <2>2, OverBounds
  <2> QED
    BY <1>1, <1>2, <1>3, <2>1, <2>3 DEF RowsTyped, OverTypeOK
<1>5. ASSUME NEW f PROVE StoredOf(f) = 0 /\ PlacedOf(f) = 0
  <2>1. ReplaysOf(f) = {}
    BY <1>2, <1>3 DEF ReplaysOf
  <2>2. DOMAIN Progress(f) = {} /\ DOMAIN PlacedBy(f) = {}
    BY <2>1 DEF Progress, PlacedBy
  <2> QED
    BY <2>2, TotalEmpty DEF StoredOf, PlacedOf
<1>6. \A f : Mine(rows, f) = {} /\ MinePlaced(rows, f) = {}
  BY <1>2, <1>3 DEF Mine, MinePlaced
<1>7. FilesStored
  BY <1>5, <1>6, FS_EmptySet DEF FilesStored
<1> QED
  BY <1>4, <1>7 DEF OverInv

(* A stored row is typed and keeps its interface and its place.            *)
LEMMA StoredTyped ==
  \A c \in AnyRow, ts \in Nat, iface \in Nics \cup DOMAIN Files :
    /\ Stored(c, ts, iface) \in StoredRows /\ Stored(c, ts, iface).iface = iface
    /\ HasPlace(Stored(c, ts, iface)) <=> HasPlace(c)
BY DEF StoredRows, Stored, HasPlace

(* What replays have stored depends on them alone.                         *)
LEMMA SameReplays ==
  ASSUME UNCHANGED replays, NEW f PROVE StoredOf(f)' = StoredOf(f) /\ PlacedOf(f)' = PlacedOf(f)
BY DEF StoredOf, PlacedOf, Progress, PlacedBy, ReplaysOf, PlacedUpTo, HasPlace

(* A replay is of a file, and stores so many of its rows.                  *)
Replays == [file : DOMAIN Files, stored : Nat]

LEMMA ReplaysTyped ==
  ASSUME OverTypeOK
  PROVE  /\ replays \in Seq(Replays) /\ Len(replays) \in Nat /\ DOMAIN replays = 1 .. Len(replays)
         /\ \A k \in DOMAIN replays : /\ replays[k] \in Replays
                                      /\ replays[k].file \in DOMAIN Files /\ replays[k].stored \in Nat
                                      /\ replays[k].stored <= Len(Files[replays[k].file])
<1>1. replays \in Seq(Replays) /\ \A k \in DOMAIN replays : replays[k].stored <= Len(Files[replays[k].file])
  BY DEF OverTypeOK, Replays
<1>2. Len(replays) \in Nat /\ DOMAIN replays = 1 .. Len(replays)
      /\ \A k \in DOMAIN replays : replays[k] \in Replays
  BY <1>1
<1> QED
  BY <1>1, <1>2 DEF Replays

(* The replays of a file are finitely many, and what they stored is        *)
(* counted.                                                                *)
LEMMA ReplayTables ==
  ASSUME OverInv, NEW f
  PROVE  /\ IsFiniteSet(ReplaysOf(f)) /\ ReplaysOf(f) \in SUBSET DOMAIN replays
         /\ Table(Progress(f), Int) /\ Table(PlacedBy(f), Int)
         /\ \A k \in ReplaysOf(f) : replays[k].stored \in Nat
<1>1. DOMAIN replays = 1 .. Len(replays) /\ Len(replays) \in Nat
  BY ReplaysTyped DEF OverInv
<1>2. ReplaysOf(f) \in SUBSET DOMAIN replays /\ \A k \in DOMAIN replays : replays[k].stored \in Nat
  BY ReplaysTyped DEF ReplaysOf, OverInv
<1>3. IsFiniteSet(ReplaysOf(f))
  <2>1. IsFiniteSet(DOMAIN replays)
    BY <1>1, FS_Interval
  <2> QED
    BY <1>2, <2>1, FS_Subset
<1>4. \A k \in ReplaysOf(f) : Progress(f)[k] \in Int /\ PlacedBy(f)[k] \in Int
  <2>1. \A k \in ReplaysOf(f) : Cardinality(PlacedUpTo(f, replays[k].stored)) \in Nat
    BY <1>2, PlacedNext, FS_CardinalityType
  <2> QED
    BY <1>2, <2>1 DEF Progress, PlacedBy
<1>5. /\ DOMAIN Progress(f) = ReplaysOf(f) /\ Progress(f) = [k \in ReplaysOf(f) |-> Progress(f)[k]]
      /\ DOMAIN PlacedBy(f) = ReplaysOf(f) /\ PlacedBy(f) = [k \in ReplaysOf(f) |-> PlacedBy(f)[k]]
  BY DEF Progress, PlacedBy
<1> QED
  BY <1>2, <1>3, <1>4, <1>5 DEF Table

(* A live flow is never counted as one of a file.                          *)
LEMMA InsertStep ==
  ASSUME OverInv, InsertConnection PROVE OverInv'
<1>1. PICK c \in LiveRows : rows' = Append(rows, Stored(c, tick, nic))
  BY DEF InsertConnection
<1> DEFINE r == Stored(c, tick, nic)
<1>2. nic \in Nics /\ tick \in Nat /\ Len(rows) < MaxRows /\ UNCHANGED <<names, nic, replays, tick>>
  <2>1. /\ nic # "" /\ nic \in Nics \cup {""} /\ tick \in 1 .. MaxTime
        /\ Len(rows) < MaxRows /\ UNCHANGED <<names, nic, replays, tick>>
    BY DEF InsertConnection, OverInv, OverTypeOK
  <2>2. tick \in 1 .. MaxTime
    BY <2>1
  <2>3. tick \in Nat
    BY <2>2, OverBounds
  <2> QED
    BY <2>1, <2>3
<1>3. r \in StoredRows /\ r.iface = nic
  BY <1>2, StoredTyped DEF AnyRow
<1>4. rows \in Seq(StoredRows) /\ rows' = Append(rows, r)
  BY <1>1 DEF OverInv, RowsTyped
<1> HIDE DEF r
<1>5. RowsTyped' /\ OverTypeOK'
  <2>1. rows' \in Seq(StoredRows) /\ Len(rows') = Len(rows) + 1 /\ Len(rows) \in Nat
    BY <1>3, <1>4
  <2>2. Len(rows') <= MaxRows
    BY <1>2, <2>1, OverBounds
  <2> QED
    BY <1>2, <2>1, <2>2 DEF RowsTyped, OverInv, OverTypeOK
<1>6. ASSUME NEW f \in FileNames
      PROVE  /\ Cardinality(Mine(rows', f)) = StoredOf(f)'
             /\ Cardinality(MinePlaced(rows', f)) = PlacedOf(f)'
  <2>1. r.iface # f
    BY <1>2, <1>3 DEF FileNames
  <2>2. IsFiniteSet(Mine(rows, f)) /\ IsFiniteSet(MinePlaced(rows, f))
        /\ Cardinality(Mine(rows', f)) = Cardinality(Mine(rows, f)) + 0
        /\ Cardinality(MinePlaced(rows', f)) = Cardinality(MinePlaced(rows, f)) + 0
    BY <1>3, <1>4, <2>1, MineAppend
  <2>3. Cardinality(Mine(rows, f)) \in Nat /\ Cardinality(MinePlaced(rows, f)) \in Nat
    BY <2>2, FS_CardinalityType
  <2>4. StoredOf(f)' = StoredOf(f) /\ PlacedOf(f)' = PlacedOf(f)
    BY <1>2, SameReplays
  <2> QED
    BY <2>2, <2>3, <2>4 DEF OverInv, FilesStored
<1> QED
  BY <1>5, <1>6 DEF OverInv, FilesStored

(* An import that begins has stored nothing, of its file or another.       *)
LEMMA ImportStep ==
  ASSUME OverInv, PcapImport PROVE OverInv'
<1>1. PICK g \in DOMAIN Files : replays' = Append(replays, [file |-> g, stored |-> 0])
  BY DEF PcapImport
<1> DEFINE n == Len(replays) + 1
<1>2. Len(replays) < MaxImports /\ UNCHANGED <<rows, names, nic, tick>>
  BY DEF PcapImport
<1>3. /\ replays' \in Seq(Replays)
      /\ DOMAIN replays' = DOMAIN replays \cup {n} /\ n \notin DOMAIN replays
      /\ replays'[n].file = g /\ replays'[n].stored = 0
      /\ \A k \in DOMAIN replays : replays'[k] = replays[k]
  <2> DEFINE r == [file |-> g, stored |-> 0]
  <2>1. r \in Replays /\ r.file = g /\ r.stored = 0
    BY DEF Replays
  <2>2. replays \in Seq(Replays) /\ replays' = Append(replays, r)
    BY <1>1, ReplaysTyped DEF OverInv
  <2> HIDE DEF r
  <2> QED
    BY <2>1, <2>2
<1>4. RowsTyped' /\ OverTypeOK'
  <2>1. Len(Files[g]) \in Nat
    BY OverAssumption
  <2>2. \A k \in DOMAIN replays : replays[k].stored <= Len(Files[replays[k].file])
    BY ReplaysTyped DEF OverInv
  <2>3. \A k \in DOMAIN replays' : replays'[k].stored <= Len(Files[replays'[k].file])
    <3> HIDE DEF n
    <3> QED
      BY <1>3, <2>1, <2>2
  <2> QED
    BY <1>2, <1>3, <2>3 DEF RowsTyped, OverInv, OverTypeOK, Replays
<1> HIDE DEF n
<1>5. ASSUME NEW f PROVE StoredOf(f)' = StoredOf(f) /\ PlacedOf(f)' = PlacedOf(f)
  <2>1. CASE f # g
    <3>1. ReplaysOf(f)' = ReplaysOf(f) /\ \A k \in ReplaysOf(f) : replays'[k] = replays[k]
      BY <1>3, <2>1 DEF ReplaysOf
    <3>2. Progress(f)' = Progress(f)
      BY <3>1 DEF Progress
    <3>3. PlacedBy(f)' = PlacedBy(f)
      BY <3>1 DEF PlacedBy, PlacedUpTo, HasPlace
    <3> QED
      BY <3>2, <3>3 DEF StoredOf, PlacedOf
  <2>2. CASE f = g
    <3>1. /\ ReplaysOf(f)' = ReplaysOf(f) \cup {n} /\ n \notin ReplaysOf(f)
          /\ \A k \in ReplaysOf(f) : replays'[k] = replays[k]
      BY <1>3, <2>2 DEF ReplaysOf
    <3>2. Table(Progress(f), Int) /\ Table(PlacedBy(f), Int)
      BY ReplayTables
    <3> DEFINE p == Progress(f)'
               q == PlacedBy(f)'
    <3>3. DOMAIN p = DOMAIN Progress(f) \cup {n} /\ n \notin DOMAIN Progress(f)
          /\ p = [k \in DOMAIN p |-> p[k]] /\ p[n] = 0
          /\ \A k \in DOMAIN Progress(f) : p[k] = Progress(f)[k]
      BY <1>3, <3>1 DEF Progress
    <3>4. PlacedUpTo(f, 0) = {}
      BY PlacedNext
    <3>5. Cardinality(PlacedUpTo(f, 0)) = 0
      BY <3>4, FS_EmptySet
    <3>6. q = [k \in ReplaysOf(f)' |-> Cardinality(PlacedUpTo(f, replays'[k].stored))]
      BY DEF PlacedBy, PlacedUpTo, HasPlace
    <3>7. DOMAIN q = DOMAIN PlacedBy(f) \cup {n} /\ n \notin DOMAIN PlacedBy(f)
          /\ q = [k \in DOMAIN q |-> q[k]] /\ q[n] = 0
          /\ \A k \in DOMAIN PlacedBy(f) : q[k] = PlacedBy(f)[k]
      <4> HIDE DEF q
      <4> QED
        BY <1>3, <3>1, <3>5, <3>6 DEF PlacedBy
    <3> HIDE DEF p, q
    <3>8. TotalOf(p) = TotalOf(Progress(f)) + 0
      BY <3>2, <3>3, TotalOneMore
    <3>9. TotalOf(q) = TotalOf(PlacedBy(f)) + 0
      BY <3>2, <3>7, TotalOneMore
    <3>10. TotalOf(Progress(f)) \in Int /\ TotalOf(PlacedBy(f)) \in Int
      BY <3>2, TotalInt
    <3> QED
      BY <3>8, <3>9, <3>10 DEF StoredOf, PlacedOf, p, q
  <2> QED
    BY <2>1, <2>2
<1> QED
  BY <1>2, <1>4, <1>5 DEF OverInv, FilesStored, Mine, MinePlaced, HasPlace

(* A row replayed is one more of the file in the store, and in the count   *)
(* of one replay.                                                          *)
LEMMA ReplayStep ==
  ASSUME OverInv, ReplayRow PROVE OverInv'
<1>1. PICK m \in DOMAIN replays :
        /\ replays[m].stored + 1 <= Len(Files[replays[m].file])
        /\ rows' = Append(rows, Stored(Files[replays[m].file][replays[m].stored + 1],
                                       Files[replays[m].file][replays[m].stored + 1].ts, replays[m].file))
        /\ replays' = [replays EXCEPT ![m].stored = replays[m].stored + 1]
  BY DEF ReplayRow
<1> DEFINE g == replays[m].file
           n == replays[m].stored
           c == Files[g][n + 1]
           r == Stored(c, c.ts, g)
<1>2. Len(rows) < MaxRows /\ UNCHANGED <<names, nic, tick>>
  BY DEF ReplayRow
<1>3. g \in DOMAIN Files /\ n \in Nat /\ Len(Files[g]) \in Nat /\ n + 1 \in 1 .. Len(Files[g])
  <2>2. g \in DOMAIN Files /\ n \in Nat /\ n + 1 <= Len(Files[g])
    BY <1>1, ReplaysTyped DEF OverInv
  <2>3. Len(Files[g]) \in Nat
    BY <2>2, OverAssumption
  <2> HIDE DEF n, g
  <2> QED
    BY <2>2, <2>3
<1>4. c \in AnyRow /\ c.ts \in Nat
  BY <1>3, OverAssumption DEF AnyRow
<1>5. r \in StoredRows /\ r.iface = g /\ (HasPlace(r) <=> HasPlace(c))
  <2> HIDE DEF c
  <2> QED
    BY <1>3, <1>4, StoredTyped
<1>6. rows \in Seq(StoredRows) /\ rows' = Append(rows, r)
  BY <1>1 DEF OverInv, RowsTyped
<1>7. /\ replays' \in Seq(Replays) /\ DOMAIN replays' = DOMAIN replays
      /\ replays'[m].file = g /\ replays'[m].stored = n + 1
      /\ \A k \in DOMAIN replays : k # m => replays'[k] = replays[k]
  <2> DEFINE moved == [replays[m] EXCEPT !.stored = n + 1]
  <2>1. replays \in Seq(Replays) /\ replays[m] \in Replays
    BY <1>1, ReplaysTyped DEF OverInv
  <2>2. moved \in Replays /\ moved.file = g /\ moved.stored = n + 1
    BY <1>3, <2>1 DEF Replays
  <2>3. replays' = [replays EXCEPT ![m] = moved]
    BY <1>1
  <2>4. m \in DOMAIN replays
    OBVIOUS
  <2> HIDE DEF moved, n, g
  <2>5. replays' \in Seq(Replays) /\ DOMAIN replays' = DOMAIN replays
    BY ONLY <2>1, <2>2, <2>3, <2>4
  <2>6. replays'[m] = moved /\ \A k \in DOMAIN replays : k # m => replays'[k] = replays[k]
    BY <2>3, <2>4
  <2> QED
    BY <2>2, <2>5, <2>6
<1>8. m \in DOMAIN replays /\ replays[m].file = g /\ replays[m].stored = n
  OBVIOUS
<1> HIDE DEF r, c, n, g
<1>9. RowsTyped' /\ OverTypeOK'
  <2>1. rows' \in Seq(StoredRows) /\ Len(rows') = Len(rows) + 1 /\ Len(rows) \in Nat
    BY <1>5, <1>6
  <2>2. Len(rows') <= MaxRows
    BY <1>2, <2>1, OverBounds
  <2>3. \A k \in DOMAIN replays' : replays'[k].stored <= Len(Files[replays'[k].file])
    <3>1. \A k \in DOMAIN replays : replays[k].stored <= Len(Files[replays[k].file])
      BY ReplaysTyped DEF OverInv
    <3>2. n + 1 <= Len(Files[g])
      BY <1>3
    <3> QED
      BY <1>7, <3>1, <3>2
  <2> QED
    BY <1>2, <1>7, <2>1, <2>2, <2>3 DEF RowsTyped, OverInv, OverTypeOK, Replays
<1>10. ASSUME NEW f \in FileNames
      PROVE  /\ Cardinality(Mine(rows', f)) = StoredOf(f)'
             /\ Cardinality(MinePlaced(rows', f)) = PlacedOf(f)'
  <2>1. IsFiniteSet(Mine(rows, f)) /\ IsFiniteSet(MinePlaced(rows, f))
        /\ Cardinality(Mine(rows', f)) = Cardinality(Mine(rows, f)) + (IF r.iface = f THEN 1 ELSE 0)
        /\ Cardinality(MinePlaced(rows', f))
             = Cardinality(MinePlaced(rows, f)) + (IF r.iface = f /\ HasPlace(r) THEN 1 ELSE 0)
    BY <1>5, <1>6, MineAppend
  <2>2. Cardinality(Mine(rows, f)) \in Nat /\ Cardinality(MinePlaced(rows, f)) \in Nat
    BY <2>1, FS_CardinalityType
  <2>3. Cardinality(Mine(rows, f)) = StoredOf(f) /\ Cardinality(MinePlaced(rows, f)) = PlacedOf(f)
    BY DEF OverInv, FilesStored
  <2>4. ReplaysOf(f)' = ReplaysOf(f)
    BY <1>7, <1>8 DEF ReplaysOf
  <2>5. CASE f = g
    <3> DEFINE p == Progress(f)'
               q == PlacedBy(f)'
    <3>1. m \in ReplaysOf(f) /\ \A k \in ReplaysOf(f) : k # m => replays'[k] = replays[k]
      BY <1>7, <1>8, <2>5 DEF ReplaysOf
    <3>2. Table(Progress(f), Int) /\ Table(PlacedBy(f), Int)
      BY ReplayTables
    <3>3. DOMAIN Progress(f) = ReplaysOf(f) /\ p = [k \in DOMAIN Progress(f) |-> p[k]]
          /\ Progress(f)[m] = n /\ p[m] = n + 1
          /\ \A k \in DOMAIN Progress(f) : k # m => p[k] = Progress(f)[k]
      BY <1>7, <1>8, <2>4, <3>1 DEF Progress
    <3>4. q = [k \in ReplaysOf(f) |-> Cardinality(PlacedUpTo(f, replays'[k].stored))]
      BY <2>4 DEF PlacedBy, PlacedUpTo, HasPlace
    <3>5. DOMAIN PlacedBy(f) = ReplaysOf(f) /\ q = [k \in DOMAIN PlacedBy(f) |-> q[k]]
          /\ PlacedBy(f)[m] = Cardinality(PlacedUpTo(f, n)) /\ q[m] = Cardinality(PlacedUpTo(f, n + 1))
          /\ \A k \in DOMAIN PlacedBy(f) : k # m => q[k] = PlacedBy(f)[k]
      <4> HIDE DEF q
      <4> QED
        BY <1>7, <1>8, <3>1, <3>4 DEF PlacedBy
    <3>6. /\ Cardinality(PlacedUpTo(g, n + 1)) = Cardinality(PlacedUpTo(g, n)) + (IF HasPlace(c) THEN 1 ELSE 0)
          /\ Cardinality(PlacedUpTo(g, n)) \in Nat
      BY <1>3, PlacedNext, FS_CardinalityType DEF c
    <3> HIDE DEF p, q
    <3>7. TotalOf(p) = TotalOf(Progress(f)) + (n + 1) - n /\ TotalOf(Progress(f)) \in Int
      <4>1. p[m] \in Int /\ m \in DOMAIN Progress(f)
        BY <1>3, <3>1, <3>3
      <4>2. TotalOf(Progress(f)) \in Int /\ TotalOf(p) = TotalOf(Progress(f)) + p[m] - Progress(f)[m]
        BY <3>2, <3>3, <4>1, TotalMoved
      <4> QED
        BY <3>3, <4>2
    <3>8. TotalOf(q) = TotalOf(PlacedBy(f)) + (IF HasPlace(c) THEN 1 ELSE 0) /\ TotalOf(PlacedBy(f)) \in Int
      <4>1. q[m] \in Int /\ m \in DOMAIN PlacedBy(f)
        BY <2>5, <3>1, <3>5, <3>6
      <4>2. TotalOf(PlacedBy(f)) \in Int /\ TotalOf(q) = TotalOf(PlacedBy(f)) + q[m] - PlacedBy(f)[m]
        BY <3>2, <3>5, <4>1, TotalMoved
      <4> QED
        BY <2>5, <3>5, <3>6, <4>2
    <3>9. StoredOf(f)' = TotalOf(p) /\ PlacedOf(f)' = TotalOf(q)
      BY DEF StoredOf, PlacedOf, p, q
    <3> QED
      BY <1>3, <1>5, <2>1, <2>2, <2>3, <2>5, <3>7, <3>8, <3>9 DEF StoredOf, PlacedOf
  <2>6. CASE f # g
    <3>1. \A k \in ReplaysOf(f) : replays'[k] = replays[k]
      BY <1>7, <1>8, <2>6 DEF ReplaysOf
    <3>2. Progress(f)' = Progress(f)
      BY <2>4, <3>1 DEF Progress
    <3>3. PlacedBy(f)' = PlacedBy(f)
      BY <2>4, <3>1 DEF PlacedBy, PlacedUpTo, HasPlace
    <3>4. StoredOf(f)' = StoredOf(f) /\ PlacedOf(f)' = PlacedOf(f)
      BY <3>2, <3>3 DEF StoredOf, PlacedOf
    <3> QED
      BY <1>5, <2>1, <2>2, <2>3, <2>6, <3>4
  <2> QED
    BY <2>5, <2>6
<1> QED
  BY <1>9, <1>10 DEF OverInv, FilesStored, Mine, MinePlaced, HasPlace

LEMMA OverStep == OverInv /\ [OverNext]_overVars => OverInv'
<1> SUFFICES ASSUME OverInv, [OverNext]_overVars PROVE OverInv'
  OBVIOUS
<1>1. ASSUME UNCHANGED <<rows, replays>>, (nic \in Nics \cup {""} /\ tick \in 1 .. MaxTime)'
      PROVE  OverInv'
  BY <1>1, SameReplays DEF OverInv, RowsTyped, OverTypeOK, FilesStored, Mine, MinePlaced, HasPlace
<1>2. CASE SetSource
  BY <1>1, <1>2 DEF SetSource, OverInv, OverTypeOK
<1>3. CASE InsertDNS
  BY <1>1, <1>3 DEF InsertDNS, OverInv, OverTypeOK
<1>4. CASE OverTick
  <2>1. /\ UNCHANGED <<rows, replays, nic>> /\ tick < MaxTime /\ tick' = tick + 1
        /\ tick \in 1 .. MaxTime /\ nic \in Nics \cup {""}
    BY <1>4 DEF OverTick, OverInv, OverTypeOK
  <2>2. tick < MaxTime /\ tick' = tick + 1 /\ tick \in 1 .. MaxTime
    BY <2>1
  <2>3. tick' \in 1 .. MaxTime
    BY <2>2, OverBounds
  <2> QED
    BY <1>1, <2>1, <2>3
<1>5. CASE UNCHANGED overVars
  BY <1>1, <1>5 DEF overVars, OverInv, OverTypeOK
<1> QED
  BY <1>2, <1>3, <1>4, <1>5, InsertStep, ImportStep, ReplayStep DEF OverNext

-----------------------------------------------------------------------------
(* What follows for a file that was replayed.                              *)

(* Of rows that are not none, one is newest.                               *)
LEMMA OneNewest ==
  ASSUME NEW t, NEW D, IsFiniteSet(D), D # {}, \A i \in D : t[i].ts \in Nat /\ i \in Nat
  PROVE  \E i \in D : \A j \in D : ~ Newer(t, j, i)
<1> DEFINE First(S) == \E i \in S : \A j \in S : ~ Newer(t, j, i)
           Wrong == {S \in SUBSET D : S # {} /\ ~ First(S)}
<1>1. SUFFICES ASSUME Wrong # {} PROVE FALSE
  BY <1>1
<1>2. PICK S \in Wrong : \A x \in S : S \ {x} \notin Wrong
  <2>1. Wrong \in SUBSET SUBSET D
    OBVIOUS
  <2> HIDE DEF Wrong
  <2> QED
    BY <1>1, <2>1, SmallestWrong
<1>3. PICK x \in S : TRUE
  BY <1>2
<1>4. \A i, j \in S : t[i].ts \in Nat /\ i \in Nat
  BY <1>2
<1>5. CASE S \ {x} = {}
  <2>1. ~ Newer(t, x, x)
    BY <1>3, <1>4 DEF Newer
  <2>2. \A j \in S : j = x
    BY <1>5
  <2>3. First(S)
    BY <1>3, <2>1, <2>2
  <2> QED
    BY <1>2, <2>3
<1>6. CASE S \ {x} # {}
  <2>1. PICK y \in S \ {x} : \A j \in S \ {x} : ~ Newer(t, j, y)
    BY <1>2, <1>3, <1>6
  <2>2. CASE ~ Newer(t, x, y)
    <3>1. First(S)
      BY <2>1, <2>2
    <3> QED
      BY <1>2, <3>1
  <2>3. CASE Newer(t, x, y)
    <3>1. \A j \in S : ~ Newer(t, j, x)
      <4> SUFFICES ASSUME NEW j \in S, Newer(t, j, x) PROVE FALSE
        OBVIOUS
      <4>1. ~ Newer(t, x, x)
        BY <1>3, <1>4 DEF Newer
      <4>2. ~ Newer(t, j, y)
        BY <2>1, <4>1
      <4> QED
        BY <1>3, <1>4, <2>1, <2>3, <4>2 DEF Newer
    <3>2. First(S)
      BY <1>3, <3>1
    <3> QED
      BY <1>2, <3>2
  <2> QED
    BY <2>2, <2>3
<1> QED
  BY <1>5, <1>6

(* Each interface has one latest row, so the list of imports has one entry *)
(* for each.                                                               *)
LEMMA BatchesAll ==
  ASSUME RowsTyped, NEW live, Cardinality({rows[i].iface : i \in DOMAIN rows}) <= BatchLimit
  PROVE  Newest(rows, LatestRows(live), BatchLimit) = LatestRows(live)
<1> DEFINE L == LatestRows(live)
           names0 == {rows[i].iface : i \in DOMAIN rows}
           g == [i \in L |-> rows[i].iface]
<1>1. L \in SUBSET DOMAIN rows
  BY DEF LatestRows
<1>2. IsFiniteSet(DOMAIN rows) /\ \A i \in DOMAIN rows : rows[i].ts \in Nat /\ i \in Nat
  BY RowFacts
<1>3. IsFiniteSet(names0)
  <2> DEFINE h == [i \in DOMAIN rows |-> rows[i].iface]
  <2>1. names0 = {h[i] : i \in DOMAIN rows}
    OBVIOUS
  <2> HIDE DEF h, names0
  <2> QED
    BY <1>2, <2>1, ImageFinite
<1>4. \A i \in L : g[i] \in names0
  BY <1>1
<1>5. ASSUME NEW i \in L, NEW j \in L, g[i] = g[j] PROVE i = j
  <2>1. rows[i].iface = rows[j].iface
    BY <1>5
  <2>2. ~ Newer(rows, j, i) /\ ~ Newer(rows, i, j)
    BY <1>1, <2>1 DEF LatestRows, RowsOf
  <2> QED
    BY <1>1, <1>2, <2>2 DEF Newer
<1>6. g \in Injection(L, names0)
  BY <1>4, <1>5 DEF Injection, IsInjective
<1>7. IsFiniteSet(L) /\ Cardinality(L) <= Cardinality(names0)
  BY <1>3, <1>6, FS_Injection
<1>8. Cardinality(L) <= BatchLimit /\ BatchLimit \in Nat
  <2>1. Cardinality(L) \in Nat /\ Cardinality(names0) \in Nat /\ BatchLimit \in Nat
    BY <1>3, <1>7, FS_CardinalityType, OverAssumption
  <2> QED
    BY <1>7, <2>1
<1> HIDE DEF L
<1>9. Newest(rows, L, BatchLimit) = L
  BY <1>1, <1>2, <1>7, <1>8, NewestAll
<1> QED
  BY <1>9 DEF L

(* What the invariant says of a file that was replayed.                    *)
AllOf(f) == EachTime(f, Len(Files[f]))
OwnOf(f) == EachTime(f, Cardinality(PlacedUpTo(f, Len(Files[f]))))

LEMMA ReplayedFacts ==
  ASSUME OverInv, NEW f \in Replayed
  PROVE  /\ f \in FileNames /\ f \notin Nics \cup {""} /\ RowsOf(f) = Mine(rows, f)
         /\ Cardinality(Mine(rows, f)) = AllOf(f) /\ Mine(rows, f) # {}
         /\ {i \in RowsOf(f) : HasPlace(rows[i])} = MinePlaced(rows, f)
         /\ Cardinality(MinePlaced(rows, f)) = OwnOf(f)
<1>1. /\ f \in FileNames /\ f \notin Nics \cup {""} /\ Len(Files[f]) > 0 /\ ReplaysOf(f) # {}
      /\ \A k \in ReplaysOf(f) : replays[k].stored = Len(Files[f])
  BY DEF Replayed, FileNames
<1>2. Progress(f) = [k \in ReplaysOf(f) |-> Len(Files[f])]
  BY <1>1 DEF Progress
<1>3. RowsOf(f) = Mine(rows, f)
  BY <1>1 DEF RowsOf, Mine
<1>4. {i \in RowsOf(f) : HasPlace(rows[i])} = MinePlaced(rows, f)
  BY <1>3 DEF MinePlaced
<1>5. Cardinality(Mine(rows, f)) = AllOf(f)
  BY <1>1, <1>2 DEF OverInv, FilesStored, StoredOf, AllOf, EachTime
<1>6. Cardinality(MinePlaced(rows, f)) = OwnOf(f)
  <2>1. PlacedBy(f) = [k \in ReplaysOf(f) |-> Cardinality(PlacedUpTo(f, Len(Files[f])))]
    BY <1>1 DEF PlacedBy
  <2> QED
    BY <1>1, <2>1 DEF OverInv, FilesStored, PlacedOf, OwnOf, EachTime
<1>7. Mine(rows, f) # {}
  <2>1. PICK k \in ReplaysOf(f) : TRUE
    BY <1>1
  <2>2. Table(Progress(f), Int) /\ DOMAIN Progress(f) = ReplaysOf(f) /\ Progress(f)[k] = Len(Files[f])
    BY <1>2, <2>1, ReplayTables DEF Progress
  <2>3. /\ Table(Without(Progress(f), k), Int)
        /\ TotalOf(Progress(f)) = Progress(f)[k] + TotalOf(Without(Progress(f), k))
    BY <2>1, <2>2, TotalSplit
  <2>4. TotalOf(Without(Progress(f), k)) >= 0 /\ TotalOf(Without(Progress(f), k)) \in Int
    <3>1. \A x \in DOMAIN Without(Progress(f), k) : Without(Progress(f), k)[x] >= 0
      BY <2>2, ReplayTables DEF Without, Progress
    <3> QED
      BY <2>3, <3>1, TotalInt, TotalNotNegative
  <2>5. StoredOf(f) > 0
    <3>1. Len(Files[f]) \in Nat
      BY <1>1, OverAssumption DEF FileNames
    <3>2. StoredOf(f) = Len(Files[f]) + TotalOf(Without(Progress(f), k)) /\ Len(Files[f]) > 0
      BY <1>1, <2>2, <2>3 DEF StoredOf
    <3> QED
      BY <2>4, <3>1, <3>2
  <2>6. Cardinality(Mine(rows, f)) > 0
    BY <1>1, <2>5 DEF OverInv, FilesStored
  <2> QED
    BY <2>6, FS_EmptySet
<1> QED
  BY <1>1, <1>3, <1>4, <1>5, <1>6, <1>7

(* Such a file is offered with all its rows.                               *)
LEMMA StaysOffered ==
  ASSUME OverInv, NEW f \in Replayed, Cardinality({rows[i].iface : i \in DOMAIN rows}) <= BatchLimit
  PROVE  [iface |-> f, count |-> AllOf(f)] \in ImportBatches(nic)
<1>1. RowsTyped
  BY DEF OverInv
<1>2. IsFiniteSet(Mine(rows, f)) /\ \A i \in Mine(rows, f) : rows[i].ts \in Nat /\ i \in Nat
  <2>1. Mine(rows, f) \in SUBSET DOMAIN rows
    BY DEF Mine
  <2>2. IsFiniteSet(DOMAIN rows) /\ \A i \in DOMAIN rows : rows[i].ts \in Nat /\ i \in Nat
    BY <1>1, RowFacts
  <2> QED
    BY <2>1, <2>2, FS_Subset
<1>3. PICK i \in Mine(rows, f) : \A j \in Mine(rows, f) : ~ Newer(rows, j, i)
  BY <1>2, ReplayedFacts, OneNewest
<1>4. i \in DOMAIN rows /\ rows[i].iface = f
  BY <1>3 DEF Mine
<1>5. f \notin {"", nic}
  <2>1. nic \in Nics \cup {""}
    BY DEF OverInv, OverTypeOK
  <2> QED
    BY <2>1, ReplayedFacts
<1>6. i \in LatestRows(nic)
  BY <1>3, <1>4, <1>5, ReplayedFacts DEF LatestRows
<1>7. i \in Newest(rows, LatestRows(nic), BatchLimit)
  BY <1>1, <1>6, BatchesAll
<1>8. Cardinality(RowsOf(rows[i].iface)) = AllOf(f)
  BY <1>4, ReplayedFacts
<1> QED
  BY <1>4, <1>7, <1>8 DEF ImportBatches

(* Its connections that have a place are on the map when it is chosen.     *)
LEMMA StaysOnMap ==
  ASSUME OverInv, NEW f \in Replayed, AllOf(f) <= ViewRows, OwnOf(f) <= PairLimit
  PROVE  /\ Cardinality(GeoPairs(f)) = OwnOf(f)
         /\ \A i \in GeoPairs(f) : rows[i].iface = f
<1>1. RowsTyped
  BY DEF OverInv
<1>2. PairFilter(f) = [NoFilter EXCEPT !.iface = f, !.limit = ViewRows]
  BY ReplayedFacts DEF PairFilter, NoFilter
<1>3. Connections(PairFilter(f)) = RowsOf(f)
  <2>1. Cardinality(RowsOf(f)) <= ViewRows
    BY ReplayedFacts
  <2>2. Scoped(f) = RowsOf(f)
    BY <1>1, <2>1, ReadsAll
  <2> QED
    BY <1>2, <2>2 DEF Scoped
<1> DEFINE P == MinePlaced(rows, f)
<1>4. GeoPairs(f) = Newest(rows, P, PairLimit)
  BY <1>3, ReplayedFacts DEF GeoPairs
<1>5. P \in SUBSET DOMAIN rows /\ \A i \in P : rows[i].iface = f
  BY DEF MinePlaced, Mine
<1>6. IsFiniteSet(DOMAIN rows) /\ \A i \in DOMAIN rows : rows[i].ts \in Nat /\ i \in Nat
  BY <1>1, RowFacts
<1>7. Cardinality(P) = OwnOf(f)
  BY ReplayedFacts
<1> HIDE DEF P
<1>8. IsFiniteSet(P)
  BY <1>5, <1>6, FS_Subset
<1>9. Newest(rows, P, PairLimit) = P
  <2>1. PairLimit \in Nat /\ Cardinality(P) <= PairLimit
    BY <1>7, OverAssumption
  <2> QED
    BY <1>5, <1>6, <1>8, <2>1, NewestAll
<1> QED
  BY <1>4, <1>5, <1>7, <1>9

-----------------------------------------------------------------------------
(* The overview is true of the store, whatever is inserted, imported and   *)
(* looked up in whatever order: its views agree with each other and with   *)
(* the summary, and a file that was replayed stays in sight.               *)
THEOREM OverviewIsTrue == OverSpec => []OverviewTrue
<1>1. ASSUME OverInv PROVE OverviewTrue
  <2>1. ViewsAgree
    BY <1>1, AllViewsAgree DEF OverInv
  <2>2. ASSUME NEW f \in Replayed
        PROVE  LET all == EachTime(f, Len(Files[f]))
                   own == EachTime(f, Cardinality({i \in 1 .. Len(Files[f]) : HasPlace(Files[f][i])}))
               IN
               /\ Cardinality({rows[i].iface : i \in DOMAIN rows}) <= BatchLimit =>
                    [iface |-> f, count |-> all] \in ImportBatches(nic)
               /\ own <= PairLimit /\ all <= ViewRows =>
                    /\ Cardinality(GeoPairs(f)) = own
                    /\ \A i \in GeoPairs(f) : rows[i].iface = f
    <3>1. /\ AllOf(f) = EachTime(f, Len(Files[f]))
          /\ OwnOf(f) = EachTime(f, Cardinality({i \in 1 .. Len(Files[f]) : HasPlace(Files[f][i])}))
      BY DEF AllOf, OwnOf, PlacedUpTo
    <3>2. Cardinality({rows[i].iface : i \in DOMAIN rows}) <= BatchLimit =>
            [iface |-> f, count |-> AllOf(f)] \in ImportBatches(nic)
      BY <1>1, StaysOffered
    <3>3. OwnOf(f) <= PairLimit /\ AllOf(f) <= ViewRows =>
            /\ Cardinality(GeoPairs(f)) = OwnOf(f)
            /\ \A i \in GeoPairs(f) : rows[i].iface = f
      BY <1>1, StaysOnMap
    <3> QED
      BY <3>1, <3>2, <3>3
  <2>3. ImportStaysVisible
    BY <2>2 DEF ImportStaysVisible
  <2> QED
    BY <2>1, <2>3 DEF OverviewTrue
<1> QED
  BY <1>1, OverInitially, OverStep, PTL DEF OverSpec

(* What the store holds keeps its type, and a file's replay is never ahead *)
(* of the file.                                                            *)
THEOREM OverviewTypes == OverSpec => []OverTypeOK
<1>1. OverInv => OverTypeOK
  BY DEF OverInv
<1> QED
  BY <1>1, OverInitially, OverStep, PTL DEF OverSpec

-----------------------------------------------------------------------------
(* The display filter.                                                     *)

(* Nodes say something of every sample.                                    *)
LEMMA NodesSay ==
  /\ Everything \in Says
  /\ \A l, r : OrNode(l, r) \in Says /\ AndNode(l, r) \in Says
  /\ \A x : NotNode(x) \in Says /\ PresenceNode(x) \in Says
  /\ \A f, op, v : CompareNode(f, op, v) \in Says
<1>1. Everything \in Says
  BY DEF Everything, Says
<1>2. \A l, r : OrNode(l, r) \in Says /\ AndNode(l, r) \in Says
  BY DEF OrNode, AndNode, Says
<1>3. \A x : NotNode(x) \in Says /\ PresenceNode(x) \in Says
  BY DEF NotNode, PresenceNode, Present, Says
<1>4. \A f, op, v : CompareNode(f, op, v) \in Says
  BY DEF CompareNode, EvalCompare, Says
<1> QED
  BY <1>1, <1>2, <1>3, <1>4

(* The parser's functions call each other further right in the text, or at *)
(* one index from the weakest connective to the strongest: a call has a    *)
(* depth, and calls shallower ones only.                                   *)
Ops == {"or", "moreOr", "and", "moreAnd", "not", "primary"}
Rank(op) == CASE op = "or" -> 3 [] op = "and" -> 2 [] op = "not" -> 1 [] OTHER -> 0
Depth(toks, c) == 4 * (Len(toks) + 1 - c.i) + Rank(c.op)
Below(toks, n) == {c \in Calls(toks) : Depth(toks, c) < n}

(* A call that yields a node has moved on, a loop at least not back.       *)
First(c) == IF c.op \in {"moreOr", "moreAnd"} THEN c.i ELSE c.i + 1
Yields(toks, c, r) ==
  /\ r.ok \in BOOLEAN
  /\ r.ok => r.says \in Says /\ r.i \in First(c) .. Len(toks) + 1

LEMMA CallsAre ==
  ASSUME NEW toks \in Seq(Token)
  PROVE  /\ Len(toks) \in Nat
         /\ \A c \in Calls(toks) : c.op \in Ops /\ c.i \in 1 .. Len(toks) + 1 /\ c.left \in Says
         /\ \A c \in Calls(toks) : Depth(toks, c) \in Nat /\ Depth(toks, c) < 4 * Len(toks) + 4
         /\ \A op \in Ops, i \in 1 .. Len(toks) + 1 :
              /\ Call(op, i) \in Calls(toks) /\ Call(op, i).op = op /\ Call(op, i).i = i
              /\ Depth(toks, Call(op, i)) = 4 * (Len(toks) + 1 - i) + Rank(op)
         /\ \A op \in Ops, i \in 1 .. Len(toks) + 1, m \in Says :
              /\ Loop(op, i, m) \in Calls(toks)
              /\ Loop(op, i, m).op = op /\ Loop(op, i, m).i = i /\ Loop(op, i, m).left = m
              /\ Depth(toks, Loop(op, i, m)) = 4 * (Len(toks) + 1 - i) + Rank(op)
<1>1. Len(toks) \in Nat
  OBVIOUS
<1>2. \A op \in Ops : Rank(op) \in 0 .. 3
  BY DEF Ops, Rank
<1>3. \A c \in Calls(toks) : c.op \in Ops /\ c.i \in 1 .. Len(toks) + 1 /\ c.left \in Says
  BY DEF Calls, Ops
<1>4. \A c \in Calls(toks) : Depth(toks, c) \in Nat /\ Depth(toks, c) < 4 * Len(toks) + 4
  BY <1>1, <1>2, <1>3 DEF Depth
<1>5. \A op \in Ops, i \in 1 .. Len(toks) + 1 :
        /\ Call(op, i) \in Calls(toks) /\ Call(op, i).op = op /\ Call(op, i).i = i
        /\ Depth(toks, Call(op, i)) = 4 * (Len(toks) + 1 - i) + Rank(op)
  BY <1>1, NodesSay DEF Call, Calls, Ops, Depth
<1>6. \A op \in Ops, i \in 1 .. Len(toks) + 1, m \in Says :
        /\ Loop(op, i, m) \in Calls(toks)
        /\ Loop(op, i, m).op = op /\ Loop(op, i, m).i = i /\ Loop(op, i, m).left = m
        /\ Depth(toks, Loop(op, i, m)) = 4 * (Len(toks) + 1 - i) + Rank(op)
  BY <1>1 DEF Loop, Calls, Ops, Depth
<1> QED
  BY <1>1, <1>3, <1>4, <1>5, <1>6

LEMMA ResultsAre ==
  ASSUME NEW toks, NEW c
  PROVE  /\ \A j : Refused(j).ok = FALSE /\ Refused(j).i = j
         /\ \A m, j : Parsed(m, j).ok = TRUE /\ Parsed(m, j).says = m /\ Parsed(m, j).i = j
         /\ \A j : Yields(toks, c, Refused(j))
         /\ \A m \in Says, j \in First(c) .. Len(toks) + 1 : Yields(toks, c, Parsed(m, j))
<1>1. \A j : Refused(j).ok = FALSE /\ Refused(j).i = j
  BY DEF Refused
<1>2. \A m, j : Parsed(m, j).ok = TRUE /\ Parsed(m, j).says = m /\ Parsed(m, j).i = j
  BY DEF Parsed
<1> QED
  BY <1>1, <1>2 DEF Yields

(* What a call yields depends on what shallower calls yield, and is of the *)
(* kind theirs is.                                                         *)
LEMMA RunIsLocal ==
  ASSUME NEW toks \in Seq(Token), NEW c \in Calls(toks), NEW g, NEW h,
         \A d \in Calls(toks) : Depth(toks, d) < Depth(toks, c) => Yields(toks, d, g[d]) /\ g[d] = h[d]
  PROVE  Run(toks, g, c) = Run(toks, h, c) /\ Yields(toks, c, Run(toks, g, c))
<1> DEFINE N == Len(toks)
           i == c.i
<1>1. N \in Nat /\ c.op \in Ops /\ i \in 1 .. N + 1 /\ c.left \in Says
  BY CallsAre
<1>2. Depth(toks, c) = 4 * (N + 1 - i) + Rank(c.op)
  BY DEF Depth
<1>3. ASSUME NEW op \in {"or", "and", "not", "primary"}, NEW j \in i .. N + 1,
             j > i \/ Rank(op) < Rank(c.op)
      PROVE  /\ g[Call(op, j)] = h[Call(op, j)] /\ g[Call(op, j)].ok \in BOOLEAN
             /\ g[Call(op, j)].ok => g[Call(op, j)].says \in Says /\ g[Call(op, j)].i \in j + 1 .. N + 1
  <2>1. op \in Ops /\ Rank(op) \in 0 .. 3 /\ Rank(c.op) \in Nat /\ j \in 1 .. N + 1
    BY <1>1 DEF Ops, Rank
  <2>2. 4 * (N + 1 - j) + Rank(op) < Depth(toks, c)
    BY <1>1, <1>2, <1>3, <2>1
  <2>3. /\ Call(op, j) \in Calls(toks) /\ Depth(toks, Call(op, j)) < Depth(toks, c)
        /\ Call(op, j).op = op /\ Call(op, j).i = j
    BY <2>1, <2>2, CallsAre
  <2> QED
    BY <2>3 DEF Yields, First
<1>4. ASSUME NEW op \in {"moreOr", "moreAnd"}, NEW j \in i + 1 .. N + 1, NEW m \in Says
      PROVE  /\ g[Loop(op, j, m)] = h[Loop(op, j, m)] /\ g[Loop(op, j, m)].ok \in BOOLEAN
             /\ g[Loop(op, j, m)].ok => g[Loop(op, j, m)].says \in Says /\ g[Loop(op, j, m)].i \in j .. N + 1
  <2>1. op \in Ops /\ Rank(op) = 0 /\ j \in 1 .. N + 1 /\ Rank(c.op) \in Nat
    BY <1>1 DEF Ops, Rank
  <2>2. 4 * (N + 1 - j) + Rank(op) < Depth(toks, c)
    BY <1>1, <1>2, <2>1
  <2>3. /\ Loop(op, j, m) \in Calls(toks) /\ Depth(toks, Loop(op, j, m)) < Depth(toks, c)
        /\ Loop(op, j, m).op = op /\ Loop(op, j, m).i = j
    BY <2>1, <2>2, CallsAre
  <2> QED
    BY <2>3 DEF Yields, First
<1>5. CASE c.op = "primary"
  <2>1. Run(toks, g, c) = ParsePrimary(toks, g, i) /\ Run(toks, h, c) = ParsePrimary(toks, h, i)
    BY <1>5 DEF Run
  <2>2. First(c) = i + 1
    BY <1>5 DEF First
  <2>3. CASE i > N
    <3>1. ParsePrimary(toks, g, i) = Refused(i) /\ ParsePrimary(toks, h, i) = Refused(i)
      BY <2>3 DEF ParsePrimary
    <3>2. Yields(toks, c, Refused(i))
      BY ResultsAre
    <3> QED
      BY <2>1, <3>1, <3>2
  <2>4. CASE i <= N /\ toks[i].kind = "("
    <3> DEFINE inner == g[Call("or", i + 1)]
    <3>1. i + 1 \in i .. N + 1 /\ i + 1 > i
      BY <1>1, <2>4
    <3>2. /\ inner = h[Call("or", i + 1)] /\ inner.ok \in BOOLEAN
          /\ inner.ok => inner.says \in Says /\ inner.i \in i + 2 .. N + 1
      BY <1>1, <1>3, <3>1
    <3> HIDE DEF inner
    <3>3. ParsePrimary(toks, g, i)
            = IF ~ inner.ok THEN inner
              ELSE IF inner.i > N \/ toks[inner.i].kind # ")" THEN Refused(inner.i)
              ELSE Parsed(inner.says, inner.i + 1)
      BY <1>1, <2>4 DEF ParsePrimary, inner
    <3>4. ParsePrimary(toks, h, i) = ParsePrimary(toks, g, i)
      BY <1>1, <2>4, <3>2, <3>3 DEF ParsePrimary
    <3>5. Yields(toks, c, ParsePrimary(toks, g, i))
      <4>1. ~ inner.ok => Yields(toks, c, inner)
        BY <3>2 DEF Yields
      <4>2. inner.ok /\ inner.i <= N => inner.i + 1 \in First(c) .. N + 1
        BY <1>1, <2>2, <3>2
      <4> QED
        <5>1. Yields(toks, c, Refused(inner.i))
          BY ResultsAre
        <5>2. inner.ok /\ inner.i <= N => Yields(toks, c, Parsed(inner.says, inner.i + 1))
          BY <3>2, <4>2, ResultsAre
        <5>3. inner.ok => inner.i > N \/ inner.i <= N
          BY <1>1, <3>2
        <5> QED
          BY <3>3, <4>1, <5>1, <5>2, <5>3
    <3> QED
      BY <2>1, <3>4, <3>5
  <2>5. CASE i <= N /\ toks[i].kind # "("
    <3>1. ParsePrimary(toks, g, i) = ParsePrimary(toks, h, i)
      BY <1>1, <2>5 DEF ParsePrimary
    <3>2. Yields(toks, c, ParseField(toks, i))
      <4>1. IsComparison(toks, i + 1) => i + 1 <= N
        BY DEF IsComparison
      <4>2. IsValue(toks, i + 2) => i + 2 <= N
        BY DEF IsValue
      <4> QED
        <5>1. i + 1 \in First(c) .. N + 1 /\ (i + 2 <= N => i + 3 \in First(c) .. N + 1)
          BY <1>1, <2>2, <2>5
        <5>2. Yields(toks, c, Refused(i + 2)) /\ Yields(toks, c, Parsed(PresenceNode(toks[i].text), i + 1))
          BY <5>1, NodesSay, ResultsAre
        <5>3. i + 2 <= N =>
                Yields(toks, c, Parsed(CompareNode(toks[i].text, toks[i + 1].text, toks[i + 2].text), i + 3))
          BY <5>1, NodesSay, ResultsAre
        <5> QED
          BY <4>2, <5>2, <5>3 DEF ParseField
    <3>3. Yields(toks, c, ParsePrimary(toks, g, i))
      BY <1>1, <2>5, <3>2, ResultsAre DEF ParsePrimary
    <3> QED
      BY <2>1, <3>1, <3>3
  <2> QED
    BY <1>1, <2>3, <2>4, <2>5
<1>6. CASE c.op = "not"
  <2>1. Run(toks, g, c) = ParseNot(toks, g, i) /\ Run(toks, h, c) = ParseNot(toks, h, i)
    BY <1>6 DEF Run
  <2>2. First(c) = i + 1
    BY <1>6 DEF First
  <2>3. CASE ~ Accepts(toks, i, {"!", "not"})
    <3>1. i \in i .. N + 1 /\ Rank("primary") < Rank(c.op)
      BY <1>1, <1>6 DEF Rank
    <3>2. /\ g[Call("primary", i)] = h[Call("primary", i)] /\ g[Call("primary", i)].ok \in BOOLEAN
          /\ g[Call("primary", i)].ok => /\ g[Call("primary", i)].says \in Says
                                         /\ g[Call("primary", i)].i \in i + 1 .. N + 1
      BY <1>1, <1>3, <3>1
    <3> QED
      BY <2>1, <2>2, <2>3, <3>2 DEF ParseNot, Yields
  <2>4. CASE Accepts(toks, i, {"!", "not"})
    <3> DEFINE x == g[Call("not", i + 1)]
    <3>1. i <= N
      BY <2>4 DEF Accepts
    <3>2. i + 1 \in i .. N + 1 /\ i + 1 > i
      BY <1>1, <3>1
    <3>3. /\ x = h[Call("not", i + 1)] /\ x.ok \in BOOLEAN
          /\ x.ok => x.says \in Says /\ x.i \in i + 2 .. N + 1
      BY <1>1, <1>3, <3>2
    <3> HIDE DEF x
    <3>4. ParseNot(toks, g, i) = IF x.ok THEN Parsed(NotNode(x.says), x.i) ELSE x
      BY <2>4 DEF ParseNot, x
    <3>5. ParseNot(toks, h, i) = ParseNot(toks, g, i)
      BY <2>4, <3>3, <3>4 DEF ParseNot
    <3>6. Yields(toks, c, ParseNot(toks, g, i))
      <4>1. ~ x.ok => Yields(toks, c, x)
        BY <3>3 DEF Yields
      <4>2. x.ok => x.i \in First(c) .. N + 1
        BY <1>1, <2>2, <3>3
      <4> QED
        <5>1. x.ok => Yields(toks, c, Parsed(NotNode(x.says), x.i))
          BY <4>2, NodesSay, ResultsAre
        <5> QED
          BY <3>4, <4>1, <5>1
    <3> QED
      BY <2>1, <3>5, <3>6
  <2> QED
    BY <2>3, <2>4
<1>7. CASE c.op = "moreAnd"
  <2>1. /\ Run(toks, g, c) = MoreAnd(toks, g, i, c.left)
        /\ Run(toks, h, c) = MoreAnd(toks, h, i, c.left)
    BY <1>7 DEF Run
  <2>2. First(c) = i
    BY <1>7 DEF First
  <2>3. CASE ~ Accepts(toks, i, {"&&", "and"})
    <3>1. MoreAnd(toks, g, i, c.left) = Parsed(c.left, i) /\ MoreAnd(toks, h, i, c.left) = Parsed(c.left, i)
      BY <2>3 DEF MoreAnd
    <3>2. Yields(toks, c, Parsed(c.left, i))
      <4>1. c.left \in Says /\ i \in First(c) .. Len(toks) + 1
        BY <1>1, <2>2
      <4> HIDE DEF i
      <4> QED
        BY <4>1, ResultsAre
    <3> QED
      BY <2>1, <3>1, <3>2
  <2>4. CASE Accepts(toks, i, {"&&", "and"})
    <3> DEFINE right == g[Call("not", i + 1)]
               next == g[Loop("moreAnd", right.i, AndNode(c.left, right.says))]
    <3>1. i <= N
      BY <2>4 DEF Accepts
    <3>2. i + 1 \in i .. N + 1 /\ i + 1 > i
      BY <1>1, <3>1
    <3>3. /\ right = h[Call("not", i + 1)] /\ right.ok \in BOOLEAN
          /\ right.ok => right.says \in Says /\ right.i \in i + 2 .. N + 1
      BY <1>1, <1>3, <3>2
    <3>4. right.ok => /\ next = h[Loop("moreAnd", right.i, AndNode(c.left, right.says))] /\ next.ok \in BOOLEAN
                      /\ next.ok => next.says \in Says /\ next.i \in right.i .. N + 1
      <4> SUFFICES ASSUME right.ok
                   PROVE  /\ next = h[Loop("moreAnd", right.i, AndNode(c.left, right.says))] /\ next.ok \in BOOLEAN
                          /\ next.ok => next.says \in Says /\ next.i \in right.i .. N + 1
        OBVIOUS
      <4> DEFINE j == right.i
                 m == AndNode(c.left, right.says)
      <4>1. j \in i + 1 .. N + 1 /\ m \in Says
        BY <1>1, <3>3, NodesSay
      <4> HIDE DEF j, m, right
      <4>2. /\ g[Loop("moreAnd", j, m)] = h[Loop("moreAnd", j, m)] /\ g[Loop("moreAnd", j, m)].ok \in BOOLEAN
            /\ g[Loop("moreAnd", j, m)].ok =>
                 g[Loop("moreAnd", j, m)].says \in Says /\ g[Loop("moreAnd", j, m)].i \in j .. N + 1
        BY <1>4, <4>1
      <4> QED
        BY <4>2 DEF j, m
    <3> HIDE DEF right, next
    <3>5. MoreAnd(toks, g, i, c.left) = IF right.ok THEN next ELSE right
      BY <2>4 DEF MoreAnd, right, next
    <3>6. MoreAnd(toks, h, i, c.left) = MoreAnd(toks, g, i, c.left)
      BY <2>4, <3>3, <3>4, <3>5 DEF MoreAnd
    <3>7. Yields(toks, c, MoreAnd(toks, g, i, c.left))
      BY <1>1, <2>2, <3>3, <3>4, <3>5 DEF Yields
    <3> QED
      BY <2>1, <3>6, <3>7
  <2> QED
    BY <2>3, <2>4
<1>8. CASE c.op = "and"
  <2> DEFINE left == g[Call("not", i)]
             next == g[Loop("moreAnd", left.i, left.says)]
  <2>1. Run(toks, g, c) = ParseAnd(g, i) /\ Run(toks, h, c) = ParseAnd(h, i)
    BY <1>8 DEF Run
  <2>2. First(c) = i + 1
    BY <1>8 DEF First
  <2>3. i \in i .. N + 1 /\ Rank("not") < Rank(c.op)
    BY <1>1, <1>8 DEF Rank
  <2>4. /\ left = h[Call("not", i)] /\ left.ok \in BOOLEAN
        /\ left.ok => left.says \in Says /\ left.i \in i + 1 .. N + 1
    BY <1>1, <1>3, <2>3
  <2> HIDE DEF left
  <2>5. left.ok => /\ next = h[Loop("moreAnd", left.i, left.says)] /\ next.ok \in BOOLEAN
                   /\ next.ok => next.says \in Says /\ next.i \in left.i .. N + 1
    BY <1>4, <2>4
  <2> HIDE DEF next
  <2>6. ParseAnd(g, i) = IF left.ok THEN next ELSE left
    BY DEF ParseAnd, left, next
  <2>7. ParseAnd(h, i) = ParseAnd(g, i)
    BY <2>4, <2>5, <2>6 DEF ParseAnd
  <2>8. Yields(toks, c, ParseAnd(g, i))
    BY <1>1, <2>2, <2>4, <2>5, <2>6 DEF Yields
  <2> QED
    BY <2>1, <2>7, <2>8
<1>9. CASE c.op = "moreOr"
  <2>1. /\ Run(toks, g, c) = MoreOr(toks, g, i, c.left)
        /\ Run(toks, h, c) = MoreOr(toks, h, i, c.left)
    BY <1>9 DEF Run
  <2>2. First(c) = i
    BY <1>9 DEF First
  <2>3. CASE ~ Accepts(toks, i, {"||", "or"})
    <3>1. MoreOr(toks, g, i, c.left) = Parsed(c.left, i) /\ MoreOr(toks, h, i, c.left) = Parsed(c.left, i)
      BY <2>3 DEF MoreOr
    <3>2. Yields(toks, c, Parsed(c.left, i))
      <4>1. c.left \in Says /\ i \in First(c) .. Len(toks) + 1
        BY <1>1, <2>2
      <4> HIDE DEF i
      <4> QED
        BY <4>1, ResultsAre
    <3> QED
      BY <2>1, <3>1, <3>2
  <2>4. CASE Accepts(toks, i, {"||", "or"})
    <3> DEFINE right == g[Call("and", i + 1)]
               next == g[Loop("moreOr", right.i, OrNode(c.left, right.says))]
    <3>1. i <= N
      BY <2>4 DEF Accepts
    <3>2. i + 1 \in i .. N + 1 /\ i + 1 > i
      BY <1>1, <3>1
    <3>3. /\ right = h[Call("and", i + 1)] /\ right.ok \in BOOLEAN
          /\ right.ok => right.says \in Says /\ right.i \in i + 2 .. N + 1
      BY <1>1, <1>3, <3>2
    <3>4. right.ok => /\ next = h[Loop("moreOr", right.i, OrNode(c.left, right.says))] /\ next.ok \in BOOLEAN
                      /\ next.ok => next.says \in Says /\ next.i \in right.i .. N + 1
      <4> SUFFICES ASSUME right.ok
                   PROVE  /\ next = h[Loop("moreOr", right.i, OrNode(c.left, right.says))] /\ next.ok \in BOOLEAN
                          /\ next.ok => next.says \in Says /\ next.i \in right.i .. N + 1
        OBVIOUS
      <4> DEFINE j == right.i
                 m == OrNode(c.left, right.says)
      <4>1. j \in i + 1 .. N + 1 /\ m \in Says
        BY <1>1, <3>3, NodesSay
      <4> HIDE DEF j, m, right
      <4>2. /\ g[Loop("moreOr", j, m)] = h[Loop("moreOr", j, m)] /\ g[Loop("moreOr", j, m)].ok \in BOOLEAN
            /\ g[Loop("moreOr", j, m)].ok =>
                 g[Loop("moreOr", j, m)].says \in Says /\ g[Loop("moreOr", j, m)].i \in j .. N + 1
        BY <1>4, <4>1
      <4> QED
        BY <4>2 DEF j, m
    <3> HIDE DEF right, next
    <3>5. MoreOr(toks, g, i, c.left) = IF right.ok THEN next ELSE right
      BY <2>4 DEF MoreOr, right, next
    <3>6. MoreOr(toks, h, i, c.left) = MoreOr(toks, g, i, c.left)
      BY <2>4, <3>3, <3>4, <3>5 DEF MoreOr
    <3>7. Yields(toks, c, MoreOr(toks, g, i, c.left))
      BY <1>1, <2>2, <3>3, <3>4, <3>5 DEF Yields
    <3> QED
      BY <2>1, <3>6, <3>7
  <2> QED
    BY <2>3, <2>4
<1>10. CASE c.op = "or"
  <2> DEFINE left == g[Call("and", i)]
             next == g[Loop("moreOr", left.i, left.says)]
  <2>1. Run(toks, g, c) = ParseOr(g, i) /\ Run(toks, h, c) = ParseOr(h, i)
    BY <1>10 DEF Run
  <2>2. First(c) = i + 1
    BY <1>10 DEF First
  <2>3. i \in i .. N + 1 /\ Rank("and") < Rank(c.op)
    BY <1>1, <1>10 DEF Rank
  <2>4. /\ left = h[Call("and", i)] /\ left.ok \in BOOLEAN
        /\ left.ok => left.says \in Says /\ left.i \in i + 1 .. N + 1
    BY <1>1, <1>3, <2>3
  <2> HIDE DEF left
  <2>5. left.ok => /\ next = h[Loop("moreOr", left.i, left.says)] /\ next.ok \in BOOLEAN
                   /\ next.ok => next.says \in Says /\ next.i \in left.i .. N + 1
    BY <1>4, <2>4
  <2> HIDE DEF next
  <2>6. ParseOr(g, i) = IF left.ok THEN next ELSE left
    BY DEF ParseOr, left, next
  <2>7. ParseOr(h, i) = ParseOr(g, i)
    BY <2>4, <2>5, <2>6 DEF ParseOr
  <2>8. Yields(toks, c, ParseOr(g, i))
    BY <1>1, <2>2, <2>4, <2>5, <2>6 DEF Yields
  <2> QED
    BY <2>1, <2>7, <2>8
<1> QED
  BY <1>1, <1>5, <1>6, <1>7, <1>8, <1>9, <1>10 DEF Ops

(* The calls less deep than n, each yielding what Run makes of them.       *)
Solves(toks, n, g) == g = [c \in Below(toks, n) |-> Run(toks, g, c)]

LEMMA SolutionYields ==
  ASSUME NEW toks \in Seq(Token), NEW n \in Nat, NEW g, \A c \in Below(toks, n) : g[c] = Run(toks, g, c)
  PROVE  \A c \in Below(toks, n) : Yields(toks, c, g[c])
<1> DEFINE Wrong == {c \in Below(toks, n) : ~ Yields(toks, c, g[c])}
           Depths == {Depth(toks, c) : c \in Wrong}
<1>1. SUFFICES ASSUME Wrong # {} PROVE FALSE
  OBVIOUS
<1>2. Depths \in SUBSET Nat /\ Depths # {}
  BY <1>1, CallsAre DEF Below
<1>3. PICK d \in Depths : \A e \in Depths : d <= e
  <2> HIDE DEF Depths
  <2> QED
    BY <1>2, LeastNat
<1>4. PICK c \in Wrong : Depth(toks, c) = d
  BY <1>3
<1>5. c \in Calls(toks) /\ Depth(toks, c) < n /\ Depth(toks, c) \in Nat /\ c \in Below(toks, n)
  BY CallsAre DEF Below
<1>6. ASSUME NEW b \in Calls(toks), Depth(toks, b) < Depth(toks, c) PROVE Yields(toks, b, g[b])
  <2>1. Depth(toks, b) \in Nat /\ b \in Below(toks, n)
    BY <1>5, <1>6, CallsAre DEF Below
  <2>2. b \in Wrong => d <= Depth(toks, b)
    <3> SUFFICES ASSUME b \in Wrong PROVE d <= Depth(toks, b)
      OBVIOUS
    <3>1. Depth(toks, b) \in Depths
      OBVIOUS
    <3> QED
      BY <1>3, <3>1
  <2>3. b \notin Wrong
    BY <1>4, <1>5, <1>6, <2>1, <2>2
  <2> QED
    BY <2>1, <2>3
<1>7. Yields(toks, c, Run(toks, g, c))
  BY <1>5, <1>6, RunIsLocal
<1> QED
  BY <1>5, <1>7

(* A solution for all calls exists: each depth adds to the one before.     *)
LEMMA SolutionExists ==
  ASSUME NEW toks \in Seq(Token), NEW n \in Nat
  PROVE  \E g : Solves(toks, n, g)
<1> DEFINE Wrong == {m \in Nat : ~ \E g : Solves(toks, m, g)}
<1>1. SUFFICES ASSUME Wrong # {} PROVE FALSE
  OBVIOUS
<1>2. PICK m \in Wrong : \A k \in Wrong : m <= k
  <2>1. Wrong \in SUBSET Nat
    OBVIOUS
  <2> HIDE DEF Wrong
  <2> QED
    BY <1>1, <2>1, LeastNat
<1>3. m # 0
  <2>1. Below(toks, 0) = {}
    BY CallsAre DEF Below
  <2> DEFINE f == [c \in {} |-> 0]
  <2>2. f = [c \in Below(toks, 0) |-> Run(toks, f, c)]
    BY <2>1
  <2>3. \E g : Solves(toks, 0, g)
    <3> HIDE DEF f
    <3> QED
      BY <2>2 DEF Solves
  <2> QED
    BY <2>3
<1>4. m - 1 \in Nat /\ m - 1 \notin Wrong
  BY <1>2, <1>3
<1>5. PICK g : Solves(toks, m - 1, g)
  BY <1>4
<1> DEFINE h == [c \in Below(toks, m) |-> IF c \in Below(toks, m - 1) THEN g[c] ELSE Run(toks, g, c)]
<1>6. \A c \in Below(toks, m - 1) : c \in Below(toks, m) /\ g[c] = Run(toks, g, c)
  <2>1. \A c \in Below(toks, m - 1) : g[c] = Run(toks, g, c)
    BY <1>5 DEF Solves
  <2>2. \A c \in Below(toks, m - 1) : c \in Below(toks, m)
    BY <1>4, CallsAre DEF Below
  <2> QED
    BY <2>1, <2>2
<1>7. \A c \in Below(toks, m - 1) : Yields(toks, c, g[c])
  BY <1>4, <1>6, SolutionYields
<1>8. \A c \in Below(toks, m - 1) : g[c] = h[c]
  BY <1>6
<1>9. \A c \in Below(toks, m) : h[c] = Run(toks, g, c)
  BY <1>6
<1>10. ASSUME NEW c \in Below(toks, m) PROVE h[c] = Run(toks, h, c)
  <2> HIDE DEF h
  <2>1. c \in Calls(toks) /\ Depth(toks, c) \in Nat /\ Depth(toks, c) < m
    BY CallsAre DEF Below
  <2>2. ASSUME NEW d \in Calls(toks), Depth(toks, d) < Depth(toks, c)
        PROVE  Yields(toks, d, g[d]) /\ g[d] = h[d]
    <3>1. d \in Below(toks, m - 1)
      BY <2>1, <2>2, CallsAre DEF Below
    <3> QED
      BY <3>1, <1>7, <1>8
  <2>3. Run(toks, g, c) = Run(toks, h, c)
    BY <2>1, <2>2, RunIsLocal
  <2> QED
    BY <1>9, <2>3
<1>11. h = [c \in Below(toks, m) |-> Run(toks, h, c)]
  <2> DEFINE k == [c \in Below(toks, m) |-> Run(toks, h, c)]
  <2>1. \A c \in Below(toks, m) : h[c] = k[c]
    <3> HIDE DEF h
    <3> QED
      BY <1>10
  <2>2. DOMAIN h = Below(toks, m) /\ DOMAIN k = Below(toks, m)
    OBVIOUS
  <2>3. h = [c \in Below(toks, m) |-> h[c]]
    OBVIOUS
  <2> HIDE DEF h
  <2> QED
    BY <2>1, <2>3
<1>12. \E f : Solves(toks, m, f)
  <2> HIDE DEF h
  <2> QED
    BY <1>11 DEF Solves
<1> QED
  BY <1>2, <1>12

LEMMA ParserRuns ==
  ASSUME NEW toks \in Seq(Token)
  PROVE  \A c \in Calls(toks) : /\ Parser(toks)[c] = Run(toks, Parser(toks), c)
                                /\ Yields(toks, c, Parser(toks)[c])
<1> DEFINE n == 4 * Len(toks) + 4
<1>1. n \in Nat /\ Below(toks, n) = Calls(toks)
  BY CallsAre DEF Below
<1>2. \E g : g = [c \in Calls(toks) |-> Run(toks, g, c)]
  <2> HIDE DEF n
  <2> QED
    BY <1>1, SolutionExists DEF Solves
<1>3. Parser(toks) = CHOOSE g : g = [c \in Calls(toks) |-> Run(toks, g, c)]
  BY DEF Parser
<1>4. Parser(toks) = [c \in Calls(toks) |-> Run(toks, Parser(toks), c)]
  BY <1>2, <1>3
<1>5. \A c \in Calls(toks) : Parser(toks)[c] = Run(toks, Parser(toks), c)
  BY <1>4
<1>6. \A c \in Calls(toks) : Yields(toks, c, Parser(toks)[c])
  <2> HIDE DEF n
  <2> QED
    BY <1>1, <1>5, SolutionYields
<1> QED
  BY <1>5, <1>6

(* The grammar's sets of readings: those of a span are made of those of    *)
(* smaller spans, or of the same span and a stronger connective.           *)
Connectives == {"or", "and", "not", "simple"}
Size(s) == 4 * (s.to - s.from) + Rank(s.is)
Smaller(toks, n) == {s \in Phrases(toks) : Size(s) < n}
IsPhrase(toks, i, j) == i \in 1 .. Len(toks) /\ j \in 2 .. Len(toks) + 1 /\ i < j

LEMMA PhrasesAre ==
  ASSUME NEW toks \in Seq(Token)
  PROVE  /\ Len(toks) \in Nat
         /\ \A s \in Phrases(toks) : s.is \in Connectives /\ IsPhrase(toks, s.from, s.to)
         /\ \A s \in Phrases(toks) : Size(s) \in Nat /\ Size(s) < 4 * Len(toks) + 4
         /\ \A is \in Connectives : \A i, j :
              IsPhrase(toks, i, j) =>
                /\ Phrase(is, i, j) \in Phrases(toks)
                /\ Phrase(is, i, j).is = is /\ Phrase(is, i, j).from = i /\ Phrase(is, i, j).to = j
                /\ Size(Phrase(is, i, j)) = 4 * (j - i) + Rank(is)
<1>1. Len(toks) \in Nat
  OBVIOUS
<1>2. \A is \in Connectives : Rank(is) \in 0 .. 3
  BY DEF Connectives, Rank
<1>3. \A s \in Phrases(toks) : s.is \in Connectives /\ IsPhrase(toks, s.from, s.to)
  BY DEF Phrases, Connectives, IsPhrase
<1>4. \A s \in Phrases(toks) : Size(s) \in Nat /\ Size(s) < 4 * Len(toks) + 4
  BY <1>1, <1>2, <1>3 DEF Size, IsPhrase
<1>5. \A is \in Connectives : \A i, j :
        IsPhrase(toks, i, j) =>
          /\ Phrase(is, i, j) \in Phrases(toks)
          /\ Phrase(is, i, j).is = is /\ Phrase(is, i, j).from = i /\ Phrase(is, i, j).to = j
          /\ Size(Phrase(is, i, j)) = 4 * (j - i) + Rank(is)
  BY DEF Phrase, Phrases, Connectives, IsPhrase, Size
<1> QED
  BY <1>1, <1>3, <1>4, <1>5

LEMMA DeriveIsLocal ==
  ASSUME NEW toks \in Seq(Token), NEW s \in Phrases(toks), NEW g, NEW h,
         \A t \in Phrases(toks) : Size(t) < Size(s) => g[t] = h[t] /\ g[t] \subseteq Says
  PROVE  Derive(toks, g, s) = Derive(toks, h, s) /\ Derive(toks, g, s) \subseteq Says
<1> DEFINE i == s.from
           j == s.to
<1>1. /\ Len(toks) \in Nat /\ s.is \in Connectives /\ i \in 1 .. Len(toks) /\ j \in 2 .. Len(toks) + 1 /\ i < j
  BY PhrasesAre DEF IsPhrase
<1>2. Size(s) = 4 * (j - i) + Rank(s.is)
  BY DEF Size
<1>3. ASSUME NEW is \in Connectives, NEW k \in i .. j, NEW l \in i .. j, k < l,
             l - k < j - i \/ Rank(is) < Rank(s.is)
      PROVE  g[Phrase(is, k, l)] = h[Phrase(is, k, l)] /\ g[Phrase(is, k, l)] \subseteq Says
  <2>1. Rank(is) \in 0 .. 3 /\ Rank(s.is) \in 0 .. 3
    BY <1>1 DEF Rank, Connectives
  <2>2. IsPhrase(toks, k, l)
    BY <1>1, <1>3 DEF IsPhrase
  <2>3. 4 * (l - k) + Rank(is) < Size(s)
    <3>1. CASE l - k < j - i
      BY <1>1, <1>2, <2>1, <3>1
    <3>2. CASE Rank(is) < Rank(s.is)
      <4>1. l - k \in Int /\ j - i \in Int /\ l - k <= j - i
        BY <1>1
      <4>2. \A a, b \in Int : \A p, q \in 0 .. 3 : a <= b /\ p < q => 4 * a + p < 4 * b + q
        OBVIOUS
      <4> QED
        BY <1>2, <2>1, <3>2, <4>1, <4>2
    <3> QED
      BY <1>3, <3>1, <3>2
  <2> QED
    BY <2>2, <2>3, PhrasesAre
<1> HIDE DEF i, j
<1>4. CASE s.is = "simple"
  <2>1. Derive(toks, g, s) = Simple(toks, g, i, j) /\ Derive(toks, h, s) = Simple(toks, h, i, j)
    BY <1>4 DEF Derive, i, j
  <2>2. j > i + 2 => /\ g[Phrase("or", i + 1, j - 1)] = h[Phrase("or", i + 1, j - 1)]
                     /\ g[Phrase("or", i + 1, j - 1)] \subseteq Says
    <3> SUFFICES ASSUME j > i + 2
                 PROVE  /\ g[Phrase("or", i + 1, j - 1)] = h[Phrase("or", i + 1, j - 1)]
                        /\ g[Phrase("or", i + 1, j - 1)] \subseteq Says
      OBVIOUS
    <3>1. /\ i + 1 \in i .. j /\ j - 1 \in i .. j /\ i + 1 < j - 1 /\ (j - 1) - (i + 1) < j - i
      BY <1>1
    <3> QED
      BY <1>3, <3>1 DEF Connectives
  <2>3. Simple(toks, g, i, j) = Simple(toks, h, i, j)
    BY <2>2 DEF Simple
  <2>4. Simple(toks, g, i, j) \subseteq Says
    BY <2>2, NodesSay DEF Simple
  <2> QED
    BY <2>1, <2>3, <2>4
<1>5. CASE s.is = "not"
  <2>1. Derive(toks, g, s) = Negation(toks, g, i, j) /\ Derive(toks, h, s) = Negation(toks, h, i, j)
    BY <1>5 DEF Derive, i, j
  <2>2. g[Phrase("simple", i, j)] = h[Phrase("simple", i, j)] /\ g[Phrase("simple", i, j)] \subseteq Says
    <3>1. i \in i .. j /\ j \in i .. j /\ Rank("simple") < Rank(s.is)
      BY <1>1, <1>5 DEF Rank
    <3> QED
      BY <1>1, <1>3, <3>1 DEF Connectives
  <2>3. j > i + 1 => g[Phrase("not", i + 1, j)] = h[Phrase("not", i + 1, j)]
    <3> SUFFICES ASSUME j > i + 1 PROVE g[Phrase("not", i + 1, j)] = h[Phrase("not", i + 1, j)]
      OBVIOUS
    <3>1. i + 1 \in i .. j /\ j \in i .. j /\ i + 1 < j /\ j - (i + 1) < j - i
      BY <1>1
    <3> QED
      BY <1>3, <3>1 DEF Connectives
  <2>4. Negation(toks, g, i, j) = Negation(toks, h, i, j)
    BY <2>2, <2>3 DEF Negation
  <2>5. Negation(toks, g, i, j) \subseteq Says
    BY <2>2, NodesSay DEF Negation
  <2> QED
    BY <2>1, <2>4, <2>5
<1>6. CASE s.is = "and"
  <2>1. Derive(toks, g, s) = Conjunction(toks, g, i, j) /\ Derive(toks, h, s) = Conjunction(toks, h, i, j)
    BY <1>6 DEF Derive, i, j
  <2>2. g[Phrase("not", i, j)] = h[Phrase("not", i, j)] /\ g[Phrase("not", i, j)] \subseteq Says
    <3>1. i \in i .. j /\ j \in i .. j /\ Rank("not") < Rank(s.is)
      BY <1>1, <1>6 DEF Rank
    <3> QED
      BY <1>1, <1>3, <3>1 DEF Connectives
  <2>3. \A k \in Cuts(toks, i, j, {"&&", "and"}) :
          g[Phrase("and", i, k)] = h[Phrase("and", i, k)] /\ g[Phrase("not", k + 1, j)] = h[Phrase("not", k + 1, j)]
    <3> TAKE k \in Cuts(toks, i, j, {"&&", "and"})
    <3>1. /\ i \in i .. j /\ j \in i .. j /\ k \in i .. j /\ k + 1 \in i .. j /\ i < k /\ k + 1 < j
          /\ k - i < j - i /\ j - (k + 1) < j - i
      BY <1>1 DEF Cuts
    <3> QED
      BY <1>3, <3>1 DEF Connectives
  <2>4. Conjunction(toks, g, i, j) = Conjunction(toks, h, i, j)
    BY <2>2, <2>3 DEF Conjunction
  <2>5. Conjunction(toks, g, i, j) \subseteq Says
    BY <2>2, NodesSay DEF Conjunction
  <2> QED
    BY <2>1, <2>4, <2>5
<1>7. CASE s.is = "or"
  <2>1. Derive(toks, g, s) = Disjunction(toks, g, i, j) /\ Derive(toks, h, s) = Disjunction(toks, h, i, j)
    BY <1>7 DEF Derive, i, j
  <2>2. g[Phrase("and", i, j)] = h[Phrase("and", i, j)] /\ g[Phrase("and", i, j)] \subseteq Says
    <3>1. i \in i .. j /\ j \in i .. j /\ Rank("and") < Rank(s.is)
      BY <1>1, <1>7 DEF Rank
    <3> QED
      BY <1>1, <1>3, <3>1 DEF Connectives
  <2>3. \A k \in Cuts(toks, i, j, {"||", "or"}) :
          g[Phrase("or", i, k)] = h[Phrase("or", i, k)] /\ g[Phrase("and", k + 1, j)] = h[Phrase("and", k + 1, j)]
    <3> TAKE k \in Cuts(toks, i, j, {"||", "or"})
    <3>1. /\ i \in i .. j /\ j \in i .. j /\ k \in i .. j /\ k + 1 \in i .. j /\ i < k /\ k + 1 < j
          /\ k - i < j - i /\ j - (k + 1) < j - i
      BY <1>1 DEF Cuts
    <3> QED
      BY <1>3, <3>1 DEF Connectives
  <2>4. Disjunction(toks, g, i, j) = Disjunction(toks, h, i, j)
    BY <2>2, <2>3 DEF Disjunction
  <2>5. Disjunction(toks, g, i, j) \subseteq Says
    BY <2>2, NodesSay DEF Disjunction
  <2> QED
    BY <2>1, <2>4, <2>5
<1> QED
  BY <1>1, <1>4, <1>5, <1>6, <1>7 DEF Connectives

(* The spans smaller than n, each with what Derive makes of them.           *)
Covers(toks, n, g) == g = [c \in Smaller(toks, n) |-> Derive(toks, g, c)]

LEMMA CoverSays ==
  ASSUME NEW toks \in Seq(Token), NEW n \in Nat, NEW g, \A c \in Smaller(toks, n) : g[c] = Derive(toks, g, c)
  PROVE  \A c \in Smaller(toks, n) : g[c] \subseteq Says
<1> DEFINE Wrong == {c \in Smaller(toks, n) : ~ (g[c] \subseteq Says)}
           Sizes == {Size(c) : c \in Wrong}
<1>1. SUFFICES ASSUME Wrong # {} PROVE FALSE
  OBVIOUS
<1>2. Sizes \in SUBSET Nat /\ Sizes # {}
  BY <1>1, PhrasesAre DEF Smaller
<1>3. PICK d \in Sizes : \A e \in Sizes : d <= e
  <2> HIDE DEF Sizes
  <2> QED
    BY <1>2, LeastNat
<1>4. PICK c \in Wrong : Size(c) = d
  BY <1>3
<1>5. c \in Phrases(toks) /\ Size(c) < n /\ Size(c) \in Nat /\ c \in Smaller(toks, n)
  BY PhrasesAre DEF Smaller
<1>6. ASSUME NEW b \in Phrases(toks), Size(b) < Size(c) PROVE g[b] \subseteq Says
  <2>1. Size(b) \in Nat /\ b \in Smaller(toks, n)
    BY <1>5, <1>6, PhrasesAre DEF Smaller
  <2>2. b \in Wrong => d <= Size(b)
    <3> SUFFICES ASSUME b \in Wrong PROVE d <= Size(b)
      OBVIOUS
    <3>1. Size(b) \in Sizes
      OBVIOUS
    <3> QED
      BY <1>3, <3>1
  <2>3. b \notin Wrong
    BY <1>4, <1>5, <1>6, <2>1, <2>2
  <2> QED
    BY <2>1, <2>3
<1>7. Derive(toks, g, c) \subseteq Says
  BY <1>5, <1>6, DeriveIsLocal
<1> QED
  BY <1>5, <1>7

(* One for all spans exists: each size adds to the one before.             *)
LEMMA CoverExists ==
  ASSUME NEW toks \in Seq(Token), NEW n \in Nat
  PROVE  \E g : Covers(toks, n, g)
<1> DEFINE Wrong == {m \in Nat : ~ \E g : Covers(toks, m, g)}
<1>1. SUFFICES ASSUME Wrong # {} PROVE FALSE
  OBVIOUS
<1>2. PICK m \in Wrong : \A k \in Wrong : m <= k
  <2>1. Wrong \in SUBSET Nat
    OBVIOUS
  <2> HIDE DEF Wrong
  <2> QED
    BY <1>1, <2>1, LeastNat
<1>3. m # 0
  <2>1. Smaller(toks, 0) = {}
    BY PhrasesAre DEF Smaller
  <2> DEFINE f == [c \in {} |-> 0]
  <2>2. f = [c \in Smaller(toks, 0) |-> Derive(toks, f, c)]
    BY <2>1
  <2>3. \E g : Covers(toks, 0, g)
    <3> HIDE DEF f
    <3> QED
      BY <2>2 DEF Covers
  <2> QED
    BY <2>3
<1>4. m - 1 \in Nat /\ m - 1 \notin Wrong
  BY <1>2, <1>3
<1>5. PICK g : Covers(toks, m - 1, g)
  BY <1>4
<1> DEFINE h == [c \in Smaller(toks, m) |-> IF c \in Smaller(toks, m - 1) THEN g[c] ELSE Derive(toks, g, c)]
<1>6. \A c \in Smaller(toks, m - 1) : c \in Smaller(toks, m) /\ g[c] = Derive(toks, g, c)
  <2>1. \A c \in Smaller(toks, m - 1) : g[c] = Derive(toks, g, c)
    BY <1>5 DEF Covers
  <2>2. \A c \in Smaller(toks, m - 1) : c \in Smaller(toks, m)
    BY <1>4, PhrasesAre DEF Smaller
  <2> QED
    BY <2>1, <2>2
<1>7. \A c \in Smaller(toks, m - 1) : g[c] \subseteq Says
  BY <1>4, <1>6, CoverSays
<1>8. \A c \in Smaller(toks, m - 1) : g[c] = h[c]
  BY <1>6
<1>9. \A c \in Smaller(toks, m) : h[c] = Derive(toks, g, c)
  BY <1>6
<1>10. ASSUME NEW c \in Smaller(toks, m) PROVE h[c] = Derive(toks, h, c)
  <2> HIDE DEF h
  <2>1. c \in Phrases(toks) /\ Size(c) \in Nat /\ Size(c) < m
    BY PhrasesAre DEF Smaller
  <2>2. ASSUME NEW d \in Phrases(toks), Size(d) < Size(c)
        PROVE  g[d] \subseteq Says /\ g[d] = h[d]
    <3>1. d \in Smaller(toks, m - 1)
      BY <2>1, <2>2, PhrasesAre DEF Smaller
    <3> QED
      BY <3>1, <1>7, <1>8
  <2>3. Derive(toks, g, c) = Derive(toks, h, c)
    BY <2>1, <2>2, DeriveIsLocal
  <2> QED
    BY <1>9, <2>3
<1>11. h = [c \in Smaller(toks, m) |-> Derive(toks, h, c)]
  <2> DEFINE k == [c \in Smaller(toks, m) |-> Derive(toks, h, c)]
  <2>1. \A c \in Smaller(toks, m) : h[c] = k[c]
    <3> HIDE DEF h
    <3> QED
      BY <1>10
  <2>2. DOMAIN h = Smaller(toks, m) /\ DOMAIN k = Smaller(toks, m)
    OBVIOUS
  <2>3. h = [c \in Smaller(toks, m) |-> h[c]]
    OBVIOUS
  <2> HIDE DEF h
  <2> QED
    BY <2>1, <2>3
<1>12. \E f : Covers(toks, m, f)
  <2> HIDE DEF h
  <2> QED
    BY <1>11 DEF Covers
<1> QED
  BY <1>2, <1>12

LEMMA GrammarDerives ==
  ASSUME NEW toks \in Seq(Token)
  PROVE  \A c \in Phrases(toks) : /\ Grammar(toks)[c] = Derive(toks, Grammar(toks), c)
                                /\ Grammar(toks)[c] \subseteq Says
<1> DEFINE n == 4 * Len(toks) + 4
<1>1. n \in Nat /\ Smaller(toks, n) = Phrases(toks)
  BY PhrasesAre DEF Smaller
<1>2. \E g : g = [c \in Phrases(toks) |-> Derive(toks, g, c)]
  <2> HIDE DEF n
  <2> QED
    BY <1>1, CoverExists DEF Covers
<1>3. Grammar(toks) = CHOOSE g : g = [c \in Phrases(toks) |-> Derive(toks, g, c)]
  BY DEF Grammar
<1>4. Grammar(toks) = [c \in Phrases(toks) |-> Derive(toks, Grammar(toks), c)]
  BY <1>2, <1>3
<1>5. \A c \in Phrases(toks) : Grammar(toks)[c] = Derive(toks, Grammar(toks), c)
  BY <1>4
<1>6. \A c \in Phrases(toks) : Grammar(toks)[c] \subseteq Says
  <2> HIDE DEF n
  <2> QED
    BY <1>1, <1>5, CoverSays
<1> QED
  BY <1>5, <1>6

(* The parser and the grammar of one text, rule by rule.                   *)
At(toks, op, i) == Parser(toks)[Call(op, i)]
On(toks, op, i, left) == Parser(toks)[Loop(op, i, left)]
Reads(toks, is, i, j) == Grammar(toks)[Phrase(is, i, j)]

LEMMA ParserRules ==
  ASSUME NEW toks \in Seq(Token), NEW i \in 1 .. Len(toks) + 1
  PROVE  /\ \A op \in {"or", "and", "not", "primary"} :
              /\ At(toks, op, i).ok \in BOOLEAN
              /\ At(toks, op, i).ok => At(toks, op, i).says \in Says /\ At(toks, op, i).i \in i + 1 .. Len(toks) + 1
         /\ \A op \in {"moreOr", "moreAnd"}, m \in Says :
              /\ On(toks, op, i, m).ok \in BOOLEAN
              /\ On(toks, op, i, m).ok => On(toks, op, i, m).says \in Says /\ On(toks, op, i, m).i \in i .. Len(toks) + 1
         /\ At(toks, "or", i) = IF At(toks, "and", i).ok
                                THEN On(toks, "moreOr", At(toks, "and", i).i, At(toks, "and", i).says)
                                ELSE At(toks, "and", i)
         /\ At(toks, "and", i) = IF At(toks, "not", i).ok
                                 THEN On(toks, "moreAnd", At(toks, "not", i).i, At(toks, "not", i).says)
                                 ELSE At(toks, "not", i)
         /\ At(toks, "not", i) = ParseNot(toks, Parser(toks), i)
         /\ At(toks, "primary", i) = ParsePrimary(toks, Parser(toks), i)
         /\ \A m \in Says :
              /\ On(toks, "moreOr", i, m) = MoreOr(toks, Parser(toks), i, m)
              /\ On(toks, "moreAnd", i, m) = MoreAnd(toks, Parser(toks), i, m)
<1>1. \A op \in Ops : /\ At(toks, op, i) = Run(toks, Parser(toks), Call(op, i))
                      /\ Yields(toks, Call(op, i), At(toks, op, i))
                      /\ Call(op, i).op = op /\ Call(op, i).i = i
  BY CallsAre, ParserRuns DEF At
<1>2. \A op \in Ops, m \in Says : /\ On(toks, op, i, m) = Run(toks, Parser(toks), Loop(op, i, m))
                                  /\ Yields(toks, Loop(op, i, m), On(toks, op, i, m))
                                  /\ Loop(op, i, m).op = op /\ Loop(op, i, m).i = i /\ Loop(op, i, m).left = m
  BY CallsAre, ParserRuns DEF On
<1>3. \A op \in {"or", "and", "not", "primary"} :
        /\ At(toks, op, i).ok \in BOOLEAN
        /\ At(toks, op, i).ok => At(toks, op, i).says \in Says /\ At(toks, op, i).i \in i + 1 .. Len(toks) + 1
  BY <1>1 DEF Ops, Yields, First
<1>4. \A op \in {"moreOr", "moreAnd"}, m \in Says :
        /\ On(toks, op, i, m).ok \in BOOLEAN
        /\ On(toks, op, i, m).ok => On(toks, op, i, m).says \in Says /\ On(toks, op, i, m).i \in i .. Len(toks) + 1
  BY <1>2 DEF Ops, Yields, First
<1>5. At(toks, "or", i) = ParseOr(Parser(toks), i)
  BY <1>1 DEF Ops, Run
<1>6. At(toks, "and", i) = ParseAnd(Parser(toks), i)
  BY <1>1 DEF Ops, Run
<1>7. At(toks, "not", i) = ParseNot(toks, Parser(toks), i)
  BY <1>1 DEF Ops, Run
<1>8. At(toks, "primary", i) = ParsePrimary(toks, Parser(toks), i)
  BY <1>1 DEF Ops, Run
<1>9. \A m \in Says : On(toks, "moreOr", i, m) = MoreOr(toks, Parser(toks), i, m)
  BY <1>2 DEF Ops, Run
<1>10. \A m \in Says : On(toks, "moreAnd", i, m) = MoreAnd(toks, Parser(toks), i, m)
  BY <1>2 DEF Ops, Run
<1>11. At(toks, "or", i) = IF At(toks, "and", i).ok
                           THEN On(toks, "moreOr", At(toks, "and", i).i, At(toks, "and", i).says)
                           ELSE At(toks, "and", i)
  BY <1>5 DEF ParseOr, At, On
<1>12. At(toks, "and", i) = IF At(toks, "not", i).ok
                            THEN On(toks, "moreAnd", At(toks, "not", i).i, At(toks, "not", i).says)
                            ELSE At(toks, "not", i)
  BY <1>6 DEF ParseAnd, At, On
<1> QED
  BY <1>3, <1>4, <1>7, <1>8, <1>9, <1>10, <1>11, <1>12

LEMMA GrammarRules ==
  ASSUME NEW toks \in Seq(Token), NEW i, NEW j, IsPhrase(toks, i, j)
  PROVE  /\ \A is \in Connectives : Reads(toks, is, i, j) \subseteq Says
         /\ Reads(toks, "or", i, j) = Disjunction(toks, Grammar(toks), i, j)
         /\ Reads(toks, "and", i, j) = Conjunction(toks, Grammar(toks), i, j)
         /\ Reads(toks, "not", i, j) = Negation(toks, Grammar(toks), i, j)
         /\ Reads(toks, "simple", i, j) = Simple(toks, Grammar(toks), i, j)
<1>1. \A is \in Connectives : /\ Reads(toks, is, i, j) = Derive(toks, Grammar(toks), Phrase(is, i, j))
                              /\ Reads(toks, is, i, j) \subseteq Says
                              /\ Phrase(is, i, j).is = is /\ Phrase(is, i, j).from = i /\ Phrase(is, i, j).to = j
  BY PhrasesAre, GrammarDerives DEF Reads
<1>2. Reads(toks, "or", i, j) = Disjunction(toks, Grammar(toks), i, j)
  BY <1>1 DEF Connectives, Derive
<1>3. Reads(toks, "and", i, j) = Conjunction(toks, Grammar(toks), i, j)
  BY <1>1 DEF Connectives, Derive
<1>4. Reads(toks, "not", i, j) = Negation(toks, Grammar(toks), i, j)
  BY <1>1 DEF Connectives, Derive
<1>5. Reads(toks, "simple", i, j) = Simple(toks, Grammar(toks), i, j)
  BY <1>1 DEF Connectives, Derive
<1> QED
  BY <1>1, <1>2, <1>3, <1>4, <1>5

(* What may follow an operand.                                             *)
Connecting == {"&&", "and", "||", "or"}
EndsBefore(toks, j, connectives) == j > Len(toks) \/ toks[j].kind = ")" \/ Accepts(toks, j, connectives)

(* What the parser yields is a reading of the tokens it took.              *)
TakenRight(toks, i) ==
  /\ At(toks, "primary", i).ok /\ ~ Accepts(toks, i, {"!", "not"}) =>
       At(toks, "primary", i).says \in Reads(toks, "simple", i, At(toks, "primary", i).i)
  /\ \A op \in {"not", "and", "or"} :
       At(toks, op, i).ok => At(toks, op, i).says \in Reads(toks, op, i, At(toks, op, i).i)
  /\ \A f \in 1 .. i - 1 : \A m \in Reads(toks, "and", f, i) :
       On(toks, "moreAnd", i, m).ok =>
         On(toks, "moreAnd", i, m).says \in Reads(toks, "and", f, On(toks, "moreAnd", i, m).i)
  /\ \A f \in 1 .. i - 1 : \A m \in Reads(toks, "or", f, i) :
       On(toks, "moreOr", i, m).ok =>
         On(toks, "moreOr", i, m).says \in Reads(toks, "or", f, On(toks, "moreOr", i, m).i)

LEMMA TakesReadings ==
  ASSUME NEW toks \in Seq(Token), NEW i \in 1 .. Len(toks) + 1,
         \A k \in i + 1 .. Len(toks) + 1 : TakenRight(toks, k)
  PROVE  TakenRight(toks, i)
<1> DEFINE N == Len(toks)
<1>1. N \in Nat
  OBVIOUS
<1>2. ASSUME NEW k \in 1 .. i, NEW j \in k + 1 .. N + 1 PROVE IsPhrase(toks, k, j)
  BY <1>1, <1>2 DEF IsPhrase
<1>3. ASSUME At(toks, "primary", i).ok, ~ Accepts(toks, i, {"!", "not"})
      PROVE  At(toks, "primary", i).says \in Reads(toks, "simple", i, At(toks, "primary", i).i)
  <2> DEFINE r == At(toks, "primary", i)
  <2>1. r = ParsePrimary(toks, Parser(toks), i) /\ r.i \in i + 1 .. N + 1
    BY <1>3, ParserRules
  <2>2. Reads(toks, "simple", i, r.i) = Simple(toks, Grammar(toks), i, r.i)
    <3>1. IsPhrase(toks, i, r.i)
      BY <1>1, <1>2, <2>1
    <3> HIDE DEF r
    <3> QED
      BY <3>1, GrammarRules
  <2>3. i <= N /\ (toks[i].kind = "(" \/ toks[i].kind = "ident")
    BY <1>1, <1>3, <2>1 DEF ParsePrimary, Refused
  <2>4. CASE toks[i].kind = "("
    <3> DEFINE inner == At(toks, "or", i + 1)
    <3>1. i + 1 \in i + 1 .. N + 1 /\ i + 1 \in 1 .. N + 1
      BY <1>1, <2>3
    <3>2. inner.ok \in BOOLEAN /\ (inner.ok => inner.says \in Says /\ inner.i \in i + 2 .. N + 1)
      BY <1>1, <3>1, ParserRules
    <3>3. inner.ok => inner.says \in Reads(toks, "or", i + 1, inner.i)
      BY <3>1 DEF TakenRight
    <3> HIDE DEF inner
    <3>4. r = IF ~ inner.ok THEN inner
              ELSE IF inner.i > N \/ toks[inner.i].kind # ")" THEN Refused(inner.i)
              ELSE Parsed(inner.says, inner.i + 1)
      BY <1>1, <2>1, <2>3, <2>4 DEF ParsePrimary, inner, At
    <3>5. inner.ok /\ inner.i <= N /\ toks[inner.i].kind = ")"
      BY <1>1, <1>3, <3>2, <3>4 DEF Parsed, Refused
    <3>6. r.says = inner.says /\ r.i = inner.i + 1
      BY <1>1, <3>2, <3>4, <3>5 DEF Parsed
    <3>7. inner.says \in Grammar(toks)[Phrase("or", i + 1, inner.i)]
      BY <3>3, <3>5 DEF Reads
    <3>8. r.i > i + 2 /\ toks[r.i - 1].kind = ")" /\ r.i - 1 = inner.i
      BY <1>1, <3>2, <3>5, <3>6
    <3> HIDE DEF r
    <3>9. r.says \in Simple(toks, Grammar(toks), i, r.i)
      BY <2>4, <3>6, <3>7, <3>8 DEF Simple
    <3> QED
      BY <2>2, <3>9 DEF r
  <2>5. CASE toks[i].kind = "ident"
    <3>1. r = ParseField(toks, i)
      BY <1>1, <2>1, <2>3, <2>5 DEF ParsePrimary
    <3>2. IsName(toks, i)
      BY <1>3, <2>3, <2>5 DEF IsName, Accepts
    <3>3. CASE ~ IsComparison(toks, i + 1)
      <4>1. r.says = PresenceNode(toks[i].text) /\ r.i = i + 1
        BY <3>1, <3>3 DEF ParseField, Parsed, Refused
      <4> HIDE DEF r
      <4>2. r.says \in Simple(toks, Grammar(toks), i, r.i)
        BY <3>2, <4>1 DEF Simple
      <4> QED
        BY <2>2, <4>2 DEF r
    <3>4. CASE IsComparison(toks, i + 1)
      <4>1. IsValue(toks, i + 2)
        BY <1>3, <3>1, <3>4 DEF ParseField, Parsed, Refused
      <4>2. r.says = CompareNode(toks[i].text, toks[i + 1].text, toks[i + 2].text) /\ r.i = i + 3
        BY <3>1, <3>4, <4>1 DEF ParseField, Parsed, Refused
      <4> HIDE DEF r
      <4>3. r.says \in Simple(toks, Grammar(toks), i, r.i)
        BY <3>2, <3>4, <4>1, <4>2 DEF Simple
      <4> QED
        BY <2>2, <4>3 DEF r
    <3> QED
      BY <3>3, <3>4
  <2> QED
    BY <2>3, <2>4, <2>5
<1>4. ASSUME At(toks, "not", i).ok
      PROVE  At(toks, "not", i).says \in Reads(toks, "not", i, At(toks, "not", i).i)
  <2> DEFINE r == At(toks, "not", i)
  <2>1. r = ParseNot(toks, Parser(toks), i) /\ r.i \in i + 1 .. N + 1
    BY <1>4, ParserRules
  <2>2. Reads(toks, "not", i, r.i) = Negation(toks, Grammar(toks), i, r.i)
    <3>1. IsPhrase(toks, i, r.i)
      BY <1>1, <1>2, <2>1
    <3> HIDE DEF r
    <3> QED
      BY <3>1, GrammarRules
  <2>3. CASE ~ Accepts(toks, i, {"!", "not"})
    <3>1. r = At(toks, "primary", i)
      BY <2>1, <2>3 DEF ParseNot, At
    <3>2. r.says \in Reads(toks, "simple", i, r.i)
      BY <1>3, <1>4, <2>3, <3>1
    <3> HIDE DEF r
    <3> QED
      BY <2>2, <3>2 DEF Negation, Reads, r
  <2>4. CASE Accepts(toks, i, {"!", "not"})
    <3> DEFINE x == At(toks, "not", i + 1)
    <3>1. i + 1 \in i + 1 .. N + 1 /\ i + 1 \in 1 .. N + 1
      BY <1>1, <2>4 DEF Accepts
    <3>2. x.ok \in BOOLEAN /\ (x.ok => x.i \in i + 2 .. N + 1)
      BY <1>1, <3>1, ParserRules
    <3>3. x.ok => x.says \in Reads(toks, "not", i + 1, x.i)
      BY <3>1 DEF TakenRight
    <3> HIDE DEF x
    <3>4. r = IF x.ok THEN Parsed(NotNode(x.says), x.i) ELSE x
      BY <2>1, <2>4 DEF ParseNot, x, At
    <3>5. x.ok /\ r.says = NotNode(x.says) /\ r.i = x.i
      BY <1>4, <3>2, <3>4 DEF Parsed, Refused
    <3> HIDE DEF r
    <3>6. r.i > i + 1 /\ x.says \in Grammar(toks)[Phrase("not", i + 1, r.i)]
      BY <1>1, <3>2, <3>3, <3>5 DEF Reads
    <3>7. r.says \in Negation(toks, Grammar(toks), i, r.i)
      BY <2>4, <3>5, <3>6 DEF Negation
    <3> QED
      BY <2>2, <3>7 DEF r
  <2> QED
    BY <2>3, <2>4
<1>5. ASSUME NEW f \in 1 .. i - 1, NEW m \in Reads(toks, "and", f, i), On(toks, "moreAnd", i, m).ok
      PROVE  On(toks, "moreAnd", i, m).says \in Reads(toks, "and", f, On(toks, "moreAnd", i, m).i)
  <2> DEFINE r == On(toks, "moreAnd", i, m)
  <2>1. IsPhrase(toks, f, i)
    BY <1>1 DEF IsPhrase
  <2>2. m \in Says
    BY <2>1, GrammarRules DEF Connectives
  <2>3. r = MoreAnd(toks, Parser(toks), i, m) /\ r.i \in i .. N + 1
    BY <1>5, <2>2, ParserRules
  <2>4. CASE ~ Accepts(toks, i, {"&&", "and"})
    <3>1. r.says = m /\ r.i = i
      BY <2>3, <2>4 DEF MoreAnd, Parsed
    <3> QED
      BY <3>1
  <2>5. CASE Accepts(toks, i, {"&&", "and"})
    <3> DEFINE right == At(toks, "not", i + 1)
               both == AndNode(m, right.says)
               k == right.i
    <3>1. i + 1 \in i + 1 .. N + 1 /\ i + 1 \in 1 .. N + 1
      BY <1>1, <2>5 DEF Accepts
    <3>2. right.ok \in BOOLEAN /\ (right.ok => k \in i + 2 .. N + 1)
      BY <1>1, <3>1, ParserRules
    <3>3. right.ok => right.says \in Reads(toks, "not", i + 1, k)
      BY <3>1 DEF TakenRight
    <3> HIDE DEF right, k
    <3>4. r = IF right.ok THEN On(toks, "moreAnd", k, both) ELSE right
      BY <2>3, <2>5 DEF MoreAnd, right, k, At, On
    <3>5. right.ok
      BY <1>5, <3>2, <3>4
    <3>6. /\ k \in i + 1 .. N + 1 /\ f \in 1 .. k - 1 /\ f < k /\ i \in f + 1 .. k - 2
          /\ k \in 2 .. N + 1 /\ f \in 1 .. N
      BY <1>1, <3>2, <3>5
    <3>7. both \in Reads(toks, "and", f, k)
      <4>1. Reads(toks, "and", f, k) = Conjunction(toks, Grammar(toks), f, k)
        BY <3>6, GrammarRules DEF IsPhrase
      <4>2. i \in Cuts(toks, f, k, {"&&", "and"})
        BY <2>5, <3>6 DEF Cuts
      <4>3. <<m, right.says>> \in Grammar(toks)[Phrase("and", f, i)] \X Grammar(toks)[Phrase("not", i + 1, k)]
        BY <3>3, <3>5 DEF Reads
      <4>4. both \in {AndNode(x[1], x[2]) : x \in Grammar(toks)[Phrase("and", f, i)] \X Grammar(toks)[Phrase("not", i + 1, k)]}
        BY <4>3
      <4> HIDE DEF both
      <4> QED
        BY <4>1, <4>2, <4>4 DEF Conjunction
    <3> HIDE DEF both
    <3>8. r = On(toks, "moreAnd", k, both)
      BY <3>4, <3>5
    <3> QED
      BY <1>5, <3>6, <3>7, <3>8 DEF TakenRight
  <2> QED
    BY <2>4, <2>5
<1>6. ASSUME At(toks, "and", i).ok
      PROVE  At(toks, "and", i).says \in Reads(toks, "and", i, At(toks, "and", i).i)
  <2> DEFINE left == At(toks, "not", i)
             k == left.i
             m == left.says
  <2>1. left.ok \in BOOLEAN /\ (left.ok => m \in Says /\ k \in i + 1 .. N + 1)
    BY ParserRules
  <2>2. At(toks, "and", i) = IF left.ok THEN On(toks, "moreAnd", k, m) ELSE left
    BY ParserRules
  <2>3. left.ok
    BY <1>6, <2>1, <2>2
  <2>4. m \in Reads(toks, "not", i, k)
    BY <1>4, <2>3
  <2> HIDE DEF left, k, m
  <2>5. k \in i + 1 .. N + 1 /\ i \in 1 .. k - 1 /\ i \in 1 .. N /\ k \in 2 .. N + 1 /\ i < k
    BY <1>1, <2>1, <2>3
  <2>6. m \in Reads(toks, "and", i, k)
    <3>1. Reads(toks, "and", i, k) = Conjunction(toks, Grammar(toks), i, k)
      BY <2>5, GrammarRules DEF IsPhrase
    <3> QED
      BY <2>4, <3>1 DEF Conjunction, Reads
  <2>7. At(toks, "and", i) = On(toks, "moreAnd", k, m)
    BY <2>2, <2>3
  <2> QED
    BY <1>6, <2>5, <2>6, <2>7 DEF TakenRight
<1>7. ASSUME NEW f \in 1 .. i - 1, NEW m \in Reads(toks, "or", f, i), On(toks, "moreOr", i, m).ok
      PROVE  On(toks, "moreOr", i, m).says \in Reads(toks, "or", f, On(toks, "moreOr", i, m).i)
  <2> DEFINE r == On(toks, "moreOr", i, m)
  <2>1. IsPhrase(toks, f, i)
    BY <1>1 DEF IsPhrase
  <2>2. m \in Says
    BY <2>1, GrammarRules DEF Connectives
  <2>3. r = MoreOr(toks, Parser(toks), i, m) /\ r.i \in i .. N + 1
    BY <1>7, <2>2, ParserRules
  <2>4. CASE ~ Accepts(toks, i, {"||", "or"})
    <3>1. r.says = m /\ r.i = i
      BY <2>3, <2>4 DEF MoreOr, Parsed
    <3> QED
      BY <3>1
  <2>5. CASE Accepts(toks, i, {"||", "or"})
    <3> DEFINE right == At(toks, "and", i + 1)
               either == OrNode(m, right.says)
               k == right.i
    <3>1. i + 1 \in i + 1 .. N + 1 /\ i + 1 \in 1 .. N + 1
      BY <1>1, <2>5 DEF Accepts
    <3>2. right.ok \in BOOLEAN /\ (right.ok => k \in i + 2 .. N + 1)
      BY <1>1, <3>1, ParserRules
    <3>3. right.ok => right.says \in Reads(toks, "and", i + 1, k)
      BY <3>1 DEF TakenRight
    <3> HIDE DEF right, k
    <3>4. r = IF right.ok THEN On(toks, "moreOr", k, either) ELSE right
      BY <2>3, <2>5 DEF MoreOr, right, k, At, On
    <3>5. right.ok
      BY <1>7, <3>2, <3>4
    <3>6. /\ k \in i + 1 .. N + 1 /\ f \in 1 .. k - 1 /\ f < k /\ i \in f + 1 .. k - 2
          /\ k \in 2 .. N + 1 /\ f \in 1 .. N
      BY <1>1, <3>2, <3>5
    <3>7. either \in Reads(toks, "or", f, k)
      <4>1. Reads(toks, "or", f, k) = Disjunction(toks, Grammar(toks), f, k)
        BY <3>6, GrammarRules DEF IsPhrase
      <4>2. i \in Cuts(toks, f, k, {"||", "or"})
        BY <2>5, <3>6 DEF Cuts
      <4>3. <<m, right.says>> \in Grammar(toks)[Phrase("or", f, i)] \X Grammar(toks)[Phrase("and", i + 1, k)]
        BY <3>3, <3>5 DEF Reads
      <4>4. either \in {OrNode(x[1], x[2]) : x \in Grammar(toks)[Phrase("or", f, i)] \X Grammar(toks)[Phrase("and", i + 1, k)]}
        BY <4>3
      <4> HIDE DEF either
      <4> QED
        BY <4>1, <4>2, <4>4 DEF Disjunction
    <3> HIDE DEF either
    <3>8. r = On(toks, "moreOr", k, either)
      BY <3>4, <3>5
    <3> QED
      BY <1>7, <3>6, <3>7, <3>8 DEF TakenRight
  <2> QED
    BY <2>4, <2>5
<1>8. ASSUME At(toks, "or", i).ok
      PROVE  At(toks, "or", i).says \in Reads(toks, "or", i, At(toks, "or", i).i)
  <2> DEFINE left == At(toks, "and", i)
             k == left.i
             m == left.says
  <2>1. left.ok \in BOOLEAN /\ (left.ok => m \in Says /\ k \in i + 1 .. N + 1)
    BY ParserRules
  <2>2. At(toks, "or", i) = IF left.ok THEN On(toks, "moreOr", k, m) ELSE left
    BY ParserRules
  <2>3. left.ok
    BY <1>8, <2>1, <2>2
  <2>4. m \in Reads(toks, "and", i, k)
    BY <1>6, <2>3
  <2> HIDE DEF left, k, m
  <2>5. k \in i + 1 .. N + 1 /\ i \in 1 .. k - 1 /\ i \in 1 .. N /\ k \in 2 .. N + 1 /\ i < k
    BY <1>1, <2>1, <2>3
  <2>6. m \in Reads(toks, "or", i, k)
    <3>1. Reads(toks, "or", i, k) = Disjunction(toks, Grammar(toks), i, k)
      BY <2>5, GrammarRules DEF IsPhrase
    <3> QED
      BY <2>4, <3>1 DEF Disjunction, Reads
  <2>7. At(toks, "or", i) = On(toks, "moreOr", k, m)
    BY <2>2, <2>3
  <2> QED
    BY <1>8, <2>5, <2>6, <2>7 DEF TakenRight
<1> QED
  BY <1>3, <1>4, <1>5, <1>6, <1>7, <1>8 DEF TakenRight

LEMMA TakenRightEverywhere ==
  ASSUME NEW toks \in Seq(Token)
  PROVE  \A i \in 1 .. Len(toks) + 1 : TakenRight(toks, i)
<1> DEFINE N == Len(toks)
           Wrong == {n \in Nat : n <= N /\ ~ TakenRight(toks, N + 1 - n)}
<1>1. N \in Nat
  OBVIOUS
<1>2. Wrong = {}
  <2> SUFFICES ASSUME Wrong # {} PROVE FALSE
    OBVIOUS
  <2>1. PICK n \in Wrong : \A m \in Wrong : n <= m
    <3>1. Wrong \in SUBSET Nat
      OBVIOUS
    <3> HIDE DEF Wrong
    <3> QED
      BY <3>1, LeastNat
  <2> DEFINE i == N + 1 - n
  <2>2. n \in Nat /\ n <= N /\ ~ TakenRight(toks, i) /\ i \in 1 .. N + 1
    BY <1>1
  <2>3. ASSUME NEW k \in i + 1 .. N + 1 PROVE TakenRight(toks, k)
    <3>1. N + 1 - k \in Nat /\ N + 1 - k < n /\ N + 1 - k <= N /\ N + 1 - (N + 1 - k) = k
      BY <1>1, <2>2
    <3>2. N + 1 - k \notin Wrong
      <4> HIDE DEF Wrong
      <4> QED
        BY <2>1, <2>2, <3>1
    <3> QED
      BY <3>1, <3>2
  <2> HIDE DEF i
  <2> QED
    BY <2>2, <2>3, TakesReadings
<1>3. ASSUME NEW i \in 1 .. N + 1 PROVE TakenRight(toks, i)
  <2>1. N + 1 - i \in Nat /\ N + 1 - i <= N /\ N + 1 - (N + 1 - i) = i
    BY <1>1
  <2> QED
    BY <1>2, <2>1
<1> QED
  BY <1>3

(* A reading of a span is what the parser takes there, if what follows the *)
(* span may follow an operand: an operand is taken whole, and a chain of   *)
(* them brings the loop to its end with the reading so far to its left.    *)
TakenWhole(toks, i, j) ==
  /\ EndsBefore(toks, j, Connecting) =>
       /\ \A m \in Reads(toks, "simple", i, j) :
            At(toks, "primary", i) = Parsed(m, j) /\ ~ Accepts(toks, i, {"!", "not"})
       /\ \A m \in Reads(toks, "not", i, j) : At(toks, "not", i) = Parsed(m, j)
       /\ \A m \in Reads(toks, "and", i, j) : At(toks, "and", i) = On(toks, "moreAnd", j, m)
  /\ EndsBefore(toks, j, {"||", "or"}) =>
       \A m \in Reads(toks, "or", i, j) : At(toks, "or", i) = On(toks, "moreOr", j, m)

LEMMA TakesWhole ==
  ASSUME NEW toks \in Seq(Token), NEW i, NEW j, IsPhrase(toks, i, j),
         \A k, l : IsPhrase(toks, k, l) /\ l - k < j - i => TakenWhole(toks, k, l)
  PROVE  TakenWhole(toks, i, j)
<1> DEFINE N == Len(toks)
<1>1. N \in Nat /\ i \in 1 .. N /\ j \in 2 .. N + 1 /\ i < j /\ i \in 1 .. N + 1 /\ j \in 1 .. N + 1
  BY DEF IsPhrase
<1>2. ASSUME NEW k \in i .. j, NEW l \in i .. j, k < l, l - k < j - i
      PROVE  IsPhrase(toks, k, l) /\ TakenWhole(toks, k, l)
  <2>1. IsPhrase(toks, k, l)
    BY <1>1, <1>2 DEF IsPhrase
  <2> QED
    BY <1>2, <2>1
<1>3. EndsBefore(toks, j, {"||", "or"}) => EndsBefore(toks, j, Connecting)
  BY DEF EndsBefore, Accepts, Connecting
<1>4. ASSUME NEW k \in 1 .. N + 1, NEW m \in Says, EndsBefore(toks, k, {"||", "or"})
      PROVE  On(toks, "moreAnd", k, m) = Parsed(m, k)
  <2>1. ~ Accepts(toks, k, {"&&", "and"})
    BY <1>1, <1>4 DEF EndsBefore, Accepts
  <2>2. On(toks, "moreAnd", k, m) = MoreAnd(toks, Parser(toks), k, m)
    BY <1>4, ParserRules
  <2> QED
    BY <2>1, <2>2 DEF MoreAnd
<1>5. ASSUME EndsBefore(toks, j, Connecting), NEW m \in Reads(toks, "simple", i, j)
      PROVE  At(toks, "primary", i) = Parsed(m, j) /\ ~ Accepts(toks, i, {"!", "not"})
  <2>1. m \in Simple(toks, Grammar(toks), i, j)
    BY <1>5, GrammarRules
  <2>2. At(toks, "primary", i) = ParsePrimary(toks, Parser(toks), i)
    BY <1>1, ParserRules
  <2>3. \/ /\ j > i + 2 /\ toks[i].kind = "(" /\ toks[j - 1].kind = ")"
           /\ m \in Grammar(toks)[Phrase("or", i + 1, j - 1)]
        \/ j = i + 1 /\ IsName(toks, i) /\ m = PresenceNode(toks[i].text)
        \/ /\ j = i + 3 /\ IsName(toks, i) /\ IsComparison(toks, i + 1) /\ IsValue(toks, i + 2)
           /\ m = CompareNode(toks[i].text, toks[i + 1].text, toks[i + 2].text)
    BY <2>1 DEF Simple
  <2>4. CASE /\ j > i + 2 /\ toks[i].kind = "(" /\ toks[j - 1].kind = ")"
             /\ m \in Grammar(toks)[Phrase("or", i + 1, j - 1)]
    <3> DEFINE k == j - 1
    <3>1. /\ i + 1 \in i .. j /\ k \in i .. j /\ i + 1 < k /\ k - (i + 1) < j - i
          /\ k \in 1 .. N /\ k \in 1 .. N + 1
      BY <1>1, <2>4
    <3>2. IsPhrase(toks, i + 1, k) /\ TakenWhole(toks, i + 1, k)
      BY <1>2, <3>1
    <3>3. m \in Reads(toks, "or", i + 1, k) /\ m \in Says
      <4>1. m \in Reads(toks, "or", i + 1, k)
        BY <2>4 DEF Reads
      <4> QED
        BY <3>2, <4>1, GrammarRules DEF Connectives
    <3>4. EndsBefore(toks, k, {"||", "or"}) /\ ~ Accepts(toks, k, {"||", "or"})
      BY <2>4 DEF EndsBefore, Accepts
    <3>5. At(toks, "or", i + 1) = On(toks, "moreOr", k, m)
      BY <3>2, <3>3, <3>4 DEF TakenWhole
    <3>6. On(toks, "moreOr", k, m) = MoreOr(toks, Parser(toks), k, m)
      BY <3>1, <3>3, ParserRules
    <3>7. At(toks, "or", i + 1) = Parsed(m, k)
      BY <3>4, <3>5, <3>6 DEF MoreOr
    <3>8. k + 1 = j /\ k <= N /\ toks[k].kind = ")" /\ i <= N
      BY <1>1, <2>4, <3>1
    <3> HIDE DEF k
    <3>9. ParsePrimary(toks, Parser(toks), i) = Parsed(m, k + 1)
      <4> DEFINE inner == At(toks, "or", i + 1)
      <4>1. inner.ok /\ inner.says = m /\ inner.i = k
        BY <3>7 DEF Parsed
      <4>2. ParsePrimary(toks, Parser(toks), i)
              = IF ~ inner.ok THEN inner
                ELSE IF inner.i > N \/ toks[inner.i].kind # ")" THEN Refused(inner.i)
                ELSE Parsed(inner.says, inner.i + 1)
        BY <1>1, <2>4 DEF ParsePrimary, At
      <4> HIDE DEF inner
      <4> QED
        BY <1>1, <3>1, <3>8, <4>1, <4>2
    <3>10. ~ Accepts(toks, i, {"!", "not"})
      BY <2>4 DEF Accepts
    <3> QED
      BY <2>2, <3>8, <3>9, <3>10
  <2>5. CASE j = i + 1 /\ IsName(toks, i) /\ m = PresenceNode(toks[i].text)
    <3>1. ~ IsComparison(toks, i + 1)
      BY <1>1, <1>5, <2>5 DEF EndsBefore, Accepts, Connecting, IsComparison, Compared
    <3>2. ParsePrimary(toks, Parser(toks), i) = Parsed(m, i + 1)
      BY <1>1, <2>5, <3>1 DEF ParsePrimary, ParseField, IsName
    <3> QED
      BY <2>2, <2>5, <3>2 DEF IsName, Accepts
  <2>6. CASE /\ j = i + 3 /\ IsName(toks, i) /\ IsComparison(toks, i + 1) /\ IsValue(toks, i + 2)
             /\ m = CompareNode(toks[i].text, toks[i + 1].text, toks[i + 2].text)
    <3>1. ParsePrimary(toks, Parser(toks), i) = Parsed(m, i + 3)
      BY <1>1, <2>6 DEF ParsePrimary, ParseField, IsName
    <3> QED
      BY <2>2, <2>6, <3>1 DEF IsName, Accepts
  <2> QED
    BY <2>3, <2>4, <2>5, <2>6
<1>6. ASSUME EndsBefore(toks, j, Connecting), NEW m \in Reads(toks, "not", i, j)
      PROVE  At(toks, "not", i) = Parsed(m, j)
  <2>1. m \in Negation(toks, Grammar(toks), i, j)
    BY <1>6, GrammarRules
  <2>2. At(toks, "not", i) = ParseNot(toks, Parser(toks), i)
    BY <1>1, ParserRules
  <2>3. \/ m \in Reads(toks, "simple", i, j)
        \/ /\ j > i + 1 /\ Accepts(toks, i, {"!", "not"})
           /\ \E x \in Reads(toks, "not", i + 1, j) : m = NotNode(x)
    BY <2>1 DEF Negation, Reads
  <2>4. CASE m \in Reads(toks, "simple", i, j)
    <3>1. At(toks, "primary", i) = Parsed(m, j) /\ ~ Accepts(toks, i, {"!", "not"})
      BY <1>5, <1>6, <2>4
    <3> QED
      BY <2>2, <3>1 DEF ParseNot, At
  <2>5. CASE /\ j > i + 1 /\ Accepts(toks, i, {"!", "not"})
             /\ \E x \in Reads(toks, "not", i + 1, j) : m = NotNode(x)
    <3>1. PICK x \in Reads(toks, "not", i + 1, j) : m = NotNode(x)
      BY <2>5
    <3>2. i + 1 \in i .. j /\ j \in i .. j /\ i + 1 < j /\ j - (i + 1) < j - i
      BY <1>1, <2>5
    <3>3. TakenWhole(toks, i + 1, j)
      BY <1>2, <3>2
    <3>4. At(toks, "not", i + 1) = Parsed(x, j)
      BY <1>6, <3>3 DEF TakenWhole
    <3>5. ParseNot(toks, Parser(toks), i)
            = IF At(toks, "not", i + 1).ok
              THEN Parsed(NotNode(At(toks, "not", i + 1).says), At(toks, "not", i + 1).i)
              ELSE At(toks, "not", i + 1)
      BY <2>5 DEF ParseNot, At
    <3>6. At(toks, "not", i + 1).ok /\ At(toks, "not", i + 1).says = x /\ At(toks, "not", i + 1).i = j
      BY <3>4 DEF Parsed
    <3> QED
      BY <2>2, <3>1, <3>5, <3>6
  <2> QED
    BY <2>3, <2>4, <2>5
<1>7. ASSUME EndsBefore(toks, j, Connecting), NEW m \in Reads(toks, "and", i, j)
      PROVE  At(toks, "and", i) = On(toks, "moreAnd", j, m)
  <2>1. m \in Conjunction(toks, Grammar(toks), i, j)
    BY <1>7, GrammarRules
  <2>2. \/ m \in Reads(toks, "not", i, j)
        \/ \E k \in Cuts(toks, i, j, {"&&", "and"}) :
             \E x \in Reads(toks, "and", i, k) \X Reads(toks, "not", k + 1, j) : m = AndNode(x[1], x[2])
    BY <2>1 DEF Conjunction, Reads
  <2>3. CASE m \in Reads(toks, "not", i, j)
    <3>1. At(toks, "not", i) = Parsed(m, j)
      BY <1>6, <1>7, <2>3
    <3>2. At(toks, "not", i).ok /\ At(toks, "not", i).says = m /\ At(toks, "not", i).i = j
      BY <3>1 DEF Parsed
    <3> QED
      BY <1>1, <3>2, ParserRules
  <2>4. CASE \E k \in Cuts(toks, i, j, {"&&", "and"}) :
               \E x \in Reads(toks, "and", i, k) \X Reads(toks, "not", k + 1, j) : m = AndNode(x[1], x[2])
    <3>1. PICK k \in Cuts(toks, i, j, {"&&", "and"}) :
                 \E x \in Reads(toks, "and", i, k) \X Reads(toks, "not", k + 1, j) : m = AndNode(x[1], x[2])
      BY <2>4
    <3>2. PICK a \in Reads(toks, "and", i, k), b \in Reads(toks, "not", k + 1, j) : m = AndNode(a, b)
      BY <3>1
    <3>3. /\ i \in i .. j /\ j \in i .. j /\ k \in i .. j /\ k + 1 \in i .. j /\ i < k /\ k + 1 < j
          /\ k - i < j - i /\ j - (k + 1) < j - i /\ k \in 1 .. N + 1 /\ Accepts(toks, k, {"&&", "and"})
      BY <1>1 DEF Cuts
    <3>4. /\ IsPhrase(toks, i, k) /\ TakenWhole(toks, i, k)
          /\ IsPhrase(toks, k + 1, j) /\ TakenWhole(toks, k + 1, j)
      BY <1>2, <3>3
    <3>5. EndsBefore(toks, k, Connecting)
      BY <3>3 DEF EndsBefore, Accepts, Connecting
    <3>6. At(toks, "and", i) = On(toks, "moreAnd", k, a)
      BY <3>2, <3>4, <3>5 DEF TakenWhole
    <3>7. At(toks, "not", k + 1) = Parsed(b, j)
      BY <1>7, <3>2, <3>4 DEF TakenWhole
    <3>8. a \in Says
      BY <3>2, <3>4, GrammarRules DEF Connectives
    <3>9. On(toks, "moreAnd", k, a) = MoreAnd(toks, Parser(toks), k, a)
      BY <3>3, <3>8, ParserRules
    <3>10. MoreAnd(toks, Parser(toks), k, a)
             = IF At(toks, "not", k + 1).ok
               THEN On(toks, "moreAnd", At(toks, "not", k + 1).i, AndNode(a, At(toks, "not", k + 1).says))
               ELSE At(toks, "not", k + 1)
      BY <3>3 DEF MoreAnd, At, On
    <3>11. At(toks, "not", k + 1).ok /\ At(toks, "not", k + 1).says = b /\ At(toks, "not", k + 1).i = j
      BY <3>7 DEF Parsed
    <3> QED
      BY <3>2, <3>6, <3>9, <3>10, <3>11
  <2> QED
    BY <2>2, <2>3, <2>4
<1>8. ASSUME EndsBefore(toks, j, {"||", "or"}), NEW m \in Reads(toks, "or", i, j)
      PROVE  At(toks, "or", i) = On(toks, "moreOr", j, m)
  <2>1. m \in Disjunction(toks, Grammar(toks), i, j)
    BY <1>8, GrammarRules
  <2>2. \/ m \in Reads(toks, "and", i, j)
        \/ \E k \in Cuts(toks, i, j, {"||", "or"}) :
             \E x \in Reads(toks, "or", i, k) \X Reads(toks, "and", k + 1, j) : m = OrNode(x[1], x[2])
    BY <2>1 DEF Disjunction, Reads
  <2>3. CASE m \in Reads(toks, "and", i, j)
    <3>1. At(toks, "and", i) = On(toks, "moreAnd", j, m)
      BY <1>3, <1>7, <1>8, <2>3
    <3>2. m \in Says
      BY <2>3, GrammarRules DEF Connectives
    <3>3. At(toks, "and", i) = Parsed(m, j)
      BY <1>1, <1>4, <1>8, <3>1, <3>2
    <3>4. At(toks, "and", i).ok /\ At(toks, "and", i).says = m /\ At(toks, "and", i).i = j
      BY <3>3 DEF Parsed
    <3> QED
      BY <1>1, <3>4, ParserRules
  <2>4. CASE \E k \in Cuts(toks, i, j, {"||", "or"}) :
               \E x \in Reads(toks, "or", i, k) \X Reads(toks, "and", k + 1, j) : m = OrNode(x[1], x[2])
    <3>1. PICK k \in Cuts(toks, i, j, {"||", "or"}) :
                 \E x \in Reads(toks, "or", i, k) \X Reads(toks, "and", k + 1, j) : m = OrNode(x[1], x[2])
      BY <2>4
    <3>2. PICK a \in Reads(toks, "or", i, k), b \in Reads(toks, "and", k + 1, j) : m = OrNode(a, b)
      BY <3>1
    <3>3. /\ i \in i .. j /\ j \in i .. j /\ k \in i .. j /\ k + 1 \in i .. j /\ i < k /\ k + 1 < j
          /\ k - i < j - i /\ j - (k + 1) < j - i /\ k \in 1 .. N + 1 /\ Accepts(toks, k, {"||", "or"})
      BY <1>1 DEF Cuts
    <3>4. /\ IsPhrase(toks, i, k) /\ TakenWhole(toks, i, k)
          /\ IsPhrase(toks, k + 1, j) /\ TakenWhole(toks, k + 1, j)
      BY <1>2, <3>3
    <3>5. EndsBefore(toks, k, {"||", "or"})
      BY <3>3 DEF EndsBefore
    <3>6. At(toks, "or", i) = On(toks, "moreOr", k, a)
      BY <3>2, <3>4, <3>5 DEF TakenWhole
    <3>7. b \in Says /\ a \in Says
      BY <3>2, <3>4, GrammarRules DEF Connectives
    <3>8. At(toks, "and", k + 1) = On(toks, "moreAnd", j, b)
      BY <1>3, <1>8, <3>2, <3>4 DEF TakenWhole
    <3>9. At(toks, "and", k + 1) = Parsed(b, j)
      BY <1>1, <1>4, <1>8, <3>7, <3>8
    <3>10. On(toks, "moreOr", k, a) = MoreOr(toks, Parser(toks), k, a)
      BY <3>3, <3>7, ParserRules
    <3>11. MoreOr(toks, Parser(toks), k, a)
             = IF At(toks, "and", k + 1).ok
               THEN On(toks, "moreOr", At(toks, "and", k + 1).i, OrNode(a, At(toks, "and", k + 1).says))
               ELSE At(toks, "and", k + 1)
      BY <3>3 DEF MoreOr, At, On
    <3>12. At(toks, "and", k + 1).ok /\ At(toks, "and", k + 1).says = b /\ At(toks, "and", k + 1).i = j
      BY <3>9 DEF Parsed
    <3> QED
      BY <3>2, <3>6, <3>10, <3>11, <3>12
  <2> QED
    BY <2>2, <2>3, <2>4
<1> QED
  BY <1>5, <1>6, <1>7, <1>8 DEF TakenWhole

LEMMA TakenWholeEverywhere ==
  ASSUME NEW toks \in Seq(Token)
  PROVE  \A i, j : IsPhrase(toks, i, j) => TakenWhole(toks, i, j)
<1> DEFINE Wrong == {n \in Nat : \E i, j : IsPhrase(toks, i, j) /\ j - i = n /\ ~ TakenWhole(toks, i, j)}
<1>1. \A i, j : IsPhrase(toks, i, j) => j - i \in Nat
  BY DEF IsPhrase
<1>2. Wrong = {}
  <2> SUFFICES ASSUME Wrong # {} PROVE FALSE
    OBVIOUS
  <2>1. PICK n \in Wrong : \A m \in Wrong : n <= m
    <3>1. Wrong \in SUBSET Nat
      OBVIOUS
    <3> HIDE DEF Wrong
    <3> QED
      BY <3>1, LeastNat
  <2>2. PICK i, j : IsPhrase(toks, i, j) /\ j - i = n /\ ~ TakenWhole(toks, i, j)
    BY <2>1
  <2>3. n \in Nat
    BY <2>1
  <2>4. ASSUME NEW k, NEW l, IsPhrase(toks, k, l), l - k < j - i PROVE TakenWhole(toks, k, l)
    <3>1. l - k \in Nat /\ l - k < n
      BY <1>1, <2>2, <2>4
    <3>2. l - k \notin Wrong
      <4> HIDE DEF Wrong
      <4> QED
        BY <2>1, <2>3, <3>1
    <3> QED
      BY <2>4, <3>1, <3>2
  <2> QED
    BY <2>2, <2>4, TakesWhole
<1> QED
  BY <1>1, <1>2

(* Of any text, typed or not, the parser makes what the grammar does.      *)
LEMMA ParserReads ==
  ASSUME NEW toks \in Seq(Token), toks # <<>>
  PROVE  Readings(toks) = IF Compile(toks).ok THEN {Compile(toks).says} ELSE {}
<1> DEFINE N == Len(toks)
           root == At(toks, "or", 1)
<1>1. /\ N \in Nat \ {0} /\ 1 \in 1 .. N + 1 /\ N + 1 \in 1 .. N + 1 /\ IsPhrase(toks, 1, N + 1)
  BY EmptySeq DEF IsPhrase
<1>2. Readings(toks) = Reads(toks, "or", 1, N + 1) /\ Readings(toks) \subseteq Says
  BY <1>1, GrammarRules DEF Readings, Reads, Connectives
<1>3. Compile(toks) = IF root.ok /\ root.i <= N THEN Refused(root.i) ELSE root
  BY DEF Compile, At
<1>4. root.ok \in BOOLEAN /\ (root.ok => root.says \in Says /\ root.i \in 2 .. N + 1)
  BY <1>1, ParserRules
<1>5. root.ok => root.says \in Reads(toks, "or", 1, root.i)
  BY <1>1, TakenRightEverywhere DEF TakenRight
<1>6. ASSUME NEW m \in Readings(toks) PROVE root.ok /\ root.says = m /\ root.i = N + 1
  <2>1. TakenWhole(toks, 1, N + 1)
    BY <1>1, TakenWholeEverywhere
  <2>2. EndsBefore(toks, N + 1, {"||", "or"}) /\ ~ Accepts(toks, N + 1, {"||", "or"})
    BY <1>1 DEF EndsBefore, Accepts
  <2>3. root = On(toks, "moreOr", N + 1, m)
    BY <1>2, <1>6, <2>1, <2>2 DEF TakenWhole
  <2>4. On(toks, "moreOr", N + 1, m) = MoreOr(toks, Parser(toks), N + 1, m)
    BY <1>1, <1>2, <1>6, ParserRules
  <2>5. root = Parsed(m, N + 1)
    BY <2>2, <2>3, <2>4 DEF MoreOr
  <2> HIDE DEF root
  <2> QED
    BY <2>5 DEF Parsed
<1> HIDE DEF root
<1>7. CASE root.ok /\ root.i = N + 1
  <2>1. Compile(toks) = root
    BY <1>1, <1>3, <1>7
  <2>2. root.says \in Readings(toks)
    BY <1>2, <1>5, <1>7
  <2>3. \A m \in Readings(toks) : m = root.says
    BY <1>6
  <2>4. Readings(toks) = {root.says}
    BY <2>2, <2>3
  <2> QED
    BY <1>7, <2>1, <2>4
<1>8. CASE ~ (root.ok /\ root.i = N + 1)
  <2>1. Readings(toks) = {}
    BY <1>6, <1>8
  <2>2. Compile(toks).ok = FALSE
    <3>1. CASE ~ root.ok
      BY <1>3, <1>4, <3>1
    <3>2. CASE root.ok
      <4>1. root.i <= N
        BY <1>1, <1>4, <1>8, <3>2
      <4>2. Compile(toks) = Refused(root.i)
        BY <1>3, <3>2, <4>1
      <4> QED
        BY <4>2 DEF Refused
    <3> QED
      BY <1>4, <3>1, <3>2
  <2> QED
    BY <2>1, <2>2
<1> QED
  BY <1>7, <1>8

(* What is typed is a sequence of tokens within the bound.                 *)
THEOREM FilterTypes == FilterSpec => []FilterTypeOK
<1>1. FilterInit => FilterTypeOK
  BY FilterAssumption DEF FilterInit, FilterTypeOK
<1>2. FilterTypeOK /\ [FilterNext]_text => FilterTypeOK'
  <2> SUFFICES ASSUME FilterTypeOK, [FilterNext]_text PROVE FilterTypeOK'
    OBVIOUS
  <2>1. CASE ClearFilter
    BY <2>1, FilterAssumption DEF ClearFilter, FilterTypeOK
  <2>2. ASSUME NEW c \in Chunks, TypeChunk(c) PROVE FilterTypeOK'
    <3>1. /\ text \in Seq(Token) /\ c \in Seq(Token) /\ text' = text \o c
          /\ Len(text) + Len(c) <= MaxTokens
      BY <2>2, FilterAssumption DEF TypeChunk, FilterTypeOK
    <3>2. text \o c \in Seq(Token) /\ Len(text \o c) = Len(text) + Len(c)
      BY <3>1, ConcatProperties
    <3> QED
      BY <3>1, <3>2 DEF FilterTypeOK
  <2>3. CASE UNCHANGED text
    BY <2>3 DEF FilterTypeOK
  <2> QED
    BY <2>1, <2>2, <2>3 DEF FilterNext
<1> QED
  BY <1>1, <1>2, PTL DEF FilterSpec

(* Whatever is typed, the filter is accepted exactly if the grammar derives *)
(* it, and then has the one meaning the grammar gives it (dfilter.go        *)
(* parseOr to parsePrimary): the loops and the descent take each operator   *)
(* at its place, and nothing is ambiguous, not even fields named like one.  *)
THEOREM FiltersMeanOneThing == FilterSpec => []FilterMeaning
<1>1. FilterTypeOK => FilterMeaning
  BY ParserReads DEF FilterTypeOK, FilterMeaning, Compile
<1> QED
  BY <1>1, FilterTypes, PTL
=============================================================================
