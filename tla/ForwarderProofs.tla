--------------------------- MODULE ForwarderProofs ---------------------------
(***************************************************************************)
(* Proofs about Forwarder, for any names, interests, data and faces, any   *)
(* capacity of the content store and any number of steps.                  *)
(***************************************************************************)
EXTENDS Forwarder, TLAPS, SequenceTheorems, FiniteSetTheorems, WellFoundedInduction

USE ForwarderAssumption

Route == [face : Faces, cost : Costs]

-----------------------------------------------------------------------------
(* Facts about sets of numbers and about sequences *)

\* Min of a set of natural numbers is its least element.
LEMMA MinIsLeast ==
    ASSUME NEW I, I \subseteq Nat, I # {}
    PROVE  Min(I) \in I /\ \A y \in I : Min(I) <= y
<1>1. OpToRel(<, Nat) = {w \in Nat \X Nat : w[1] < w[2]}
  BY DEF OpToRel
<1>2. IsWellFoundedOn({w \in Nat \X Nat : w[1] < w[2]}, Nat)
  BY <1>1, NatLessThanWellFounded
<1>3. PICK x \in I : \A y \in I : ~(<<y, x>> \in {w \in Nat \X Nat : w[1] < w[2]})
  BY <1>2, WFMin
<1>4. ASSUME NEW y \in I PROVE x <= y
  <2>1. x \in Nat /\ y \in Nat /\ ~(<<y, x>> \in {w \in Nat \X Nat : w[1] < w[2]})
    BY <1>3, <1>4
  <2> QED
    BY <2>1
<1> QED
  BY <1>4 DEF Min

\* What RemoveAt leaves: the elements before and after the i-th, in their order.
LEMMA RemoveAtElements ==
    ASSUME NEW S, NEW s \in Seq(S), NEW i \in 1..Len(s)
    PROVE  /\ RemoveAt(s, i) \in Seq(S) /\ Len(RemoveAt(s, i)) = Len(s) - 1
           /\ \A j \in 1..(Len(s) - 1) : RemoveAt(s, i)[j] = s[IF j < i THEN j ELSE j + 1]
<1> DEFINE a == SubSeq(s, 1, i - 1)
           b == SubSeq(s, i + 1, Len(s))
<1>0. Len(s) \in Nat /\ i \in Nat
  OBVIOUS
<1>1. a \in Seq(S) /\ Len(a) = i - 1 /\ \A j \in 1..(i - 1) : a[j] = s[j]
  BY <1>0
<1>2. b \in Seq(S) /\ Len(b) = Len(s) - i /\ \A j \in 1..(Len(s) - i) : b[j] = s[i + j]
  BY <1>0
<1>3. RemoveAt(s, i) = a \o b
  BY DEF RemoveAt
<1> HIDE DEF a, b
<1>4. a \o b \in Seq(S) /\ Len(a \o b) = Len(s) - 1
  BY <1>0, <1>1, <1>2
<1>5. ASSUME NEW j \in 1..(Len(s) - 1) PROVE (a \o b)[j] = s[IF j < i THEN j ELSE j + 1]
  <2>1. CASE j < i
    BY <1>0, <1>1, <1>2, <1>5, <2>1
  <2>2. CASE ~(j < i)
    <3>1. (a \o b)[j] = b[j - (i - 1)]
      BY <1>0, <1>1, <1>2, <1>5, <2>2, SMTT(30)
    <3>2. j - (i - 1) \in 1..(Len(s) - i)
      BY <1>0, <1>5, <2>2
    <3>3. b[j - (i - 1)] = s[i + (j - (i - 1))] /\ i + (j - (i - 1)) = j + 1
      BY <1>0, <1>2, <3>2
    <3> QED
      BY <2>2, <3>1, <3>3
  <2> QED
    BY <2>1, <2>2
<1> QED
  BY <1>3, <1>4, <1>5

\* The interval from 1 to n has n elements.
LEMMA UpTo ==
    ASSUME NEW n \in Nat
    PROVE  IsFiniteSet(1..n) /\ Cardinality(1..n) = n
<1>1. n \in Int /\ 1 \in Int
  OBVIOUS
<1>2. IsFiniteSet(1..n) /\ Cardinality(1..n) = IF 1 > n THEN 0 ELSE n - 1 + 1
  BY ONLY <1>1, FS_Interval
<1>3. (IF 1 > n THEN 0 ELSE n - 1 + 1) = n
  OBVIOUS
<1> QED
  BY <1>2, <1>3

\* The elements of a sequence are those at its positions.
LEMMA ElementsAt ==
    ASSUME NEW S, NEW s \in Seq(S)
    PROVE  /\ DOMAIN s = 1..Len(s) /\ Len(s) \in Nat
           /\ \A i \in 1..Len(s) : s[i] \in S
           /\ \A e : e \in ToSet(s) <=> \E i \in 1..Len(s) : s[i] = e
<1>1. DOMAIN s = 1..Len(s) /\ Len(s) \in Nat
  OBVIOUS
<1>2. \A e : e \in ToSet(s) <=> \E i \in 1..Len(s) : s[i] = e
  BY <1>1 DEF ToSet
<1>3. \A i \in 1..Len(s) : s[i] \in S
  OBVIOUS
<1> QED
  BY <1>1, <1>2, <1>3

-----------------------------------------------------------------------------
(* The content store *)

\* The store has its type, one entry per name, and keeps to its capacity.
StoreOK(store) ==
    /\ store \in Seq(Data) /\ Len(store) <= Capacity
    /\ \A i, j \in DOMAIN store : store[i].name = store[j].name => i = j

\* What is left of the store without a name: the entries of other names, and one entry less if the
\* name was there.
LEMMA WithoutName ==
    ASSUME StoreOK(cs), NEW name
    PROVE  /\ Without(name) \in Seq(Data)
           /\ Len(Without(name)) <= Len(cs)
           /\ (\E i \in 1..Len(cs) : cs[i].name = name) => Len(Without(name)) = Len(cs) - 1
           /\ \A j \in 1..Len(Without(name)) :
                 /\ Without(name)[j].name # name
                 /\ \E k \in 1..Len(cs) : Without(name)[j] = cs[k]
           /\ \A i, j \in 1..Len(Without(name)) :
                 Without(name)[i].name = Without(name)[j].name => i = j
<1>0. /\ cs \in Seq(Data) /\ DOMAIN cs = 1..Len(cs) /\ Len(cs) \in Nat
      /\ \A i, j \in 1..Len(cs) : cs[i].name = cs[j].name => i = j
  BY DEF StoreOK
<1>1. CASE ~\E i \in 1..Len(cs) : cs[i].name = name
  <2>1. Without(name) = cs
    BY <1>0, <1>1 DEF Without, RemoveFirstMatch
  <2>2. \A j \in 1..Len(cs) : cs[j].name # name /\ \E k \in 1..Len(cs) : cs[j] = cs[k]
    BY <1>1
  <2>3. Len(cs) <= Len(cs)
    BY <1>0
  <2> QED
    BY ONLY <1>0, <1>1, <2>1, <2>2, <2>3
<1>2. CASE \E i \in 1..Len(cs) : cs[i].name = name
  <2> DEFINE I == {i \in 1..Len(cs) : cs[i].name = name}
  <2>1. Without(name) = RemoveAt(cs, Min(I))
    BY <1>0, <1>2 DEF Without, RemoveFirstMatch, SelectInSeq
  <2>2. I \subseteq Nat /\ I # {}
    <3>1. I # {}
      BY <1>2
    <3>2. I \subseteq Nat
      OBVIOUS
    <3> QED
      BY <3>1, <3>2
  <2> HIDE DEF I
  <2>3. Min(I) \in I
    BY <2>2, MinIsLeast
  <2>4. PICK m : m = Min(I)
    OBVIOUS
  <2>5. m \in 1..Len(cs) /\ cs[m].name = name
    BY <2>3, <2>4 DEF I
  <2>6. PICK w : w = Without(name)
    OBVIOUS
  <2>7. /\ w \in Seq(Data) /\ Len(w) = Len(cs) - 1
        /\ \A j \in 1..(Len(cs) - 1) : w[j] = cs[IF j < m THEN j ELSE j + 1]
    <3>1. PICK s : s = cs
      OBVIOUS
    <3>2. s \in Seq(Data) /\ m \in 1..Len(s)
      BY <1>0, <2>5, <3>1
    <3>3. /\ RemoveAt(s, m) \in Seq(Data) /\ Len(RemoveAt(s, m)) = Len(s) - 1
          /\ \A j \in 1..(Len(s) - 1) : RemoveAt(s, m)[j] = s[IF j < m THEN j ELSE j + 1]
      BY ONLY <3>2, RemoveAtElements
    <3>4. w = RemoveAt(s, m)
      BY <2>1, <2>4, <2>6, <3>1
    <3> QED
      BY ONLY <3>1, <3>3, <3>4
  <2>8. \A j \in 1..Len(w) : /\ w[j].name # name
                             /\ \E k \in 1..Len(cs) : w[j] = cs[k]
    <3> SUFFICES ASSUME NEW j \in 1..Len(w)
                 PROVE  w[j].name # name /\ \E k \in 1..Len(cs) : w[j] = cs[k]
      OBVIOUS
    <3> DEFINE k == IF j < m THEN j ELSE j + 1
    <3>1. k \in 1..Len(cs) /\ k # m
      BY <1>0, <2>5, <2>7
    <3>2. w[j] = cs[k]
      BY <2>7
    <3> HIDE DEF k
    <3> QED
      BY <1>0, <2>5, <3>1, <3>2
  <2>9. \A i, j \in 1..Len(w) : w[i].name = w[j].name => i = j
    <3> SUFFICES ASSUME NEW i \in 1..Len(w), NEW j \in 1..Len(w), w[i].name = w[j].name PROVE i = j
      OBVIOUS
    <3> DEFINE k == IF i < m THEN i ELSE i + 1
               l == IF j < m THEN j ELSE j + 1
    <3>1. k \in 1..Len(cs) /\ l \in 1..Len(cs) /\ w[i] = cs[k] /\ w[j] = cs[l]
      BY <1>0, <2>5, <2>7
    <3>2. (i # j => k # l)
      BY <1>0, <2>5, <2>7
    <3> HIDE DEF k, l
    <3> QED
      BY <1>0, <3>1, <3>2
  <2> QED
    BY <1>0, <2>6, <2>7, <2>8, <2>9
<1> QED
  BY <1>1, <1>2

\* A new first entry before the entries of other names.
LEMMA PutFirst ==
    ASSUME StoreOK(cs), NEW d \in Data
    PROVE  LET all == <<d>> \o Without(d.name) IN
           /\ all \in Seq(Data) /\ Len(all) = Len(Without(d.name)) + 1
           /\ \A i, j \in 1..Len(all) : all[i].name = all[j].name => i = j
           /\ \A i \in 1..Len(all) : all[i] = d \/ all[i] \in ToSet(cs)
<1>1. PICK w : w = Without(d.name)
  OBVIOUS
<1>2. /\ w \in Seq(Data) /\ Len(w) \in Nat
      /\ \A j \in 1..Len(w) : w[j].name # d.name /\ \E k \in 1..Len(cs) : w[j] = cs[k]
      /\ \A i, j \in 1..Len(w) : w[i].name = w[j].name => i = j
  BY <1>1, WithoutName
<1>3. PICK all : all = <<d>> \o w
  OBVIOUS
<1>4. /\ all \in Seq(Data) /\ Len(all) = Len(w) + 1 /\ all[1] = d
      /\ \A i \in 2..Len(all) : all[i] = w[i - 1]
  BY <1>2, <1>3
<1>5. \A i \in 1..Len(all) : all[i] = d \/ all[i] \in ToSet(cs)
  <2> SUFFICES ASSUME NEW i \in 2..Len(all) PROVE all[i] \in ToSet(cs)
    BY <1>4, SMTT(30)
  <2>1. i - 1 \in 1..Len(w)
    BY <1>2, <1>4
  <2>2. PICK k \in 1..Len(cs) : w[i - 1] = cs[k]
    BY <1>2, <2>1
  <2>3. cs \in Seq(Data)
    BY DEF StoreOK
  <2> QED
    BY <1>4, <2>2, <2>3, ElementsAt
<1>6. \A i, j \in 1..Len(all) : all[i].name = all[j].name => i = j
  <2> SUFFICES ASSUME NEW i \in 1..Len(all), NEW j \in 1..Len(all), all[i].name = all[j].name
               PROVE  i = j
    OBVIOUS
  <2>1. CASE i = 1 /\ j = 1
    BY <2>1
  <2>2. CASE i = 1 /\ j # 1
    <3>1. j \in 2..Len(all) /\ j - 1 \in 1..Len(w)
      BY <1>2, <1>4, <2>2
    <3> QED
      BY <1>2, <1>4, <2>2, <3>1, ZenonT(30)
  <2>3. CASE i # 1 /\ j = 1
    <3>1. i \in 2..Len(all) /\ i - 1 \in 1..Len(w)
      BY <1>2, <1>4, <2>3
    <3> QED
      BY <1>2, <1>4, <2>3, <3>1, ZenonT(30)
  <2>4. CASE i # 1 /\ j # 1
    <3>1. i \in 2..Len(all) /\ i - 1 \in 1..Len(w) /\ j \in 2..Len(all) /\ j - 1 \in 1..Len(w)
      BY <1>2, <1>4, <2>4
    <3>2. i - 1 = j - 1
      BY <1>2, <1>4, <3>1
    <3> QED
      BY <3>1, <3>2
  <2> QED
    BY <2>1, <2>2, <2>3, <2>4
<1> QED
  BY <1>1, <1>3, <1>4, <1>5, <1>6
\* What put leaves in the store is in order, and is what was there or the new data.
LEMMA InsertedFacts ==
    ASSUME StoreOK(cs), NEW d \in Data
    PROVE  StoreOK(Inserted(d)) /\ ToSet(Inserted(d)) \subseteq ToSet(cs) \cup {d}
<1>1. PICK all : all = <<d>> \o Without(d.name)
  OBVIOUS
<1>2. /\ all \in Seq(Data) /\ Len(all) \in Nat /\ Len(all) > 0
      /\ \A i, j \in 1..Len(all) : all[i].name = all[j].name => i = j
      /\ \A i \in 1..Len(all) : all[i] = d \/ all[i] \in ToSet(cs)
  <2>1. Without(d.name) \in Seq(Data)
    BY WithoutName
  <2> QED
    BY <1>1, <2>1, PutFirst, SMTT(30)
<1>3. PICK m : m = Min({Capacity, Len(all)})
  OBVIOUS
<1>4. m \in Nat /\ m <= Capacity /\ m <= Len(all)
  <2>1. {Capacity, Len(all)} \subseteq Nat /\ {Capacity, Len(all)} # {}
    BY <1>2
  <2> QED
    BY <1>3, <2>1, MinIsLeast
<1>5. PICK r : r = SubSeq(all, 1, m)
  OBVIOUS
<1>6. r \in Seq(Data) /\ Len(r) = m /\ DOMAIN r = 1..m /\ \A i \in 1..m : r[i] = all[i]
  BY <1>2, <1>4, <1>5
<1>7. Inserted(d) = r
  BY <1>1, <1>3, <1>5, ZenonT(60) DEF Inserted
<1>8. StoreOK(r)
  <2>1. \A i, j \in 1..m : r[i].name = r[j].name => i = j
    <3> SUFFICES ASSUME NEW i \in 1..m, NEW j \in 1..m, r[i].name = r[j].name
                 PROVE  i = j
      OBVIOUS
    <3>1. i \in 1..Len(all) /\ j \in 1..Len(all)
      BY ONLY <1>2, <1>4, SMT
    <3>2. all[i].name = all[j].name
      BY <1>6
    <3> QED
      BY <1>2, <3>1, <3>2, ZenonT(30)
  <2> QED
    BY <1>4, <1>6, <2>1 DEF StoreOK
<1>9. ToSet(r) \subseteq ToSet(cs) \cup {d}
  <2> SUFFICES ASSUME NEW e \in ToSet(r) PROVE e = d \/ e \in ToSet(cs)
    OBVIOUS
  <2>1. PICK i \in 1..m : r[i] = e
    BY <1>6 DEF ToSet
  <2> QED
    BY <1>2, <1>4, <1>6, <2>1
<1> QED
  BY <1>7, <1>8, <1>9

\* get reorders the store.
LEMMA TouchedFacts ==
    ASSUME StoreOK(cs), NEW interest
    PROVE  StoreOK(Touched(interest)) /\ ToSet(Touched(interest)) \subseteq ToSet(cs)
<1>1. CASE interest.can_be_prefix \/ Hits(interest) = {}
  BY <1>1 DEF Touched
<1>2. CASE ~(interest.can_be_prefix \/ Hits(interest) = {})
  <2>1. PICK d : d = CHOOSE e \in Hits(interest) : TRUE
    OBVIOUS
  <2>2. d \in Hits(interest)
    BY <1>2, <2>1
  <2>3. d \in ToSet(cs) /\ d.name = interest.name
    BY <1>2, <2>2 DEF Hits
  <2>4. cs \in Seq(Data) /\ Len(cs) \in Nat /\ Len(cs) <= Capacity
    BY DEF StoreOK
  <2>5. PICK k \in 1..Len(cs) : cs[k] = d
    BY <2>3, <2>4, ElementsAt
  <2>6. d \in Data
    BY <2>4, <2>5, ElementsAt
  <2>7. PICK all : all = <<d>> \o Without(d.name)
    OBVIOUS
  <2>8. /\ all \in Seq(Data) /\ Len(all) = Len(Without(d.name)) + 1
        /\ \A i, j \in 1..Len(all) : all[i].name = all[j].name => i = j
        /\ \A i \in 1..Len(all) : all[i] = d \/ all[i] \in ToSet(cs)
    BY <2>6, <2>7, PutFirst
  <2>9. Len(Without(d.name)) = Len(cs) - 1
    BY <2>5, WithoutName
  <2>10. Touched(interest) = all
    BY <1>2, <2>1, <2>3, <2>7 DEF Touched
  <2>11. StoreOK(all)
    <3>1. DOMAIN all = 1..Len(all)
      BY <2>8
    <3> QED
      BY <2>4, <2>8, <2>9, <3>1 DEF StoreOK
  <2>12. ToSet(all) \subseteq ToSet(cs)
    <3> SUFFICES ASSUME NEW e \in ToSet(all) PROVE e \in ToSet(cs)
      OBVIOUS
    <3>1. PICK i \in 1..Len(all) : all[i] = e
      BY <2>8, ElementsAt
    <3> QED
      BY <2>3, <2>8, <3>1
  <2> QED
    BY <2>10, <2>11, <2>12
<1> QED
  BY <1>1, <1>2

-----------------------------------------------------------------------------
(* The routes of a name *)

\* Routes have their type and one of them a face.
RoutesOK(e) ==
    /\ e \in Seq(Route)
    /\ \A i, j \in DOMAIN e : e[i].face = e[j].face => i = j

\* The cheapest come first.
ByCost(e) == \A i, j \in DOMAIN e : i < j => e[i].cost <= e[j].cost

\* The routes that are not after the j-th.
NotAfter(e, j) == {i \in DOMAIN e : \/ e[i].cost < e[j].cost
                                    \/ (e[i].cost = e[j].cost /\ i <= j)}

\* Costs can be compared.
LEMMA CostsAreNumbers == \A r \in Route : r.cost \in Nat
BY DEF Route

\* Places are positions, and routes in the order of cost and position have increasing places.
LEMMA PlacesIncrease ==
    ASSUME NEW e \in Seq(Route)
    PROVE  /\ \A j \in 1..Len(e) : Place(e, j) \in 1..Len(e)
           /\ \A i, j \in 1..Len(e) :
                 e[i].cost < e[j].cost \/ (e[i].cost = e[j].cost /\ i < j) =>
                     Place(e, i) < Place(e, j)
<1>1. Len(e) \in Nat /\ DOMAIN e = 1..Len(e) /\ \A j \in 1..Len(e) : e[j].cost \in Nat
  BY CostsAreNumbers, ElementsAt
<1>2. IsFiniteSet(1..Len(e)) /\ Cardinality(1..Len(e)) = Len(e)
  BY <1>1, UpTo
<1>3. ASSUME NEW j \in 1..Len(e)
      PROVE  /\ NotAfter(e, j) \subseteq 1..Len(e) /\ j \in NotAfter(e, j)
             /\ IsFiniteSet(NotAfter(e, j)) /\ Place(e, j) = Cardinality(NotAfter(e, j))
             /\ Place(e, j) \in 1..Len(e)
  <2>1. NotAfter(e, j) \subseteq 1..Len(e)
    BY <1>1 DEF NotAfter
  <2>2. j \in NotAfter(e, j)
    BY <1>1, <1>3 DEF NotAfter
  <2>3. PICK N : N = NotAfter(e, j)
    OBVIOUS
  <2>4. IsFiniteSet(N) /\ Cardinality(N) <= Len(e)
    BY <1>2, <2>1, <2>3, FS_Subset
  <2>5. Cardinality(N) \in Nat /\ Cardinality(N) # 0
    BY <2>2, <2>3, <2>4, FS_CardinalityType, FS_EmptySet
  <2>6. Place(e, j) = Cardinality(N)
    BY <2>3 DEF Place, NotAfter
  <2> QED
    BY <1>1, <2>1, <2>2, <2>3, <2>4, <2>5, <2>6
<1>4. ASSUME NEW i \in 1..Len(e), NEW j \in 1..Len(e),
             e[i].cost < e[j].cost \/ (e[i].cost = e[j].cost /\ i < j)
      PROVE  Place(e, i) < Place(e, j)
  <2>1. PICK M : M = NotAfter(e, i)
    OBVIOUS
  <2>2. PICK N : N = NotAfter(e, j)
    OBVIOUS
  <2>3. M \subseteq N
    BY <1>1, <1>4, <2>1, <2>2 DEF NotAfter
  <2>4. j \notin M
    BY <1>1, <1>4, <2>1 DEF NotAfter
  <2>5. j \in N /\ IsFiniteSet(N)
    BY <1>3, <2>2
  <2>6. Cardinality(M) \in Nat /\ Cardinality(N) \in Nat /\ Cardinality(M) < Cardinality(N)
    <3>1. IsFiniteSet(M) /\ Cardinality(M) <= Cardinality(N)
      BY <2>3, <2>5, FS_Subset
    <3>2. Cardinality(M) # Cardinality(N)
      BY <2>3, <2>4, <2>5, FS_Subset
    <3> QED
      BY <2>5, <3>1, <3>2, FS_CardinalityType
  <2> QED
    BY <1>3, <2>1, <2>2, <2>6
<1> QED
  BY <1>3, <1>4

\* Every position is the place of a route.
LEMMA PlacesFill ==
    ASSUME NEW e \in Seq(Route), NEW k \in 1..Len(e)
    PROVE  \E j \in 1..Len(e) : Place(e, j) = k
<1> SUFFICES ASSUME \A j \in 1..Len(e) : Place(e, j) # k PROVE FALSE
  OBVIOUS
<1>1. Len(e) \in Nat /\ \A j \in 1..Len(e) : e[j].cost \in Nat
  BY CostsAreNumbers, ElementsAt
<1> DEFINE S == 1..Len(e)
           T == S \ {k}
           f == [j \in S |-> Place(e, j)]
<1>2. IsFiniteSet(S) /\ Cardinality(S) = Len(e)
  BY <1>1, UpTo
<1>3. f \in [S -> T]
  BY PlacesIncrease
<1>4. k \in S
  OBVIOUS
<1> HIDE DEF S
<1>5. IsFiniteSet(T) /\ Cardinality(T) = Cardinality(S) - 1
  BY <1>2, <1>4, FS_RemoveElement
<1>6. Cardinality(T) < Cardinality(S)
  BY <1>1, <1>2, <1>5
<1>7. \A x \in S : f[x] = Place(e, x)
  OBVIOUS
<1> HIDE DEF T, f
<1>8. PICK x \in S, y \in S : x # y /\ f[x] = f[y]
  BY <1>2, <1>3, <1>5, <1>6, FS_PigeonHole
<1>9. x \in 1..Len(e) /\ y \in 1..Len(e) /\ x # y /\ Place(e, x) = Place(e, y)
  BY <1>7, <1>8 DEF S
<1>10. Place(e, x) \in Nat /\ Place(e, y) \in Nat
  BY <1>1, <1>9, PlacesIncrease
<1>11. CASE e[x].cost < e[y].cost \/ (e[x].cost = e[y].cost /\ x < y)
  <2>1. Place(e, x) < Place(e, y)
    BY <1>9, <1>11, PlacesIncrease
  <2> QED
    BY <1>9, <1>10, <2>1
<1>12. CASE e[y].cost < e[x].cost \/ (e[y].cost = e[x].cost /\ y < x)
  <2>1. Place(e, y) < Place(e, x)
    BY <1>9, <1>12, PlacesIncrease
  <2> QED
    BY <1>9, <1>10, <2>1
<1>13. \/ e[x].cost < e[y].cost \/ (e[x].cost = e[y].cost /\ x < y)
       \/ e[y].cost < e[x].cost \/ (e[y].cost = e[x].cost /\ y < x)
  <2>1. e[x].cost \in Nat /\ e[y].cost \in Nat /\ x \in Nat /\ y \in Nat
    BY <1>1, <1>9
  <2> QED
    BY <1>9, <2>1, SMTT(30)
<1> QED
  BY <1>11, <1>12, <1>13

\* Sorting keeps the routes and puts them in order of cost.
LEMMA SortedFacts ==
    ASSUME NEW e, RoutesOK(e)
    PROVE  /\ RoutesOK(Sorted(e)) /\ ByCost(Sorted(e)) /\ Len(Sorted(e)) = Len(e)
<1>1. /\ e \in Seq(Route) /\ Len(e) \in Nat /\ DOMAIN e = 1..Len(e)
      /\ \A i, j \in 1..Len(e) : e[i].face = e[j].face => i = j
  BY DEF RoutesOK
<1> DEFINE at(k) == CHOOSE j \in DOMAIN e : Place(e, j) = k
<1>2. ASSUME NEW k \in 1..Len(e) PROVE at(k) \in 1..Len(e) /\ Place(e, at(k)) = k
  <2>1. \E j \in DOMAIN e : Place(e, j) = k
    BY <1>1, <1>2, PlacesFill
  <2> QED
    BY <1>1, <2>1
<1>3. PICK r : r = Sorted(e)
  OBVIOUS
<1>4. r = [k \in 1..Len(e) |-> e[at(k)]]
  BY <1>1, <1>3 DEF Sorted
<1> HIDE DEF at
<1>5. \A k \in 1..Len(e) : r[k] = e[at(k)] /\ e[at(k)] \in Route
  BY <1>1, <1>2, <1>4, ElementsAt
<1>6. r \in Seq(Route) /\ Len(r) = Len(e) /\ DOMAIN r = 1..Len(e)
  <2>1. r \in [1..Len(e) -> Route]
    BY <1>4, <1>5
  <2>2. PICK n \in Nat : n = Len(e)
    BY <1>1
  <2>3. r \in [1..n -> Route]
    BY <2>1, <2>2
  <2>4. r \in Seq(Route)
    BY <2>3
  <2> QED
    BY <2>2, <2>3, <2>4, LenProperties
<1>7. \A k, l \in 1..Len(e) : r[k].face = r[l].face => k = l
  <2> SUFFICES ASSUME NEW k \in 1..Len(e), NEW l \in 1..Len(e), r[k].face = r[l].face PROVE k = l
    OBVIOUS
  <2>1. at(k) = at(l)
    BY <1>1, <1>2, <1>5
  <2> QED
    BY <1>2, <2>1
<1>8. \A k, l \in 1..Len(e) : k < l => r[k].cost <= r[l].cost
  <2> SUFFICES ASSUME NEW k \in 1..Len(e), NEW l \in 1..Len(e), k < l PROVE r[k].cost <= r[l].cost
    OBVIOUS
  <2>1. r[k].cost \in Nat /\ r[l].cost \in Nat
    BY <1>5, CostsAreNumbers
  <2>2. CASE r[l].cost < r[k].cost
    <3>1. e[at(l)].cost < e[at(k)].cost
      BY <1>5, <2>2
    <3>2. PICK x, y : x = at(l) /\ y = at(k)
      OBVIOUS
    <3>3. x \in 1..Len(e) /\ y \in 1..Len(e) /\ Place(e, x) = l /\ Place(e, y) = k
      BY <1>2, <3>2
    <3>4. Place(e, x) < Place(e, y)
      BY <1>1, <3>1, <3>2, <3>3, PlacesIncrease
    <3> QED
      BY <1>1, <3>3, <3>4
  <2> QED
    BY <2>1, <2>2
<1> QED
  BY <1>3, <1>6, <1>7, <1>8 DEF RoutesOK, ByCost

\* Fib::insert leaves one route per face, sorted.
LEMMA WithRouteFacts ==
    ASSUME NEW e, RoutesOK(e), NEW f \in Faces, NEW c \in Costs
    PROVE  RoutesOK(WithRoute(e, f, c)) /\ ByCost(WithRoute(e, f, c))
<1>1. /\ e \in Seq(Route) /\ Len(e) \in Nat /\ DOMAIN e = 1..Len(e)
      /\ \A i, j \in 1..Len(e) : e[i].face = e[j].face => i = j
      /\ \A i \in 1..Len(e) : e[i] \in Route
  BY ElementsAt DEF RoutesOK
<1>2. CASE \E i \in DOMAIN e : e[i].face = f
  <2>1. PICK u : u = [i \in DOMAIN e |-> IF e[i].face = f THEN [e[i] EXCEPT !.cost = c] ELSE e[i]]
    OBVIOUS
  <2>2. \A i \in 1..Len(e) : u[i] \in Route /\ u[i].face = e[i].face
    BY <1>1, <2>1 DEF Route
  <2>3. u \in Seq(Route) /\ DOMAIN u = 1..Len(e)
    <3>1. PICK n \in Nat : n = Len(e)
      BY <1>1
    <3>2. u \in [1..n -> Route]
      BY <1>1, <2>1, <2>2, <3>1
    <3> QED
      BY <3>1, <3>2
  <2>4. RoutesOK(u)
    BY <1>1, <2>2, <2>3 DEF RoutesOK
  <2>5. WithRoute(e, f, c) = Sorted(u)
    BY <1>2, <2>1 DEF WithRoute
  <2> QED
    BY <2>4, <2>5, SortedFacts
<1>3. CASE ~\E i \in DOMAIN e : e[i].face = f
  <2>1. PICK r : r = [face |-> f, cost |-> c]
    OBVIOUS
  <2>2. PICK u : u = Append(e, r)
    OBVIOUS
  <2>3. r \in Route /\ r.face = f
    BY <2>1 DEF Route
  <2>4. /\ u \in Seq(Route) /\ DOMAIN u = 1..(Len(e) + 1)
        /\ u[Len(e) + 1] = r /\ \A i \in 1..Len(e) : u[i] = e[i]
    BY <1>1, <2>2, <2>3
  <2>5. \A i, j \in 1..(Len(e) + 1) : u[i].face = u[j].face => i = j
    <3> SUFFICES ASSUME NEW i \in 1..(Len(e) + 1), NEW j \in 1..(Len(e) + 1), u[i].face = u[j].face
                 PROVE  i = j
      OBVIOUS
    <3>1. (i \in 1..Len(e) \/ i = Len(e) + 1) /\ (j \in 1..Len(e) \/ j = Len(e) + 1)
      <4>1. PICK n : n = Len(e)
        OBVIOUS
      <4>2. n \in Nat /\ i \in 1..(n + 1) /\ j \in 1..(n + 1)
        BY <1>1, <4>1
      <4>3. (i \in 1..n \/ i = n + 1) /\ (j \in 1..n \/ j = n + 1)
        BY ONLY <4>2
      <4> QED
        BY <4>1, <4>3
    <3>2. \A k \in 1..Len(e) : u[k].face # f
      BY <1>1, <1>3, <2>4
    <3> QED
      BY <1>1, <2>3, <2>4, <3>1, <3>2
  <2>6. RoutesOK(u)
    BY <2>4, <2>5 DEF RoutesOK
  <2>7. WithRoute(e, f, c) = Sorted(u)
    BY <1>3, <2>1, <2>2 DEF WithRoute
  <2> QED
    BY <2>6, <2>7, SortedFacts
<1> QED
  BY <1>2, <1>3

\* The routes of a name without a face.
OtherRoutes(e, f) == RemoveFirstMatch(e, LAMBDA r : r.face = f)

\* Taking a face out of the routes of a name keeps their order.
LEMMA WithoutFaceFacts ==
    ASSUME NEW e, RoutesOK(e), ByCost(e), NEW f
    PROVE  RoutesOK(OtherRoutes(e, f)) /\ ByCost(OtherRoutes(e, f))
<1>1. /\ e \in Seq(Route) /\ Len(e) \in Nat /\ DOMAIN e = 1..Len(e)
      /\ \A i, j \in 1..Len(e) : e[i].face = e[j].face => i = j
      /\ \A i, j \in 1..Len(e) : i < j => e[i].cost <= e[j].cost
  BY DEF RoutesOK, ByCost
<1>2. PICK w : w = OtherRoutes(e, f)
  OBVIOUS
<1>3. CASE ~\E i \in 1..Len(e) : e[i].face = f
  <2>1. w = e
    BY <1>1, <1>2, <1>3 DEF OtherRoutes, RemoveFirstMatch
  <2> QED
    BY <1>2, <2>1
<1>4. CASE \E i \in 1..Len(e) : e[i].face = f
  <2> DEFINE I == {i \in 1..Len(e) : e[i].face = f}
  <2>1. w = RemoveAt(e, Min(I))
    BY <1>1, <1>2, <1>4 DEF OtherRoutes, RemoveFirstMatch, SelectInSeq
  <2>2. I \subseteq Nat
    OBVIOUS
  <2>3. I # {}
    BY <1>4
  <2>4. I \subseteq 1..Len(e)
    OBVIOUS
  <2> HIDE DEF I
  <2>5. PICK m : m = Min(I)
    OBVIOUS
  <2>6. m \in 1..Len(e)
    BY <2>2, <2>3, <2>4, <2>5, MinIsLeast
  <2>7. w = RemoveAt(e, m)
    BY <2>1, <2>5
  <2>8. /\ w \in Seq(Route) /\ Len(w) = Len(e) - 1
        /\ \A j \in 1..(Len(e) - 1) : w[j] = e[IF j < m THEN j ELSE j + 1]
    BY <1>1, <2>6, <2>7, RemoveAtElements, ZenonT(30)
  <2>9. DOMAIN w = 1..Len(w)
    BY <2>8
  <2>10. ASSUME NEW i \in 1..Len(w), NEW j \in 1..Len(w)
         PROVE  /\ w[i].face = w[j].face => i = j
                /\ i < j => w[i].cost <= w[j].cost
    <3> DEFINE k == IF i < m THEN i ELSE i + 1
               l == IF j < m THEN j ELSE j + 1
    <3>1. k \in 1..Len(e) /\ l \in 1..Len(e) /\ w[i] = e[k] /\ w[j] = e[l]
      BY <1>1, <2>6, <2>8, <2>10
    <3>2. (i # j => k # l) /\ (i < j => k < l)
      BY <1>1, <2>6, <2>8, <2>10
    <3> HIDE DEF k, l
    <3> QED
      BY <1>1, <3>1, <3>2
  <2> QED
    BY <1>2, <2>8, <2>9, <2>10 DEF RoutesOK, ByCost
<1> QED
  BY <1>3, <1>4

-----------------------------------------------------------------------------
(* The inductive invariant *)

Forwarding == task.state \in {"checking", "waiting"}

\* The routes of every name are sorted.
Ordered == \A n \in Names : ByCost(fib[n])

\* A face with the interests that its peer has to answer and its queue, when the express t is under
\* way: it waits on the face for the one interest, or for the one answer that is in the queue, or the
\* face has neither.
FaceOK(f, interests, q, t) ==
    LET here == t.state \in {"checking", "waiting"} /\ t.face = f IN
    /\ \A i \in interests : here /\ i = t.interest
    /\ \A k \in 1..Len(q) : q[k] # Other => here /\ interests = {} /\ Matches(q[k], t.interest)
    /\ \A k, l \in 1..Len(q) : q[k] # Other /\ q[l] # Other => k = l

\* On the faces to which nothing strayed only the exchange of the current express is under way.
OneExchange == \A f \in Faces \ strayed : FaceOK(f, asked[f], recv_queue[f], task)

ForwarderInv ==
    /\ OnlyTrustedData
    /\ Ordered
    /\ ForwardedToBest
    /\ PendingIsAwaited
    /\ OneExchange

\* Interests and data have names.
LEMMA NamesOf ==
    /\ \A i \in Interests : i.name \in Names /\ i.can_be_prefix \in BOOLEAN
    /\ \A d \in Data : d.name \in Names
OBVIOUS

\* An express that was forwarded has its interest and its face.
LEMMA ForwardingTask ==
    ASSUME TypeOK, Forwarding
    PROVE  task \in [state : {"checking", "waiting"}, interest : Interests, face : Faces]
BY DEF TypeOK, Forwarding, Idle

\* The first message of the queue, if it is an answer, is data.
LEMMA AnswerIsData ==
    ASSUME TypeOK, task.state = "checking", HasAnswer
    PROVE  Answer \in Data
<1>1. Forwarding
  BY DEF Forwarding
<1>2. task.face \in Faces
  BY <1>1, ForwardingTask
<1>3. recv_queue[task.face] \in Seq(Data \cup {Other})
  BY <1>2 DEF TypeOK
<1>4. recv_queue[task.face] # <<>> /\ Answer # Other
  BY DEF HasAnswer
<1>5. PICK q : q = recv_queue[task.face]
  OBVIOUS
<1>6. Head(q) \in Data \cup {Other}
  BY <1>3, <1>4, <1>5
<1> QED
  BY <1>4, <1>5, <1>6 DEF Answer

\* How a step changes the content store: get reorders it, or put adds data that is published or
\* verified; what was published and whose keys are known is never forgotten.
LEMMA StoreStep ==
    ASSUME TypeOK, Next
    PROVE  /\ published \subseteq published' /\ key_store \subseteq key_store'
           /\ \/ cs' = cs
              \/ \E i \in Interests : cs' = Touched(i)
              \/ \E d \in Data : cs' = Inserted(d) /\ (d \in published' \/ verify_data(d))
<1>1. CASE \E f \in Faces : register_face(f) \/ unregister_face(f)
  BY <1>1 DEF register_face, unregister_face, history
<1>2. CASE \E p \in Names, f \in Faces, c \in Costs : add_route(p, f, c)
  BY <1>2 DEF add_route, history
<1>3. CASE \E p \in {n[1] : n \in Names} : register_keys(p)
  BY <1>3 DEF register_keys, history
<1>4. CASE \E d \in Data : publish(d) \/ receive_data(d)
  BY <1>4 DEF publish, receive_data, history
<1>5. ASSUME NEW i \in Interests, NEW seen \in InFaces \X Nonces, express(i, seen)
      PROVE  /\ published' = published /\ key_store' = key_store
             /\ cs' = cs \/ cs' = Touched(i)
  <2>1. published' = published
    BY <1>5 DEF express
  <2>2. CASE LoopDetected(i, seen)
    BY <2>1, <2>2 DEF LoopDetected, tables
  <2>3. CASE ServeFromCache(i, seen) \/ SuppressAggregate(i, seen) \/ NoRoute(i, seen)
    BY <2>1, <2>3 DEF ServeFromCache, SuppressAggregate, NoRoute, Recorded
  <2>4. CASE FaceNotFound(i, seen) \/ ForwardTo(i, seen) \/ SendFails(i, seen)
    BY <2>1, <2>4 DEF FaceNotFound, ForwardTo, SendFails, Forwarded, Recorded
  <2> QED
    BY <1>5, <2>2, <2>3, <2>4 DEF express
<1>6. CASE \E f \in Faces : deliver_answer(f) \/ deliver_stray(f) \/ deliver_other(f)
  BY <1>6 DEF deliver_answer, deliver_stray, deliver_other, tables, history
<1>7. CASE CheckFails \/ Notified
  BY <1>7 DEF CheckFails, Notified, tables, history
<1>8. CASE TimedOut
  BY <1>8 DEF TimedOut
<1>9. CASE AnswerAccepted
  <2>1. Answer \in Data
    BY <1>9, AnswerIsData DEF AnswerAccepted, Answered
  <2> QED
    BY <1>9, <2>1 DEF AnswerAccepted, Answered
<1>10. CASE AnswerRefused
  BY <1>10 DEF AnswerRefused, Answered
<1>11. CASE Cancel
  BY <1>11 DEF Cancel, tables
<1> QED
  BY <1>1, <1>2, <1>3, <1>4, <1>5, <1>6, <1>7, <1>8, <1>9, <1>10, <1>11 DEF Next, forward_and_wait

\* A step keeps the content store in order and its data trusted.
LEMMA StoreKept ==
    ASSUME TypeOK, OnlyTrustedData, Next
    PROVE  /\ StoreOK(cs')
           /\ \A d \in ToSet(cs') : d \in published' \/ (d.signed /\ d.name[1] \in key_store')
<1>1. StoreOK(cs)
  BY DEF TypeOK, StoreOK
<1>2. \A d \in ToSet(cs) : d \in published' \/ (d.signed /\ d.name[1] \in key_store')
  BY StoreStep DEF OnlyTrustedData
<1>3. CASE cs' = cs
  BY <1>1, <1>2, <1>3
<1>4. CASE \E i \in Interests : cs' = Touched(i)
  BY <1>1, <1>2, <1>4, TouchedFacts
<1>5. CASE \E d \in Data : cs' = Inserted(d) /\ (d \in published' \/ verify_data(d))
  <2>1. PICK d \in Data : cs' = Inserted(d) /\ (d \in published' \/ verify_data(d))
    BY <1>5
  <2>2. d \in published' \/ (d.signed /\ d.name[1] \in key_store')
    BY <2>1, StoreStep DEF verify_data
  <2>3. StoreOK(Inserted(d)) /\ ToSet(Inserted(d)) \subseteq ToSet(cs) \cup {d}
    BY <1>1, InsertedFacts
  <2> QED
    BY <1>2, <2>1, <2>2, <2>3
<1> QED
  BY <1>3, <1>4, <1>5, StoreStep

\* Routes change only between expresses, and stay sorted with one route per face.
LEMMA FibStep ==
    ASSUME TypeOK, Ordered, Next
    PROVE  /\ fib' = fib \/ task' = Idle
           /\ fib' \in [Names -> Seq(Route)]
           /\ \A n \in Names : RoutesOK(fib'[n]) /\ ByCost(fib'[n])
<1>0. /\ fib \in [Names -> Seq(Route)]
      /\ \A n \in Names : RoutesOK(fib[n]) /\ ByCost(fib[n])
  BY DEF TypeOK, Ordered, RoutesOK, Route
<1>1. CASE \E f \in Faces : unregister_face(f)
  <2>1. PICK f \in Faces : unregister_face(f)
    BY <1>1
  <2>2. PICK p : p = <<ZeroHash>>
    OBVIOUS
  <2>3. fib' = WithoutFace(p, f) /\ task' = Idle
    BY <2>1, <2>2 DEF unregister_face
  <2>4. PICK g : g = fib
    OBVIOUS
  <2>5. ASSUME NEW n \in Names
        PROVE  RoutesOK(fib'[n]) /\ ByCost(fib'[n]) /\ fib'[n] \in Seq(Route)
    <3>1. RoutesOK(g[n]) /\ ByCost(g[n])
      BY <1>0, <2>4, <2>5
    <3>2. PICK e : e = g[n]
      OBVIOUS
    <3>3. PICK w : w = OtherRoutes(e, f)
      OBVIOUS
    <3>4. RoutesOK(w) /\ ByCost(w)
      BY <3>1, <3>2, <3>3, WithoutFaceFacts
    <3>5. fib'[n] = w \/ fib'[n] = e
      BY <2>3, <2>4, <2>5, <3>2, <3>3 DEF WithoutFace, OtherRoutes
    <3> QED
      BY <3>1, <3>2, <3>4, <3>5 DEF RoutesOK
  <2>6. fib' = [n \in Names |-> fib'[n]]
    BY <2>3 DEF WithoutFace
  <2>7. fib' \in [Names -> Seq(Route)]
    BY <2>5, <2>6
  <2> QED
    BY <2>3, <2>5, <2>7
<1>2. CASE \E p \in Names, f \in Faces, c \in Costs : add_route(p, f, c)
  <2>1. PICK p \in Names, f \in Faces, c \in Costs : add_route(p, f, c)
    BY <1>2
  <2>2. PICK w : w = WithRoute(fib[p], f, c)
    OBVIOUS
  <2>3. fib' = [fib EXCEPT ![p] = w] /\ task' = Idle
    BY <2>1, <2>2 DEF add_route
  <2>4. RoutesOK(w) /\ ByCost(w)
    <3>1. PICK e : e = fib[p]
      OBVIOUS
    <3>2. RoutesOK(e)
      BY <1>0, <3>1
    <3>3. w = WithRoute(e, f, c)
      BY <2>2, <3>1
    <3> QED
      BY <3>2, <3>3, WithRouteFacts
  <2>5. w \in Seq(Route)
    BY <2>4 DEF RoutesOK
  <2>6. \A n \in Names : fib'[n] = w \/ fib'[n] = fib[n]
    BY <1>0, <2>3
  <2>7. fib' \in [Names -> Seq(Route)]
    BY <1>0, <2>3, <2>5
  <2> QED
    BY <1>0, <2>3, <2>4, <2>6, <2>7
<1>3. CASE fib' = fib
  BY <1>0, <1>3
<1>4. CASE \E f \in Faces : register_face(f)
  BY <1>3, <1>4 DEF register_face
<1>5. CASE \E p \in {n[1] : n \in Names} : register_keys(p)
  BY <1>3, <1>5 DEF register_keys
<1>6. CASE \E d \in Data : publish(d) \/ receive_data(d)
  BY <1>3, <1>6 DEF publish, receive_data
<1>7. CASE \E i \in Interests, seen \in InFaces \X Nonces : express(i, seen)
  <2>1. fib' = fib
    BY <1>7 DEF express, LoopDetected, tables, ServeFromCache, SuppressAggregate, NoRoute,
                FaceNotFound, ForwardTo, SendFails
  <2> QED
    BY <1>3, <2>1
<1>8. CASE \E f \in Faces : deliver_answer(f) \/ deliver_stray(f) \/ deliver_other(f)
  BY <1>3, <1>8 DEF deliver_answer, deliver_stray, deliver_other, tables
<1>9. CASE CheckFails \/ Notified \/ TimedOut
  BY <1>3, <1>9 DEF CheckFails, Notified, TimedOut, tables
<1>10. CASE AnswerAccepted \/ AnswerRefused \/ Cancel
  BY <1>3, <1>10 DEF AnswerAccepted, AnswerRefused, Answered, Cancel, tables
<1> QED
  BY <1>1, <1>2, <1>4, <1>5, <1>6, <1>7, <1>8, <1>9, <1>10 DEF Next, forward_and_wait

\* What purging leaves pending was pending.
LEMMA Purging ==
    ASSUME NEW table \in [Names -> [in_faces : SUBSET InFaces, satisfied : BOOLEAN]],
           NEW nonces, nonces \subseteq InFaces \X Nonces, PurgedFrom(table, nonces)
    PROVE  /\ pit' \in [Names -> [in_faces : SUBSET InFaces, satisfied : BOOLEAN]]
           /\ \A n \in Names : ~pit'[n].satisfied => ~table[n].satisfied
           /\ nonce_tracker' \subseteq InFaces \X Nonces
<1>1. NoEntry \in [in_faces : SUBSET InFaces, satisfied : BOOLEAN] /\ NoEntry.satisfied
  BY DEF NoEntry
<1>2. PICK late \in SUBSET {n \in Names : ~table[n].satisfied} :
          pit' = [n \in Names |-> IF table[n].satisfied \/ n \in late THEN NoEntry ELSE table[n]]
  BY DEF PurgedFrom
<1>3. \A n \in Names : pit'[n] = NoEntry \/ (~table[n].satisfied /\ pit'[n] = table[n])
  BY <1>2
<1>4. pit' \in [Names -> [in_faces : SUBSET InFaces, satisfied : BOOLEAN]]
  BY <1>1, <1>2
<1>5. nonce_tracker' \subseteq InFaces \X Nonces
  BY DEF PurgedFrom
<1> QED
  BY <1>1, <1>3, <1>4, <1>5

\* Satisfying an interest leaves the others as they are.
LEMMA Satisfying ==
    ASSUME NEW table \in [Names -> [in_faces : SUBSET InFaces, satisfied : BOOLEAN]],
           NEW name \in Names
    PROVE  /\ Satisfied(table, name) \in [Names -> [in_faces : SUBSET InFaces, satisfied : BOOLEAN]]
           /\ Satisfied(table, name)[name].satisfied
           /\ \A n \in Names : n # name => Satisfied(table, name)[n] = table[n]
<1>1. table[name] \in [in_faces : SUBSET InFaces, satisfied : BOOLEAN]
  OBVIOUS
<1>2. PICK e : e = [table[name] EXCEPT !.satisfied = TRUE]
  OBVIOUS
<1>3. e \in [in_faces : SUBSET InFaces, satisfied : BOOLEAN] /\ e.satisfied
  BY <1>1, <1>2
<1>4. Satisfied(table, name) = [table EXCEPT ![name] = e]
  BY <1>2 DEF Satisfied
<1> QED
  BY <1>3, <1>4

\* An interest enters the table under its name.
LEMMA InsertingFacts ==
    ASSUME TypeOK, NEW i \in Interests, NEW f \in InFaces
    PROVE  /\ Inserting(i, f) \in [Names -> [in_faces : SUBSET InFaces, satisfied : BOOLEAN]]
           /\ \A n \in Names : n # i.name => Inserting(i, f)[n] = pit[n]
<1>1. pit \in [Names -> [in_faces : SUBSET InFaces, satisfied : BOOLEAN]] /\ i.name \in Names
  BY NamesOf DEF TypeOK
<1>2. PICK e : e = WithInterest(pit[i.name], f)
  OBVIOUS
<1>3. e \in [in_faces : SUBSET InFaces, satisfied : BOOLEAN]
  BY <1>1, <1>2 DEF WithInterest
<1>4. Inserting(i, f) = [pit EXCEPT ![i.name] = e]
  BY <1>2 DEF Inserting
<1> QED
  BY <1>1, <1>3, <1>4

\* How the express that is under way changes: it ends, waits for the notifier or for the same face
\* as before, or an interest is forwarded.
LEMMA TaskStep ==
    ASSUME TypeOK, Next
    PROVE  /\ \/ task' = Idle
              \/ task' \in [state : {"suppressed"}, interest : Interests]
              \/ task' \in [state : {"checking", "waiting"}, interest : Interests, face : Faces]
           /\ \/ task' = Idle \/ task'.state = "suppressed"
              \/ /\ Forwarding /\ task'.interest = task.interest /\ task'.face = task.face
              \/ \E i \in Interests, seen \in InFaces \X Nonces : ForwardTo(i, seen) /\ task = Idle
<1>0. \/ task = Idle
      \/ task \in [state : {"suppressed"}, interest : Interests]
      \/ Forwarding /\ task \in [state : {"checking", "waiting"}, interest : Interests, face : Faces]
  BY DEF TypeOK, Forwarding
<1>1. CASE task' = task
  BY <1>0, <1>1
<1>2. CASE task' = Idle
  BY <1>2
<1>3. CASE \E f \in Faces : register_face(f) \/ unregister_face(f)
  BY <1>1, <1>3 DEF register_face, unregister_face
<1>4. CASE \/ \E p \in Names, f \in Faces, c \in Costs : add_route(p, f, c)
           \/ \E p \in {n[1] : n \in Names} : register_keys(p)
  BY <1>1, <1>4 DEF add_route, register_keys
<1>5. CASE \E d \in Data : publish(d) \/ receive_data(d)
  BY <1>1, <1>5 DEF publish, receive_data
<1>6. ASSUME NEW i \in Interests, NEW seen \in InFaces \X Nonces, express(i, seen)
      PROVE  \/ task' = task
             \/ task' = [state |-> "suppressed", interest |-> i]
             \/ ForwardTo(i, seen) /\ task = Idle
  BY <1>6 DEF express, LoopDetected, ServeFromCache, SuppressAggregate, NoRoute, FaceNotFound,
              SendFails
<1>7. CASE \E i \in Interests, seen \in InFaces \X Nonces : express(i, seen)
  <2>1. PICK i \in Interests, seen \in InFaces \X Nonces : express(i, seen)
    BY <1>7
  <2>2. CASE task' = [state |-> "suppressed", interest |-> i]
    BY <2>2
  <2>3. CASE ForwardTo(i, seen) /\ task = Idle
    <3>1. BestFace(i) \in Faces
      BY <2>3 DEF ForwardTo, TypeOK
    <3>2. task' = [state |-> "checking", interest |-> i, face |-> BestFace(i)]
      BY <2>3 DEF ForwardTo
    <3> QED
      BY <2>3, <3>1, <3>2
  <2> QED
    BY <1>1, <1>6, <2>1, <2>2, <2>3
<1>8. CASE \E f \in Faces : deliver_answer(f) \/ deliver_stray(f) \/ deliver_other(f)
  BY <1>1, <1>8 DEF deliver_answer, deliver_stray, deliver_other
<1>9. CASE CheckFails \/ Notified
  <2>1. PICK s \in {"checking", "waiting"} : task' = [task EXCEPT !.state = s]
    BY <1>9 DEF CheckFails, Notified
  <2>2. Forwarding
    BY <1>9 DEF CheckFails, Notified, Forwarding
  <2>3. task \in [state : {"checking", "waiting"}, interest : Interests, face : Faces]
    BY <2>2, ForwardingTask
  <2> QED
    BY <2>1, <2>2, <2>3
<1>10. CASE TimedOut \/ AnswerAccepted \/ AnswerRefused \/ Cancel
  BY <1>2, <1>10 DEF TimedOut, AnswerAccepted, AnswerRefused, Answered, Cancel
<1> QED
  BY <1>3, <1>4, <1>5, <1>7, <1>8, <1>9, <1>10 DEF Next, forward_and_wait

\* The tables of interests and nonces keep their types.
TableOK(table, nonces, names) ==
    /\ table \in [Names -> [in_faces : SUBSET InFaces, satisfied : BOOLEAN]]
    /\ nonces \subseteq InFaces \X Nonces /\ names \subseteq Names

\* An express leaves pending what was pending, except that it may add its own interest.
LEMMA ExpressKeepsPending ==
    ASSUME TypeOK, PendingIsAwaited, NEW i \in Interests, NEW seen \in InFaces \X Nonces,
           express(i, seen)
    PROVE  TableOK(pit', nonce_tracker', waiters') /\ PendingIsAwaited'
<1>0. /\ TableOK(pit, nonce_tracker, waiters) /\ task = Idle /\ i.name \in Names
      /\ \A n \in Names : ~pit[n].satisfied => n \in abandoned
  BY NamesOf DEF TypeOK, TableOK, express, PendingIsAwaited, Pending, Idle
<1>1. PICK t : t = Inserting(i, seen[1])
  OBVIOUS
<1>2. /\ t \in [Names -> [in_faces : SUBSET InFaces, satisfied : BOOLEAN]]
      /\ \A n \in Names : n # i.name => t[n] = pit[n]
  <2>1. seen[1] \in InFaces
    OBVIOUS
  <2> QED
    BY <1>1, <2>1, InsertingFacts
<1>3. PICK s : s = Satisfied(t, i.name)
  OBVIOUS
<1>4. /\ s \in [Names -> [in_faces : SUBSET InFaces, satisfied : BOOLEAN]] /\ s[i.name].satisfied
      /\ \A n \in Names : n # i.name => s[n] = pit[n]
  BY <1>0, <1>2, <1>3, Satisfying
<1>5. CASE LoopDetected(i, seen)
  BY <1>0, <1>5 DEF LoopDetected, tables, PendingIsAwaited, Pending
<1>6. CASE ServeFromCache(i, seen) \/ SuppressAggregate(i, seen) \/ NoRoute(i, seen)
  <2>1. /\ pit' = pit /\ abandoned' = abandoned /\ nonce_tracker' = nonce_tracker \cup {seen}
        /\ waiters' \subseteq waiters \cup {i.name}
    BY <1>6 DEF ServeFromCache, SuppressAggregate, NoRoute
  <2> QED
    BY <1>0, <2>1 DEF PendingIsAwaited, Pending, TableOK
<1>7. CASE FaceNotFound(i, seen)
  <2>1. /\ pit' = s /\ abandoned' = abandoned \ {i.name} /\ waiters' = waiters
        /\ nonce_tracker' = nonce_tracker \cup {seen}
    BY <1>1, <1>3, <1>7 DEF FaceNotFound, Forwarded
  <2> QED
    BY <1>0, <1>4, <2>1 DEF PendingIsAwaited, Pending, TableOK
<1>8. CASE ForwardTo(i, seen)
  <2>1. /\ pit' = t /\ abandoned' = abandoned \ {i.name} /\ waiters' = waiters
        /\ nonce_tracker' = nonce_tracker \cup {seen}
        /\ task' = [state |-> "checking", interest |-> i, face |-> BestFace(i)]
    BY <1>1, <1>8 DEF ForwardTo, Forwarded
  <2>2. task'.state = "checking" /\ task'.interest = i
    BY <2>1
  <2> QED
    BY <1>0, <1>2, <2>1, <2>2 DEF PendingIsAwaited, Pending, TableOK
<1>9. CASE SendFails(i, seen)
  <2>1. /\ abandoned' = abandoned \ {i.name} /\ waiters' = waiters \ {i.name}
        /\ PurgedFrom(s, nonce_tracker \cup {seen})
    BY <1>1, <1>3, <1>9 DEF SendFails, Forwarded
  <2>2. nonce_tracker \cup {seen} \subseteq InFaces \X Nonces
    BY <1>0 DEF TableOK
  <2>3. /\ pit' \in [Names -> [in_faces : SUBSET InFaces, satisfied : BOOLEAN]]
        /\ \A n \in Names : ~pit'[n].satisfied => ~s[n].satisfied
        /\ nonce_tracker' \subseteq InFaces \X Nonces
    BY <1>4, <2>1, <2>2, Purging
  <2> QED
    BY <1>0, <1>4, <2>1, <2>3 DEF PendingIsAwaited, Pending, TableOK
<1> QED
  BY <1>5, <1>6, <1>7, <1>8, <1>9 DEF express

\* The end of an express, and data that is received, leave only abandoned interests pending.
LEMMA PendingKept ==
    ASSUME TypeOK, PendingIsAwaited, Next
    PROVE  TableOK(pit', nonce_tracker', waiters') /\ PendingIsAwaited'
<1>0. TableOK(pit, nonce_tracker, waiters)
  BY DEF TypeOK, TableOK
<1>1. CASE /\ UNCHANGED <<pit, nonce_tracker, waiters, abandoned>>
           /\ task' = task
  BY <1>0, <1>1 DEF PendingIsAwaited, Pending
<1>2. CASE \E f \in Faces : register_face(f) \/ unregister_face(f)
  BY <1>1, <1>2 DEF register_face, unregister_face, history
<1>3. CASE \/ \E p \in Names, f \in Faces, c \in Costs : add_route(p, f, c)
           \/ \E p \in {n[1] : n \in Names} : register_keys(p)
  BY <1>1, <1>3 DEF add_route, register_keys, history
<1>4. CASE \E d \in Data : publish(d)
  BY <1>1, <1>4 DEF publish
<1>5. ASSUME NEW name \in Names, PurgedFrom(Satisfied(pit, name), nonce_tracker),
             waiters' \subseteq waiters, abandoned' = abandoned,
             \A n \in Names : n # name /\ ~pit[n].satisfied => n \in abandoned
      PROVE  TableOK(pit', nonce_tracker', waiters') /\ PendingIsAwaited'
  <2>1. PICK s : s = Satisfied(pit, name)
    OBVIOUS
  <2>2. /\ s \in [Names -> [in_faces : SUBSET InFaces, satisfied : BOOLEAN]] /\ s[name].satisfied
        /\ \A n \in Names : n # name => s[n] = pit[n]
    BY <1>0, <2>1, Satisfying DEF TableOK
  <2>3. /\ pit' \in [Names -> [in_faces : SUBSET InFaces, satisfied : BOOLEAN]]
        /\ \A n \in Names : ~pit'[n].satisfied => ~s[n].satisfied
        /\ nonce_tracker' \subseteq InFaces \X Nonces
    BY <1>0, <1>5, <2>1, <2>2, Purging DEF TableOK
  <2> QED
    BY <1>0, <1>5, <2>2, <2>3 DEF PendingIsAwaited, Pending, TableOK
<1>6. CASE \E d \in Data : receive_data(d)
  <2>1. PICK d \in Data : receive_data(d)
    BY <1>6
  <2>2. /\ PurgedFrom(Satisfied(pit, d.name), nonce_tracker) /\ d.name \in Names
        /\ waiters' \subseteq waiters /\ abandoned' = abandoned
    BY <2>1, NamesOf DEF receive_data, history
  <2>3. \A n \in Names : ~pit[n].satisfied => n \in abandoned
    BY <2>1 DEF receive_data, PendingIsAwaited, Pending, Idle
  <2> QED
    BY <1>5, <2>2, <2>3
<1>7. CASE \E i \in Interests, seen \in InFaces \X Nonces : express(i, seen)
  BY <1>7, ExpressKeepsPending
<1>8. CASE \E f \in Faces : deliver_answer(f) \/ deliver_stray(f) \/ deliver_other(f)
  BY <1>1, <1>8 DEF deliver_answer, deliver_stray, deliver_other, tables, history
<1>9. CASE CheckFails \/ Notified
  <2>1. PICK s \in {"checking", "waiting"} : task' = [task EXCEPT !.state = s]
    BY <1>9 DEF CheckFails, Notified
  <2>2. Forwarding
    BY <1>9 DEF CheckFails, Notified, Forwarding
  <2>3. task \in [state : {"checking", "waiting"}, interest : Interests, face : Faces]
    BY <2>2, ForwardingTask
  <2>4. UNCHANGED <<pit, nonce_tracker, waiters, abandoned>>
    BY <1>9 DEF CheckFails, Notified, tables, history
  <2>5. task'.state \in {"checking", "waiting"} /\ task'.interest = task.interest
    BY <2>1, <2>3
  <2> QED
    BY <1>0, <2>2, <2>4, <2>5 DEF PendingIsAwaited, Pending, Forwarding
<1>10. CASE TimedOut \/ AnswerAccepted
  <2>1. Forwarding /\ abandoned' = abandoned /\ Ended(task.interest.name)
    BY <1>10 DEF TimedOut, AnswerAccepted, Answered, Forwarding
  <2>2. PICK name : name = task.interest.name
    OBVIOUS
  <2>3. name \in Names
    BY <2>1, <2>2, ForwardingTask, NamesOf
  <2>4. PurgedFrom(Satisfied(pit, name), nonce_tracker) /\ waiters' \subseteq waiters
    BY <2>1, <2>2 DEF Ended
  <2>5. \A n \in Names : n # name /\ ~pit[n].satisfied => n \in abandoned
    BY <2>1, <2>2 DEF PendingIsAwaited, Pending, Forwarding
  <2> QED
    BY <1>5, <2>1, <2>3, <2>4, <2>5
<1>11. CASE AnswerRefused
  <2>1. /\ Forwarding /\ abandoned' = abandoned /\ pit' = Satisfied(pit, task.interest.name)
        /\ UNCHANGED <<nonce_tracker, waiters>>
    BY <1>11 DEF AnswerRefused, Answered, Forwarding
  <2>2. PICK name : name = task.interest.name
    OBVIOUS
  <2>3. name \in Names
    BY <2>1, <2>2, ForwardingTask, NamesOf
  <2>4. /\ pit' \in [Names -> [in_faces : SUBSET InFaces, satisfied : BOOLEAN]]
        /\ pit'[name].satisfied /\ \A n \in Names : n # name => pit'[n] = pit[n]
    BY <1>0, <2>1, <2>2, <2>3, Satisfying DEF TableOK
  <2>5. \A n \in Names : n # name /\ ~pit[n].satisfied => n \in abandoned
    BY <2>1, <2>2 DEF PendingIsAwaited, Pending, Forwarding
  <2> QED
    BY <1>0, <2>1, <2>4, <2>5 DEF PendingIsAwaited, Pending, TableOK
<1>12. CASE Cancel
  <2>1. UNCHANGED <<pit, nonce_tracker, waiters>>
    BY <1>12 DEF Cancel, tables
  <2>2. \A n \in Names : ~pit[n].satisfied => n \in abandoned'
    BY <1>12 DEF Cancel, PendingIsAwaited, Pending
  <2> QED
    BY <1>0, <2>1, <2>2 DEF PendingIsAwaited, Pending
<1> QED
  BY <1>2, <1>3, <1>4, <1>6, <1>7, <1>8, <1>9, <1>10, <1>11, <1>12 DEF Next, forward_and_wait

\* The faces, the keys and the links keep their types.
LEMMA WireTypes ==
    ASSUME TypeOK, Next
    PROVE  /\ faces' \subseteq Faces /\ key_store' \subseteq {n[1] : n \in Names}
           /\ asked' \in [Faces -> SUBSET Interests]
           /\ recv_queue' \in [Faces -> Seq(Data \cup {Other})]
           /\ permit' \in [Faces -> BOOLEAN]
<1>0. /\ faces \subseteq Faces /\ key_store \subseteq {n[1] : n \in Names}
      /\ asked \in [Faces -> SUBSET Interests]
      /\ recv_queue \in [Faces -> Seq(Data \cup {Other})]
      /\ permit \in [Faces -> BOOLEAN]
  BY DEF TypeOK
<1>1. CASE \E f \in Faces : register_face(f) \/ unregister_face(f)
  BY <1>0, <1>1 DEF register_face, unregister_face, wire
<1>2. CASE \E p \in Names, f \in Faces, c \in Costs : add_route(p, f, c)
  BY <1>0, <1>2 DEF add_route, wire
<1>3. CASE \E p \in {n[1] : n \in Names} : register_keys(p)
  BY <1>0, <1>3 DEF register_keys, wire
<1>4. CASE \E d \in Data : publish(d) \/ receive_data(d)
  BY <1>0, <1>4 DEF publish, receive_data, wire
<1>5. CASE \E i \in Interests, seen \in InFaces \X Nonces : express(i, seen)
  <2>1. PICK i \in Interests, seen \in InFaces \X Nonces : express(i, seen)
    BY <1>5
  <2>2. UNCHANGED <<recv_queue, permit, faces, key_store>>
    BY <2>1 DEF express, LoopDetected, tables, ServeFromCache, SuppressAggregate, NoRoute,
                FaceNotFound, ForwardTo, SendFails
  <2>3. asked' = asked \/ asked' = [asked EXCEPT ![BestFace(i)] = @ \cup {i}]
    BY <2>1 DEF express, LoopDetected, ServeFromCache, SuppressAggregate, NoRoute, FaceNotFound,
                ForwardTo, SendFails
  <2>4. asked' \in [Faces -> SUBSET Interests]
    <3>1. PICK b : b = BestFace(i)
      OBVIOUS
    <3>2. CASE asked' = asked
      BY <1>0, <3>2
    <3>3. CASE asked' = [asked EXCEPT ![b] = @ \cup {i}]
      BY <1>0, <3>3
    <3> QED
      BY <2>3, <3>1, <3>2, <3>3
  <2> QED
    BY <1>0, <2>2, <2>4
<1>6. ASSUME NEW f \in Faces, NEW m \in Data \cup {Other}, Delivered(f, m)
      PROVE  recv_queue' \in [Faces -> Seq(Data \cup {Other})] /\ permit' \in [Faces -> BOOLEAN]
  <2>1. Append(recv_queue[f], m) \in Seq(Data \cup {Other})
    BY <1>0, <1>6
  <2> QED
    BY <1>0, <1>6, <2>1 DEF Delivered
<1>7. CASE \E f \in Faces : deliver_answer(f)
  <2>0. PICK f \in Faces : deliver_answer(f)
    BY <1>7
  <2>1. PICK i \in asked[f], d \in Data :
            /\ Delivered(f, d) /\ asked' = [asked EXCEPT ![f] = @ \ {i}]
            /\ UNCHANGED <<tables, task, used, history>>
    BY <2>0 DEF deliver_answer
  <2>2. asked' \in [Faces -> SUBSET Interests]
    BY <1>0, <2>1
  <2>3. d \in Data \cup {Other}
    OBVIOUS
  <2> QED
    BY <1>0, <1>6, <2>1, <2>2, <2>3 DEF tables
<1>8. CASE \E f \in Faces : deliver_stray(f) \/ deliver_other(f)
  <2>1. PICK f \in Faces, m \in Data \cup {Other} :
            Delivered(f, m) /\ UNCHANGED <<tables, task, asked>>
    BY <1>8 DEF deliver_stray, deliver_other
  <2> QED
    BY <1>0, <1>6, <2>1 DEF tables
<1>9. ASSUME NEW q, q \in {<<>>, Tail(recv_queue[task.face])}, Forwarding,
             q = <<>> \/ recv_queue[task.face] # <<>>,
             recv_queue' = [recv_queue EXCEPT ![task.face] = q]
      PROVE  recv_queue' \in [Faces -> Seq(Data \cup {Other})]
  <2>1. task.face \in Faces
    BY <1>9, ForwardingTask
  <2>2. recv_queue[task.face] \in Seq(Data \cup {Other})
    BY <1>0, <2>1
  <2>3. q \in Seq(Data \cup {Other})
    <3>1. CASE q = <<>>
      BY <3>1
    <3>2. CASE q = Tail(recv_queue[task.face]) /\ recv_queue[task.face] # <<>>
      <4>1. PICK r : r = recv_queue[task.face]
        OBVIOUS
      <4> QED
        BY <2>2, <3>2, <4>1
    <3> QED
      BY <1>9, <3>1, <3>2
  <2> QED
    BY <1>0, <1>9, <2>3
<1>10. CASE CheckFails
  <2>1. PICK q : q = IF recv_queue[task.face] = <<>> THEN recv_queue[task.face]
                     ELSE Tail(recv_queue[task.face])
    OBVIOUS
  <2>2. /\ Forwarding /\ recv_queue' = [recv_queue EXCEPT ![task.face] = q]
        /\ UNCHANGED <<faces, key_store, asked, permit>>
    BY <1>10, <2>1 DEF CheckFails, Forwarding, tables
  <2>3. q \in {<<>>, Tail(recv_queue[task.face])} /\ (q = <<>> \/ recv_queue[task.face] # <<>>)
    BY <2>1
  <2> QED
    BY <1>0, <1>9, <2>2, <2>3
<1>11. CASE Notified
  <2>1. permit' \in [Faces -> BOOLEAN]
    BY <1>0, <1>11 DEF Notified
  <2> QED
    BY <1>0, <1>11, <2>1 DEF Notified, tables
<1>12. CASE TimedOut \/ Cancel
  BY <1>0, <1>12 DEF TimedOut, Cancel, tables, wire
<1>13. CASE AnswerAccepted \/ AnswerRefused
  <2>1. /\ Forwarding /\ recv_queue[task.face] # <<>>
        /\ recv_queue' = [recv_queue EXCEPT ![task.face] = Tail(recv_queue[task.face])]
        /\ UNCHANGED <<faces, key_store, asked, permit>>
    BY <1>13 DEF AnswerAccepted, AnswerRefused, Answered, HasAnswer, Forwarding
  <2>2. recv_queue' \in [Faces -> Seq(Data \cup {Other})]
    BY <1>9, <2>1
  <2> QED
    BY <1>0, <2>1, <2>2
<1> QED
  BY <1>1, <1>2, <1>3, <1>4, <1>5, <1>7, <1>8, <1>10, <1>11, <1>12, <1>13 DEF Next, forward_and_wait

\* A step keeps the types.
LEMMA TypeKept ==
    ASSUME ForwarderInv, Next
    PROVE  TypeOK'
<1>1. TypeOK
  BY DEF ForwarderInv, OnlyTrustedData
<1>2. StoreOK(cs')
  BY <1>1, StoreKept DEF ForwarderInv
<1>3. fib' \in [Names -> Seq(Route)] /\ \A n \in Names : RoutesOK(fib'[n])
  BY <1>1, FibStep DEF ForwarderInv
<1>4. TableOK(pit', nonce_tracker', waiters')
  BY <1>1, PendingKept DEF ForwarderInv
<1>5. \/ task' = Idle
      \/ task' \in [state : {"suppressed"}, interest : Interests]
      \/ task' \in [state : {"checking", "waiting"}, interest : Interests, face : Faces]
  BY <1>1, TaskStep
<1>6. /\ faces' \subseteq Faces /\ key_store' \subseteq {n[1] : n \in Names}
      /\ asked' \in [Faces -> SUBSET Interests]
      /\ recv_queue' \in [Faces -> Seq(Data \cup {Other})]
      /\ permit' \in [Faces -> BOOLEAN]
  BY <1>1, WireTypes
<1> QED
  BY <1>2, <1>3, <1>4, <1>5, <1>6 DEF TypeOK, StoreOK, RoutesOK, Route, TableOK

\* Of the prefixes with routes there is a longest one, since none is longer than the name.
LEMMA LongestExists ==
    ASSUME NEW name \in Names, Matching(name) # {}
    PROVE  \E p \in Matching(name) : \A q \in Matching(name) : Len(q) <= Len(p)
<1>1. \A n \in Names : Len(n) \in Nat
  OBVIOUS
<1>2. \A p \in Matching(name) : p \in Names /\ Len(p) <= Len(name)
  BY DEF Matching, starts_with, IsPrefix
<1> DEFINE I == {Len(name) - Len(p) : p \in Matching(name)}
<1>3. I \subseteq Nat /\ I # {}
  <2>1. I # {}
    OBVIOUS
  <2>2. I \subseteq Nat
    BY <1>1, <1>2
  <2> QED
    BY <2>1, <2>2
<1>4. PICK m : m = Min(I)
  OBVIOUS
<1>5. m \in I /\ \A y \in I : m <= y
  <2> HIDE DEF I
  <2> QED
    BY <1>3, <1>4, MinIsLeast
<1>6. PICK p \in Matching(name) : m = Len(name) - Len(p)
  BY <1>5
<1>7. ASSUME NEW q \in Matching(name) PROVE Len(q) <= Len(p)
  <2>1. Len(name) - Len(q) \in I
    OBVIOUS
  <2>2. Len(name) - Len(p) <= Len(name) - Len(q)
    BY <1>5, <1>6, <2>1
  <2> QED
    BY <1>1, <1>2, <2>2
<1> QED
  BY <1>7

\* The face that an interest is forwarded to is a cheapest one of the longest prefix.
LEMMA LookupIsBest ==
    ASSUME TypeOK, Ordered, NEW name \in Names, Lookup(name) # <<>>
    PROVE  \E p \in Matching(name) :
               /\ \A q \in Matching(name) : Len(q) <= Len(p)
               /\ \E r \in ToSet(fib[p]) :
                     /\ r.face = Head(Lookup(name)).face
                     /\ \A other \in ToSet(fib[p]) : r.cost <= other.cost
<1>1. Matching(name) # {}
  BY DEF Lookup
<1>2. PICK p : p = CHOOSE x \in Matching(name) : \A q \in Matching(name) : Len(q) <= Len(x)
  OBVIOUS
<1>3. p \in Matching(name) /\ \A q \in Matching(name) : Len(q) <= Len(p)
  BY <1>1, <1>2, LongestExists
<1>4. PICK e : e = fib[p]
  OBVIOUS
<1>5. Lookup(name) = e
  BY <1>1, <1>2, <1>4 DEF Lookup
<1>6. p \in Names
  BY <1>3 DEF Matching
<1>7. e \in Seq(Route) /\ ByCost(e) /\ e # <<>>
  <2>1. fib \in [Names -> Seq(Route)]
    BY DEF TypeOK, Route
  <2>2. e \in Seq(Route)
    BY <1>4, <1>6, <2>1
  <2>3. ByCost(e)
    BY <1>4, <1>6 DEF Ordered
  <2>4. e # <<>>
    BY <1>5
  <2> QED
    BY <2>2, <2>3, <2>4
<1>8. Len(e) \in Nat /\ Len(e) > 0 /\ DOMAIN e = 1..Len(e) /\ Head(e) = e[1]
  BY <1>7
<1>9. e[1] \in ToSet(e)
  BY <1>7, <1>8, ElementsAt
<1>10. ASSUME NEW other \in ToSet(e) PROVE e[1].cost <= other.cost
  <2>1. PICK i \in 1..Len(e) : e[i] = other
    BY <1>7, ElementsAt
  <2>2. e[i].cost \in Nat /\ 1 \in 1..Len(e)
    BY <1>7, <1>8, CostsAreNumbers, ElementsAt
  <2>3. CASE i = 1
    BY <2>1, <2>2, <2>3
  <2>4. CASE i # 1
    <3>1. 1 < i
      BY <1>8, <2>4
    <3> QED
      BY <1>7, <1>8, <2>1, <2>2, <3>1 DEF ByCost
  <2> QED
    BY <2>3, <2>4
<1> QED
  BY <1>3, <1>4, <1>5, <1>8, <1>9, <1>10

\* A step keeps the choice of the face: a new one is the best, and routes do not change while an
\* express waits for its face.
LEMMA BestKept ==
    ASSUME ForwarderInv, Next
    PROVE  ForwardedToBest'
<1>0. TypeOK /\ Ordered /\ ForwardedToBest
  BY DEF ForwarderInv, OnlyTrustedData
<1> SUFFICES ASSUME task'.state \in {"checking", "waiting"}
             PROVE  ForwardedToBest'
  BY DEF ForwardedToBest
<1>1. task' # Idle /\ task'.state # "suppressed"
  BY DEF Idle
<1>2. fib' = fib
  BY <1>0, <1>1, FibStep
<1>3. CASE Forwarding /\ task'.interest = task.interest /\ task'.face = task.face
  BY <1>0, <1>2, <1>3 DEF ForwardedToBest, Forwarding, Matching
<1>4. CASE \E i \in Interests, seen \in InFaces \X Nonces : ForwardTo(i, seen) /\ task = Idle
  <2>1. PICK i \in Interests, seen \in InFaces \X Nonces : ForwardTo(i, seen)
    BY <1>4
  <2>2. /\ task' = [state |-> "checking", interest |-> i, face |-> BestFace(i)]
        /\ Lookup(i.name) # <<>> /\ i.name \in Names
    BY <2>1, NamesOf DEF ForwardTo, Forwarded
  <2>3. task'.interest = i /\ task'.face = BestFace(i)
    BY <2>2
  <2>4. \E p \in Matching(i.name) :
            /\ \A q \in Matching(i.name) : Len(q) <= Len(p)
            /\ \E r \in ToSet(fib[p]) :
                  /\ r.face = BestFace(i)
                  /\ \A other \in ToSet(fib[p]) : r.cost <= other.cost
    BY <1>0, <2>2, LookupIsBest DEF BestFace
  <2> QED
    BY <1>2, <2>3, <2>4 DEF ForwardedToBest, Matching
<1> QED
  BY <1>0, <1>1, <1>3, <1>4, TaskStep

\* A face on which nothing is under way does not depend on the express.
LEMMA QuietFace ==
    ASSUME NEW f, NEW interests, NEW q, NEW t, NEW u, FaceOK(f, interests, q, t),
           ~(t.state \in {"checking", "waiting"} /\ t.face = f)
    PROVE  /\ FaceOK(f, interests, q, u) /\ interests = {}
           /\ \A k \in 1..Len(q) : q[k] = Other
<1>1. interests = {} /\ \A k \in 1..Len(q) : q[k] = Other
  BY DEF FaceOK
<1> QED
  BY <1>1 DEF FaceOK

\* A queue without its first message.
LEMMA Dropped ==
    ASSUME NEW f, NEW interests, NEW q \in Seq(Data \cup {Other}), NEW t, q # <<>>,
           FaceOK(f, interests, q, t)
    PROVE  FaceOK(f, interests, Tail(q), t)
<1>1. Len(q) \in Nat /\ Len(Tail(q)) = Len(q) - 1 /\ \A k \in 1..Len(Tail(q)) : Tail(q)[k] = q[k + 1]
  OBVIOUS
<1>2. PICK r : r = Tail(q)
  OBVIOUS
<1>3. \A k \in 1..Len(r) : r[k] = q[k + 1] /\ k + 1 \in 1..Len(q) /\ k \in Nat
  BY <1>1, <1>2
<1>4. \A k \in 1..Len(r) : r[k] # Other =>
          t.state \in {"checking", "waiting"} /\ t.face = f /\ interests = {} /\ Matches(r[k], t.interest)
  BY <1>3 DEF FaceOK
<1>5. \A k, l \in 1..Len(r) : r[k] # Other /\ r[l] # Other => k = l
  <2> SUFFICES ASSUME NEW k \in 1..Len(r), NEW l \in 1..Len(r), r[k] # Other, r[l] # Other
               PROVE  k = l
    OBVIOUS
  <2>1. /\ k + 1 \in 1..Len(q) /\ l + 1 \in 1..Len(q)
        /\ q[k + 1] # Other /\ q[l + 1] # Other
    BY <1>3, ZenonT(30)
  <2>2. \A x, y \in 1..Len(q) : q[x] # Other /\ q[y] # Other => x = y
    BY DEF FaceOK
  <2>3. k + 1 = l + 1
    BY <2>1, <2>2, ZenonT(30)
  <2> QED
    BY <1>3, <2>3
<1>6. \A i \in interests : t.state \in {"checking", "waiting"} /\ t.face = f /\ i = t.interest
  BY DEF FaceOK
<1>7. FaceOK(f, interests, r, t)
  BY ONLY <1>4, <1>5, <1>6, SMTT(30) DEF FaceOK
<1> QED
  BY <1>2, <1>7, ZenonT(30)

\* A queue with one message more, which is no answer or the answer to the one interest.
LEMMA Queued ==
    ASSUME NEW f, NEW interests, NEW q \in Seq(Data \cup {Other}), NEW t, NEW m, NEW left,
           FaceOK(f, interests, q, t),
           \/ m = Other /\ left = interests
           \/ left = {} /\ Matches(m, t.interest) /\ interests # {}
    PROVE  FaceOK(f, left, Append(q, m), t)
<1>1. PICK r : r = Append(q, m)
  OBVIOUS
<1>2. /\ Len(q) \in Nat /\ Len(r) = Len(q) + 1 /\ r[Len(q) + 1] = m
      /\ \A k \in 1..Len(q) : r[k] = q[k]
  BY <1>1
<1>3. \A k \in 1..Len(r) : k \in 1..Len(q) \/ k = Len(q) + 1
  BY <1>2
<1>4. CASE m = Other /\ left = interests
  <2>1. \A k \in 1..Len(r) : r[k] # Other => k \in 1..Len(q) /\ r[k] = q[k]
    BY <1>2, <1>3, <1>4
  <2> QED
    BY <1>1, <1>4, <2>1 DEF FaceOK
<1>5. CASE left = {} /\ Matches(m, t.interest) /\ interests # {}
  <2>1. t.state \in {"checking", "waiting"} /\ t.face = f /\ \A k \in 1..Len(q) : q[k] = Other
    BY <1>5 DEF FaceOK
  <2>2. \A k \in 1..Len(r) : r[k] # Other => k = Len(q) + 1 /\ r[k] = m
    BY <1>2, <1>3, <2>1
  <2> QED
    BY <1>1, <1>5, <2>1, <2>2 DEF FaceOK
<1> QED
  BY <1>4, <1>5

\* A step keeps the exchange of the current express to itself.
LEMMA ExchangeKept ==
    ASSUME TypeOK, OneExchange, Next
    PROVE  OneExchange'
<1> SUFFICES ASSUME NEW f \in Faces, f \notin strayed'
             PROVE  FaceOK(f, asked'[f], recv_queue'[f], task')
  BY DEF OneExchange
<1>0. /\ asked \in [Faces -> SUBSET Interests] /\ recv_queue \in [Faces -> Seq(Data \cup {Other})]
  BY DEF TypeOK
<1>1. CASE UNCHANGED <<strayed, asked, recv_queue, task>>
  BY <1>1 DEF OneExchange
<1>2. CASE \E g \in Faces : register_face(g) \/ unregister_face(g)
  BY <1>1, <1>2 DEF register_face, unregister_face, wire, history
<1>3. CASE \/ \E p \in Names, g \in Faces, c \in Costs : add_route(p, g, c)
           \/ \E p \in {n[1] : n \in Names} : register_keys(p)
  BY <1>1, <1>3 DEF add_route, register_keys, wire, history
<1>4. CASE \E d \in Data : publish(d) \/ receive_data(d)
  BY <1>1, <1>4 DEF publish, receive_data, wire, history
<1>5. CASE \E i \in Interests, seen \in InFaces \X Nonces : express(i, seen)
  <2>1. PICK i \in Interests, seen \in InFaces \X Nonces : express(i, seen)
    BY <1>5
  <2>2. /\ task = Idle /\ f \notin strayed /\ recv_queue' = recv_queue
        /\ task.state \notin {"checking", "waiting"}
    BY <2>1 DEF express, Idle
  <2>3. ASSUME NEW u
        PROVE  /\ FaceOK(f, asked[f], recv_queue[f], u) /\ asked[f] = {}
               /\ \A k \in 1..Len(recv_queue[f]) : recv_queue[f][k] = Other
    <3>1. PICK a, q, t : a = asked[f] /\ q = recv_queue[f] /\ t = task
      OBVIOUS
    <3>2. FaceOK(f, a, q, t) /\ t.state \notin {"checking", "waiting"}
      BY <2>2, <3>1 DEF OneExchange
    <3> QED
      BY <3>1, <3>2, QuietFace
  <2>4. CASE asked' = asked
    <3>1. PICK u : u = task'
      OBVIOUS
    <3> QED
      BY <2>2, <2>3, <2>4, <3>1
  <2>5. CASE ForwardTo(i, seen)
    <3>1. PICK b : b = BestFace(i)
      OBVIOUS
    <3>2. /\ asked' = [asked EXCEPT ![b] = @ \cup {i}]
          /\ task' = [state |-> "checking", interest |-> i, face |-> b]
      BY <2>5, <3>1 DEF ForwardTo
    <3>3. task'.state = "checking" /\ task'.interest = i /\ task'.face = b
      BY <3>2
    <3>4. asked[f] = {} /\ \A k \in 1..Len(recv_queue[f]) : recv_queue[f][k] = Other
      BY <2>3
    <3>5. CASE f = b
      <4>1. asked'[f] = {i}
        BY <1>0, <3>2, <3>4, <3>5
      <4> QED
        BY <2>2, <3>3, <3>4, <3>5, <4>1 DEF FaceOK
    <3>6. CASE f # b
      <4>1. asked'[f] = {}
        BY <1>0, <3>2, <3>4, <3>6
      <4> QED
        BY <2>2, <3>4, <4>1 DEF FaceOK
    <3> QED
      BY <3>5, <3>6
  <2> QED
    BY <2>1, <2>4, <2>5 DEF express, LoopDetected, ServeFromCache, SuppressAggregate, NoRoute,
                            FaceNotFound, SendFails
<1>6. CASE \E g \in Faces : deliver_answer(g)
  <2>1. PICK g \in Faces : deliver_answer(g)
    BY <1>6
  <2>2. PICK i \in asked[g], d \in Data :
            /\ Matches(d, i) /\ Delivered(g, d)
            /\ asked' = [asked EXCEPT ![g] = @ \ {i}]
            /\ UNCHANGED <<tables, task, used, history>>
    BY <2>1 DEF deliver_answer
  <2>3. /\ f \notin strayed /\ task' = task
        /\ recv_queue' = [recv_queue EXCEPT ![g] = Append(@, d)]
    BY <2>2 DEF history, Delivered
  <2>4. PICK a, q, t : a = asked[f] /\ q = recv_queue[f] /\ t = task
    OBVIOUS
  <2>5. FaceOK(f, a, q, t) /\ q \in Seq(Data \cup {Other})
    BY <1>0, <2>3, <2>4 DEF OneExchange
  <2>6. CASE f = g
    <3>1. a # {} /\ i \in a /\ asked'[f] = a \ {i} /\ recv_queue'[f] = Append(q, d)
      BY <1>0, <2>2, <2>3, <2>4, <2>6
    <3>2. i = t.interest /\ a \ {i} = {}
      BY <2>5, <3>1 DEF FaceOK
    <3>3. FaceOK(f, {}, Append(q, d), t)
      BY <2>2, <2>5, <3>1, <3>2, Queued
    <3> QED
      BY <2>3, <2>4, <3>1, <3>2, <3>3
  <2>7. CASE f # g
    <3>1. asked'[f] = a /\ recv_queue'[f] = q
      BY <1>0, <2>2, <2>3, <2>4, <2>7
    <3> QED
      BY <2>3, <2>4, <2>5, <3>1
  <2> QED
    BY <2>6, <2>7
<1>12. CASE \E g \in Faces : deliver_stray(g)
  <2>1. PICK g \in Faces, d \in Data :
            /\ Delivered(g, d) /\ strayed' = strayed \cup {g} /\ task' = task /\ asked' = asked
    BY <1>12 DEF deliver_stray
  <2>2. f # g /\ f \notin strayed /\ recv_queue'[f] = recv_queue[f]
    BY <1>0, <2>1 DEF Delivered
  <2> QED
    BY <2>1, <2>2 DEF OneExchange
<1>7. CASE \E g \in Faces : deliver_other(g)
  <2>1. PICK g \in Faces : deliver_other(g)
    BY <1>7
  <2>2. /\ f \notin strayed /\ task' = task /\ asked' = asked
        /\ recv_queue' = [recv_queue EXCEPT ![g] = Append(@, Other)]
    BY <2>1 DEF deliver_other, history, Delivered
  <2>3. PICK a, q, t : a = asked[f] /\ q = recv_queue[f] /\ t = task
    OBVIOUS
  <2>4. FaceOK(f, a, q, t) /\ q \in Seq(Data \cup {Other})
    BY <1>0, <2>2, <2>3 DEF OneExchange
  <2>5. recv_queue'[f] = Append(q, Other) \/ recv_queue'[f] = q
    BY <1>0, <2>2, <2>3
  <2>6. FaceOK(f, a, Append(q, Other), t)
    BY <2>4, Queued
  <2> QED
    BY <2>2, <2>3, <2>4, <2>5, <2>6
<1>8. CASE CheckFails \/ Notified
  <2>1. Forwarding /\ f \notin strayed /\ asked' = asked
    BY <1>8 DEF CheckFails, Notified, history, Forwarding
  <2>2. task \in [state : {"checking", "waiting"}, interest : Interests, face : Faces]
    BY <2>1, ForwardingTask
  <2>3. PICK s \in {"checking", "waiting"} : task' = [task EXCEPT !.state = s]
    BY <1>8 DEF CheckFails, Notified
  <2>4. task'.state = s /\ task'.interest = task.interest /\ task'.face = task.face
    BY <2>2, <2>3
  <2>5. \/ recv_queue'[f] = recv_queue[f]
        \/ recv_queue[f] # <<>> /\ recv_queue'[f] = Tail(recv_queue[f])
    BY <1>0, <1>8 DEF CheckFails, Notified
  <2>6. PICK a, q, t : a = asked[f] /\ q = recv_queue[f] /\ t = task
    OBVIOUS
  <2>7. FaceOK(f, a, q, t) /\ q \in Seq(Data \cup {Other})
    BY <1>0, <2>1, <2>6 DEF OneExchange
  <2>8. PICK r : r = recv_queue'[f]
    OBVIOUS
  <2>9. FaceOK(f, a, r, t)
    <3>1. CASE r = q
      BY <2>7, <3>1
    <3>2. CASE q # <<>> /\ r = Tail(q)
      BY <2>7, <3>2, Dropped
    <3> QED
      BY <2>5, <2>6, <2>8, <3>1, <3>2
  <2> QED
    BY <2>1, <2>4, <2>6, <2>8, <2>9 DEF FaceOK, Forwarding
<1>9. CASE TimedOut \/ (Cancel /\ task.state # "suppressed")
  <2>1. /\ f \notin strayed /\ f # task.face /\ asked' = asked /\ recv_queue' = recv_queue
    BY <1>9 DEF TimedOut, Cancel, wire
  <2>2. PICK a, q, t, u : a = asked[f] /\ q = recv_queue[f] /\ t = task /\ u = task'
    OBVIOUS
  <2>3. FaceOK(f, a, q, t) /\ f # t.face
    BY <2>1, <2>2 DEF OneExchange
  <2>4. FaceOK(f, a, q, u)
    BY <2>3, QuietFace
  <2> QED
    BY <2>1, <2>2, <2>4
<1>10. CASE AnswerAccepted \/ AnswerRefused
  <2>1. /\ Forwarding /\ f \notin strayed /\ asked' = asked /\ HasAnswer
        /\ recv_queue' = [recv_queue EXCEPT ![task.face] = Tail(@)]
    BY <1>10 DEF AnswerAccepted, AnswerRefused, Answered, Forwarding
  <2>2. PICK a, q, t, u : a = asked[f] /\ q = recv_queue[f] /\ t = task /\ u = task'
    OBVIOUS
  <2>3. FaceOK(f, a, q, t) /\ q \in Seq(Data \cup {Other})
    BY <1>0, <2>1, <2>2 DEF OneExchange
  <2>4. CASE f # t.face
    <3>1. recv_queue'[f] = q
      BY <1>0, <2>1, <2>2, <2>4
    <3> QED
      BY <2>1, <2>2, <2>3, <2>4, <3>1, QuietFace
  <2>5. CASE f = t.face
    <3>1. q # <<>> /\ q[1] # Other /\ recv_queue'[f] = Tail(q)
      BY <1>0, <2>1, <2>2, <2>3, <2>5 DEF HasAnswer, Answer
    <3>2. Len(q) \in Nat /\ 1 \in 1..Len(q)
      BY <2>3, <3>1
    <3>3. a = {} /\ \A k \in 1..Len(q) : k # 1 => q[k] = Other
      BY <2>3, <3>1, <3>2 DEF FaceOK
    <3>4. \A k \in 1..Len(Tail(q)) : Tail(q)[k] = q[k + 1] /\ k + 1 \in 1..Len(q) /\ k + 1 # 1
      BY <2>3, <3>1
    <3>5. \A k \in 1..Len(Tail(q)) : Tail(q)[k] = Other
      BY <3>3, <3>4
    <3>6. FaceOK(f, a, Tail(q), u)
      BY <3>3, <3>5 DEF FaceOK
    <3> QED
      BY <2>1, <2>2, <3>1, <3>6
  <2> QED
    BY <2>4, <2>5
<1>11. CASE Cancel /\ task.state = "suppressed"
  <2>1. f \notin strayed /\ UNCHANGED <<asked, recv_queue>>
    BY <1>11 DEF Cancel, wire
  <2>2. PICK a, q, t, u : a = asked[f] /\ q = recv_queue[f] /\ t = task /\ u = task'
    OBVIOUS
  <2>3. FaceOK(f, a, q, t) /\ t.state \notin {"checking", "waiting"}
    BY <1>11, <2>1, <2>2 DEF OneExchange
  <2>4. FaceOK(f, a, q, u)
    BY <2>3, QuietFace
  <2> QED
    BY <2>1, <2>2, <2>4
<1> QED
  BY <1>2, <1>3, <1>4, <1>5, <1>6, <1>7, <1>8, <1>9, <1>10, <1>11, <1>12
     DEF Next, forward_and_wait

-----------------------------------------------------------------------------
(* Theorems *)

\* The invariant holds at first.
LEMMA InitInv == Init => ForwarderInv
<1> SUFFICES ASSUME Init PROVE ForwarderInv
  OBVIOUS
<1>1. TypeOK
  <2>1. cs \in Seq(Data) /\ Len(cs) <= Capacity /\ DOMAIN cs = {}
    BY DEF Init
  <2>2. /\ fib \in [Names -> Seq([face : Faces, cost : Costs])]
        /\ \A n \in Names : DOMAIN fib[n] = {}
    BY DEF Init
  <2>3. pit \in [Names -> [in_faces : SUBSET InFaces, satisfied : BOOLEAN]]
    BY DEF Init, NoEntry
  <2>4. /\ asked \in [Faces -> SUBSET Interests] /\ permit \in [Faces -> BOOLEAN]
        /\ recv_queue \in [Faces -> Seq(Data \cup {Other})]
    BY DEF Init
  <2>5. /\ nonce_tracker = {} /\ waiters = {} /\ faces = {} /\ key_store = {} /\ task = Idle
    BY DEF Init
  <2> QED
    BY <2>1, <2>2, <2>3, <2>4, <2>5 DEF TypeOK
<1>2. ToSet(cs) = {}
  BY DEF Init, ToSet
<1>3. Ordered
  BY DEF Init, Ordered, ByCost
<1>4. ForwardedToBest
  BY DEF Init, ForwardedToBest, Idle
<1>5. PendingIsAwaited
  BY DEF Init, PendingIsAwaited, Pending, NoEntry
<1>6. OneExchange
  <2> SUFFICES ASSUME NEW f \in Faces PROVE FaceOK(f, asked[f], recv_queue[f], task)
    BY DEF OneExchange
  <2>1. asked[f] = {} /\ Len(recv_queue[f]) = 0
    BY DEF Init
  <2> QED
    BY <2>1 DEF FaceOK
<1> QED
  BY <1>1, <1>2, <1>3, <1>4, <1>5, <1>6 DEF ForwarderInv, OnlyTrustedData

\* Every step keeps it.
LEMMA StepInv == ForwarderInv /\ [Next]_vars => ForwarderInv'
<1>1. ASSUME ForwarderInv, Next PROVE ForwarderInv'
  <2>1. TypeOK'
    BY <1>1, TypeKept
  <2>2. TypeOK /\ OnlyTrustedData /\ Ordered /\ PendingIsAwaited /\ OneExchange
    BY <1>1 DEF ForwarderInv, OnlyTrustedData
  <2>3. OnlyTrustedData'
    BY <1>1, <2>1, <2>2, StoreKept DEF OnlyTrustedData
  <2>4. Ordered'
    BY <1>1, <2>2, FibStep DEF Ordered
  <2>5. PendingIsAwaited'
    BY <1>1, <2>2, PendingKept
  <2>6. ForwardedToBest'
    BY <1>1, BestKept
  <2>7. OneExchange'
    BY <1>1, <2>2, ExchangeKept
  <2> QED
    BY <2>3, <2>4, <2>5, <2>6, <2>7 DEF ForwarderInv
<1>2. ASSUME ForwarderInv, UNCHANGED vars PROVE ForwarderInv'
  <2>1. TypeOK' /\ OnlyTrustedData'
    BY <1>2 DEF vars, ForwarderInv, OnlyTrustedData, TypeOK
  <2>2. Ordered' /\ ForwardedToBest' /\ PendingIsAwaited' /\ OneExchange'
    BY <1>2 DEF vars, ForwarderInv, Ordered, ForwardedToBest, Matching, PendingIsAwaited, Pending,
                OneExchange
  <2> QED
    BY <2>1, <2>2 DEF ForwarderInv
<1> QED
  BY <1>1, <1>2

\* The inductive invariant: the store holds trusted data only, routes are sorted, an express waits
\* on the best face, what is pending is awaited, and one exchange is under way.
THEOREM ForwarderInvariant == Spec => []ForwarderInv
BY InitInv, StepInv, PTL DEF Spec

\* The content store of Forwarder, whatever its capacity and however get, put and eviction reorder
\* it, only ever holds data that was published locally or that verify_data accepted.
THEOREM StoreIsTrusted == Spec => []OnlyTrustedData
<1>1. ForwarderInv => OnlyTrustedData
  BY DEF ForwarderInv
<1> QED
  BY <1>1, ForwarderInvariant, PTL

\* BestRoute forwards to a cheapest face of the longest matching prefix of the Fib, for any routes
\* added, changed and removed in any order.
THEOREM BestFaceIsUsed == Spec => []ForwardedToBest
<1>1. ForwarderInv => ForwardedToBest
  BY DEF ForwarderInv
<1> QED
  BY <1>1, ForwarderInvariant, PTL

\* Every way out of express, but for a caller that drops it, satisfies the interest that it entered
\* into the Pit.
THEOREM NoInterestLeftPending == Spec => []PendingIsAwaited
<1>1. ForwarderInv => PendingIsAwaited
  BY DEF ForwarderInv
<1> QED
  BY <1>1, ForwarderInvariant, PTL

\* LinkFace::express_interest takes the first data packet of its queue without comparing names; on a
\* face where no express ended before its answer came, and no data came twice or unasked, that is the
\* answer to the interest, whatever happens on other faces and however many other messages come.
THEOREM AnswersAreForTheInterest == Spec => AnswersTheInterest
<1>1. ForwarderInv /\ [Next]_vars =>
          [AnswerAccepted /\ task.face \notin strayed => Matches(Answer, task.interest)]_vars
  <2> SUFFICES ASSUME ForwarderInv, AnswerAccepted, task.face \notin strayed
               PROVE  Matches(Answer, task.interest)
    OBVIOUS
  <2>1. Forwarding /\ HasAnswer
    BY DEF AnswerAccepted, Answered, Forwarding
  <2>2. TypeOK
    BY DEF ForwarderInv, OnlyTrustedData
  <2>3. task.face \in Faces
    BY <2>1, <2>2, ForwardingTask
  <2>4. PICK a, q, t, f : a = asked[f] /\ q = recv_queue[f] /\ t = task /\ f = task.face
    OBVIOUS
  <2>5. FaceOK(f, a, q, t) /\ q \in Seq(Data \cup {Other})
    BY <2>2, <2>3, <2>4 DEF ForwarderInv, OneExchange, TypeOK
  <2>6. q # <<>> /\ Head(q) # Other /\ Answer = Head(q)
    BY <2>1, <2>4 DEF HasAnswer, Answer
  <2>7. 1 \in 1..Len(q) /\ q[1] = Head(q)
    BY <2>5, <2>6
  <2> QED
    BY <2>4, <2>5, <2>6, <2>7 DEF FaceOK
<1> QED
  BY <1>1, ForwarderInvariant, PTL DEF Spec, AnswersTheInterest
=============================================================================
