------------------------- MODULE GattClientProofs -------------------------
(* Proofs about the GATT client, for any services and characteristics of    *)
(* the devices and any bounds on the faults: the state keeps its types, the *)
(* discovery finds every handle, no value is read before its notification   *)
(* was asked for, a device is ready only when its values were answered, and *)
(* a device that stays half way does so for a known reason.                 *)
EXTENDS GattClient, FiniteSetTheorems, WellFoundedInduction, TLAPS

-----------------------------------------------------------------------------
(* Counting.                                                                *)

\* A set of natural numbers that is not empty has a least element.
LEMMA Least ==
    ASSUME NEW S \in SUBSET Nat, S # {}
    PROVE  \E x \in S : \A y \in S : x <= y
<1> DEFINE R == {ss \in Nat \X Nat : ss[1] < ss[2]}
<1>1. IsWellFoundedOn(R, Nat)
    BY NatLessThanWellFounded DEF OpToRel
<1>2. \E x \in S : \A y \in S : ~(<<y, x>> \in R)
    <2> HIDE DEF R
    <2> QED BY <1>1, WFMin
<1>3. PICK x \in S : \A y \in S : ~(<<y, x>> \in R) BY <1>2
<1>4. ASSUME NEW y \in S PROVE x <= y
    <2>1. x \in Nat /\ y \in Nat OBVIOUS
    <2>2. ~(<<y, x>> \in R) BY <1>3
    <2>3. ~(y < x) BY <2>1, <2>2
    <2>4. QED BY <2>1, <2>3
<1>5. QED BY <1>4

\* How many of the first n elements of f are t.
Count(f, n, t) == Cardinality({i \in 1..n : f[i] = t})

\* The count is a natural number, and grows by one at an element that is t.
LEMMA CountStep ==
    ASSUME NEW f, NEW t, NEW n \in Nat
    PROVE  /\ Count(f, n, t) \in Nat /\ Count(f, 0, t) = 0
           /\ f[n + 1] = t => Count(f, n + 1, t) = Count(f, n, t) + 1
           /\ f[n + 1] # t => Count(f, n + 1, t) = Count(f, n, t)
<1> DEFINE A == {i \in 1..n : f[i] = t}
           B == {i \in 1..(n + 1) : f[i] = t}
<1>1. IsFiniteSet(A)
    <2>1. IsFiniteSet(1..n) BY FS_Interval
    <2>2. A \in SUBSET (1..n) OBVIOUS
    <2>3. QED BY <2>1, <2>2, FS_Subset
<1>2. {i \in 1..0 : f[i] = t} = {} OBVIOUS
<1>3. f[n + 1] = t => B = A \cup {n + 1} OBVIOUS
<1>4. f[n + 1] # t => B = A OBVIOUS
<1>5. n + 1 \notin A OBVIOUS
<1>6. Cardinality(A) \in Nat BY <1>1, FS_CardinalityType
<1>7. Cardinality(A \cup {n + 1}) = Cardinality(A) + 1 BY <1>1, <1>5, FS_AddElement
<1>8. Cardinality({}) = 0 BY FS_EmptySet
<1> HIDE DEF A, B
<1>9. Count(f, n, t) = Cardinality(A) /\ Count(f, n + 1, t) = Cardinality(B) BY DEF Count, A, B
<1>10. Count(f, 0, t) = 0 BY <1>2, <1>8 DEF Count
<1>11. QED BY <1>3, <1>4, <1>6, <1>7, <1>9, <1>10

\* The count never shrinks, and has grown where an element is t.
LEMMA CountGrows ==
    ASSUME NEW f, NEW t, NEW m \in Nat, NEW n \in Nat, m <= n
    PROVE  /\ Count(f, m, t) <= Count(f, n, t)
           /\ m < n /\ f[n] = t => Count(f, m, t) < Count(f, n, t)
<1>1. ASSUME NEW k \in Nat, m <= k PROVE Count(f, m, t) <= Count(f, k, t)
    <2>1. IsFiniteSet({i \in 1..k : f[i] = t})
        <3>1. IsFiniteSet(1..k) BY FS_Interval
        <3>2. {i \in 1..k : f[i] = t} \in SUBSET (1..k) OBVIOUS
        <3>3. QED BY <3>1, <3>2, FS_Subset
    <2>2. {i \in 1..m : f[i] = t} \in SUBSET {i \in 1..k : f[i] = t} BY <1>1
    <2>3. QED BY <2>1, <2>2, FS_Subset DEF Count
<1>2. ASSUME m < n, f[n] = t PROVE Count(f, m, t) < Count(f, n, t)
    <2> DEFINE k == n - 1
    <2>1. k \in Nat /\ m <= k /\ n = k + 1 BY <1>2
    <2>2. Count(f, m, t) <= Count(f, k, t) BY <1>1, <2>1
    <2>3. Count(f, m, t) \in Nat /\ Count(f, k, t) \in Nat BY <2>1, CountStep
    <2> HIDE DEF k
    <2>4. Count(f, k + 1, t) = Count(f, k, t) + 1 BY <1>2, <2>1, CountStep
    <2>5. Count(f, n, t) = Count(f, k, t) + 1 BY <2>1, <2>4
    <2>6. QED BY <2>2, <2>3, <2>5
<1>3. QED BY <1>1, <1>2

\* Every count up to that of n is reached at an element that is t.
LEMMA CountHits ==
    ASSUME NEW f, NEW t, NEW n \in Nat, NEW r \in Nat, 1 <= r, r <= Count(f, n, t)
    PROVE  \E i \in 1..n : f[i] = t /\ Count(f, i, t) = r
<1> DEFINE S == {m \in Nat : m <= n /\ r <= Count(f, m, t)}
<1>1. S \in SUBSET Nat /\ n \in S OBVIOUS
<1>2. PICK m \in S : \A k \in S : m <= k BY <1>1, Least
<1>3. m \in Nat /\ m <= n /\ r <= Count(f, m, t) BY <1>2
<1>4. m # 0
    <2>1. Count(f, 0, t) = 0 BY CountStep
    <2>2. QED BY <2>1, <1>3
<1> DEFINE k == m - 1
<1>5. k \in Nat /\ m = k + 1 BY <1>3, <1>4
<1>6. k \notin S BY <1>2, <1>5
<1>7. ~(r <= Count(f, k, t)) BY <1>3, <1>5, <1>6
<1> HIDE DEF k, S
<1>8. /\ Count(f, k, t) \in Nat
      /\ f[k + 1] = t => Count(f, k + 1, t) = Count(f, k, t) + 1
      /\ f[k + 1] # t => Count(f, k + 1, t) = Count(f, k, t)
    BY <1>5, CountStep
<1>9. f[m] = t /\ Count(f, m, t) = r BY <1>3, <1>5, <1>7, <1>8
<1>10. m \in 1..n BY <1>3, <1>4
<1>11. QED BY <1>9, <1>10

-----------------------------------------------------------------------------
(* What the discovery of a service finds.                                   *)

\* The types of the characteristics of service v on device c.
Types(c, v) == [i \in DOMAIN Db[c][v] |-> Db[c][v][i].type]

\* The slots after the first j characteristics: a slot holds the one of its
\* type with its rank, and a slot is free when there is none among them yet.
FoundUpTo(c, v, chars, j) ==
    \A i \in DOMAIN Slots[v] :
        LET h == chars[i].h
            t == Slots[v][i]
        IN  /\ h \in 0..j
            /\ h # 0 => /\ Types(c, v)[h] = t
                        /\ Count(Types(c, v), h, t) = Count(Slots[v], i, t)
            /\ h = 0 => Count(Types(c, v), j, t) < Count(Slots[v], i, t)

\* The CCCDs after the first j attributes.
DescribedUpTo(c, v, chars, j) ==
    \A i \in DOMAIN Slots[v] :
        LET h == chars[i].h
        IN  chars[i].d = IF h # 0 /\ 2 * h <= j /\ Db[c][v][h].cccd THEN h ELSE 0

\* The sequences of characteristics and of slots.
LEMMA DbShape ==
    ASSUME NEW c \in Conns, NEW v \in Services
    PROVE  /\ Db[c][v] \in Seq([type : STRING, cccd : BOOLEAN])
           /\ Len(Db[c][v]) \in Nat /\ DOMAIN Db[c][v] = 1..Len(Db[c][v])
           /\ Slots[v] \in Seq(STRING)
           /\ Len(Slots[v]) \in Nat /\ DOMAIN Slots[v] = 1..Len(Slots[v])
<1>1. Db[c][v] \in Seq([type : STRING, cccd : BOOLEAN]) BY DbAssumption
<1>2. Slots[v] \in Seq(STRING) BY DbAssumption
<1>3. QED BY <1>1, <1>2

\* A context that was just allocated has found nothing.
LEMMA NothingFound ==
    ASSUME NEW c \in Conns, NEW v \in Services, NEW chars,
           chars = [i \in DOMAIN Slots[v] |-> NoHandle]
    PROVE  /\ chars \in Handles(v) /\ FoundUpTo(c, v, chars, 0)
           /\ DescribedUpTo(c, v, chars, 0)
<1>1. chars \in Handles(v) BY DEF Handles, NoHandle
<1>2. ASSUME NEW i \in DOMAIN Slots[v]
      PROVE  Count(Types(c, v), 0, Slots[v][i]) < Count(Slots[v], i, Slots[v][i])
    <2> DEFINE S == Slots[v]
               t == Slots[v][i]
    <2>1. i \in Nat /\ 0 < i BY DbShape
    <2>2. Count(S, 0, t) < Count(S, i, t) BY <2>1, CountGrows
    <2>3. Count(S, 0, t) = 0 /\ Count(Types(c, v), 0, t) = 0 BY CountStep
    <2>4. QED BY <2>2, <2>3
<1>3. \A i \in DOMAIN Slots[v] : chars[i] = NoHandle OBVIOUS
<1>4. FoundUpTo(c, v, chars, 0) BY <1>2, <1>3 DEF FoundUpTo, NoHandle
<1>5. DescribedUpTo(c, v, chars, 0) BY <1>3 DEF DescribedUpTo, NoHandle
<1>6. QED BY <1>1, <1>4, <1>5

\* The next characteristic takes the first free slot of its type, which is
\* the slot of its rank.
LEMMA NextFound ==
    ASSUME NEW c \in Conns, NEW v \in Services, NEW x, x \in Ctx(v),
           NEW j \in Nat, j < Len(Db[c][v]),
           FoundUpTo(c, v, x.chars, j), DescribedUpTo(c, v, x.chars, 0)
    PROVE  LET y == CharacteristicFound(x, Db[c][v][j + 1].type, j + 1)
           IN  /\ y \in Ctx(v)
               /\ y.st = x.st /\ y.inc = x.inc /\ y.found = x.found /\ y.last = x.last
               /\ FoundUpTo(c, v, y.chars, j + 1) /\ DescribedUpTo(c, v, y.chars, 0)
<1> DEFINE n == j + 1
           S == Slots[v]
           T == Types(c, v)
           ty == Db[c][v][n].type
           free == {i \in DOMAIN x.chars : x.chars[i].h = 0 /\ S[i] = ty}
           y == CharacteristicFound(x, ty, n)
<1>1. x.svc = v /\ x.chars \in Handles(v) /\ DOMAIN x.chars = DOMAIN S BY DEF Ctx, Handles
<1>2. DOMAIN S = 1..Len(S) /\ Len(S) \in Nat BY DbShape
<1>3. n \in 1..Len(Db[c][v]) /\ n \in Nat /\ T[n] = ty BY DbShape DEF Types
<1>4. \A i \in DOMAIN S : x.chars[i] \in [h : Nat, d : Nat] BY <1>1 DEF Handles
<1>5. \A i \in DOMAIN S :
         LET h == x.chars[i].h
         IN  /\ h \in 0..j
             /\ h # 0 => T[h] = S[i] /\ Count(T, h, S[i]) = Count(S, i, S[i])
             /\ h = 0 => Count(T, j, S[i]) < Count(S, i, S[i])
    BY DEF FoundUpTo
<1>6. \A i \in DOMAIN S : x.chars[i].d = 0
    <2> SUFFICES ASSUME NEW i \in DOMAIN S PROVE x.chars[i].d = 0 OBVIOUS
    <2>1. x.chars[i].h \in Nat BY <1>4
    <2>2. QED BY <2>1 DEF DescribedUpTo
<1>7. \A t : Count(T, n, t) = IF t = ty THEN Count(T, j, t) + 1 ELSE Count(T, j, t)
    <2> HIDE DEF T, ty
    <2> QED BY <1>3, CountStep
<1>8. \A t : Count(T, j, t) \in Nat BY CountStep
<1> HIDE DEF T, ty
<1>9. CASE free = {}
    <2>1. y = x BY <1>1, <1>9 DEF CharacteristicFound
    <2>2. ASSUME NEW i \in DOMAIN S, x.chars[i].h = 0 PROVE S[i] # ty BY <1>1, <1>9, <2>2
    <2>3. \A i \in DOMAIN S : x.chars[i].h = 0 => Count(T, n, S[i]) < Count(S, i, S[i])
        BY <1>5, <1>7, <2>2
    <2>4. \A i \in DOMAIN S : x.chars[i].h \in 0..n BY <1>3, <1>5
    <2>5. FoundUpTo(c, v, x.chars, n) BY <1>5, <2>3, <2>4 DEF FoundUpTo, T
    <2>6. QED BY <2>1, <2>5 DEF ty
<1>10. CASE free # {}
    <2> DEFINE i0 == CHOOSE a \in free : \A b \in free : a <= b
               m == Count(T, j, ty)
    <2>1. free \in SUBSET Nat BY <1>1, <1>2
    <2>2. \E a \in free : \A b \in free : a <= b BY <1>10, <2>1, Least
    <2>3. i0 \in free /\ \A b \in free : i0 <= b BY <2>2
    <2>4. y = [x EXCEPT !.chars[i0].h = n] BY <1>1, <1>10 DEF CharacteristicFound
    <2> HIDE DEF i0, y
    <2>5. i0 \in DOMAIN S /\ i0 \in Nat /\ x.chars[i0].h = 0 /\ S[i0] = ty BY <1>1, <2>1, <2>3
    <2>6. m \in Nat /\ m + 1 <= Count(S, i0, ty) /\ Count(S, i0, ty) \in Nat
        <3>1. m \in Nat BY <1>8
        <3>2. Count(S, i0, ty) \in Nat BY <2>5, CountStep
        <3>3. m < Count(S, i0, ty) BY <1>5, <2>5
        <3>4. QED BY <3>1, <3>2, <3>3
    <2>7. Count(S, i0, ty) = m + 1
        <3> DEFINE r == m + 1
        <3>1. r \in Nat /\ 1 <= r /\ r <= Count(S, i0, ty) BY <2>6
        <3> HIDE DEF r
        <3>2. PICK i \in 1..i0 : S[i] = ty /\ Count(S, i, ty) = r BY <2>5, <3>1, CountHits
        <3>3. i \in DOMAIN S BY <1>2, <2>5
        <3>4. SUFFICES ASSUME i # i0 PROVE FALSE BY <3>2 DEF r
        <3>5. i \notin free BY <2>3, <2>5, <3>4
        <3> DEFINE h == x.chars[i].h
        <3>6. h # 0 BY <1>1, <3>2, <3>3, <3>5
        <3>7. h \in 0..j /\ Count(T, h, ty) = r BY <1>5, <3>2, <3>3, <3>6
        <3> HIDE DEF h
        <3>8. h \in Nat /\ h <= j BY <3>7
        <3>9. Count(T, h, ty) <= m BY <3>8, CountGrows
        <3>10. QED BY <2>6, <3>7, <3>9 DEF r
    <2>8. \A i \in DOMAIN S : y.chars[i] = IF i = i0 THEN [x.chars[i] EXCEPT !.h = n] ELSE x.chars[i]
        BY <1>1, <1>4, <2>4, <2>5 DEF Ctx
    <2>9. y.chars \in Handles(v) /\ DOMAIN y.chars = DOMAIN S
        <3> DEFINE z == [x.chars[i0] EXCEPT !.h = n]
        <3>1. z \in [h : Nat, d : Nat] BY <1>3, <1>4, <2>5
        <3>2. y.chars = [x.chars EXCEPT ![i0] = z] BY <2>4 DEF Ctx
        <3> HIDE DEF z
        <3>3. QED BY <1>1, <2>5, <3>1, <3>2 DEF Handles
    <2>10. y \in Ctx(v) /\ y.st = x.st /\ y.inc = x.inc /\ y.found = x.found /\ y.last = x.last
        <3>1. y = [x EXCEPT !.chars = y.chars] BY <2>4 DEF Ctx
        <3> HIDE DEF n
        <3>2. QED BY <2>9, <3>1 DEF Ctx
    <2>11. \A i \in DOMAIN S : y.chars[i].h = (IF i = i0 THEN n ELSE x.chars[i].h) /\ y.chars[i].d = 0
        <3> SUFFICES ASSUME NEW i \in DOMAIN S
                     PROVE  y.chars[i].h = (IF i = i0 THEN n ELSE x.chars[i].h) /\ y.chars[i].d = 0
            OBVIOUS
        <3>1. x.chars[i] \in [h : Nat, d : Nat] BY <1>4
        <3>2. QED BY <1>6, <2>8, <3>1
    <2>12. ASSUME NEW i \in DOMAIN S
           PROVE  LET h == y.chars[i].h
                      t == S[i]
                  IN  /\ h \in 0..n
                      /\ h # 0 => T[h] = t /\ Count(T, h, t) = Count(S, i, t)
                      /\ h = 0 => Count(T, n, t) < Count(S, i, t)
        <3>1. CASE i = i0
            <4>1. y.chars[i].h = n BY <2>11, <3>1
            <4>2. Count(T, n, ty) = m + 1 BY <1>7
            <4>3. QED BY <1>3, <2>5, <2>7, <3>1, <4>1, <4>2
        <3>2. CASE i # i0 /\ x.chars[i].h # 0
            <4>1. y.chars[i].h = x.chars[i].h BY <2>11, <3>2
            <4>2. QED BY <1>3, <1>5, <3>2, <4>1
        <3>3. CASE i # i0 /\ x.chars[i].h = 0
            <4>1. y.chars[i].h = 0 BY <2>11, <3>3
            <4>2. CASE S[i] # ty
                <5>1. Count(T, n, S[i]) = Count(T, j, S[i]) BY <1>7, <4>2
                <5>2. QED BY <1>3, <1>5, <3>3, <4>1, <5>1
            <4>3. CASE S[i] = ty
                <5>1. i0 < i /\ i \in Nat
                    <6>1. i \in free BY <1>1, <3>3, <4>3
                    <6>2. QED BY <1>2, <2>1, <2>3, <2>5, <3>3, <6>1
                <5>2. Count(S, i0, ty) < Count(S, i, ty) BY <2>5, <4>3, <5>1, CountGrows
                <5>3. Count(T, n, ty) = m + 1 BY <1>7
                <5>4. QED BY <1>3, <2>7, <4>1, <4>3, <5>2, <5>3
            <4>4. QED BY <4>2, <4>3
        <3>4. QED BY <3>1, <3>2, <3>3
    <2>13. FoundUpTo(c, v, y.chars, n) BY <2>12 DEF FoundUpTo, T
    <2>14. DescribedUpTo(c, v, y.chars, 0)
        <3>1. \A i \in DOMAIN S : y.chars[i].h \in Nat BY <2>9 DEF Handles
        <3>2. QED BY <2>11, <3>1 DEF DescribedUpTo
    <2>15. QED BY <2>10, <2>13, <2>14 DEF y, ty
<1>11. QED BY <1>9, <1>10

\* The next attribute of the descriptor discovery: a declaration is noted, a
\* CCCD goes to the slot of the declaration before it.
LEMMA NextDescribed ==
    ASSUME NEW c \in Conns, NEW v \in Services, NEW x, x \in Ctx(v),
           NEW j \in Nat, j < 2 * Len(Db[c][v]), x.last = (j + 1) \div 2,
           FoundUpTo(c, v, x.chars, Len(Db[c][v])), DescribedUpTo(c, v, x.chars, j),
           NEW e, e = [decl |-> (j + 1) % 2 = 1, h |-> (j + 2) \div 2]
    PROVE  LET y == OnResult(c, x, "DESCR", e)
           IN  /\ y \in Ctx(v)
               /\ y.st = x.st /\ y.inc = x.inc /\ y.found = x.found
               /\ y.last = (j + 2) \div 2
               /\ FoundUpTo(c, v, y.chars, Len(Db[c][v]))
               /\ DescribedUpTo(c, v, y.chars, j + 1)
<1> DEFINE L == Len(Db[c][v])
           y == OnResult(c, x, "DESCR", e)
           S == DOMAIN Slots[v]
<1>1. x.svc = v /\ x.chars \in Handles(v) /\ DOMAIN x.chars = S BY DEF Ctx, Handles
<1>2. L \in Nat BY DbShape
<1>3. \A i \in S : x.chars[i] \in [h : Nat, d : Nat] BY <1>1 DEF Handles
<1>4. \A i \in S : x.chars[i].h \in Nat
    <2> TAKE i \in S
    <2>1. x.chars[i] \in [h : Nat, d : Nat] BY <1>3
    <2> QED BY <2>1
<1>5. CASE (j + 1) % 2 = 1
    <2>1. e.decl /\ e.h = (j + 2) \div 2 BY <1>5
    <2>2. y = [x EXCEPT !.last = (j + 2) \div 2]
        <3>1. y = [x EXCEPT !.last = e.h] BY <2>1 DEF OnResult
        <3>2. QED BY <2>1, <3>1
    <2>3. (j + 2) \div 2 \in Nat OBVIOUS
    <2>4. /\ y \in Ctx(v) /\ y.st = x.st /\ y.inc = x.inc /\ y.found = x.found
          /\ y.last = (j + 2) \div 2 /\ y.chars = x.chars
        <3> DEFINE k == (j + 2) \div 2
        <3>1. k \in Nat /\ y = [x EXCEPT !.last = k] BY <2>2, <2>3
        <3>2. y.last = k /\ k = (j + 2) \div 2 BY <3>1 DEF Ctx
        <3> HIDE DEF k, y
        <3>3. QED BY <3>1, <3>2 DEF Ctx
    <2> HIDE DEF y
    <2>5. ASSUME NEW h \in Nat PROVE 2 * h <= j + 1 <=> 2 * h <= j
        BY <1>5
    <2>6. DescribedUpTo(c, v, x.chars, j + 1)
        <3> SUFFICES ASSUME NEW i \in S
                     PROVE  LET h == x.chars[i].h
                            IN  x.chars[i].d = IF h # 0 /\ 2 * h <= j + 1 /\ Db[c][v][h].cccd
                                               THEN h ELSE 0
            BY DEF DescribedUpTo
        <3> DEFINE h == x.chars[i].h
        <3>1. h \in Nat BY <1>4
        <3>2. x.chars[i].d = IF h # 0 /\ 2 * h <= j /\ Db[c][v][h].cccd THEN h ELSE 0
            BY DEF DescribedUpTo
        <3> HIDE DEF h
        <3>3. 2 * h <= j + 1 <=> 2 * h <= j BY <2>5, <3>1
        <3>4. x.chars[i].d = IF h # 0 /\ 2 * h <= j + 1 /\ Db[c][v][h].cccd THEN h ELSE 0
            BY <3>2, <3>3
        <3>5. QED BY <3>4 DEF h
    <2>7. QED BY <2>4, <2>6 DEF y
<1>6. CASE (j + 1) % 2 # 1
    <2> DEFINE k == x.last
    <2>1. k \in Nat /\ k # 0 /\ 2 * k = j + 1 /\ (j + 2) \div 2 = k BY <1>6
    <2>2. e.decl = FALSE /\ e.h = k BY <1>6, <2>1
    <2>3. y = IF Db[c][v][k].cccd THEN DescriptorFound(x, k) ELSE x
        BY <1>1, <2>2 DEF OnResult
    <2>4. x.last = k OBVIOUS
    <2> HIDE DEF k, y
    <2>5. \A i \in S : LET h == x.chars[i].h IN
            x.chars[i].d = IF h # 0 /\ 2 * h <= j /\ Db[c][v][h].cccd THEN h ELSE 0
        BY DEF DescribedUpTo
    <2>6. CASE Db[c][v][k].cccd
        <3> DEFINE z == [i \in S |-> IF x.chars[i].h = k THEN [x.chars[i] EXCEPT !.d = k] ELSE x.chars[i]]
        <3>1. y = [x EXCEPT !.chars = z] BY <1>1, <2>3, <2>4, <2>6 DEF DescriptorFound, Ctx
        <3>2. z \in Handles(v)
            <4>1. \A i \in S : z[i] \in [h : Nat, d : Nat] BY <1>3, <2>1
            <4>2. QED BY <4>1 DEF Handles
        <3>3. ASSUME NEW i \in S
              PROVE  /\ z[i].h = x.chars[i].h
                     /\ z[i].d = IF x.chars[i].h = k THEN k ELSE x.chars[i].d
            <4>1. x.chars[i] \in [h : Nat, d : Nat] BY <1>3
            <4>2. QED BY <4>1
        <3> HIDE DEF z
        <3>4. y \in Ctx(v) /\ y.st = x.st /\ y.inc = x.inc /\ y.found = x.found /\ y.last = k /\ y.chars = z
            BY <2>4, <3>1, <3>2 DEF Ctx
        <3>5. FoundUpTo(c, v, z, L) BY <3>3 DEF FoundUpTo
        <3>6. ASSUME NEW i \in S
              PROVE  LET h == z[i].h
                     IN  z[i].d = IF h # 0 /\ 2 * h <= j + 1 /\ Db[c][v][h].cccd THEN h ELSE 0
            <4> DEFINE h == x.chars[i].h
            <4>1. h \in Nat BY <1>4
            <4>2. x.chars[i].d = IF h # 0 /\ 2 * h <= j /\ Db[c][v][h].cccd THEN h ELSE 0 BY <2>5
            <4>3. z[i].h = h /\ z[i].d = IF h = k THEN k ELSE x.chars[i].d BY <3>3
            <4> HIDE DEF h
            <4>4. h # k => (2 * h <= j + 1 <=> 2 * h <= j) BY <2>1, <4>1
            <4>5. z[i].d = IF h # 0 /\ 2 * h <= j + 1 /\ Db[c][v][h].cccd THEN h ELSE 0
                <5>1. CASE h = k
                    <6>1. z[i].d = k BY <4>3, <5>1
                    <6>2. 2 * h <= j + 1 BY <2>1, <5>1
                    <6>3. QED BY <2>1, <2>6, <5>1, <6>1, <6>2
                <5>2. CASE h # k
                    BY <4>2, <4>3, <4>4, <5>2
                <5>3. QED BY <5>1, <5>2
            <4>6. QED BY <4>3, <4>5
        <3>7. DescribedUpTo(c, v, z, j + 1) BY <3>6 DEF DescribedUpTo
        <3>8. QED BY <2>1, <3>4, <3>5, <3>7 DEF y
    <2>7. CASE ~Db[c][v][k].cccd
        <3>1. y = x BY <2>3, <2>7
        <3>2. ASSUME NEW i \in S
              PROVE  LET h == x.chars[i].h
                     IN  x.chars[i].d = IF h # 0 /\ 2 * h <= j + 1 /\ Db[c][v][h].cccd THEN h ELSE 0
            <4> DEFINE h == x.chars[i].h
            <4>1. h \in Nat BY <1>4
            <4>2. x.chars[i].d = IF h # 0 /\ 2 * h <= j /\ Db[c][v][h].cccd THEN h ELSE 0 BY <2>5
            <4> HIDE DEF h
            <4>3. h # k => (2 * h <= j + 1 <=> 2 * h <= j) BY <2>1, <4>1
            <4>4. h = k => ~Db[c][v][h].cccd BY <2>7
            <4>5. x.chars[i].d = IF h # 0 /\ 2 * h <= j + 1 /\ Db[c][v][h].cccd THEN h ELSE 0
                BY <4>2, <4>3, <4>4
            <4>6. QED BY <4>5 DEF h
        <3>3. DescribedUpTo(c, v, x.chars, j + 1) BY <3>2 DEF DescribedUpTo
        <3>4. QED BY <2>1, <2>4, <3>1, <3>3 DEF y
    <2>8. QED BY <2>6, <2>7
<1>7. QED BY <1>5, <1>6

\* After all characteristics and all attributes the handles are complete.
LEMMA AllFound ==
    ASSUME NEW c \in Conns, NEW v \in Services, NEW chars, chars \in Handles(v),
           FoundUpTo(c, v, chars, Len(Db[c][v])),
           DescribedUpTo(c, v, chars, 2 * Len(Db[c][v]))
    PROVE  chars = Expected(c, v)
<1> DEFINE L == Len(Db[c][v])
           S == Slots[v]
           T == Types(c, v)
           D == Db[c][v]
<1>1. L \in Nat /\ DOMAIN D = 1..L /\ DOMAIN S = 1..Len(S) /\ Len(S) \in Nat BY DbShape
<1>2. ASSUME NEW i \in DOMAIN S
      PROVE  chars[i] = Nth(c, v, S[i], Cardinality({j \in 1..i : S[j] = S[i]}))
    <2> DEFINE t == S[i]
               n == Count(S, i, t)
               h == chars[i].h
               of(k) == {a \in 1..k : D[a].type = t}
               hits == {a \in DOMAIN D : D[a].type = t /\ Cardinality(of(a)) = n}
    <2>1. chars[i] \in [h : Nat, d : Nat] BY DEF Handles
    <2>2. h \in Nat /\ chars[i] = [h |-> h, d |-> chars[i].d] BY <2>1
    <2>3. /\ h \in 0..L
          /\ h # 0 => T[h] = t /\ Count(T, h, t) = n
          /\ h = 0 => Count(T, L, t) < n
        BY DEF FoundUpTo
    <2>4. chars[i].d = IF h # 0 /\ D[h].cccd THEN h ELSE 0
        <3>1. chars[i].d = IF h # 0 /\ 2 * h <= 2 * L /\ D[h].cccd THEN h ELSE 0
            BY DEF DescribedUpTo
        <3> HIDE DEF h, L
        <3>2. 2 * h <= 2 * L BY <1>1, <2>2, <2>3
        <3>3. QED BY <3>1, <3>2
    <2>5. \A a \in 1..L : T[a] = D[a].type BY <1>1 DEF Types
    <2>6. ASSUME NEW a \in 1..L PROVE Cardinality(of(a)) = Count(T, a, t)
        <3>1. a \in Nat /\ \A b \in 1..a : b \in 1..L BY <1>1
        <3>2. of(a) = {b \in 1..a : T[b] = t} BY <2>5, <3>1
        <3>3. QED BY <3>2 DEF Count
    <2>7. hits = {a \in 1..L : T[a] = t /\ Count(T, a, t) = n}
        <3> HIDE DEF L, D, T, t, n, of
        <3> QED BY <1>1, <2>5, <2>6
    <2>8. Nth(c, v, t, n) = IF hits = {} THEN NoHandle
                            ELSE LET a == CHOOSE b \in hits : TRUE
                                 IN  [h |-> a, d |-> IF D[a].cccd THEN a ELSE 0]
        BY DEF Nth
    <2>9. n = Cardinality({j \in 1..i : S[j] = S[i]}) BY DEF Count
    <2> HIDE DEF of, n, hits, T, h
    <2>10. CASE h = 0
        <3>1. ASSUME NEW a \in hits PROVE FALSE
            <4>1. a \in Nat /\ a <= L /\ Count(T, a, t) = n BY <1>1, <2>7
            <4>2. Count(T, a, t) <= Count(T, L, t) BY <1>1, <4>1, CountGrows
            <4>3. Count(T, a, t) \in Nat /\ Count(T, L, t) \in Nat BY <1>1, <4>1, CountStep
            <4>4. QED BY <2>3, <2>10, <4>1, <4>2, <4>3
        <3>2. hits = {} BY <3>1
        <3>3. chars[i] = NoHandle BY <2>2, <2>4, <2>10 DEF NoHandle
        <3>4. QED BY <2>8, <2>9, <3>2, <3>3
    <2>11. CASE h # 0
        <3>1. h \in hits /\ h <= L
            <4>1. h \in 1..L BY <1>1, <2>2, <2>3, <2>11
            <4>2. QED BY <1>1, <2>2, <2>3, <2>7, <2>11, <4>1
        <3>2. ASSUME NEW a \in hits PROVE a = h
            <4>1. a \in Nat /\ a <= L /\ Count(T, a, t) = n /\ T[a] = t BY <1>1, <2>7
            <4>2. Count(T, h, t) = n /\ T[h] = t BY <2>3, <2>11
            <4>3. n \in Nat BY <2>2, <4>2, CountStep
            <4>4. ~(a < h)
                <5>1. a < h => Count(T, a, t) < Count(T, h, t) BY <2>2, <4>1, <4>2, CountGrows
                <5>2. QED BY <4>1, <4>2, <4>3, <5>1
            <4>5. ~(h < a)
                <5>1. h < a => Count(T, h, t) < Count(T, a, t) BY <2>2, <4>1, <4>2, CountGrows
                <5>2. QED BY <4>1, <4>2, <4>3, <5>1
            <4>6. QED BY <2>2, <4>1, <4>4, <4>5
        <3>3. hits # {} /\ (CHOOSE b \in hits : TRUE) = h BY <3>1, <3>2
        <3>4. Nth(c, v, t, n) = [h |-> h, d |-> IF D[h].cccd THEN h ELSE 0]
            BY <2>8, <3>3
        <3>5. chars[i].d = IF D[h].cccd THEN h ELSE 0 BY <2>4, <2>11
        <3>6. QED BY <2>2, <2>9, <3>4, <3>5
    <2>12. QED BY <2>10, <2>11
<1>3. QED BY <1>2 DEF Handles, Expected

-----------------------------------------------------------------------------
(* The inductive invariant of one control block.                            *)

Phases   == {"SERVICE", "INCLUDE", "CHARS", "DESCR"}
Elements == {"RANGE", "AICS"} \cup Nat \cup [decl : BOOLEAN, h : Nat]
Tags     == {"MTU", "DISCOVER", "CCCD", "READ", "WRITE"}
Names    == Services \cup {"NONE"}
Requests == [t : Tags, svc : Names, h : Nat, st : DiscoveryStates, left : Seq(Elements)]
Profiles == {f \in [Services -> UNION {{<<>>} \cup Handles(v) : v \in Services}] :
                \A v \in Services : f[v] = <<>> \/ f[v] \in Handles(v)}
Contexts == {NoCtx} \cup UNION {Ctx(v) : v \in Services}
Lists    == [kind : {"READ", "CCCD"}, cap : Nat, index : Nat, ops : Byte,
             todo : SUBSET ((1..8) \X Nat)]
Triples  == Tags \X Names \X Nat
Clcb     == [up : BOOLEAN, enc : BOOLEAN, mtu : BOOLEAN, disc : BOOLEAN,
             enabled : BOOLEAN, ready : BOOLEAN, hash : BOOLEAN,
             prof : Profiles, aics : 0..2, ctx : Contexts,
             op : {NoOp} \cup Lists, req : Seq(Requests),
             asked : SUBSET Triples, answered : SUBSET Triples,
             ok : BOOLEAN, refuse : BOOLEAN]

\* How far the discovery of context x is, when j results of its command have
\* been delivered.
Progress(c, x, j) ==
    LET v == x.svc
        L == Len(Db[c][v])
    IN  /\ x.found <=> x.st # "SERVICE" \/ j > 0
        /\ x.st \in {"SERVICE", "INCLUDE"} =>
              FoundUpTo(c, v, x.chars, 0) /\ DescribedUpTo(c, v, x.chars, 0) /\ x.last = 0
        /\ x.st = "SERVICE" => x.inc = 0
        /\ x.st = "INCLUDE" => v = "MICS" /\ x.inc = j
        /\ x.st = "CHARS" =>
              FoundUpTo(c, v, x.chars, j) /\ DescribedUpTo(c, v, x.chars, 0) /\ x.last = 0
        /\ x.st = "DESCR" =>
              FoundUpTo(c, v, x.chars, L) /\ DescribedUpTo(c, v, x.chars, j)
              /\ x.last = (j + 1) \div 2
        /\ x.st \in {"CHARS", "DESCR"} /\ v = "MICS" => x.inc = NumAics(c)

\* The results that are left after the first j.
Left(left, results, j) ==
    /\ j \in Nat /\ Len(results) = Len(left) + j
    /\ \A q \in 1..Len(left) : left[q] = results[q + j]

\* A discovery command under way is that of the context.
Asks(c, x, r) ==
    /\ x # NoCtx /\ x.svc = r.svc /\ x.st = r.st /\ r.st \in Phases
    /\ \E j \in Nat : Left(r.left, Results(c, r.svc, r.st), j) /\ Progress(c, x, j)

\* The requests of type t in a queue.
Queued(q, t) == {i \in 1..Len(q) : q[i].t = t}

\* At most one discovery command is under way, and it is the context's.
Asking(c, s) ==
    /\ \A i \in Queued(s.req, "DISCOVER") : Asks(c, s.ctx, s.req[i])
    /\ \A i, j \in Queued(s.req, "DISCOVER") : i = j

\* One thing after the other: encryption, discovery, CCCDs, reads.
Phased(s) ==
    /\ ~s.enc => /\ s.ctx = NoCtx /\ s.op = NoOp /\ ~s.disc /\ ~s.enabled /\ ~s.ready
                 /\ \A i \in 1..Len(s.req) : s.req[i].t = "MTU"
    /\ s.ctx # NoCtx => s.op = NoOp /\ ~s.disc /\ ~s.hash /\ ~s.enabled
    /\ s.op # NoOp => (s.disc \/ s.hash) /\ (s.op.kind = "READ" <=> s.enabled) /\ ~s.ready
    /\ s.enabled => s.disc \/ s.hash
    /\ s.ready => s.enabled

\* The place of a service in the chain.
Position(v) ==
    CASE v = "ASCS" -> 1 [] v = "PACS" -> 2 [] v = "BASS" -> 3 [] v = "VCS" -> 4
      [] v = "MICS" -> 5 [] v = "AICS1" -> 6 [] v = "AICS2" -> 7 [] v = "CSIS" -> 8
      [] v = "GMAP" -> 9 [] v = "HAS" -> 10

\* The handles of the first n services of the chain are complete.
Known(c, prof, n) ==
    \A v \in Services : Position(v) <= n /\ Db[c][v] # <<>> => prof[v] = Expected(c, v)

\* The services before that of the context are known; after the chain, all.
Chained(c, s) ==
    /\ s.aics <= NumAics(c)
    /\ "DISCOVER" \notin Refusable =>
          /\ s.ctx # NoCtx => /\ Known(c, s.prof, Position(s.ctx.svc) - 1)
                              /\ s.ctx.svc = "AICS1" => s.aics = NumAics(c)
          /\ s.disc \/ s.hash => Known(c, s.prof, 10)

\* The characteristics for a list of a kind, and the request for one.
Order(kind) == IF kind = "READ" THEN ReadOrder ELSE NotifyOrder
Handle(kind, f, p) ==
    LET x == f[Order(kind)[p[1]]][p[2]] IN IF kind = "READ" THEN x.h ELSE x.d
Wanted(kind, f) ==
    {p \in Places(Order(kind), IF kind = "READ" THEN ReadTypes ELSE NotifyTypes) :
        p[2] \in DOMAIN f[Order(kind)[p[1]]] /\ Handle(kind, f, p) # 0}
Asked(kind, f, p) == <<kind, Order(kind)[p[1]], Handle(kind, f, p)>>

\* A list holds what is still to do, and is at its end only when that is
\* nothing.
Listed(s) ==
    s.op # NoOp =>
        /\ s.op.todo \subseteq Wanted(s.op.kind, s.prof) /\ IsFiniteSet(s.op.todo)
        /\ s.op.index + Cardinality(s.op.todo) <= s.op.cap
        /\ s.op.kind = "READ" => s.op.cap \in Byte

\* A CCCD that is wanted is asked for or still to do.
Subscribed(s) ==
    /\ s.op # NoOp /\ s.op.kind = "CCCD" =>
          \A p \in Wanted("CCCD", s.prof) :
              p \in s.op.todo \/ Asked("CCCD", s.prof, p) \in s.asked
    /\ s.enabled => \A p \in Wanted("CCCD", s.prof) : Asked("CCCD", s.prof, p) \in s.asked

\* A value that is wanted is answered, asked for or still to do, and the
\* reads under way are counted.
Triple(r) == <<r.t, r.svc, r.h>>
Counted(s) ==
    "READ" \notin Refusable =>
        /\ s.op # NoOp /\ s.op.kind = "READ" =>
              /\ Cardinality(Queued(s.req, "READ")) = s.op.ops /\ s.op.ops <= s.op.index
              /\ \A p \in Wanted("READ", s.prof) :
                    \/ p \in s.op.todo
                    \/ Asked("READ", s.prof, p) \in s.answered
                    \/ \E i \in Queued(s.req, "READ") : Triple(s.req[i]) = Asked("READ", s.prof, p)
        /\ s.op = NoOp \/ s.op.kind # "READ" => Queued(s.req, "READ") = {}
        /\ s.ready => \A p \in Wanted("READ", s.prof) : Asked("READ", s.prof, p) \in s.answered

Good(c, s) ==
    /\ s \in Clcb
    /\ Asking(c, s) /\ Phased(s) /\ Chained(c, s)
    /\ Listed(s) /\ Subscribed(s) /\ Counted(s)

\* What is stored of a device.
Stored(c, n) ==
    /\ n \in [bonded : BOOLEAN, hash : BOOLEAN, aics : 0..2, prof : Profiles]
    /\ n.aics <= NumAics(c)
    /\ "DISCOVER" \notin Refusable /\ n.hash => Known(c, n.prof, 10)

\* The control blocks, what is stored, and the faults so far.
Blocks(f) == f \in [Conns -> Clcb] /\ \A c \in Conns : Good(c, f[c]) /\ ~f[c].refuse
Memory(f) == DOMAIN f = Conns /\ \A c \in Conns : Stored(c, f[c])
Spent(f)  == f \in [Kinds -> Nat] /\ \A k \in Kinds : f[k] <= Bound[k]

ClientInv == /\ Blocks(clcb) /\ Memory(nvram) /\ Spent(used)
             /\ timer \subseteq Conns /\ closing \subseteq Conns
-----------------------------------------------------------------------------
(* The queue of requests.                                                   *)

\* The AICS instances are those that MICS includes, the first one first.
LEMMA AicsCounted ==
    ASSUME NEW c \in Conns
    PROVE  /\ NumAics(c) \in 0..2
           /\ NumAics(c) = 0 => Db[c]["AICS1"] = <<>>
           /\ NumAics(c) # 2 => Db[c]["AICS2"] = <<>>
           /\ Db[c]["MICS"] = <<>> => NumAics(c) = 0
<1> DEFINE A == {v \in Aics : Db[c][v] # <<>>}
<1>1. /\ Db[c]["AICS2"] # <<>> => Db[c]["AICS1"] # <<>>
      /\ Db[c]["AICS1"] # <<>> => Db[c]["MICS"] # <<>>
    BY DbAssumption
<1>2. NumAics(c) = Cardinality(A) BY DEF NumAics
<1>3. Cardinality({}) = 0 BY FS_EmptySet
<1>4. Cardinality({"AICS1"}) = 1 BY FS_Singleton
<1>5. Cardinality({"AICS1", "AICS2"}) = 2
    <2>1. {"AICS1", "AICS2"} = {"AICS1"} \cup {"AICS2"} OBVIOUS
    <2>2. IsFiniteSet({"AICS1"}) /\ "AICS2" \notin {"AICS1"} BY FS_Singleton
    <2>3. Cardinality({"AICS1"} \cup {"AICS2"}) = 1 + 1 BY <1>4, <2>2, FS_AddElement
    <2>4. QED BY <2>1, <2>3
<1>6. CASE Db[c]["AICS1"] = <<>>
    <2>1. A = {} BY <1>1, <1>6 DEF Aics
    <2>2. NumAics(c) = 0 BY <1>2, <1>3, <2>1
    <2>3. QED BY <1>1, <1>6, <2>2
<1>7. CASE Db[c]["AICS1"] # <<>> /\ Db[c]["AICS2"] = <<>>
    <2>1. A = {"AICS1"} BY <1>7 DEF Aics
    <2>2. NumAics(c) = 1 BY <1>2, <1>4, <2>1
    <2>3. QED BY <1>1, <1>7, <2>2
<1>8. CASE Db[c]["AICS1"] # <<>> /\ Db[c]["AICS2"] # <<>>
    <2>1. A = {"AICS1", "AICS2"} BY <1>8 DEF Aics
    <2>2. NumAics(c) = 2 BY <1>2, <1>5, <2>1
    <2>3. QED BY <1>1, <1>8, <2>2
<1>9. QED BY <1>6, <1>7, <1>8

\* The results of a discovery command.
LEMMA ResultsShape ==
    ASSUME NEW c \in Conns, NEW v \in Services, NEW st, st \in Phases
    PROVE  LET R == Results(c, v, st)
               L == Len(Db[c][v])
           IN  /\ R \in Seq(Elements)
               /\ st = "SERVICE" => Len(R) = (IF Db[c][v] = <<>> THEN 0 ELSE 1)
               /\ st = "INCLUDE" => Len(R) = NumAics(c)
               /\ st = "CHARS" => Len(R) = L /\ \A j \in 1..L : R[j] = j
               /\ st = "DESCR" =>
                     /\ Len(R) = 2 * L
                     /\ \A j \in 1..(2 * L) : R[j] = [decl |-> j % 2 = 1, h |-> (j + 1) \div 2]
<1> DEFINE R == Results(c, v, st)
           L == Len(Db[c][v])
<1>1. L \in Nat /\ DOMAIN Db[c][v] = 1..L BY DbShape
<1>2. NumAics(c) \in 0..2 BY AicsCounted
<1>3. CASE st = "SERVICE"
    <2>1. R = IF Db[c][v] = <<>> THEN <<>> ELSE <<"RANGE">> BY <1>3 DEF Results
    <2>2. <<>> \in Seq(Elements) OBVIOUS
    <2>3. <<"RANGE">> \in Seq(Elements) BY DEF Elements
    <2>4. QED BY <1>3, <2>1, <2>2, <2>3
<1>4. CASE st = "INCLUDE"
    <2> DEFINE N == NumAics(c)
    <2>1. R = [i \in 1..N |-> "AICS"] BY <1>4 DEF Results
    <2>2. N \in Nat /\ "AICS" \in Elements BY <1>2 DEF Elements
    <2> HIDE DEF N, R
    <2>3. R \in Seq(Elements) /\ Len(R) = N BY <2>1, <2>2
    <2>4. QED BY <1>4, <2>3 DEF R, N
<1>5. CASE st = "CHARS"
    <2>1. R = [i \in 1..L |-> i] BY <1>1, <1>5 DEF Results
    <2>2. \A i \in 1..L : i \in Elements BY <1>1 DEF Elements
    <2> HIDE DEF L, R
    <2>3. R \in Seq(Elements) /\ Len(R) = L BY <1>1, <2>1, <2>2
    <2>4. \A j \in 1..L : R[j] = j BY <2>1
    <2>5. QED BY <1>5, <2>3, <2>4 DEF R, L
<1>6. CASE st = "DESCR"
    <2> DEFINE M == 2 * L
               E(j) == [decl |-> j % 2 = 1, h |-> (j + 1) \div 2]
    <2>1. R = [j \in 1..M |-> E(j)] BY <1>6 DEF Results
    <2>2. ASSUME NEW j \in 1..M PROVE E(j) \in Elements
        <3>1. (j % 2 = 1) \in BOOLEAN /\ (j + 1) \div 2 \in Nat BY <1>1
        <3>2. QED BY <3>1 DEF Elements
    <2>3. M \in Nat BY <1>1
    <2> HIDE DEF M, R, E
    <2>4. R \in Seq(Elements) /\ Len(R) = M BY <2>1, <2>2, <2>3
    <2>5. \A j \in 1..M : R[j] = E(j) BY <2>1
    <2>6. QED BY <1>6, <2>4, <2>5 DEF R, M, E
<1>7. QED BY <1>3, <1>4, <1>5, <1>6 DEF Phases

\* Queue p is queue q with r at its end; queue p is queue q without its head.
Longer(p, q, r) ==
    /\ q \in Seq(Requests) /\ p \in Seq(Requests) /\ r \in Requests
    /\ Len(p) = Len(q) + 1 /\ p[Len(q) + 1] = r
    /\ \A i \in 1..Len(q) : p[i] = q[i]
Shorter(p, q) ==
    /\ q \in Seq(Requests) /\ p \in Seq(Requests) /\ q[1] \in Requests
    /\ Len(q) = Len(p) + 1
    /\ \A i \in 1..Len(p) : p[i] = q[i + 1]

\* What Append and Tail do to a queue.
LEMMA QueueOps ==
    ASSUME NEW q, q \in Seq(Requests)
    PROVE  /\ \A r \in Requests : Longer(Append(q, r), q, r)
           /\ q # <<>> => Shorter(Tail(q), q)
<1>1. ASSUME NEW r \in Requests PROVE Longer(Append(q, r), q, r) BY DEF Longer
<1>2. ASSUME q # <<>> PROVE Shorter(Tail(q), q)
    <2> DEFINE p == Tail(q)
    <2>1. p \in Seq(Requests) /\ Len(q) = Len(p) + 1 /\ q[1] \in Requests BY <1>2
    <2>2. \A i \in 1..Len(p) : p[i] = q[i + 1] BY <1>2
    <2>3. QED BY <2>1, <2>2 DEF Shorter
<1>3. QED BY <1>1, <1>2

\* The requests of a type in a queue with one more.
LEMMA QueuedMore ==
    ASSUME NEW p, NEW q, NEW r, Longer(p, q, r), NEW t
    PROVE  /\ IsFiniteSet(Queued(q, t)) /\ Cardinality(Queued(q, t)) \in Nat
           /\ \A i \in Queued(q, t) : p[i] = q[i]
           /\ r.t # t => Queued(p, t) = Queued(q, t)
           /\ r.t = t => /\ Queued(p, t) = Queued(q, t) \cup {Len(q) + 1}
                         /\ Cardinality(Queued(p, t)) = Cardinality(Queued(q, t)) + 1
                         /\ p[Len(q) + 1] = r
<1> DEFINE n == Len(q)
<1>1. n \in Nat /\ Len(p) = n + 1 BY DEF Longer
<1>2. (\A i \in 1..n : p[i] = q[i]) /\ p[n + 1] = r BY DEF Longer
<1>3. IsFiniteSet(Queued(q, t)) /\ Cardinality(Queued(q, t)) \in Nat
    <2>1. IsFiniteSet(1..n) BY <1>1, FS_Interval
    <2>2. Queued(q, t) \in SUBSET (1..n) BY DEF Queued
    <2>3. QED BY <2>1, <2>2, FS_Subset, FS_CardinalityType
<1> HIDE DEF n
<1>4. Queued(q, t) = {i \in 1..n : q[i].t = t} BY DEF Queued, n
<1>5. Queued(p, t) = {i \in 1..(n + 1) : p[i].t = t} BY <1>1 DEF Queued
<1>6. r.t # t => Queued(p, t) = Queued(q, t) BY <1>1, <1>2, <1>4, <1>5
<1>7. r.t = t => Queued(p, t) = Queued(q, t) \cup {n + 1} BY <1>1, <1>2, <1>4, <1>5
<1>8. n + 1 \notin Queued(q, t) BY <1>1, <1>4
<1>9. r.t = t => Cardinality(Queued(p, t)) = Cardinality(Queued(q, t)) + 1
    BY <1>3, <1>7, <1>8, FS_AddElement
<1>10. \A i \in Queued(q, t) : p[i] = q[i] BY <1>2, <1>4
<1>11. QED BY <1>2, <1>3, <1>6, <1>7, <1>9, <1>10 DEF n

\* The requests of a type in a queue without its head.
LEMMA QueuedLess ==
    ASSUME NEW p, NEW q, Shorter(p, q), NEW t
    PROVE  /\ \A i \in Queued(p, t) : i + 1 \in Queued(q, t) /\ p[i] = q[i + 1] /\ i \in Nat
           /\ \A i \in Queued(q, t) : i # 1 => i - 1 \in Queued(p, t) /\ p[i - 1] = q[i]
           /\ IsFiniteSet(Queued(q, t)) /\ Cardinality(Queued(q, t)) \in Nat
           /\ q[1].t # t => Cardinality(Queued(p, t)) = Cardinality(Queued(q, t))
           /\ q[1].t = t => Cardinality(Queued(p, t)) = Cardinality(Queued(q, t)) - 1
           /\ q[1].t = t <=> 1 \in Queued(q, t)
<1> DEFINE n == Len(p)
           Q == Queued(q, t)
           P == Queued(p, t)
           f == [i \in P |-> i + 1]
<1>1. n \in Nat /\ Len(q) = n + 1 BY DEF Shorter
<1>2. \A i \in 1..n : p[i] = q[i + 1] BY DEF Shorter
<1> HIDE DEF n
<1>3. Q = {i \in 1..(n + 1) : q[i].t = t} BY <1>1 DEF Queued
<1>4. P = {i \in 1..n : p[i].t = t} BY DEF Queued, n
<1> HIDE DEF Q, P
<1>5. ASSUME NEW i \in P PROVE i + 1 \in Q /\ p[i] = q[i + 1] /\ i \in Nat /\ i + 1 # 1
    <2>1. i \in 1..n /\ p[i].t = t BY <1>4
    <2>2. i + 1 \in 1..(n + 1) /\ p[i] = q[i + 1] BY <1>1, <1>2, <2>1
    <2>3. QED BY <1>1, <1>3, <2>1, <2>2
<1>6. ASSUME NEW i \in Q, i # 1 PROVE i - 1 \in P /\ p[i - 1] = q[i] /\ i \in Nat
    <2> DEFINE k == i - 1
    <2>1. i \in 1..(n + 1) /\ q[i].t = t BY <1>3
    <2>2. k \in 1..n /\ k + 1 = i BY <1>1, <1>6, <2>1
    <2> HIDE DEF k
    <2>3. p[k] = q[i] BY <1>2, <2>2
    <2>4. k \in P BY <1>4, <2>1, <2>2, <2>3
    <2>5. QED BY <2>1, <2>3, <2>4 DEF k
<1>7. IsFiniteSet(P) /\ IsFiniteSet(Q) /\ Cardinality(P) \in Nat /\ Cardinality(Q) \in Nat
    <2>1. IsFiniteSet(1..n) /\ IsFiniteSet(1..(n + 1)) BY <1>1, FS_Interval
    <2>2. P \in SUBSET (1..n) /\ Q \in SUBSET (1..(n + 1)) BY <1>3, <1>4
    <2>3. QED BY <2>1, <2>2, FS_Subset, FS_CardinalityType
<1>8. f \in Bijection(P, Q \ {1})
    <2>1. f \in [P -> Q \ {1}]
        <3>1. \A i \in P : i + 1 \in Q \ {1} BY <1>5
        <3>2. QED BY <3>1
    <2>2. \A i, k \in P : f[i] = f[k] => i = k BY <1>5
    <2>3. \A y \in Q \ {1} : \E i \in P : f[i] = y
        <3> TAKE y \in Q \ {1}
        <3>1. y - 1 \in P /\ y \in Nat BY <1>6
        <3>2. f[y - 1] = y BY <3>1
        <3>3. QED BY <3>1, <3>2
    <2> HIDE DEF f
    <2>4. QED BY <2>1, <2>2, <2>3 DEF Bijection, Injection, Surjection, IsInjective
<1>9. Cardinality(Q \ {1}) = Cardinality(P)
    <2>1. ExistsBijection(P, Q \ {1}) BY <1>8 DEF ExistsBijection
    <2>2. QED BY <1>7, <2>1, FS_Bijection
<1>10. Cardinality(Q \ {1}) = IF 1 \in Q THEN Cardinality(Q) - 1 ELSE Cardinality(Q)
    BY <1>7, FS_RemoveElement
<1>11. 1 \in Q <=> q[1].t = t BY <1>1, <1>3
<1>12. /\ q[1].t # t => Cardinality(P) = Cardinality(Q)
       /\ q[1].t = t => Cardinality(P) = Cardinality(Q) - 1
    BY <1>9, <1>10, <1>11
<1>13. QED BY <1>5, <1>6, <1>7, <1>11, <1>12 DEF P, Q

\* The first request of a type in a queue is the only one.
LEMMA QueuedOnly ==
    ASSUME NEW p, NEW q, NEW r, Longer(p, q, r), NEW t, r.t = t, Queued(q, t) = {}
    PROVE  \E k : Queued(p, t) = {k} /\ p[k] = r
<1> DEFINE n == Len(q)
           k == n + 1
<1>1. n \in Nat /\ Len(p) = n + 1 BY DEF Longer
<1>2. (\A i \in 1..n : p[i] = q[i]) /\ p[k] = r BY DEF Longer
<1>3. \A i \in 1..n : q[i].t # t BY DEF Queued
<1> HIDE DEF n
<1>4. \A i \in 1..Len(p) : i = k \/ i \in 1..n BY <1>1
<1>5. k \in 1..Len(p) BY <1>1
<1> HIDE DEF k
<1>6. Queued(p, t) = {k} BY <1>2, <1>3, <1>4, <1>5 DEF Queued
<1>7. QED BY <1>2, <1>6

\* Finitely many requests are under way.
LEMMA QueuedFinite ==
    ASSUME NEW q, q \in Seq(Requests), NEW t
    PROVE  IsFiniteSet(Queued(q, t)) /\ Cardinality(Queued(q, t)) \in Nat
<1> DEFINE n == Len(q)
<1>1. n \in Nat OBVIOUS
<1>2. Queued(q, t) \in SUBSET (1..n) BY DEF Queued
<1> HIDE DEF n
<1>3. IsFiniteSet(1..n) BY <1>1, FS_Interval
<1>4. QED BY <1>2, <1>3, FS_Subset, FS_CardinalityType

-----------------------------------------------------------------------------
(* Lists.                                                                   *)

\* The places of a list are slots of services, and finitely many.
LEMMA PlacesShape ==
    ASSUME NEW kind \in {"READ", "CCCD"}, NEW types
    PROVE  LET P == Places(Order(kind), types)
           IN  /\ IsFiniteSet(P) /\ P \subseteq (1..8) \X Nat
               /\ \A p \in P : /\ p[1] \in 1..8 /\ p[2] \in Nat
                               /\ Order(kind)[p[1]] \in Services
                               /\ p[2] \in DOMAIN Slots[Order(kind)[p[1]]]
<1> DEFINE order == Order(kind)
           P == Places(order, types)
           F(k) == {k} \X DOMAIN Slots[order[k]]
<1>1. \A k \in 1..8 : order[k] \in Services
    BY DEF Order, ReadOrder, NotifyOrder, Services, Primary, Aics
<1> HIDE DEF order
<1>2. \A k \in 1..8 : DOMAIN Slots[order[k]] = 1..Len(Slots[order[k]]) /\ Len(Slots[order[k]]) \in Nat
    <2> TAKE k \in 1..8
    <2>1. Slots[order[k]] \in Seq(STRING) BY <1>1, DbAssumption
    <2>2. QED BY <2>1
<1>3. ASSUME NEW k \in 1..8 PROVE IsFiniteSet(F(k))
    <2>1. IsFiniteSet({k}) BY FS_Singleton
    <2>2. IsFiniteSet(DOMAIN Slots[order[k]])
        <3> DEFINE n == Len(Slots[order[k]])
        <3>1. DOMAIN Slots[order[k]] = 1..n /\ n \in Nat BY <1>2
        <3> HIDE DEF n
        <3>2. IsFiniteSet(1..n) BY <3>1, FS_Interval
        <3>3. QED BY <3>1, <3>2
    <2>3. QED BY <2>1, <2>2, FS_Product
<1>4. \A p \in P : p[1] \in 1..8 /\ p[2] \in DOMAIN Slots[order[p[1]]] /\ p \in F(p[1])
    BY DEF Places
<1> DEFINE U2 == F(1) \cup F(2)
           U3 == U2 \cup F(3)
           U4 == U3 \cup F(4)
           U5 == U4 \cup F(5)
           U6 == U5 \cup F(6)
           U7 == U6 \cup F(7)
           U8 == U7 \cup F(8)
<1>5. P \subseteq U8
    <2> SUFFICES ASSUME NEW p \in P PROVE p \in U8 OBVIOUS
    <2>1. p[1] \in 1..8 /\ p \in F(p[1]) BY <1>4
    <2>2. p[1] \in {1, 2, 3, 4, 5, 6, 7, 8} BY <2>1
    <2> HIDE DEF F, P
    <2>3. QED BY <2>1, <2>2
<1>6. IsFiniteSet(U8)
    <2>1. 1 \in 1..8 /\ 2 \in 1..8 /\ 3 \in 1..8 /\ 4 \in 1..8 /\ 5 \in 1..8
          /\ 6 \in 1..8 /\ 7 \in 1..8 /\ 8 \in 1..8 OBVIOUS
    <2>2. /\ IsFiniteSet(F(1)) /\ IsFiniteSet(F(2)) /\ IsFiniteSet(F(3)) /\ IsFiniteSet(F(4))
          /\ IsFiniteSet(F(5)) /\ IsFiniteSet(F(6)) /\ IsFiniteSet(F(7)) /\ IsFiniteSet(F(8))
        BY <1>3, <2>1
    <2> HIDE DEF F
    <2>3. IsFiniteSet(U2) BY <2>2, FS_Union
    <2>4. IsFiniteSet(U3) BY <2>2, <2>3, FS_Union
    <2>5. IsFiniteSet(U4) BY <2>2, <2>4, FS_Union
    <2>6. IsFiniteSet(U5) BY <2>2, <2>5, FS_Union
    <2>7. IsFiniteSet(U6) BY <2>2, <2>6, FS_Union
    <2>8. IsFiniteSet(U7) BY <2>2, <2>7, FS_Union
    <2>9. QED BY <2>2, <2>8, FS_Union
<1>7. IsFiniteSet(P) BY <1>5, <1>6, FS_Subset
<1>8. \A p \in P : p[2] \in Nat /\ p \in (1..8) \X Nat
    <2> SUFFICES ASSUME NEW p \in P PROVE p[2] \in Nat /\ p \in (1..8) \X Nat OBVIOUS
    <2>1. p[1] \in 1..8 /\ p[2] \in DOMAIN Slots[order[p[1]]] /\ p \in F(p[1]) BY <1>4
    <2>2. p[2] \in Nat BY <1>2, <2>1, SMTT(30)
    <2>3. p = <<p[1], p[2]>> BY <2>1
    <2>4. QED BY <2>1, <2>2, <2>3
<1>9. QED BY <1>1, <1>4, <1>7, <1>8 DEF order

\* A wanted characteristic has a handle.
LEMMA WantedShape ==
    ASSUME NEW kind \in {"READ", "CCCD"}, NEW f, f \in Profiles
    PROVE  /\ IsFiniteSet(Wanted(kind, f)) /\ Wanted(kind, f) \subseteq (1..8) \X Nat
           /\ \A p \in Wanted(kind, f) :
                 /\ p[1] \in 1..8 /\ p[2] \in Nat /\ Order(kind)[p[1]] \in Services
                 /\ Handle(kind, f, p) \in Nat
                 /\ Request(kind, Order(kind)[p[1]], Handle(kind, f, p)) \in Requests
<1> DEFINE types == IF kind = "READ" THEN ReadTypes ELSE NotifyTypes
           P == Places(Order(kind), types)
           W == Wanted(kind, f)
<1>1. /\ IsFiniteSet(P) /\ P \subseteq (1..8) \X Nat
      /\ \A p \in P : p[1] \in 1..8 /\ p[2] \in Nat /\ Order(kind)[p[1]] \in Services
    <2> HIDE DEF types
    <2> QED BY PlacesShape
<1>2. W \in SUBSET P /\ \A p \in W : p[2] \in DOMAIN f[Order(kind)[p[1]]] BY DEF Wanted
<1> HIDE DEF P, W
<1>3. IsFiniteSet(W) BY <1>1, <1>2, FS_Subset
<1>4. ASSUME NEW p \in W
      PROVE  Handle(kind, f, p) \in Nat
             /\ Request(kind, Order(kind)[p[1]], Handle(kind, f, p)) \in Requests
    <2> DEFINE v == Order(kind)[p[1]]
               x == f[v][p[2]]
    <2>1. v \in Services /\ p[2] \in DOMAIN f[v] BY <1>1, <1>2
    <2> HIDE DEF v
    <2>2. f[v] = <<>> \/ f[v] \in Handles(v) BY <2>1 DEF Profiles
    <2>3. DOMAIN <<>> = {} OBVIOUS
    <2>4. f[v] \in Handles(v) BY <2>1, <2>2, <2>3
    <2>5. x \in [h : Nat, d : Nat] BY <2>1, <2>4 DEF Handles
    <2>6. Handle(kind, f, p) = IF kind = "READ" THEN x.h ELSE x.d BY DEF Handle, v
    <2> HIDE DEF x
    <2>7. Handle(kind, f, p) \in Nat BY <2>5, <2>6
    <2> DEFINE h == Handle(kind, f, p)
    <2> HIDE DEF h
    <2>8. h \in Nat BY <2>7 DEF h
    <2>9. v \in Names BY <2>1 DEF Names
    <2>10. << >> \in Seq(Elements) OBVIOUS
    <2>11. "IDLE" \in DiscoveryStates /\ kind \in Tags BY DEF DiscoveryStates, Tags
    <2>12. Request(kind, v, h) \in Requests BY <2>8, <2>9, <2>10, <2>11 DEF Request, Requests
    <2>13. QED BY <2>7, <2>12 DEF h, v
<1>5. QED BY <1>1, <1>2, <1>3, <1>4 DEF W

\* The first place of what is still to do is one of them.
LEMMA FirstPlaceIn ==
    ASSUME NEW todo, todo \subseteq (1..8) \X Nat, todo # {}
    PROVE  FirstPlace(todo) \in todo
<1> DEFINE A == {p[1] : p \in todo}
<1>1. A \in SUBSET Nat /\ A # {} OBVIOUS
<1>2. PICK a \in A : \A b \in A : a <= b BY <1>1, Least
<1> DEFINE B == {p[2] : p \in {q \in todo : q[1] = a}}
<1>3. B \in SUBSET Nat /\ B # {} BY <1>2
<1>4. PICK i \in B : \A b \in B : i <= b BY <1>3, Least
<1>5. PICK p \in todo : p[1] = a /\ p[2] = i BY <1>4
<1>6. ASSUME NEW q \in todo PROVE p[1] < q[1] \/ (p[1] = q[1] /\ p[2] <= q[2])
    <2>1. a <= q[1] /\ a \in Nat /\ q[1] \in Nat BY <1>1, <1>2
    <2>2. CASE q[1] = a
        <3>1. q[2] \in B BY <2>2
        <3>2. i <= q[2] BY <1>4, <3>1
        <3>3. QED BY <1>5, <2>2, <3>2
    <2>3. CASE q[1] # a
        BY <1>5, <2>1, <2>3
    <2>4. QED BY <2>2, <2>3
<1>7. QED BY <1>6 DEF FirstPlace

\* A new list: everything wanted is to do, and has a place.
LEMMA NewList ==
    ASSUME NEW s, s \in Clcb
    PROVE  /\ LET op == AllocList("READ", s, ReadOrder, ReadTypes, "h")
              IN  /\ op \in Lists /\ op.kind = "READ" /\ op.todo = Wanted("READ", s.prof)
                  /\ op.index = 0 /\ op.ops = 0 /\ op.cap \in Byte
                  /\ Cardinality(op.todo) <= op.cap
           /\ LET op == AllocList("CCCD", s, NotifyOrder, NotifyTypes, "d")
              IN  /\ op \in Lists /\ op.kind = "CCCD" /\ op.todo = Wanted("CCCD", s.prof)
                  /\ op.index = 0 /\ op.ops = 0 /\ Cardinality(op.todo) <= op.cap
<1> DEFINE f == s.prof
<1>1. f \in Profiles BY DEF Clcb
<1>2. ASSUME NEW kind \in {"READ", "CCCD"}, NEW P,
             P = Places(Order(kind), IF kind = "READ" THEN ReadTypes ELSE NotifyTypes),
             NEW op, op = [kind |-> kind, cap |-> Cardinality(P), index |-> 0, ops |-> 0,
                           todo |-> Wanted(kind, f)]
      PROVE  op \in Lists /\ Cardinality(op.todo) <= op.cap
    <2>1. IsFiniteSet(P) /\ Wanted(kind, f) \in SUBSET P /\ P \subseteq (1..8) \X Nat
        <3> DEFINE types == IF kind = "READ" THEN ReadTypes ELSE NotifyTypes
        <3>1. Wanted(kind, f) \subseteq P BY <1>2 DEF Wanted
        <3>2. P = Places(Order(kind), types) BY <1>2
        <3> HIDE DEF types
        <3>3. IsFiniteSet(P) /\ P \subseteq (1..8) \X Nat BY <3>2, PlacesShape
        <3>4. QED BY <3>1, <3>3
    <2>2. Cardinality(P) \in Nat /\ Cardinality(Wanted(kind, f)) <= Cardinality(P)
        BY <2>1, FS_Subset, FS_CardinalityType
    <2>3. Wanted(kind, f) \in SUBSET ((1..8) \X Nat) BY <2>1
    <2> DEFINE n == Cardinality(P)
               w == Wanted(kind, f)
               All == SUBSET ((1..8) \X Nat)
    <2>4. op = [kind |-> kind, cap |-> n, index |-> 0, ops |-> 0, todo |-> w] BY <1>2
    <2>5. n \in Nat /\ w \in All /\ 0 \in Byte BY <2>2, <2>3 DEF Byte
    <2>6. Lists = [kind : {"READ", "CCCD"}, cap : Nat, index : Nat, ops : Byte, todo : All]
        BY DEF Lists
    <2> HIDE DEF n, w, All
    <2>7. op \in Lists /\ op.todo = w /\ op.cap = n BY <2>4, <2>5, <2>6
    <2>8. QED BY <2>2, <2>7 DEF n, w
<1>3. /\ Order("READ") = ReadOrder /\ Order("CCCD") = NotifyOrder
      /\ (IF "READ" = "READ" THEN ReadTypes ELSE NotifyTypes) = ReadTypes
      /\ (IF "CCCD" = "READ" THEN ReadTypes ELSE NotifyTypes) = NotifyTypes
    BY DEF Order
<1>4. Wanted("READ", f) = {p \in Places(ReadOrder, ReadTypes) :
                             p[2] \in DOMAIN f[ReadOrder[p[1]]] /\ f[ReadOrder[p[1]]][p[2]].h # 0}
    BY <1>3 DEF Wanted, Handle
<1>5. Wanted("CCCD", f) = {p \in Places(NotifyOrder, NotifyTypes) :
                             p[2] \in DOMAIN f[NotifyOrder[p[1]]] /\ f[NotifyOrder[p[1]]][p[2]].d # 0}
    BY <1>3 DEF Wanted, Handle
<1> DEFINE op1 == AllocList("READ", s, ReadOrder, ReadTypes, "h")
           op2 == AllocList("CCCD", s, NotifyOrder, NotifyTypes, "d")
<1>6. op1 = [kind |-> "READ", cap |-> Cardinality(Places(ReadOrder, ReadTypes)), index |-> 0,
             ops |-> 0, todo |-> Wanted("READ", f)]
    BY <1>4 DEF AllocList
<1>7. op2 = [kind |-> "CCCD", cap |-> Cardinality(Places(NotifyOrder, NotifyTypes)), index |-> 0,
             ops |-> 0, todo |-> Wanted("CCCD", f)]
    BY <1>5 DEF AllocList
<1> HIDE DEF op1, op2, f
<1>8. op1 \in Lists /\ Cardinality(op1.todo) <= op1.cap
    <2> DEFINE kk == "READ"
    <2>1. kk \in {"READ", "CCCD"} OBVIOUS
    <2>2. Places(ReadOrder, ReadTypes)
             = Places(Order(kk), IF kk = "READ" THEN ReadTypes ELSE NotifyTypes) BY <1>3
    <2>3. op1 = [kind |-> kk, cap |-> Cardinality(Places(ReadOrder, ReadTypes)), index |-> 0,
                 ops |-> 0, todo |-> Wanted(kk, f)] BY <1>6
    <2> HIDE DEF kk
    <2>4. QED BY <1>2, <2>1, <2>2, <2>3
<1>9. op2 \in Lists /\ Cardinality(op2.todo) <= op2.cap
    <2> DEFINE kk == "CCCD"
    <2>1. kk \in {"READ", "CCCD"} OBVIOUS
    <2>2. Places(NotifyOrder, NotifyTypes)
             = Places(Order(kk), IF kk = "READ" THEN ReadTypes ELSE NotifyTypes) BY <1>3
    <2>3. op2 = [kind |-> kk, cap |-> Cardinality(Places(NotifyOrder, NotifyTypes)), index |-> 0,
                 ops |-> 0, todo |-> Wanted(kk, f)] BY <1>7
    <2> HIDE DEF kk
    <2>4. QED BY <1>2, <2>1, <2>2, <2>3
<1>10. op1.cap \in Byte BY <1>6, PlacesAssumption
<1>11. QED BY <1>6, <1>7, <1>8, <1>9, <1>10 DEF op1, op2, f

\* One step of a list.
LEMMA AdvanceShape ==
    ASSUME NEW op, op \in Lists, op.todo # {}, IsFiniteSet(op.todo)
    PROVE  LET q == Advance(op)
           IN  /\ q \in Lists /\ q.kind = op.kind /\ q.cap = op.cap
               /\ q.index = op.index + 1 /\ q.ops = (op.ops + 1) % 256
               /\ q.todo = op.todo \ {FirstPlace(op.todo)} /\ IsFiniteSet(q.todo)
               /\ Cardinality(q.todo) = Cardinality(op.todo) - 1
               /\ Cardinality(op.todo) \in Nat /\ Cardinality(q.todo) \in Nat
               /\ FirstPlace(op.todo) \in op.todo
<1> DEFINE q == Advance(op)
           p == FirstPlace(op.todo)
           All == SUBSET ((1..8) \X Nat)
           rest == op.todo \ {p}
<1>1. op.todo \in All BY DEF Lists
<1>2. p \in op.todo BY <1>1, FirstPlaceIn
<1>3. rest \in All BY <1>1
<1>4. IsFiniteSet(rest) /\ Cardinality(rest) = Cardinality(op.todo) - 1
    BY <1>2, FS_RemoveElement
<1>5. Cardinality(op.todo) \in Nat /\ Cardinality(rest) \in Nat BY <1>4, FS_CardinalityType
<1>6. q = [op EXCEPT !.todo = rest, !.index = op.index + 1, !.ops = (op.ops + 1) % 256]
    BY DEF Advance, Lists
<1>7. op.index + 1 \in Nat /\ (op.ops + 1) % 256 \in Byte BY DEF Lists, Byte
<1>8. Lists = [kind : {"READ", "CCCD"}, cap : Nat, index : Nat, ops : Byte, todo : All]
    BY DEF Lists
<1> DEFINE m == (op.ops + 1) % 256
           k == op.index + 1
<1> HIDE DEF q, p, All, rest, m, k
<1>9. q = [op EXCEPT !.todo = rest, !.index = k, !.ops = m] /\ k \in Nat /\ m \in Byte
    BY <1>6, <1>7 DEF m, k
<1>10. /\ q \in Lists /\ q.kind = op.kind /\ q.cap = op.cap /\ q.index = k /\ q.ops = m
       /\ q.todo = rest
    BY <1>3, <1>8, <1>9
<1>11. QED BY <1>2, <1>4, <1>5, <1>10 DEF q, p, rest, m, k

-----------------------------------------------------------------------------
(* Requests and lists of one control block.                                 *)

\* The fields that a request leaves alone.
Keeps(s, q) ==
    /\ q.up = s.up /\ q.enc = s.enc /\ q.mtu = s.mtu /\ q.disc = s.disc
    /\ q.enabled = s.enabled /\ q.ready = s.ready /\ q.hash = s.hash
    /\ q.prof = s.prof /\ q.aics = s.aics /\ q.answered = s.answered
    /\ q.refuse => s.refuse

\* A request is queued and noted, or refused.
LEMMA SendShape ==
    ASSUME NEW s, s \in Clcb, NEW r, r \in Requests
    PROVE  LET q == Send(s, r)
           IN  /\ q \in Clcb /\ Keeps(s, q) /\ q.ctx = s.ctx /\ q.op = s.op
               /\ q.ok => /\ Longer(q.req, s.req, r) /\ s.asked \subseteq q.asked
                          /\ r.t \in {"CCCD", "READ"} => Triple(r) \in q.asked
               /\ ~q.ok => q.req = s.req /\ q.asked = s.asked /\ r.t \in Refusable
<1> DEFINE q == Send(s, r)
           more == Append(s.req, r)
           asked == IF r.t \in {"CCCD", "READ"} THEN s.asked \cup {<<r.t, r.svc, r.h>>} ELSE s.asked
<1>1. more \in Seq(Requests) /\ Longer(more, s.req, r)
    <2>1. s.req \in Seq(Requests) BY DEF Clcb
    <2>2. Longer(more, s.req, r) BY <2>1, QueueOps
    <2>3. QED BY <2>2 DEF Longer
<1>2. asked \in SUBSET Triples
    <2>1. s.asked \in SUBSET Triples BY DEF Clcb
    <2>2. <<r.t, r.svc, r.h>> \in Triples BY DEF Triples, Requests
    <2>3. QED BY <2>1, <2>2
<1>3. s.asked \subseteq asked /\ (r.t \in {"CCCD", "READ"} => Triple(r) \in asked) BY DEF Triple
<1>4. CASE s.refuse /\ r.t \in Refusable
    <2>1. q = [s EXCEPT !.refuse = FALSE, !.ok = FALSE] BY <1>4 DEF Send
    <2> HIDE DEF q
    <2>2. /\ q \in Clcb /\ q.ctx = s.ctx /\ q.op = s.op /\ ~q.ok /\ q.req = s.req /\ q.asked = s.asked
          /\ Keeps(s, q)
        BY <2>1, <1>4 DEF Clcb, Keeps
    <2>3. QED BY <1>4, <2>2 DEF q
<1>5. CASE ~(s.refuse /\ r.t \in Refusable)
    <2>1. q = [s EXCEPT !.ok = TRUE, !.req = more, !.asked = asked] BY <1>5 DEF Send, Clcb
    <2> HIDE DEF q, more, asked
    <2>2. /\ q \in Clcb /\ q.ctx = s.ctx /\ q.op = s.op /\ q.ok /\ q.req = more /\ q.asked = asked
          /\ Keeps(s, q)
        BY <1>1, <1>2, <2>1 DEF Clcb, Keeps
    <2>3. QED BY <1>1, <1>3, <2>2 DEF q
<1>6. QED BY <1>4, <1>5

\* Another list in a control block.
LEMMA OpReplaced ==
    ASSUME NEW s, s \in Clcb, NEW op, op \in {NoOp} \cup Lists
    PROVE  LET q == [s EXCEPT !.op = op]
           IN  /\ q \in Clcb /\ Keeps(s, q) /\ q.ctx = s.ctx /\ q.op = op
               /\ q.req = s.req /\ q.asked = s.asked /\ q.ok = s.ok
    BY DEF Clcb, Keeps

\* A request that is no discovery command and no read leaves the queue's
\* discovery commands and reads alone.
LEMMA AskingKept ==
    ASSUME NEW c \in Conns, NEW s, s \in Clcb, NEW q, q \in Clcb, NEW r, r \in Requests,
           Asking(c, s), q.ctx = s.ctx, Longer(q.req, s.req, r), r.t # "DISCOVER"
    PROVE  Asking(c, q)
<1>1. Queued(q.req, "DISCOVER") = Queued(s.req, "DISCOVER") BY QueuedMore
<1>2. \A i \in Queued(s.req, "DISCOVER") : q.req[i] = s.req[i] BY QueuedMore
<1>3. QED BY <1>1, <1>2 DEF Asking

\* A list is no list of the other kind, and not none.
LEMMA ListKinds ==
    ASSUME NEW op, op \in Lists
    PROVE  op # NoOp /\ op.kind \in {"READ", "CCCD"} /\ op.cap \in Nat /\ op.index \in Nat
           /\ op.ops \in 0..255
<1>1. op.kind \in {"READ", "CCCD"} /\ op.cap \in Nat /\ op.index \in Nat /\ op.ops \in 0..255
    BY DEF Lists, Byte
<1>2. NoOp.kind = "NONE" BY DEF NoOp
<1>3. QED BY <1>1, <1>2

\* A list at its end has nothing to do.
LEMMA AtEnd ==
    ASSUME NEW s, s \in Clcb, Listed(s), s.op # NoOp, s.op.index = s.op.cap
    PROVE  s.op.todo = {}
<1> DEFINE n == Cardinality(s.op.todo)
<1>1. s.op \in Lists BY DEF Clcb
<1>2. s.op.cap \in Nat BY <1>1, ListKinds
<1>3. IsFiniteSet(s.op.todo) /\ s.op.index + n <= s.op.cap BY DEF Listed
<1>4. n \in Nat BY <1>3, FS_CardinalityType
<1> HIDE DEF n
<1>5. n = 0 BY <1>2, <1>3, <1>4
<1>6. QED BY <1>3, <1>5, FS_EmptySet DEF n

\* gatt_intf_internal_read_char_list.
LEMMA ReadNextGood ==
    ASSUME NEW c \in Conns, NEW s, Good(c, s), s.op # NoOp, s.op.kind = "READ"
    PROVE  LET q == ReadNext(s)
           IN  Good(c, q) /\ q.op # NoOp /\ q.op.kind = "READ" /\ (q.refuse => s.refuse)
<1> DEFINE q == ReadNext(s)
<1>1. s \in Clcb /\ s.prof \in Profiles /\ s.req \in Seq(Requests) BY DEF Good, Clcb
<1>2. s.op \in Lists BY DEF Good, Clcb
<1>3. /\ s.op.todo \subseteq Wanted("READ", s.prof) /\ IsFiniteSet(s.op.todo)
      /\ s.op.index + Cardinality(s.op.todo) <= s.op.cap /\ s.op.cap \in Byte
    BY DEF Good, Listed
<1>4. s.enabled /\ ~s.ready /\ s.ctx = NoCtx /\ s.enc /\ (s.disc \/ s.hash) BY DEF Good, Phased
<1>5. CASE s.op.todo = {}
    <2> DEFINE op == [s.op EXCEPT !.index = s.op.cap]
               u == [s EXCEPT !.op = op]
    <2>1. q = [u EXCEPT !.ok = TRUE] BY <1>1, <1>5 DEF ReadNext, Clcb
    <2>2. /\ op \in Lists /\ op.kind = "READ" /\ op.cap = s.op.cap /\ op.index = s.op.cap
          /\ op.ops = s.op.ops /\ op.todo = {}
        BY <1>2, <1>5 DEF Lists
    <2> HIDE DEF op, u, q
    <2>3. u \in Clcb /\ Keeps(s, u) /\ u.ctx = s.ctx /\ u.op = op /\ u.req = s.req /\ u.asked = s.asked
        BY <1>1, <2>2, OpReplaced DEF u
    <2>4. q \in Clcb /\ Keeps(s, q) /\ q.ctx = s.ctx /\ q.op = op /\ q.req = s.req /\ q.asked = s.asked
        BY <2>1, <2>3 DEF Clcb, Keeps
    <2>5. op # NoOp BY <2>2, ListKinds
    <2>6. Asking(c, q) BY <2>4 DEF Good, Asking
    <2>7. Phased(q) BY <1>4, <2>2, <2>4, <2>5 DEF Phased, Keeps
    <2>8. Chained(c, q) BY <2>4 DEF Good, Chained, Keeps
    <2>9. Listed(q)
        <3>1. Cardinality({}) = 0 /\ IsFiniteSet({}) BY FS_EmptySet
        <3>2. s.op.cap \in Nat /\ s.op.cap + 0 <= s.op.cap BY <1>2, ListKinds
        <3>3. QED BY <1>3, <2>2, <2>4, <3>1, <3>2 DEF Listed
    <2>10. Subscribed(q) BY <2>2, <2>4 DEF Good, Subscribed, Keeps
    <2>11. Counted(q)
        <3> SUFFICES ASSUME "READ" \notin Refusable PROVE Counted(q) BY DEF Counted
        <3>1. s.op.index \in Nat /\ s.op.cap \in Nat /\ s.op.ops \in Nat /\ s.op.ops <= s.op.index
            BY <1>2, ListKinds DEF Good, Counted
        <3>2. s.op.index <= s.op.cap BY <1>3, <1>5, <3>1, FS_EmptySet
        <3>3. s.op.ops <= s.op.cap BY <3>1, <3>2
        <3>4. Cardinality(Queued(s.req, "READ")) = s.op.ops BY DEF Good, Counted
        <3>5. \A p \in Wanted("READ", s.prof) :
                 \/ p \in s.op.todo
                 \/ Asked("READ", s.prof, p) \in s.answered
                 \/ \E i \in Queued(s.req, "READ") : Triple(s.req[i]) = Asked("READ", s.prof, p)
            BY DEF Good, Counted
        <3>6. ~q.ready /\ q.prof = s.prof /\ q.answered = s.answered BY <1>4, <2>4 DEF Keeps
        <3>7. QED BY <1>5, <2>2, <2>4, <2>5, <3>3, <3>4, <3>5, <3>6 DEF Counted
    <2>12. q.refuse => s.refuse BY <2>4 DEF Keeps
    <2>13. QED BY <2>2, <2>4, <2>5, <2>6, <2>7, <2>8, <2>9, <2>10, <2>11, <2>12 DEF Good, q
<1>6. CASE s.op.todo # {}
    <2> DEFINE p0 == FirstPlace(s.op.todo)
               r == ReadRequest(s)
               u == Send(s, r)
               f == s.prof
    <2>1. p0 \in s.op.todo /\ p0 \in Wanted("READ", f)
        <3>1. p0 \in s.op.todo BY <1>2, <1>3, <1>6, AdvanceShape
        <3>2. QED BY <1>3, <3>1
    <2>2. r = Request("READ", Order("READ")[p0[1]], Handle("READ", f, p0))
        BY DEF ReadRequest, Order, Handle
    <2>3. r \in Requests
        <3> DEFINE kk == "READ"
        <3>1. kk \in {"READ", "CCCD"} /\ p0 \in Wanted(kk, f) BY <2>1
        <3>2. r = Request(kk, Order(kk)[p0[1]], Handle(kk, f, p0)) BY <2>2
        <3> HIDE DEF kk, p0, r, f
        <3>3. f \in Profiles BY <1>1 DEF f
        <3>4. QED BY <3>1, <3>2, <3>3, WantedShape
    <2>4. r.t = "READ" /\ Triple(r) = Asked("READ", f, p0) BY <2>2 DEF Request, Triple, Asked
    <2>5. q = IF u.ok THEN [u EXCEPT !.op = Advance(u.op)] ELSE [u EXCEPT !.op.ops = CountDown(u.op.ops)]
        BY <1>6 DEF ReadNext
    <2> HIDE DEF p0, r, u, q
    <2>6. /\ u \in Clcb /\ Keeps(s, u) /\ u.ctx = s.ctx /\ u.op = s.op
          /\ u.ok => Longer(u.req, s.req, r) /\ s.asked \subseteq u.asked
          /\ ~u.ok => u.req = s.req /\ u.asked = s.asked /\ r.t \in Refusable
        BY <1>1, <2>3, SendShape DEF u
    <2> DEFINE op == IF u.ok THEN Advance(s.op) ELSE [s.op EXCEPT !.ops = CountDown(s.op.ops)]
    <2>7. u.ok => /\ op \in Lists /\ op.kind = "READ" /\ op.cap = s.op.cap
                  /\ op.index = s.op.index + 1 /\ op.ops = (s.op.ops + 1) % 256
                  /\ op.todo = s.op.todo \ {p0} /\ IsFiniteSet(op.todo)
                  /\ Cardinality(op.todo) = Cardinality(s.op.todo) - 1
                  /\ Cardinality(s.op.todo) \in Nat /\ Cardinality(op.todo) \in Nat
        BY <1>2, <1>3, <1>6, AdvanceShape DEF p0
    <2>8. ~u.ok => /\ op \in Lists /\ op.kind = "READ" /\ op.cap = s.op.cap
                   /\ op.index = s.op.index /\ op.todo = s.op.todo
        <3> SUFFICES ASSUME ~u.ok
                     PROVE  /\ op \in Lists /\ op.kind = "READ" /\ op.cap = s.op.cap
                            /\ op.index = s.op.index /\ op.todo = s.op.todo
            OBVIOUS
        <3> DEFINE m == CountDown(s.op.ops)
        <3>1. m \in Byte BY <1>2 DEF CountDown, Byte, Lists
        <3>2. op = [s.op EXCEPT !.ops = m] OBVIOUS
        <3> HIDE DEF m, op
        <3>3. QED BY <1>2, <3>1, <3>2 DEF Lists
    <2>9. q = [u EXCEPT !.op = op] BY <2>5, <2>6 DEF Clcb
    <2> HIDE DEF op
    <2>10. op \in Lists /\ op.kind = "READ" /\ op.cap = s.op.cap /\ op # NoOp
        BY <2>7, <2>8, ListKinds
    <2>11. q \in Clcb /\ Keeps(u, q) /\ q.ctx = u.ctx /\ q.op = op /\ q.req = u.req /\ q.asked = u.asked
        BY <2>6, <2>9, <2>10, OpReplaced
    <2>12. /\ Keeps(s, q) /\ q.ctx = s.ctx /\ q.prof = f /\ q.answered = s.answered
           /\ q.ready = s.ready /\ q.enabled = s.enabled /\ s.asked \subseteq q.asked
        BY <2>6, <2>11 DEF Keeps
    <2>13. Asking(c, q)
        <3>1. CASE u.ok
            <4>1. Longer(q.req, s.req, r) /\ r.t # "DISCOVER" BY <2>4, <2>6, <2>11, <3>1
            <4>2. Asking(c, s) BY DEF Good
            <4>3. QED BY <1>1, <2>3, <2>11, <2>12, <4>1, <4>2, AskingKept
        <3>2. CASE ~u.ok
            <4>1. q.req = s.req BY <2>6, <2>11, <3>2
            <4>2. QED BY <2>12, <4>1 DEF Good, Asking
        <3>3. QED BY <3>1, <3>2
    <2>14. Phased(q) BY <1>4, <2>10, <2>11, <2>12 DEF Phased, Keeps
    <2>15. Chained(c, q) BY <2>12 DEF Good, Chained, Keeps
    <2>16. Listed(q)
        <3>1. op.todo \subseteq Wanted("READ", f) /\ IsFiniteSet(op.todo) BY <1>3, <2>7, <2>8
        <3>2. op.index + Cardinality(op.todo) <= op.cap
            <4>1. s.op.index \in Nat /\ s.op.cap \in Nat BY <1>2, ListKinds
            <4> DEFINE n == Cardinality(s.op.todo)
                       k == Cardinality(op.todo)
            <4>2. s.op.index + n <= s.op.cap BY <1>3
            <4>3. u.ok => n \in Nat /\ k = n - 1 /\ op.index = s.op.index + 1 /\ op.cap = s.op.cap BY <2>7
            <4>4. ~u.ok => k = n /\ op.index = s.op.index /\ op.cap = s.op.cap BY <2>8
            <4> HIDE DEF n, k
            <4>5. op.index + k <= op.cap BY <4>1, <4>2, <4>3, <4>4
            <4>6. QED BY <4>5 DEF k
        <3>3. QED BY <1>3, <2>10, <2>11, <2>12, <3>1, <3>2 DEF Listed
    <2>17. Subscribed(q)
        <3>1. \A p \in Wanted("CCCD", f) : Asked("CCCD", f, p) \in s.asked BY <1>4 DEF Good, Subscribed
        <3>2. QED BY <2>10, <2>11, <2>12, <3>1 DEF Subscribed
    <2>18. Counted(q)
        <3> SUFFICES ASSUME "READ" \notin Refusable PROVE Counted(q) BY DEF Counted
        <3>1. u.ok /\ Longer(q.req, s.req, r) BY <2>4, <2>6, <2>11
        <3> DEFINE n == Len(s.req)
                   Q == Queued(s.req, "READ")
        <3>2. /\ Queued(q.req, "READ") = Q \cup {n + 1}
              /\ Cardinality(Queued(q.req, "READ")) = Cardinality(Q) + 1
              /\ \A i \in Q : q.req[i] = s.req[i]
              /\ q.req[n + 1] = r
            <4> DEFINE rd == "READ"
                       a == s.req
                       b == q.req
            <4>1. Longer(b, a, r) /\ r.t = rd BY <2>4, <3>1
            <4> HIDE DEF rd, a, b
            <4>2. /\ Queued(b, rd) = Queued(a, rd) \cup {Len(a) + 1}
                  /\ Cardinality(Queued(b, rd)) = Cardinality(Queued(a, rd)) + 1
                  /\ b[Len(a) + 1] = r
                BY <4>1, QueuedMore
            <4>3. \A i \in Queued(a, rd) : b[i] = a[i] BY <4>1, QueuedMore
            <4>4. QED BY <4>2, <4>3 DEF rd, a, b
        <3>3. Cardinality(Q) = s.op.ops /\ s.op.ops <= s.op.index BY DEF Good, Counted
        <3>4. op.ops = s.op.ops + 1 /\ op.ops <= op.index
            <4>1. s.op.index \in Nat /\ s.op.cap \in Nat /\ s.op.ops \in 0..255 BY <1>2, ListKinds
            <4> DEFINE k == Cardinality(s.op.todo)
                       k2 == Cardinality(op.todo)
            <4>2. s.op.index + k <= s.op.cap /\ s.op.cap \in 0..255 BY <1>3 DEF Byte
            <4>3. k \in Nat /\ k2 \in Nat /\ k2 = k - 1 BY <2>7, <3>1
            <4> HIDE DEF k, k2
            <4>4. s.op.ops + 1 \in 0..255 BY <3>3, <4>1, <4>2, <4>3, SMTT(30)
            <4>5. op.index = s.op.index + 1 /\ op.ops = (s.op.ops + 1) % 256 BY <2>7, <3>1
            <4>6. QED BY <3>3, <4>1, <4>4, <4>5
        <3>5. \A p \in Wanted("READ", f) :
                 \/ p \in s.op.todo
                 \/ Asked("READ", f, p) \in s.answered
                 \/ \E i \in Q : Triple(s.req[i]) = Asked("READ", f, p)
            BY DEF Good, Counted
        <3>6. ASSUME NEW p \in Wanted("READ", f)
              PROVE  \/ p \in op.todo
                     \/ Asked("READ", f, p) \in s.answered
                     \/ \E i \in Queued(q.req, "READ") : Triple(q.req[i]) = Asked("READ", f, p)
            <4>1. CASE p \in s.op.todo
                <5>1. p = p0 \/ p \in op.todo BY <2>7, <3>1, <4>1
                <5>2. p = p0 => Triple(q.req[n + 1]) = Asked("READ", f, p) /\ n + 1 \in Queued(q.req, "READ")
                    BY <2>4, <3>2
                <5>3. QED BY <5>1, <5>2
            <4>2. CASE Asked("READ", f, p) \in s.answered
                BY <4>2
            <4>3. ASSUME NEW i \in Q, Triple(s.req[i]) = Asked("READ", f, p)
                  PROVE  \E k \in Queued(q.req, "READ") : Triple(q.req[k]) = Asked("READ", f, p)
                <5>1. q.req[i] = s.req[i] /\ i \in Queued(q.req, "READ") BY <3>2
                <5>2. QED BY <4>3, <5>1
            <4>4. QED BY <3>5, <4>1, <4>2, <4>3
        <3> HIDE DEF Q, n
        <3>7. Cardinality(Queued(q.req, "READ")) = op.ops BY <3>2, <3>3, <3>4
        <3>8. QED BY <1>4, <2>10, <2>11, <2>12, <3>4, <3>6, <3>7 DEF Counted
    <2>19. q.refuse => s.refuse BY <2>12 DEF Keeps
    <2>20. QED BY <2>10, <2>11, <2>13, <2>14, <2>15, <2>16, <2>17, <2>18, <2>19 DEF Good, q
<1>7. QED BY <1>5, <1>6

\* gatt_intf_internal_enable_notification.
LEMMA EnableNextGood ==
    ASSUME NEW c \in Conns, NEW s, Good(c, s), s.op # NoOp, s.op.kind = "CCCD"
    PROVE  LET q == EnableNext(s)
           IN  Good(c, q) /\ q.op # NoOp /\ q.op.kind = "CCCD" /\ (q.refuse => s.refuse)
<1> DEFINE q == EnableNext(s)
           f == s.prof
<1>1. s \in Clcb /\ f \in Profiles /\ s.req \in Seq(Requests) BY DEF Good, Clcb
<1>2. s.op \in Lists BY DEF Good, Clcb
<1>3. /\ s.op.todo \subseteq Wanted("CCCD", f) /\ IsFiniteSet(s.op.todo)
      /\ s.op.index + Cardinality(s.op.todo) <= s.op.cap
    BY DEF Good, Listed
<1>4. ~s.enabled /\ ~s.ready /\ s.ctx = NoCtx /\ s.enc /\ (s.disc \/ s.hash) BY DEF Good, Phased
<1>5. \A p \in Wanted("CCCD", f) : p \in s.op.todo \/ Asked("CCCD", f, p) \in s.asked
    BY DEF Good, Subscribed
<1>6. "READ" \notin Refusable => Queued(s.req, "READ") = {} BY DEF Good, Counted
<1>7. CASE s.op.todo = {}
    <2> DEFINE op == [s.op EXCEPT !.index = s.op.cap]
               u == [s EXCEPT !.op = op]
    <2>1. q = [u EXCEPT !.ok = TRUE] BY <1>1, <1>7 DEF EnableNext, Clcb
    <2>2. /\ op \in Lists /\ op.kind = "CCCD" /\ op.cap = s.op.cap /\ op.index = s.op.cap
          /\ op.todo = {}
        BY <1>2, <1>7 DEF Lists
    <2> HIDE DEF op, u, q
    <2>3. u \in Clcb /\ Keeps(s, u) /\ u.ctx = s.ctx /\ u.op = op /\ u.req = s.req /\ u.asked = s.asked
        BY <1>1, <2>2, OpReplaced DEF u
    <2>4. q \in Clcb /\ Keeps(s, q) /\ q.ctx = s.ctx /\ q.op = op /\ q.req = s.req /\ q.asked = s.asked
        BY <2>1, <2>3 DEF Clcb, Keeps
    <2>5. op # NoOp BY <2>2, ListKinds
    <2>6. Asking(c, q) BY <2>4 DEF Good, Asking
    <2>7. Phased(q) BY <1>4, <2>2, <2>4, <2>5 DEF Phased, Keeps
    <2>8. Chained(c, q) BY <2>4 DEF Good, Chained, Keeps
    <2>9. Listed(q)
        <3>1. Cardinality({}) = 0 /\ IsFiniteSet({}) BY FS_EmptySet
        <3>2. s.op.cap \in Nat /\ s.op.cap + 0 <= s.op.cap BY <1>2, ListKinds
        <3>3. QED BY <2>2, <2>4, <3>1, <3>2 DEF Listed
    <2>10. Subscribed(q) BY <1>4, <1>5, <1>7, <2>4 DEF Subscribed, Keeps
    <2>11. Counted(q) BY <1>4, <1>6, <2>2, <2>4 DEF Counted, Keeps
    <2>12. q.refuse => s.refuse BY <2>4 DEF Keeps
    <2>13. QED BY <2>2, <2>4, <2>5, <2>6, <2>7, <2>8, <2>9, <2>10, <2>11, <2>12 DEF Good, q
<1>8. CASE s.op.todo # {}
    <2> DEFINE p0 == FirstPlace(s.op.todo)
               r == EnableRequest(s)
               u == Send(s, r)
    <2>1. p0 \in s.op.todo /\ p0 \in Wanted("CCCD", f)
        <3>1. p0 \in s.op.todo BY <1>2, <1>3, <1>8, AdvanceShape
        <3>2. QED BY <1>3, <3>1
    <2>2. r = Request("CCCD", Order("CCCD")[p0[1]], Handle("CCCD", f, p0))
        BY DEF EnableRequest, Order, Handle
    <2>3. r \in Requests
        <3> DEFINE kk == "CCCD"
        <3>1. kk \in {"READ", "CCCD"} /\ p0 \in Wanted(kk, f) BY <2>1
        <3>2. r = Request(kk, Order(kk)[p0[1]], Handle(kk, f, p0)) BY <2>2
        <3> HIDE DEF kk, p0, r, f
        <3>3. f \in Profiles BY <1>1
        <3>4. QED BY <3>1, <3>2, <3>3, WantedShape
    <2>4. r.t = "CCCD" /\ Triple(r) = Asked("CCCD", f, p0) BY <2>2 DEF Request, Triple, Asked
    <2>5. q = IF u.ok THEN [u EXCEPT !.op = Advance(u.op)] ELSE u
        BY <1>8 DEF EnableNext
    <2> HIDE DEF p0, r, u, q, f
    <2>6. /\ u \in Clcb /\ Keeps(s, u) /\ u.ctx = s.ctx /\ u.op = s.op
          /\ u.ok => /\ Longer(u.req, s.req, r) /\ s.asked \subseteq u.asked
                     /\ r.t \in {"CCCD", "READ"} => Triple(r) \in u.asked
          /\ ~u.ok => u.req = s.req /\ u.asked = s.asked
        BY <1>1, <2>3, SendShape DEF u
    <2>7. Asked("CCCD", f, p0) \in u.asked \/ ~u.ok BY <2>4, <2>6
    <2> DEFINE op == IF u.ok THEN Advance(s.op) ELSE s.op
    <2>8. u.ok => /\ op \in Lists /\ op.kind = "CCCD" /\ op.cap = s.op.cap
                  /\ op.index = s.op.index + 1
                  /\ op.todo = s.op.todo \ {p0} /\ IsFiniteSet(op.todo)
                  /\ Cardinality(op.todo) = Cardinality(s.op.todo) - 1
                  /\ Cardinality(s.op.todo) \in Nat /\ Cardinality(op.todo) \in Nat
        BY <1>2, <1>3, <1>8, AdvanceShape DEF p0
    <2>9. ~u.ok => op = s.op OBVIOUS
    <2>10. q = [u EXCEPT !.op = op]
        <3>1. CASE u.ok BY <2>5, <2>6, <3>1
        <3>2. CASE ~u.ok
            <4>1. u = [u EXCEPT !.op = s.op] BY <2>6 DEF Clcb
            <4>2. QED BY <2>5, <3>2, <4>1
        <3>3. QED BY <3>1, <3>2
    <2> HIDE DEF op
    <2>11. op \in Lists /\ op.kind = "CCCD" /\ op.cap = s.op.cap /\ op # NoOp
        BY <1>2, <2>8, <2>9, ListKinds
    <2>12. q \in Clcb /\ Keeps(u, q) /\ q.ctx = u.ctx /\ q.op = op /\ q.req = u.req /\ q.asked = u.asked
        BY <2>6, <2>10, <2>11, OpReplaced
    <2>13. /\ Keeps(s, q) /\ q.ctx = s.ctx /\ q.prof = f /\ q.answered = s.answered
           /\ q.ready = s.ready /\ q.enabled = s.enabled /\ s.asked \subseteq q.asked
        BY <2>6, <2>12 DEF Keeps, f
    <2>14. Asking(c, q)
        <3>1. CASE u.ok
            <4>1. Longer(q.req, s.req, r) /\ r.t # "DISCOVER" BY <2>4, <2>6, <2>12, <3>1
            <4>2. Asking(c, s) BY DEF Good
            <4>3. QED BY <1>1, <2>3, <2>12, <2>13, <4>1, <4>2, AskingKept
        <3>2. CASE ~u.ok
            <4>1. q.req = s.req BY <2>6, <2>12, <3>2
            <4>2. QED BY <2>13, <4>1 DEF Good, Asking
        <3>3. QED BY <3>1, <3>2
    <2>15. Phased(q) BY <1>4, <2>11, <2>12, <2>13 DEF Phased, Keeps
    <2>16. Chained(c, q) BY <2>13 DEF Good, Chained, Keeps
    <2>17. Listed(q)
        <3>1. op.todo \subseteq Wanted("CCCD", f) /\ IsFiniteSet(op.todo) BY <1>3, <2>8, <2>9
        <3>2. op.index + Cardinality(op.todo) <= op.cap
            <4>1. s.op.index \in Nat /\ s.op.cap \in Nat BY <1>2, ListKinds
            <4> DEFINE n == Cardinality(s.op.todo)
                       k == Cardinality(op.todo)
            <4>2. s.op.index + n <= s.op.cap BY <1>3
            <4>3. u.ok => n \in Nat /\ k = n - 1 /\ op.index = s.op.index + 1 /\ op.cap = s.op.cap BY <2>8
            <4>4. ~u.ok => k = n /\ op.index = s.op.index /\ op.cap = s.op.cap BY <2>9
            <4> HIDE DEF n, k
            <4>5. op.index + k <= op.cap BY <4>1, <4>2, <4>3, <4>4
            <4>6. QED BY <4>5 DEF k
        <3>3. QED BY <2>11, <2>12, <2>13, <3>1, <3>2 DEF Listed
    <2>18. Subscribed(q)
        <3>1. ASSUME NEW p \in Wanted("CCCD", f)
              PROVE  p \in op.todo \/ Asked("CCCD", f, p) \in q.asked
            <4>1. CASE p = p0 /\ u.ok BY <2>7, <2>12, <4>1
            <4>2. CASE p # p0 \/ ~u.ok BY <1>5, <2>8, <2>9, <2>13, <4>2
            <4>3. QED BY <4>1, <4>2
        <3>2. QED BY <1>4, <2>12, <2>13, <3>1 DEF Subscribed
    <2>19. Counted(q)
        <3> SUFFICES ASSUME "READ" \notin Refusable PROVE Counted(q) BY DEF Counted
        <3>1. Queued(q.req, "READ") = {}
            <4>1. CASE u.ok
                <5>1. Longer(q.req, s.req, r) /\ r.t # "READ" BY <2>4, <2>6, <2>12, <4>1
                <5>2. Queued(q.req, "READ") = Queued(s.req, "READ") BY <5>1, QueuedMore
                <5>3. QED BY <1>6, <5>2
            <4>2. CASE ~u.ok BY <1>6, <2>6, <2>12, <4>2
            <4>3. QED BY <4>1, <4>2
        <3>2. QED BY <1>4, <2>11, <2>12, <2>13, <3>1 DEF Counted
    <2>20. q.refuse => s.refuse BY <2>13 DEF Keeps
    <2>21. QED BY <2>11, <2>12, <2>14, <2>15, <2>16, <2>17, <2>18, <2>19, <2>20 DEF Good, q
<1>9. QED BY <1>7, <1>8

\* on_read_remote_cmpl, when the reads are complete.
LEMMA ReadCmplGood ==
    ASSUME NEW c \in Conns, NEW s, Good(c, s), s.op # NoOp, s.op.kind = "READ",
           IsComplete(s.op), NEW b \in BOOLEAN
    PROVE  LET q == OnReadCmpl(s, b) IN Good(c, q) /\ (q.refuse => s.refuse)
<1> DEFINE q == OnReadCmpl(s, b)
           f == s.prof
<1>1. s \in Clcb BY DEF Good
<1>2. s.enabled /\ s.ctx = NoCtx /\ s.enc /\ (s.disc \/ s.hash) BY DEF Good, Phased
<1>3. s.op.ops = 0 /\ s.op.index = s.op.cap BY DEF IsComplete
<1>4. s.op.todo = {} BY <1>1, <1>3, AtEnd DEF Good
<1>5. q = [s EXCEPT !.op = NoOp, !.ready = s.enabled, !.hash = (s.hash \/ b)]
    BY <1>1 DEF OnReadCmpl, Clcb
<1>6. /\ q \in Clcb /\ q.op = NoOp /\ q.ready = TRUE /\ q.hash = (s.hash \/ b) /\ q.prof = f
      /\ q.enabled /\ q.ctx = NoCtx /\ q.enc /\ q.disc = s.disc /\ q.aics = s.aics
      /\ q.req = s.req /\ q.asked = s.asked /\ q.answered = s.answered /\ q.refuse = s.refuse
    <2>1. s.hash \/ b \in BOOLEAN BY <1>1 DEF Clcb
    <2> DEFINE hb == s.hash \/ b
               no == NoOp
    <2>2. q = [s EXCEPT !.op = no, !.ready = s.enabled, !.hash = hb] BY <1>5
    <2>3. hb \in BOOLEAN /\ no \in {NoOp} \cup Lists BY <1>1 DEF Clcb
    <2> HIDE DEF hb, no, q
    <2>4. /\ q \in Clcb /\ q.op = no /\ q.ready = s.enabled /\ q.hash = hb /\ q.prof = f
          /\ q.enabled = s.enabled /\ q.ctx = s.ctx /\ q.enc = s.enc /\ q.disc = s.disc /\ q.aics = s.aics
          /\ q.req = s.req /\ q.asked = s.asked /\ q.answered = s.answered /\ q.refuse = s.refuse
        BY <1>1, <2>2, <2>3 DEF Clcb
    <2>5. s.enabled = TRUE BY <1>1, <1>2 DEF Clcb
    <2>6. QED BY <1>2, <2>4, <2>5 DEF hb, no
<1> HIDE DEF q, f
<1>7. Asking(c, q) BY <1>2, <1>6 DEF Good, Asking
<1>8. Phased(q) BY <1>2, <1>6 DEF Phased
<1>9. Chained(c, q)
    <2>1. "DISCOVER" \notin Refusable => Known(c, f, 10) BY <1>2 DEF Good, Chained, f
    <2>2. s.aics <= NumAics(c) BY DEF Good, Chained
    <2>3. QED BY <1>6, <2>1, <2>2 DEF Chained
<1>10. Listed(q) BY <1>6 DEF Listed
<1>11. Subscribed(q) BY <1>2, <1>6 DEF Good, Subscribed, f
<1>12. Counted(q)
    <2> SUFFICES ASSUME "READ" \notin Refusable PROVE Counted(q) BY DEF Counted
    <2>1. Cardinality(Queued(s.req, "READ")) = 0 BY <1>3 DEF Good, Counted
    <2>2. Queued(s.req, "READ") = {}
        <3>1. s.req \in Seq(Requests) BY <1>1 DEF Clcb
        <3>2. IsFiniteSet(Queued(s.req, "READ")) BY <3>1, QueuedFinite
        <3>3. QED BY <2>1, <3>2, FS_EmptySet
    <2>3. \A p \in Wanted("READ", f) : Asked("READ", f, p) \in s.answered
        <3>1. \A p \in Wanted("READ", f) :
                 \/ p \in s.op.todo
                 \/ Asked("READ", f, p) \in s.answered
                 \/ \E i \in Queued(s.req, "READ") : Triple(s.req[i]) = Asked("READ", f, p)
            BY DEF Good, Counted, f
        <3>2. QED BY <1>4, <2>2, <3>1
    <2>4. QED BY <1>6, <2>2, <2>3 DEF Counted
<1>13. QED BY <1>6, <1>7, <1>8, <1>9, <1>10, <1>11, <1>12 DEF Good, q

\* Executing the list of reads, up to the end when it is reached.
LEMMA ExecuteReadsGood ==
    ASSUME NEW c \in Conns, NEW s, Good(c, s), s.op # NoOp, s.op.kind = "READ"
    PROVE  LET q == ExecuteReads(s) IN Good(c, q) /\ (q.refuse => s.refuse)
<1> DEFINE r == ReadNext(s)
           q == ExecuteReads(s)
<1>1. Good(c, r) /\ r.op # NoOp /\ r.op.kind = "READ" /\ (r.refuse => s.refuse) BY ReadNextGood
<1>2. q = IF IsComplete(r.op) THEN OnReadCmpl(r, r.ok) ELSE r BY DEF ExecuteReads
<1>3. r.ok \in BOOLEAN BY <1>1 DEF Good, Clcb
<1> HIDE DEF r, q
<1>4. IsComplete(r.op) =>
         Good(c, OnReadCmpl(r, r.ok)) /\ (OnReadCmpl(r, r.ok).refuse => r.refuse)
    BY <1>1, <1>3, ReadCmplGood
<1>5. QED BY <1>1, <1>2, <1>4 DEF q

\* The list of reads that follows the notifications.
LEMMA ReadsStarted ==
    ASSUME NEW c \in Conns, NEW s, Good(c, s), s.op = NoOp, s.ctx = NoCtx,
           s.enc, s.enabled, ~s.ready
    PROVE  LET op == AllocList("READ", s, ReadOrder, ReadTypes, "h")
               u  == [s EXCEPT !.op = op]
           IN  /\ Good(c, u) /\ Keeps(s, u) /\ u.req = s.req
               /\ u.op # NoOp /\ u.op.kind = "READ" /\ u.op.ops = 0
<1> DEFINE op == AllocList("READ", s, ReadOrder, ReadTypes, "h")
           u == [s EXCEPT !.op = op]
           f == s.prof
<1>1. s \in Clcb /\ f \in Profiles BY DEF Good, Clcb
<1>2. /\ op \in Lists /\ op.kind = "READ" /\ op.todo = Wanted("READ", f)
      /\ op.index = 0 /\ op.ops = 0 /\ op.cap \in Byte /\ Cardinality(op.todo) <= op.cap
    BY <1>1, NewList
<1> HIDE DEF op
<1>4. /\ u \in Clcb /\ Keeps(s, u) /\ u.ctx = s.ctx /\ u.op = op /\ u.req = s.req
      /\ u.asked = s.asked
    BY <1>1, <1>2, OpReplaced
<1> HIDE DEF u
<1>5. op # NoOp BY <1>2, ListKinds
<1>6. s.disc \/ s.hash BY DEF Good, Phased
<1>7. Asking(c, u) BY <1>4 DEF Good, Asking
<1>8. Phased(u) BY <1>2, <1>4, <1>5, <1>6 DEF Phased, Keeps
<1>9. Chained(c, u) BY <1>4 DEF Good, Chained, Keeps
<1>10. Listed(u)
    <2>1. IsFiniteSet(Wanted("READ", f))
        <3> DEFINE kk == "READ"
        <3>1. kk \in {"READ", "CCCD"} OBVIOUS
        <3> HIDE DEF kk, f
        <3>2. IsFiniteSet(Wanted(kk, f)) BY <1>1, <3>1, WantedShape
        <3>3. QED BY <3>2 DEF kk
    <2>2. op.index + Cardinality(op.todo) <= op.cap
        <3> DEFINE n == Cardinality(op.todo)
        <3>1. n \in Nat BY <1>2, <2>1, FS_CardinalityType
        <3>2. n <= op.cap /\ op.index = 0 BY <1>2
        <3> HIDE DEF n
        <3>3. op.index + n <= op.cap BY <3>1, <3>2
        <3>4. QED BY <3>3 DEF n
    <2>3. QED BY <1>2, <1>4, <2>1, <2>2 DEF Listed, Keeps
<1>11. Subscribed(u) BY <1>2, <1>4 DEF Good, Subscribed, Keeps
<1>12. Counted(u)
    <2> SUFFICES ASSUME "READ" \notin Refusable PROVE Counted(u) BY DEF Counted
    <2>1. Queued(s.req, "READ") = {} BY DEF Good, Counted
    <2>2. Cardinality(Queued(u.req, "READ")) = op.ops BY <1>2, <1>4, <2>1, FS_EmptySet
    <2>3. ~u.ready /\ u.prof = f BY <1>4 DEF Keeps
    <2>4. op.ops <= op.index BY <1>2
    <2>5. QED BY <1>2, <1>4, <1>5, <2>2, <2>3, <2>4 DEF Counted
<1>13. Good(c, u) BY <1>4, <1>7, <1>8, <1>9, <1>10, <1>11, <1>12 DEF Good
<1>14. QED BY <1>2, <1>4, <1>5, <1>13 DEF op, u

\* lepl_read_remote_characteristics, after the notifications.
LEMMA StartReads ==
    ASSUME NEW c \in Conns, NEW s, Good(c, s), s.op = NoOp, s.ctx = NoCtx,
           s.enc, s.enabled, ~s.ready
    PROVE  LET q == ReadRemoteCharacteristics(s) IN Good(c, q) /\ (q.refuse => s.refuse)
<1> DEFINE op == AllocList("READ", s, ReadOrder, ReadTypes, "h")
           u == [s EXCEPT !.op = op]
<1>1. Good(c, u) /\ Keeps(s, u) /\ u.op # NoOp /\ u.op.kind = "READ" BY ReadsStarted
<1>2. ReadRemoteCharacteristics(s) = ExecuteReads(u) BY DEF ReadRemoteCharacteristics
<1> HIDE DEF u
<1>3. QED BY <1>1, <1>2, ExecuteReadsGood DEF Keeps

\* A block whose CCCD writes are complete.
LEMMA EnabledGood ==
    ASSUME NEW c \in Conns, NEW s, Good(c, s), s.op # NoOp, s.op.kind = "CCCD",
           IsComplete(s.op)
    PROVE  LET u == [s EXCEPT !.op = NoOp, !.enabled = TRUE]
           IN  /\ Good(c, u) /\ u.op = NoOp /\ u.ctx = NoCtx /\ u.enc /\ u.enabled /\ ~u.ready
               /\ u.req = s.req /\ u.up = s.up /\ u.refuse = s.refuse
<1> DEFINE u == [s EXCEPT !.op = NoOp, !.enabled = TRUE]
           f == s.prof
<1>1. s \in Clcb BY DEF Good
<1>2. ~s.enabled /\ ~s.ready /\ s.ctx = NoCtx /\ s.enc /\ (s.disc \/ s.hash) BY DEF Good, Phased
<1>3. s.op.todo = {} BY <1>1, AtEnd DEF Good, IsComplete
<1>4. /\ u \in Clcb /\ u.op = NoOp /\ u.enabled = TRUE /\ u.ready = s.ready /\ u.hash = s.hash
      /\ u.prof = f /\ u.ctx = s.ctx /\ u.enc = s.enc /\ u.disc = s.disc /\ u.aics = s.aics
      /\ u.req = s.req /\ u.asked = s.asked /\ u.answered = s.answered /\ u.refuse = s.refuse
      /\ u.up = s.up
    <2> DEFINE no == NoOp
    <2>1. u = [s EXCEPT !.op = no, !.enabled = TRUE] /\ no \in {NoOp} \cup Lists OBVIOUS
    <2> HIDE DEF no, u
    <2>2. /\ u \in Clcb /\ u.op = no /\ u.enabled = TRUE /\ u.ready = s.ready /\ u.hash = s.hash
          /\ u.prof = f /\ u.ctx = s.ctx /\ u.enc = s.enc /\ u.disc = s.disc /\ u.aics = s.aics
          /\ u.req = s.req /\ u.asked = s.asked /\ u.answered = s.answered /\ u.refuse = s.refuse
          /\ u.up = s.up
        BY <1>1, <2>1 DEF Clcb
    <2>3. QED BY <2>2 DEF no
<1> HIDE DEF u
<1>6. Asking(c, u) BY <1>4 DEF Good, Asking
<1>7. Phased(u) BY <1>2, <1>4 DEF Phased
<1>8. Chained(c, u) BY <1>4 DEF Good, Chained
<1>9. Listed(u) BY <1>4 DEF Listed
<1>10. Subscribed(u)
    <2>1. \A p \in Wanted("CCCD", f) : Asked("CCCD", f, p) \in s.asked BY <1>3 DEF Good, Subscribed
    <2>2. QED BY <1>4, <2>1 DEF Subscribed
<1>11. Counted(u)
    <2>1. "READ" \notin Refusable => Queued(s.req, "READ") = {} BY DEF Good, Counted
    <2>2. QED BY <1>2, <1>4, <2>1 DEF Counted
<1>12. Good(c, u) BY <1>4, <1>6, <1>7, <1>8, <1>9, <1>10, <1>11 DEF Good
<1>13. u.op = NoOp /\ u.ctx = NoCtx /\ u.enc /\ u.enabled /\ ~u.ready BY <1>2, <1>4
<1>14. QED BY <1>4, <1>12, <1>13 DEF u

\* on_enable_notification_cmpl, when the CCCD writes are complete.
LEMMA EnableCmplGood ==
    ASSUME NEW c \in Conns, NEW s, Good(c, s), s.op # NoOp, s.op.kind = "CCCD",
           IsComplete(s.op)
    PROVE  LET q == OnEnableCmpl(s) IN Good(c, q) /\ (q.refuse => s.refuse)
<1> DEFINE u == [s EXCEPT !.op = NoOp, !.enabled = TRUE]
           q == ReadRemoteCharacteristics(u)
<1>1. /\ Good(c, u) /\ u.op = NoOp /\ u.ctx = NoCtx /\ u.enc /\ u.enabled /\ ~u.ready
      /\ u.refuse = s.refuse
    BY EnabledGood
<1>2. OnEnableCmpl(s) = q BY DEF OnEnableCmpl
<1> HIDE DEF u
<1>3. Good(c, q) /\ (q.refuse => u.refuse) BY <1>1, StartReads
<1> HIDE DEF q
<1>4. QED BY <1>1, <1>2, <1>3

\* Executing the list of CCCD writes, up to the end when it is reached.
LEMMA ExecuteEnablesGood ==
    ASSUME NEW c \in Conns, NEW s, Good(c, s), s.op # NoOp, s.op.kind = "CCCD"
    PROVE  LET q == ExecuteEnables(s) IN Good(c, q) /\ (q.refuse => s.refuse)
<1> DEFINE r == EnableNext(s)
           q == ExecuteEnables(s)
<1>1. Good(c, r) /\ r.op # NoOp /\ r.op.kind = "CCCD" /\ (r.refuse => s.refuse) BY EnableNextGood
<1>2. q = IF IsComplete(r.op) THEN OnEnableCmpl(r) ELSE r BY DEF ExecuteEnables
<1> HIDE DEF r, q
<1>3. IsComplete(r.op) => Good(c, OnEnableCmpl(r)) /\ (OnEnableCmpl(r).refuse => r.refuse)
    BY <1>1, EnableCmplGood
<1>4. QED BY <1>1, <1>2, <1>3 DEF q

\* The list of CCCD writes that follows the discovery.
LEMMA EnablesStarted ==
    ASSUME NEW c \in Conns, NEW s, Good(c, s), s.op = NoOp, s.ctx = NoCtx,
           s.enc, ~s.enabled, s.disc \/ s.hash
    PROVE  LET op == AllocList("CCCD", s, NotifyOrder, NotifyTypes, "d")
               u  == [s EXCEPT !.op = op]
           IN  /\ Good(c, u) /\ Keeps(s, u) /\ u.req = s.req
               /\ u.op # NoOp /\ u.op.kind = "CCCD" /\ u.op.ops = 0
<1> DEFINE op == AllocList("CCCD", s, NotifyOrder, NotifyTypes, "d")
           u == [s EXCEPT !.op = op]
           f == s.prof
<1>1. s \in Clcb /\ f \in Profiles BY DEF Good, Clcb
<1>2. /\ op \in Lists /\ op.kind = "CCCD" /\ op.todo = Wanted("CCCD", f)
      /\ op.index = 0 /\ op.ops = 0 /\ Cardinality(op.todo) <= op.cap
    BY <1>1, NewList
<1> HIDE DEF op
<1>4. /\ u \in Clcb /\ Keeps(s, u) /\ u.ctx = s.ctx /\ u.op = op /\ u.req = s.req
      /\ u.asked = s.asked
    BY <1>1, <1>2, OpReplaced
<1> HIDE DEF u
<1>5. op # NoOp BY <1>2, ListKinds
<1>6. ~s.ready BY DEF Good, Phased
<1>7. Asking(c, u) BY <1>4 DEF Good, Asking
<1>8. Phased(u) BY <1>2, <1>4, <1>5, <1>6 DEF Phased, Keeps
<1>9. Chained(c, u) BY <1>4 DEF Good, Chained, Keeps
<1>10. Listed(u)
    <2>1. IsFiniteSet(Wanted("CCCD", f))
        <3> DEFINE kk == "CCCD"
        <3>1. kk \in {"READ", "CCCD"} OBVIOUS
        <3> HIDE DEF kk, f
        <3>2. IsFiniteSet(Wanted(kk, f)) BY <1>1, <3>1, WantedShape
        <3>3. QED BY <3>2 DEF kk
    <2>2. op.index + Cardinality(op.todo) <= op.cap
        <3> DEFINE n == Cardinality(op.todo)
        <3>1. n \in Nat BY <1>2, <2>1, FS_CardinalityType
        <3>2. n <= op.cap /\ op.index = 0 BY <1>2
        <3> HIDE DEF n
        <3>3. op.index + n <= op.cap BY <3>1, <3>2
        <3>4. QED BY <3>3 DEF n
    <2>3. QED BY <1>2, <1>4, <2>1, <2>2 DEF Listed, Keeps
<1>11. Subscribed(u) BY <1>2, <1>4 DEF Subscribed, Keeps
<1>12. Counted(u)
    <2>1. "READ" \notin Refusable => Queued(s.req, "READ") = {} BY DEF Good, Counted
    <2>2. ~u.ready BY <1>4, <1>6 DEF Keeps
    <2>3. QED BY <1>2, <1>4, <1>5, <2>1, <2>2 DEF Counted
<1>13. Good(c, u) BY <1>4, <1>7, <1>8, <1>9, <1>10, <1>11, <1>12 DEF Good
<1>14. QED BY <1>2, <1>4, <1>5, <1>13 DEF op, u

\* lepl_enable_app_notifications, after the discovery or with cached handles.
LEMMA StartEnables ==
    ASSUME NEW c \in Conns, NEW s, Good(c, s), s.op = NoOp, s.ctx = NoCtx,
           s.enc, ~s.enabled, s.disc \/ s.hash
    PROVE  LET q == EnableAppNotifications(s) IN Good(c, q) /\ (q.refuse => s.refuse)
<1> DEFINE op == AllocList("CCCD", s, NotifyOrder, NotifyTypes, "d")
           u == [s EXCEPT !.op = op]
<1>1. Good(c, u) /\ Keeps(s, u) /\ u.op # NoOp /\ u.op.kind = "CCCD" BY EnablesStarted
<1>2. EnableAppNotifications(s) = ExecuteEnables(u) BY DEF EnableAppNotifications
<1> HIDE DEF u
<1>3. QED BY <1>1, <1>2, ExecuteEnablesGood DEF Keeps

\* gatt_intf_execute_handle_operations.
LEMMA ExecuteGood ==
    ASSUME NEW c \in Conns, NEW s, Good(c, s), s.op # NoOp
    PROVE  LET q == Execute(s) IN Good(c, q) /\ (q.refuse => s.refuse)
<1>1. s.op \in Lists BY DEF Good, Clcb
<1>2. s.op.kind \in {"READ", "CCCD"} BY <1>1, ListKinds
<1>3. CASE s.op.kind = "READ" BY <1>3, ExecuteReadsGood DEF Execute
<1>4. CASE s.op.kind = "CCCD" BY <1>4, ExecuteEnablesGood DEF Execute
<1>5. QED BY <1>2, <1>3, <1>4

\* What an answered request leaves: the rest of the queue.
LEMMA AnsweredShape ==
    ASSUME NEW c \in Conns, NEW s, Good(c, s), s.req # <<>>,
           Head(s.req).t \in {"CCCD", "READ", "WRITE"}
    PROVE  LET u == Answered(s)
           IN  /\ u \in Clcb /\ u.op = s.op /\ u.ctx = s.ctx /\ u.asked = s.asked
               /\ u.enc = s.enc /\ u.disc = s.disc /\ u.enabled = s.enabled /\ u.ready = s.ready
               /\ u.hash = s.hash /\ u.prof = s.prof /\ u.aics = s.aics /\ u.refuse = s.refuse
               /\ Shorter(u.req, s.req) /\ s.req[1] = Head(s.req)
               /\ u.answered = s.answered \cup {Triple(s.req[1])}
               /\ s.enc /\ Asking(c, u) /\ Phased(u) /\ Chained(c, u) /\ Listed(u) /\ Subscribed(u)
<1> DEFINE u == Answered(s)
           rest == Tail(s.req)
           got == s.answered \cup {Triple(s.req[1])}
<1>1. s \in Clcb /\ s.req \in Seq(Requests) BY DEF Good, Clcb
<1>2. Head(s.req) = s.req[1] /\ Len(s.req) \in Nat /\ 1 \in 1..Len(s.req) BY <1>1
<1>3. Shorter(rest, s.req) BY <1>1, QueueOps
<1>4. rest \in Seq(Requests) /\ s.req[1] \in Requests BY <1>3 DEF Shorter
<1>5. got \in SUBSET Triples
    <2>1. s.answered \in SUBSET Triples BY <1>1 DEF Clcb
    <2>2. Triple(s.req[1]) \in Triples BY <1>4 DEF Triple, Triples, Requests
    <2>3. QED BY <2>1, <2>2
<1>6. u = [s EXCEPT !.req = rest, !.answered = got] BY <1>1, <1>2 DEF Answered, Popped, Triple, Clcb
<1> HIDE DEF u, rest, got
<1>7. /\ u \in Clcb /\ u.op = s.op /\ u.ctx = s.ctx /\ u.asked = s.asked
      /\ u.enc = s.enc /\ u.disc = s.disc /\ u.enabled = s.enabled /\ u.ready = s.ready
      /\ u.hash = s.hash /\ u.prof = s.prof /\ u.aics = s.aics /\ u.refuse = s.refuse
      /\ u.req = rest /\ u.answered = got
    BY <1>1, <1>4, <1>5, <1>6 DEF Clcb
<1>8. s.enc
    <2>1. s.req[1].t # "MTU" BY <1>2
    <2>2. ~s.enc => s.req[1].t = "MTU" BY <1>2 DEF Good, Phased
    <2>3. QED BY <2>1, <2>2
<1>9. Asking(c, u)
    <2> DEFINE dd == "DISCOVER"
    <2>1. /\ \A i \in Queued(s.req, dd) : Asks(c, s.ctx, s.req[i])
          /\ \A i, j \in Queued(s.req, dd) : i = j
        BY DEF Good, Asking
    <2> HIDE DEF dd
    <2>2. \A i \in Queued(rest, dd) : i + 1 \in Queued(s.req, dd) /\ rest[i] = s.req[i + 1] /\ i \in Nat
        BY <1>3, QueuedLess
    <2>3. \A i \in Queued(rest, dd) : Asks(c, u.ctx, u.req[i]) BY <1>7, <2>1, <2>2
    <2>4. \A i, j \in Queued(rest, dd) : i = j
        <3> TAKE i, j \in Queued(rest, dd)
        <3>1. i + 1 = j + 1 /\ i \in Nat /\ j \in Nat BY <2>1, <2>2
        <3>2. QED BY <3>1
    <2>5. QED BY <1>7, <2>3, <2>4 DEF Asking, dd
<1>10. Phased(u) BY <1>7, <1>8 DEF Good, Phased
<1>11. Chained(c, u) BY <1>7 DEF Good, Chained
<1>12. Listed(u) BY <1>7 DEF Good, Listed
<1>13. Subscribed(u) BY <1>7 DEF Good, Subscribed
<1>14. QED BY <1>2, <1>3, <1>7, <1>8, <1>9, <1>10, <1>11, <1>12, <1>13 DEF u, got

\* The reads under way, when another request is answered.
LEMMA ReadsUnderWay ==
    ASSUME NEW c \in Conns, NEW s, Good(c, s), s.req # <<>>,
           Head(s.req).t \in {"CCCD", "READ", "WRITE"}, "READ" \notin Refusable,
           s.op # NoOp, s.op.kind = "READ"
    PROVE  LET u == Answered(s)
           IN  /\ Cardinality(Queued(u.req, "READ")) =
                     IF Head(s.req).t = "READ" THEN s.op.ops - 1 ELSE s.op.ops
               /\ Head(s.req).t = "READ" => s.op.ops # 0
               /\ \A p \in Wanted("READ", s.prof) :
                     \/ p \in s.op.todo
                     \/ Asked("READ", s.prof, p) \in u.answered
                     \/ \E i \in Queued(u.req, "READ") : Triple(u.req[i]) = Asked("READ", s.prof, p)
<1> DEFINE u == Answered(s)
           f == s.prof
           rd == "READ"
           Q == Queued(s.req, rd)
           P == Queued(u.req, rd)
<1>1. Shorter(u.req, s.req) /\ s.req[1] = Head(s.req) /\ u.answered = s.answered \cup {Triple(s.req[1])}
    BY AnsweredShape
<1>2. Cardinality(Q) = s.op.ops BY DEF Good, Counted
<1>3. \A p \in Wanted(rd, f) :
         \/ p \in s.op.todo
         \/ Asked(rd, f, p) \in s.answered
         \/ \E i \in Q : Triple(s.req[i]) = Asked(rd, f, p)
    BY DEF Good, Counted
<1> HIDE DEF rd, u, f
<1>4. /\ \A i \in Q : i # 1 => i - 1 \in P /\ u.req[i - 1] = s.req[i]
      /\ IsFiniteSet(Q) /\ Cardinality(Q) \in Nat
      /\ s.req[1].t # rd => Cardinality(P) = Cardinality(Q)
      /\ s.req[1].t = rd => Cardinality(P) = Cardinality(Q) - 1
      /\ s.req[1].t = rd <=> 1 \in Q
    BY <1>1, QueuedLess
<1> HIDE DEF P, Q
<1>5. s.req[1].t = rd => Cardinality(Q) # 0
    <2>1. 1 \in Q => Q # {} OBVIOUS
    <2>2. Cardinality(Q) = 0 => Q = {} BY <1>4, FS_EmptySet
    <2>3. QED BY <1>4, <2>1, <2>2
<1>6. ASSUME NEW p \in Wanted(rd, f)
      PROVE  \/ p \in s.op.todo
             \/ Asked(rd, f, p) \in u.answered
             \/ \E i \in P : Triple(u.req[i]) = Asked(rd, f, p)
    <2>1. ASSUME NEW i \in Q, Triple(s.req[i]) = Asked(rd, f, p)
          PROVE  \/ Asked(rd, f, p) \in u.answered
                 \/ \E k \in P : Triple(u.req[k]) = Asked(rd, f, p)
        <3>1. CASE i = 1 BY <1>1, <2>1, <3>1
        <3>2. CASE i # 1
            <4> DEFINE k == i - 1
            <4>1. k \in P /\ u.req[k] = s.req[i] BY <1>4, <3>2
            <4> HIDE DEF k
            <4>2. QED BY <2>1, <4>1
        <3>3. QED BY <3>1, <3>2
    <2>2. QED BY <1>1, <1>3, <2>1
<1>7. QED BY <1>1, <1>2, <1>4, <1>5, <1>6 DEF rd, u, f, P, Q

\* An answer that does not count for the list.
LEMMA AnsweredGood ==
    ASSUME NEW c \in Conns, NEW s, Good(c, s), s.req # <<>>,
           Head(s.req).t \in {"CCCD", "READ", "WRITE"},
           Head(s.req).t = "READ" => s.op = NoOp \/ s.op.kind # "READ"
    PROVE  LET u == Answered(s) IN Good(c, u) /\ (u.refuse => s.refuse)
<1> DEFINE u == Answered(s)
<1>1. /\ u \in Clcb /\ u.op = s.op /\ u.ready = s.ready /\ u.prof = s.prof /\ u.refuse = s.refuse
      /\ Shorter(u.req, s.req) /\ s.req[1] = Head(s.req)
      /\ u.answered = s.answered \cup {Triple(s.req[1])}
      /\ Asking(c, u) /\ Phased(u) /\ Chained(c, u) /\ Listed(u) /\ Subscribed(u)
    BY AnsweredShape
<1>2. Counted(u)
    <2> SUFFICES ASSUME "READ" \notin Refusable PROVE Counted(u) BY DEF Counted
    <2>1. u.ready => \A p \in Wanted("READ", u.prof) : Asked("READ", u.prof, p) \in u.answered
        BY <1>1 DEF Good, Counted
    <2>2. CASE s.op = NoOp \/ s.op.kind # "READ"
        <3>1. Queued(s.req, "READ") = {} BY <2>2 DEF Good, Counted
        <3>2. Queued(u.req, "READ") = {}
            <4> DEFINE rd == "READ"
            <4>1. Queued(s.req, rd) = {} BY <3>1
            <4> HIDE DEF rd, u
            <4>2. \A i \in Queued(u.req, rd) : i + 1 \in Queued(s.req, rd) BY <1>1, QueuedLess
            <4>3. Queued(u.req, rd) = {} BY <4>1, <4>2
            <4>4. QED BY <4>3 DEF rd
        <3>3. QED BY <1>1, <2>1, <2>2, <3>2 DEF Counted
    <2>3. CASE s.op # NoOp /\ s.op.kind = "READ"
        <3>1. Head(s.req).t # "READ" BY <2>3
        <3>2. /\ Cardinality(Queued(u.req, "READ")) = s.op.ops
              /\ \A p \in Wanted("READ", s.prof) :
                    \/ p \in s.op.todo
                    \/ Asked("READ", s.prof, p) \in u.answered
                    \/ \E i \in Queued(u.req, "READ") : Triple(u.req[i]) = Asked("READ", s.prof, p)
            BY <2>3, <3>1, ReadsUnderWay
        <3>3. s.op.ops <= s.op.index BY <2>3 DEF Good, Counted
        <3> HIDE DEF u
        <3>4. QED BY <1>1, <2>1, <2>3, <3>2, <3>3 DEF Counted
    <2>4. QED BY <2>2, <2>3
<1> HIDE DEF u
<1>3. QED BY <1>1, <1>2 DEF Good, u

\* ops_in_progress-- stays a byte, and counts down from any number but zero.
LEMMA CountDownByte ==
    ASSUME NEW n, n \in 0..255
    PROVE  CountDown(n) \in Byte /\ (n # 0 => CountDown(n) = n - 1)
<1>1. CASE n = 0
    <2>1. (0 + 255) % 256 = 255 OBVIOUS
    <2>2. QED BY <1>1, <2>1 DEF CountDown, Byte
<1>2. CASE n # 0
    <2>1. (n + 255) % 256 = n - 1 BY <1>2
    <2>2. QED BY <2>1, <1>2 DEF CountDown, Byte
<1>3. QED BY <1>1, <1>2

\* An answer that counts for the list.
LEMMA CountedDownGood ==
    ASSUME NEW c \in Conns, NEW s, Good(c, s), s.req # <<>>,
           Head(s.req).t \in {"CCCD", "READ", "WRITE"}, s.op # NoOp,
           Head(s.req).t = "READ" <=> s.op.kind = "READ"
    PROVE  LET u == Answered(s)
               r == [u EXCEPT !.op.ops = CountDown(@)]
           IN  Good(c, r) /\ r.op # NoOp /\ r.op.kind = s.op.kind /\ (r.refuse => s.refuse)
<1> DEFINE u == Answered(s)
           r == [u EXCEPT !.op.ops = CountDown(@)]
           m == CountDown(s.op.ops)
           op == [s.op EXCEPT !.ops = m]
<1>1. /\ u \in Clcb /\ u.op = s.op /\ u.ready = s.ready /\ u.prof = s.prof /\ u.refuse = s.refuse
      /\ u.enabled = s.enabled /\ u.ctx = s.ctx
      /\ Shorter(u.req, s.req) /\ s.req[1] = Head(s.req)
      /\ u.answered = s.answered \cup {Triple(s.req[1])}
      /\ Asking(c, u) /\ Phased(u) /\ Chained(c, u) /\ Listed(u) /\ Subscribed(u)
    BY AnsweredShape
<1>2. s.op \in Lists /\ s.op.ops \in 0..255 /\ s.op.index \in Nat
    <2>1. s.op \in Lists BY DEF Good, Clcb
    <2>2. QED BY <2>1, ListKinds
<1>3. m \in Byte /\ (s.op.ops # 0 => m = s.op.ops - 1)
    <2> DEFINE n == s.op.ops
    <2>1. n \in 0..255 BY <1>2
    <2> HIDE DEF n
    <2>2. CountDown(n) \in Byte /\ (n # 0 => CountDown(n) = n - 1) BY <2>1, CountDownByte
    <2>3. QED BY <2>2 DEF n
<1>4. r = [u EXCEPT !.op = op] BY <1>1 DEF Clcb
<1> HIDE DEF u, r, m
<1>5. op \in Lists /\ op.kind = s.op.kind /\ op.cap = s.op.cap /\ op.index = s.op.index
      /\ op.todo = s.op.todo /\ op.ops = m
    BY <1>2, <1>3 DEF Lists
<1> HIDE DEF op
<1>6. op # NoOp BY <1>5, ListKinds
<1>7. r \in Clcb /\ Keeps(u, r) /\ r.ctx = u.ctx /\ r.op = op /\ r.req = u.req /\ r.asked = u.asked
    BY <1>1, <1>4, <1>5, OpReplaced
<1>8. Asking(c, r) BY <1>1, <1>7 DEF Asking
<1>9. Phased(r) BY <1>1, <1>5, <1>6, <1>7 DEF Phased, Keeps
<1>10. Chained(c, r) BY <1>1, <1>7 DEF Chained, Keeps
<1>11. Listed(r) BY <1>1, <1>5, <1>6, <1>7 DEF Listed, Keeps
<1>12. Subscribed(r) BY <1>1, <1>5, <1>6, <1>7 DEF Subscribed, Keeps
<1>13. Counted(r)
    <2> SUFFICES ASSUME "READ" \notin Refusable PROVE Counted(r) BY DEF Counted
    <2>1. ~r.ready BY <1>1, <1>7 DEF Keeps, Good, Phased
    <2>2. r.prof = s.prof /\ r.answered = u.answered BY <1>1, <1>7 DEF Keeps
    <2>3. CASE s.op.kind = "READ"
        <3>1. /\ Cardinality(Queued(u.req, "READ")) = s.op.ops - 1
              /\ s.op.ops # 0
              /\ \A p \in Wanted("READ", s.prof) :
                    \/ p \in s.op.todo
                    \/ Asked("READ", s.prof, p) \in u.answered
                    \/ \E i \in Queued(u.req, "READ") : Triple(u.req[i]) = Asked("READ", s.prof, p)
            BY <2>3, ReadsUnderWay DEF u
        <3>2. s.op.ops <= s.op.index BY <2>3 DEF Good, Counted
        <3>3. m = s.op.ops - 1 /\ m <= s.op.index 
            <4> DEFINE n == s.op.ops
                       k == s.op.index
            <4>1. n \in 0..255 /\ k \in Nat /\ n <= k BY <1>2, <3>2
            <4>2. m = n - 1 BY <1>3, <3>1
            <4> HIDE DEF n, k
            <4>3. m = n - 1 /\ m <= k BY <4>1, <4>2
            <4>4. QED BY <4>3 DEF n, k
        <3>4. QED BY <1>5, <1>6, <1>7, <2>1, <2>2, <2>3, <3>1, <3>3 DEF Counted
    <2>4. CASE s.op.kind # "READ"
        <3>1. Queued(s.req, "READ") = {} BY <2>4 DEF Good, Counted
        <3>2. Queued(u.req, "READ") = {}
            <4> DEFINE rd == "READ"
            <4>1. Queued(s.req, rd) = {} BY <3>1
            <4> HIDE DEF rd
            <4>2. \A i \in Queued(u.req, rd) : i + 1 \in Queued(s.req, rd) BY <1>1, QueuedLess
            <4>3. Queued(u.req, rd) = {} BY <4>1, <4>2
            <4>4. QED BY <4>3 DEF rd
        <3>3. QED BY <1>5, <1>7, <2>1, <2>4, <3>2 DEF Counted
    <2>5. QED BY <2>3, <2>4
<1>14. Good(c, r) BY <1>7, <1>8, <1>9, <1>10, <1>11, <1>12, <1>13 DEF Good
<1>15. r.refuse => s.refuse BY <1>1, <1>7 DEF Keeps
<1>16. QED BY <1>5, <1>6, <1>7, <1>14, <1>15 DEF r, u

\* gatt_intf_handle_gatt_operation_complete.
LEMMA OperationCompleteGood ==
    ASSUME NEW c \in Conns, NEW s, Good(c, s), s.req # <<>>,
           NEW t \in {"CCCD", "READ", "WRITE"}, Head(s.req).t = t, NEW b \in BOOLEAN
    PROVE  LET q == OperationComplete(Answered(s), t, b) IN Good(c, q) /\ (q.refuse => s.refuse)
<1> DEFINE u == Answered(s)
           counts == \/ u.op.kind = "READ" /\ t = "READ"
                     \/ u.op.kind = "CCCD" /\ t \in {"CCCD", "WRITE"}
           r == [u EXCEPT !.op.ops = CountDown(@)]
           q == OperationComplete(u, t, b)
<1>1. u.op = s.op BY AnsweredShape
<1>2. s.op = NoOp \/ s.op.kind \in {"READ", "CCCD"}
    <2>1. s.op \in {NoOp} \cup Lists BY DEF Good, Clcb
    <2>2. QED BY <2>1, ListKinds
<1>3. CASE ~counts
    <2>1. q = u BY <1>3 DEF OperationComplete
    <2>2. Head(s.req).t = "READ" => s.op = NoOp \/ s.op.kind # "READ" BY <1>1, <1>3
    <2>3. Good(c, u) /\ (u.refuse => s.refuse) BY <2>2, AnsweredGood
    <2>4. QED BY <2>1, <2>3
<1>4. CASE counts
    <2>1. s.op # NoOp
        <3>1. NoOp.kind = "NONE" BY DEF NoOp
        <3>2. QED BY <1>1, <1>4, <3>1
    <2>2. Head(s.req).t = "READ" <=> s.op.kind = "READ" BY <1>1, <1>4
    <2>3. Good(c, r) /\ r.op # NoOp /\ r.op.kind = s.op.kind /\ (r.refuse => s.refuse)
        BY <2>1, <2>2, CountedDownGood
    <2>4. q = IF IsComplete(r.op)
              THEN IF r.op.kind = "READ" THEN OnReadCmpl(r, b) ELSE OnEnableCmpl(r)
              ELSE IF r.op.index # r.op.cap THEN Execute(r) ELSE r
        BY <1>4 DEF OperationComplete
    <2> HIDE DEF r, q, u
    <2>5. CASE IsComplete(r.op) /\ r.op.kind = "READ"
        <3>1. q = OnReadCmpl(r, b) BY <2>4, <2>5
        <3>2. Good(c, q) /\ (q.refuse => r.refuse) BY <2>3, <2>5, <3>1, ReadCmplGood
        <3>3. QED BY <2>3, <3>2 DEF q, u
    <2>6. CASE IsComplete(r.op) /\ r.op.kind # "READ"
        <3>1. q = OnEnableCmpl(r) /\ r.op.kind = "CCCD" BY <1>2, <2>1, <2>3, <2>4, <2>6
        <3>2. Good(c, q) /\ (q.refuse => r.refuse) BY <2>3, <2>6, <3>1, EnableCmplGood
        <3>3. QED BY <2>3, <3>2 DEF q, u
    <2>7. CASE ~IsComplete(r.op) /\ r.op.index # r.op.cap
        <3>1. q = Execute(r) BY <2>4, <2>7
        <3>2. Good(c, q) /\ (q.refuse => r.refuse) BY <2>3, <3>1, ExecuteGood
        <3>3. QED BY <2>3, <3>2 DEF q, u
    <2>8. CASE ~IsComplete(r.op) /\ r.op.index = r.op.cap
        <3>1. q = r BY <2>4, <2>8
        <3>2. QED BY <2>3, <3>1 DEF q, u
    <2>9. QED BY <2>5, <2>6, <2>7, <2>8
<1>5. QED BY <1>3, <1>4

-----------------------------------------------------------------------------
(* The discovery of one service.                                            *)

\* A context is none, or that of its service.
LEMMA ContextShape ==
    ASSUME NEW x, x \in Contexts, x # NoCtx
    PROVE  x.svc \in Services /\ x \in Ctx(x.svc)
<1>1. PICK v \in Services : x \in Ctx(v) BY DEF Contexts
<1>2. x.svc = v BY <1>1 DEF Ctx
<1>3. QED BY <1>1, <1>2

\* The context of a service is one of the contexts, and not none.
LEMMA ContextOf ==
    ASSUME NEW v \in Services, NEW x, x \in Ctx(v)
    PROVE  /\ x \in Contexts /\ x # NoCtx /\ x.svc = v /\ x.st \in DiscoveryStates
           /\ x.chars \in Handles(v) /\ x.inc \in 0..2 /\ x.found \in BOOLEAN /\ x.last \in Nat
<1>1. /\ x.svc = v /\ x.st \in DiscoveryStates /\ x.chars \in Handles(v) /\ x.inc \in 0..2
      /\ x.found \in BOOLEAN /\ x.last \in Nat
    BY DEF Ctx
<1>2. NoCtx.svc = "NONE" BY DEF NoCtx
<1>3. v # "NONE" BY DEF Services, Primary, Aics
<1>4. x \in Contexts BY DEF Contexts
<1>5. QED BY <1>1, <1>2, <1>3, <1>4

\* gatt_intf_on_service_discovery_result: one more result is in the context.
LEMMA ResultStep ==
    ASSUME NEW c \in Conns, NEW v \in Services, NEW x, x \in Ctx(v), x.st \in Phases,
           NEW j \in Nat, j < Len(Results(c, v, x.st)), Progress(c, x, j)
    PROVE  LET y == OnResult(c, x, x.st, Results(c, v, x.st)[j + 1])
           IN  y \in Ctx(v) /\ y.st = x.st /\ Progress(c, y, j + 1)
<1> DEFINE R == Results(c, v, x.st)
           e == R[j + 1]
           y == OnResult(c, x, x.st, e)
           L == Len(Db[c][v])
<1>1. x.svc = v /\ x.inc \in 0..2 /\ x.last \in Nat BY ContextOf
<1>2. L \in Nat BY DbShape
<1>3. CASE x.st = "SERVICE"
    <2>1. y = [x EXCEPT !.found = TRUE] BY <1>3 DEF OnResult
    <2>2. /\ y \in Ctx(v) /\ y.st = x.st /\ y.svc = v /\ y.found = TRUE
          /\ y.chars = x.chars /\ y.inc = x.inc /\ y.last = x.last
        BY <1>1, <2>1 DEF Ctx
    <2>3. j + 1 > 0 OBVIOUS
    <2> HIDE DEF y
    <2>4. Progress(c, y, j + 1) BY <1>1, <1>3, <2>2, <2>3 DEF Progress
    <2>5. QED BY <2>2, <2>4 DEF y
<1>4. CASE x.st = "INCLUDE"
    <2>1. y = [x EXCEPT !.inc = IF @ < 2 THEN @ + 1 ELSE @] BY <1>4 DEF OnResult
    <2>2. x.inc = j /\ v = "MICS" BY <1>1, <1>4 DEF Progress
    <2>3. NumAics(c) \in 0..2 /\ Len(R) = NumAics(c) BY <1>4, AicsCounted, ResultsShape
    <2>4. j < 2 BY <2>3
    <2>5. j + 1 \in 0..2 BY <2>4
    <2>6. y = [x EXCEPT !.inc = j + 1] BY <2>1, <2>2, <2>4 DEF Ctx
    <2>7. /\ y \in Ctx(v) /\ y.st = x.st /\ y.svc = v /\ y.found = x.found
          /\ y.chars = x.chars /\ y.inc = j + 1 /\ y.last = x.last
        BY <1>1, <2>5, <2>6 DEF Ctx
    <2> HIDE DEF y
    <2>8. Progress(c, y, j + 1) BY <1>1, <1>4, <2>2, <2>7 DEF Progress
    <2>9. QED BY <2>7, <2>8 DEF y
<1>5. CASE x.st = "CHARS"
    <2>1. Len(R) = L /\ \A i \in 1..L : R[i] = i BY <1>5, ResultsShape
    <2>2. j < L /\ j + 1 \in 1..L BY <1>2, <2>1
    <2>3. e = j + 1 BY <2>1, <2>2
    <2>4. y = CharacteristicFound(x, Db[c][v][j + 1].type, j + 1) BY <1>1, <1>5, <2>3 DEF OnResult
    <2>5. FoundUpTo(c, v, x.chars, j) /\ DescribedUpTo(c, v, x.chars, 0) /\ x.last = 0
        BY <1>1, <1>5 DEF Progress
    <2>6. /\ y \in Ctx(v)
          /\ y.st = x.st /\ y.inc = x.inc /\ y.found = x.found /\ y.last = x.last
          /\ FoundUpTo(c, v, y.chars, j + 1) /\ DescribedUpTo(c, v, y.chars, 0)
        BY <2>2, <2>4, <2>5, NextFound
    <2> HIDE DEF y
    <2>7. y.svc = v BY <2>6, ContextOf
    <2>8. Progress(c, y, j + 1) BY <1>1, <1>5, <2>5, <2>6, <2>7 DEF Progress
    <2>9. QED BY <2>6, <2>8 DEF y
<1>6. CASE x.st = "DESCR"
    <2>1. Len(R) = 2 * L /\ \A i \in 1..(2 * L) : R[i] = [decl |-> i % 2 = 1, h |-> (i + 1) \div 2]
        BY <1>6, ResultsShape
    <2>2. j < 2 * L /\ j + 1 \in 1..(2 * L) BY <1>2, <2>1
    <2>3. e = [decl |-> (j + 1) % 2 = 1, h |-> (j + 2) \div 2]
        <3>1. e = [decl |-> (j + 1) % 2 = 1, h |-> ((j + 1) + 1) \div 2] BY <2>1, <2>2
        <3>2. (j + 1) + 1 = j + 2 OBVIOUS
        <3>3. QED BY <3>1, <3>2
    <2>4. /\ FoundUpTo(c, v, x.chars, L) /\ DescribedUpTo(c, v, x.chars, j)
          /\ x.last = (j + 1) \div 2
        BY <1>1, <1>6 DEF Progress
    <2>5. y = OnResult(c, x, "DESCR", e) BY <1>6
    <2> HIDE DEF e, y
    <2>6. /\ y \in Ctx(v)
          /\ y.st = x.st /\ y.inc = x.inc /\ y.found = x.found
          /\ y.last = (j + 2) \div 2
          /\ FoundUpTo(c, v, y.chars, L)
          /\ DescribedUpTo(c, v, y.chars, j + 1)
        BY <2>2, <2>3, <2>4, <2>5, NextDescribed
    <2>7. y.svc = v BY <2>6, ContextOf
    <2>8. y.last = ((j + 1) + 1) \div 2
        <3>1. (j + 1) + 1 = j + 2 OBVIOUS
        <3>2. QED BY <2>6, <3>1
    <2>9. Progress(c, y, j + 1) BY <1>1, <1>6, <2>6, <2>7, <2>8 DEF Progress
    <2>10. QED BY <2>6, <2>9 DEF e, y
<1>7. QED BY <1>3, <1>4, <1>5, <1>6 DEF Phases

\* When all results of a command are there, the context is ready for the next
\* phase; after the last one, or when the service is not there, the handles
\* are those of all its characteristics.
LEMMA PhaseStep ==
    ASSUME NEW c \in Conns, NEW v \in Services, NEW x, x \in Ctx(v), x.st \in Phases,
           Progress(c, x, Len(Results(c, v, x.st)))
    PROVE  LET nxt == NextPhase(v, x.st)
               y   == [x EXCEPT !.st = nxt]
           IN  /\ nxt # "COMPLETE" /\ x.found =>
                     nxt \in Phases /\ y \in Ctx(v) /\ y.st = nxt /\ Progress(c, y, 0)
               /\ nxt = "COMPLETE" \/ ~x.found =>
                     /\ Db[c][v] # <<>> => x.chars = Expected(c, v)
                     /\ v = "MICS" => x.inc = NumAics(c)
               /\ v = "MICS" => x.inc <= NumAics(c)
<1> DEFINE nxt == NextPhase(v, x.st)
           y   == [x EXCEPT !.st = nxt]
           L == Len(Db[c][v])
           A == NumAics(c)
           D == Db[c][v]
           n == Len(Results(c, v, x.st))
<1>1. x.svc = v /\ x.inc \in 0..2 /\ x.last \in Nat /\ x.chars \in Handles(v) /\ x.found \in BOOLEAN
    BY ContextOf
<1>2. L \in Nat /\ A \in 0..2 BY DbShape, AicsCounted
<1>3. ASSUME nxt \in Phases
      PROVE  /\ y \in Ctx(v) /\ y.st = nxt /\ y.svc = v /\ y.found = x.found
             /\ y.chars = x.chars /\ y.inc = x.inc /\ y.last = x.last
    <2>1. nxt \in DiscoveryStates BY <1>3 DEF Phases, DiscoveryStates
    <2> HIDE DEF nxt
    <2>2. QED BY <1>1, <2>1 DEF Ctx
<1> HIDE DEF y, A
<1>4. CASE x.st = "SERVICE"
    <2>1. n = (IF D = <<>> THEN 0 ELSE 1) BY <1>4, ResultsShape
    <2>2. /\ x.found <=> n > 0
          /\ FoundUpTo(c, v, x.chars, 0) /\ DescribedUpTo(c, v, x.chars, 0) /\ x.last = 0
          /\ x.inc = 0
        BY <1>1, <1>4 DEF Progress
    <2>3. x.found <=> D # <<>> BY <2>1, <2>2
    <2>4. nxt = (IF v = "MICS" THEN "INCLUDE" ELSE "CHARS") BY <1>4 DEF NextPhase
    <2>5. nxt \in Phases /\ nxt # "COMPLETE" BY <2>4 DEF Phases
    <2>6. v = "MICS" /\ D = <<>> => A = 0 BY AicsCounted DEF A
    <2> HIDE DEF nxt, n, L, D
    <2>7. x.found => Progress(c, y, 0) BY <1>1, <1>3, <2>2, <2>4, <2>5 DEF Progress
    <2>8. x.inc <= A BY <1>2, <2>2
    <2>9. QED BY <1>3, <2>2, <2>3, <2>5, <2>6, <2>7, <2>8 DEF nxt, y, A, D
<1>5. CASE x.st = "INCLUDE"
    <2>1. n = A BY <1>5, ResultsShape DEF A
    <2>2. /\ x.found /\ FoundUpTo(c, v, x.chars, 0) /\ DescribedUpTo(c, v, x.chars, 0)
          /\ x.last = 0 /\ v = "MICS" /\ x.inc = n
        BY <1>1, <1>5 DEF Progress
    <2>3. nxt = "CHARS" BY <1>5 DEF NextPhase
    <2>4. nxt \in Phases /\ nxt # "COMPLETE" BY <2>3 DEF Phases
    <2> HIDE DEF nxt, n, L, D
    <2>5. Progress(c, y, 0) BY <1>1, <1>3, <2>1, <2>2, <2>3, <2>4 DEF Progress, A
    <2>6. x.inc <= A BY <1>2, <2>1, <2>2
    <2>7. QED BY <1>3, <2>2, <2>4, <2>5, <2>6 DEF nxt, y, A
<1>6. CASE x.st = "CHARS"
    <2>1. n = L BY <1>6, ResultsShape
    <2>2. /\ x.found /\ FoundUpTo(c, v, x.chars, L) /\ DescribedUpTo(c, v, x.chars, 0)
          /\ x.last = 0 /\ (v = "MICS" => x.inc = A)
        BY <1>1, <1>6, <2>1 DEF Progress, A
    <2>3. nxt = "DESCR" BY <1>6 DEF NextPhase
    <2>4. nxt \in Phases /\ nxt # "COMPLETE" BY <2>3 DEF Phases
    <2>5. (0 + 1) \div 2 = 0 OBVIOUS
    <2> HIDE DEF nxt, n
    <2>6. Progress(c, y, 0) BY <1>1, <1>3, <2>2, <2>3, <2>4, <2>5 DEF Progress, A
    <2>7. v = "MICS" => x.inc <= A BY <1>2, <2>2
    <2>8. QED BY <1>3, <2>2, <2>4, <2>6, <2>7 DEF nxt, y, A
<1>7. CASE x.st = "DESCR"
    <2>1. n = 2 * L BY <1>7, ResultsShape
    <2>2. /\ x.found /\ FoundUpTo(c, v, x.chars, L) /\ DescribedUpTo(c, v, x.chars, 2 * L)
          /\ (v = "MICS" => x.inc = A)
        BY <1>1, <1>7, <2>1 DEF Progress, A
    <2>3. nxt = "COMPLETE" BY <1>7 DEF NextPhase
    <2>4. x.chars = Expected(c, v) BY <1>1, <2>2, AllFound
    <2>5. v = "MICS" => x.inc <= A BY <1>2, <2>2
    <2>6. QED BY <2>2, <2>3, <2>4, <2>5 DEF nxt, A
<1>8. QED BY <1>4, <1>5, <1>6, <1>7 DEF Phases
-----------------------------------------------------------------------------
(* The chain of services.                                                   *)

\* During the chain, when no discovery command is under way.
Between(c, s) ==
    /\ s \in Clcb /\ s.enc /\ s.op = NoOp
    /\ ~s.disc /\ ~s.hash /\ ~s.enabled /\ ~s.ready
    /\ s.aics <= NumAics(c) /\ Queued(s.req, "DISCOVER") = {}
    /\ "READ" \notin Refusable => Queued(s.req, "READ") = {}

\* It is the turn of service v.
TurnOf(c, s, v) ==
    "DISCOVER" \notin Refusable =>
        /\ Known(c, s.prof, Position(v) - 1)
        /\ v = "AICS1" => s.aics = NumAics(c)

\* Between two commands, at the turn of the context's service.
LEMMA BetweenGood ==
    ASSUME NEW c \in Conns, NEW s, Between(c, s), s.ctx # NoCtx => TurnOf(c, s, s.ctx.svc)
    PROVE  Good(c, s)
<1>1. Asking(c, s) BY DEF Between, Asking
<1>2. Phased(s) BY DEF Between, Phased
<1>3. Chained(c, s) BY DEF Between, Chained, TurnOf
<1>4. Listed(s) /\ Subscribed(s) BY DEF Between, Listed, Subscribed
<1>5. Counted(s) BY DEF Between, Counted
<1>6. QED BY <1>1, <1>2, <1>3, <1>4, <1>5 DEF Good, Between

\* What a refused request, or another context, leaves.
LEMMA BetweenKept ==
    ASSUME NEW c \in Conns, NEW s, Between(c, s), NEW q, q \in Clcb, Keeps(s, q),
           q.op = s.op, q.req = s.req
    PROVE  Between(c, q) /\ \A v \in Services : TurnOf(c, s, v) => TurnOf(c, q, v)
    BY DEF Between, Keeps, TurnOf

\* Another context.
LEMMA ContextReplaced ==
    ASSUME NEW s, s \in Clcb, NEW x, x \in Contexts
    PROVE  LET q == [s EXCEPT !.ctx = x]
           IN  /\ q \in Clcb /\ Keeps(s, q) /\ q.ctx = x /\ q.op = s.op
               /\ q.req = s.req /\ q.asked = s.asked /\ q.ok = s.ok /\ q.refuse = s.refuse
    BY DEF Clcb, Keeps

\* A discovery command is a request.
LEMMA CommandShape ==
    ASSUME NEW c \in Conns, NEW v \in Services, NEW st, st \in Phases
    PROVE  LET r == Command(v, st, Results(c, v, st))
           IN  /\ r \in Requests /\ r.t = "DISCOVER" /\ r.svc = v /\ r.st = st
               /\ r.left = Results(c, v, st)
<1> DEFINE R == Results(c, v, st)
           r == Command(v, st, R)
<1>1. R \in Seq(Elements) BY ResultsShape
<1> HIDE DEF R
<1>2. st \in DiscoveryStates /\ v \in Names BY DEF Phases, DiscoveryStates, Names
<1>3. r \in Requests /\ r.t = "DISCOVER" /\ r.svc = v /\ r.st = st /\ r.left = R
    BY <1>1, <1>2 DEF Command, Requests, Tags
<1>4. QED BY <1>3 DEF R

\* The command for the next phase of a context, queued or refused.
LEMMA DiscoverGood ==
    ASSUME NEW c \in Conns, NEW s, Between(c, s), NEW v \in Services, TurnOf(c, s, v),
           NEW st, st \in Phases, NEW x, x \in Ctx(v), x.st = st, Progress(c, x, 0)
    PROVE  LET q == [Discover(c, s, v, st) EXCEPT !.ctx = x]
           IN  Good(c, q) /\ (q.refuse => s.refuse)
<1> DEFINE R == Results(c, v, st)
           r == Command(v, st, R)
           d == Send(s, r)
           q == [d EXCEPT !.ctx = x]
<1>1. s \in Clcb BY DEF Between
<1>2. r \in Requests /\ r.t = "DISCOVER" /\ r.svc = v /\ r.st = st /\ r.left = R BY CommandShape
<1>3. Discover(c, s, v, st) = d BY DEF Discover
<1>4. x \in Contexts /\ x # NoCtx /\ x.svc = v BY ContextOf
<1>5. Left(R, R, 0)
    <2>1. R \in Seq(Elements) BY ResultsShape
    <2> HIDE DEF R
    <2>2. Len(R) \in Nat BY <2>1
    <2>3. \A i \in 1..Len(R) : i + 0 = i BY <2>2
    <2>4. QED BY <2>2, <2>3 DEF Left
<1> HIDE DEF r, R
<1>6. /\ d \in Clcb /\ Keeps(s, d) /\ d.ctx = s.ctx /\ d.op = s.op
      /\ d.ok => Longer(d.req, s.req, r)
      /\ ~d.ok => d.req = s.req
    BY <1>1, <1>2, SendShape
<1> HIDE DEF d
<1>7. /\ q \in Clcb /\ Keeps(d, q) /\ q.ctx = x /\ q.op = d.op /\ q.req = d.req
    BY <1>4, <1>6, ContextReplaced
<1>8. Keeps(s, q) /\ q.op = s.op BY <1>6, <1>7 DEF Keeps
<1>9. CASE ~d.ok
    <2>1. Between(c, q) /\ TurnOf(c, q, v) BY <1>6, <1>7, <1>8, <1>9, BetweenKept
    <2>2. Good(c, q) BY <1>4, <1>7, <2>1, BetweenGood
    <2>3. QED BY <1>3, <1>8, <2>2 DEF Keeps
<1>10. CASE d.ok
    <2> DEFINE dd == "DISCOVER"
               rd == "READ"
    <2>1. Longer(q.req, s.req, r) /\ r.t = dd /\ r.t # rd BY <1>2, <1>6, <1>7, <1>10
    <2>2. Queued(s.req, dd) = {} BY DEF Between
    <2> HIDE DEF dd, rd, q
    <2>3. PICK k : Queued(q.req, dd) = {k} /\ q.req[k] = r BY <2>1, <2>2, QueuedOnly
    <2>4. Queued(q.req, rd) = Queued(s.req, rd) BY <2>1, QueuedMore
    <2>5. Asks(c, q.ctx, r) BY <1>2, <1>4, <1>5, <1>7 DEF Asks, R
    <2>6. Asking(c, q) BY <2>3, <2>5 DEF Asking, dd
    <2>7. Phased(q) BY <1>8 DEF Between, Phased, Keeps
    <2>8. Chained(c, q) BY <1>4, <1>7, <1>8 DEF Between, Chained, TurnOf, Keeps
    <2>9. Listed(q) /\ Subscribed(q) BY <1>8 DEF Between, Listed, Subscribed, Keeps
    <2>10. Counted(q) BY <1>8, <2>4 DEF Between, Counted, Keeps, rd
    <2>11. Good(c, q) BY <1>7, <2>6, <2>7, <2>8, <2>9, <2>10 DEF Good
    <2>12. QED BY <1>3, <1>8, <2>11 DEF Keeps, q
<1>11. QED BY <1>9, <1>10

\* gatt_intf_internal_send_next_service_discovery_cmd: the next command is
\* sent, or the context is complete.
LEMMA SendNextGood ==
    ASSUME NEW c \in Conns, NEW s, Between(c, s), NEW v \in Services, TurnOf(c, s, v),
           s.ctx \in Ctx(v),
           LET nxt == NextPhase(v, s.ctx.st)
               y   == [s.ctx EXCEPT !.st = nxt]
           IN  nxt # "COMPLETE" /\ s.ctx.found =>
                   nxt \in Phases /\ y \in Ctx(v) /\ y.st = nxt /\ Progress(c, y, 0)
    PROVE  LET q == SendNext(c, s)
           IN  /\ Good(c, q) /\ (q.refuse => s.refuse) /\ q.ctx \in Ctx(v)
               /\ q.ctx.st = "COMPLETE" =>
                     /\ Between(c, q) /\ TurnOf(c, q, v)
                     /\ q.ctx.chars = s.ctx.chars /\ q.ctx.inc = s.ctx.inc
                     /\ "DISCOVER" \notin Refusable =>
                           NextPhase(v, s.ctx.st) = "COMPLETE" \/ ~s.ctx.found
<1> DEFINE nxt == NextPhase(v, s.ctx.st)
           y   == [s.ctx EXCEPT !.st = nxt]
           z   == [s.ctx EXCEPT !.st = "COMPLETE"]
           end == nxt = "COMPLETE" \/ ~s.ctx.found
           r   == IF end THEN [s EXCEPT !.ok = FALSE] ELSE Discover(c, s, v, nxt)
           q   == SendNext(c, s)
<1>1. s \in Clcb BY DEF Between
<1>2. s.ctx.svc = v BY ContextOf
<1>3. z \in Ctx(v) /\ z.st = "COMPLETE" /\ z.chars = s.ctx.chars /\ z.inc = s.ctx.inc
    BY DEF Ctx, DiscoveryStates
<1>4. z \in Contexts /\ z # NoCtx /\ z.svc = v BY <1>3, ContextOf
<1>5. ~end => nxt \in Phases /\ y \in Ctx(v) /\ y.st = nxt /\ Progress(c, y, 0) OBVIOUS
<1>6. /\ r \in Clcb /\ Keeps(s, r) /\ r.ctx = s.ctx /\ r.op = s.op
      /\ ~r.ok => r.req = s.req
      /\ "DISCOVER" \notin Refusable /\ ~r.ok => end
      /\ r.ok => ~end
    <2>1. CASE end
        <3>1. r = [s EXCEPT !.ok = FALSE] BY <2>1
        <3>2. QED BY <1>1, <2>1, <3>1 DEF Clcb, Keeps
    <2>2. CASE ~end
        <3> DEFINE m == Command(v, nxt, Results(c, v, nxt))
        <3>1. m \in Requests /\ m.t = "DISCOVER" BY <1>5, <2>2, CommandShape
        <3>2. r = Send(s, m) BY <2>2 DEF Discover
        <3> HIDE DEF m, r
        <3>3. /\ r \in Clcb /\ Keeps(s, r) /\ r.ctx = s.ctx /\ r.op = s.op
              /\ ~r.ok => r.req = s.req /\ m.t \in Refusable
            BY <1>1, <3>1, <3>2, SendShape
        <3>4. QED BY <2>2, <3>1, <3>3
    <2>3. QED BY <2>1, <2>2
<1>7. q = [r EXCEPT !.ctx = IF r.ok THEN y ELSE z]
    <2>1. q = [r EXCEPT !.ctx.st = IF r.ok THEN nxt ELSE "COMPLETE"] BY <1>2 DEF SendNext
    <2> HIDE DEF r, nxt, q
    <2>2. QED BY <1>6, <2>1 DEF Clcb
<1>8. CASE r.ok
    <2>1. ~end BY <1>6, <1>8
    <2>2. q = [Discover(c, s, v, nxt) EXCEPT !.ctx = y] BY <1>7, <1>8, <2>1
    <2>3. nxt \in Phases /\ y \in Ctx(v) /\ y.st = nxt /\ Progress(c, y, 0) BY <1>5, <2>1
    <2>4. y \in Contexts BY <2>3, ContextOf
    <2> HIDE DEF nxt, y, q
    <2>5. Good(c, q) /\ (q.refuse => s.refuse) BY <2>2, <2>3, DiscoverGood
    <2> HIDE DEF r
    <2>6. q.ctx = y BY <1>6, <1>7, <1>8, <2>4, ContextReplaced
    <2>7. q.ctx.st # "COMPLETE" BY <2>3, <2>6 DEF Phases
    <2>8. QED BY <2>3, <2>5, <2>6, <2>7 DEF q
<1>9. CASE ~r.ok
    <2>1. q = [r EXCEPT !.ctx = z] BY <1>7, <1>9
    <2> HIDE DEF r, z, q
    <2>2. q \in Clcb /\ Keeps(r, q) /\ q.ctx = z /\ q.op = r.op /\ q.req = r.req
        BY <1>4, <1>6, <2>1, ContextReplaced
    <2>3. Keeps(s, q) /\ q.op = s.op /\ q.req = s.req BY <1>6, <1>9, <2>2 DEF Keeps
    <2>4. Between(c, q) /\ TurnOf(c, q, v) BY <2>2, <2>3, BetweenKept
    <2>5. Good(c, q) BY <1>4, <2>2, <2>4, BetweenGood
    <2>6. QED BY <1>3, <1>6, <1>9, <2>2, <2>3, <2>4, <2>5 DEF Keeps, q
<1>10. QED BY <1>8, <1>9

\* A context that was just allocated.
LEMMA AllocShape ==
    ASSUME NEW c \in Conns, NEW v \in Services
    PROVE  LET x == AllocCtx(v)
           IN  /\ x \in Ctx(v) /\ x.svc = v /\ x.inc = 0 /\ ~x.found /\ x.last = 0
               /\ FoundUpTo(c, v, x.chars, 0) /\ DescribedUpTo(c, v, x.chars, 0)
<1> DEFINE chars == [i \in DOMAIN Slots[v] |-> NoHandle]
           x == AllocCtx(v)
<1>1. chars \in Handles(v) /\ FoundUpTo(c, v, chars, 0) /\ DescribedUpTo(c, v, chars, 0)
    BY NothingFound
<1>2. x = [svc |-> v, st |-> "IDLE", chars |-> chars, inc |-> 0, found |-> FALSE, last |-> 0]
    BY DEF AllocCtx
<1> HIDE DEF chars, x
<1>3. x \in Ctx(v) BY <1>1, <1>2 DEF Ctx, DiscoveryStates
<1>4. x.svc = v /\ x.inc = 0 /\ ~x.found /\ x.last = 0 /\ x.chars = chars BY <1>2
<1>5. QED BY <1>1, <1>3, <1>4 DEF x

\* gatt_intf_start_service_discovery.
LEMMA StartGood ==
    ASSUME NEW c \in Conns, NEW s, Between(c, s), NEW v \in Services, TurnOf(c, s, v)
    PROVE  LET q == StartServiceDiscovery(c, s, v) IN Good(c, q) /\ (q.refuse => s.refuse)
<1> DEFINE a == AllocCtx(v)
           x == [a EXCEPT !.st = "SERVICE"]
           sv == "SERVICE"
<1>1. /\ a \in Ctx(v) /\ a.svc = v /\ a.inc = 0 /\ ~a.found /\ a.last = 0
      /\ FoundUpTo(c, v, a.chars, 0) /\ DescribedUpTo(c, v, a.chars, 0)
    BY AllocShape
<1>2. StartServiceDiscovery(c, s, v) = [Discover(c, s, v, sv) EXCEPT !.ctx = x]
    BY DEF StartServiceDiscovery
<1> HIDE DEF a
<1>3. /\ x \in Ctx(v) /\ x.st = "SERVICE" /\ x.svc = a.svc /\ x.chars = a.chars
      /\ x.inc = a.inc /\ x.found = a.found /\ x.last = a.last
    BY <1>1 DEF Ctx, DiscoveryStates
<1> HIDE DEF x
<1>4. Progress(c, x, 0) BY <1>1, <1>3 DEF Progress
<1>5. sv \in Phases /\ x.st = sv BY <1>3 DEF Phases
<1> HIDE DEF sv
<1>6. QED BY <1>2, <1>3, <1>4, <1>5, DiscoverGood

\* gatt_intf_start_secondary_service_discovery.
LEMMA StartSecondaryGood ==
    ASSUME NEW c \in Conns, NEW s, Between(c, s), NEW v \in Services, v # "MICS", TurnOf(c, s, v)
    PROVE  LET q == StartSecondaryDiscovery(c, s, v) IN Good(c, q) /\ (q.refuse => s.refuse)
<1> DEFINE a == AllocCtx(v)
           x == [a EXCEPT !.st = "INCLUDE", !.found = TRUE]
           u == [s EXCEPT !.ctx = x]
           y == [x EXCEPT !.st = "CHARS"]
           q == SendNext(c, u)
<1>1. /\ a \in Ctx(v) /\ a.svc = v /\ a.inc = 0 /\ ~a.found /\ a.last = 0
      /\ FoundUpTo(c, v, a.chars, 0) /\ DescribedUpTo(c, v, a.chars, 0)
    BY AllocShape
<1>2. StartSecondaryDiscovery(c, s, v) = q BY DEF StartSecondaryDiscovery
<1> HIDE DEF a
<1>3. /\ x \in Ctx(v) /\ x.st = "INCLUDE" /\ x.svc = a.svc /\ x.chars = a.chars
      /\ x.inc = a.inc /\ x.found = TRUE /\ x.last = a.last
    BY <1>1 DEF Ctx, DiscoveryStates
<1> HIDE DEF x
<1>4. /\ y \in Ctx(v) /\ y.st = "CHARS" /\ y.svc = x.svc /\ y.chars = x.chars
      /\ y.inc = x.inc /\ y.found = x.found /\ y.last = x.last
    BY <1>3 DEF Ctx, DiscoveryStates
<1> HIDE DEF y
<1>5. Progress(c, y, 0) BY <1>1, <1>3, <1>4 DEF Progress
<1>6. x \in Contexts BY <1>3, ContextOf
<1>7. s \in Clcb BY DEF Between
<1>8. u \in Clcb /\ Keeps(s, u) /\ u.ctx = x /\ u.op = s.op /\ u.req = s.req /\ u.refuse = s.refuse
    BY <1>6, <1>7, ContextReplaced
<1> HIDE DEF u
<1>9. Between(c, u) /\ TurnOf(c, u, v) BY <1>8, BetweenKept
<1>10. NextPhase(v, u.ctx.st) = "CHARS" BY <1>3, <1>8 DEF NextPhase
<1>11. [u.ctx EXCEPT !.st = NextPhase(v, u.ctx.st)] = y BY <1>8, <1>10 DEF y
<1>12. NextPhase(v, u.ctx.st) \in Phases /\ y.st = NextPhase(v, u.ctx.st)
    BY <1>4, <1>10 DEF Phases
<1>13. u.ctx \in Ctx(v) BY <1>3, <1>8
<1>14. Good(c, q) /\ (q.refuse => u.refuse)
    BY <1>4, <1>5, <1>9, <1>11, <1>12, <1>13, SendNextGood
<1> HIDE DEF q
<1>15. QED BY <1>2, <1>8, <1>14

\* The chain.
LEMMA Positions ==
    /\ Position("ASCS") = 1 /\ Position("PACS") = 2 /\ Position("BASS") = 3
    /\ Position("VCS") = 4 /\ Position("MICS") = 5 /\ Position("AICS1") = 6
    /\ Position("AICS2") = 7 /\ Position("CSIS") = 8 /\ Position("GMAP") = 9
    /\ Position("HAS") = 10
    BY DEF Position

\* A service has one place in the chain.
LEMMA PositionShape ==
    ASSUME NEW v \in Services, NEW w \in Services
    PROVE  Position(v) \in 1..10 /\ (Position(v) = Position(w) => v = w)
    BY Positions DEF Services, Primary, Aics

\* Known handles, seen from the next service that is there.
LEMMA KnownNext ==
    ASSUME NEW c \in Conns, NEW f, NEW m \in 0..10, NEW n \in 0..10, Known(c, f, m),
           \A v \in Services : Position(v) > m /\ Position(v) <= n => Db[c][v] = <<>>
    PROVE  Known(c, f, n)
<1> SUFFICES ASSUME NEW v \in Services, Position(v) <= n, Db[c][v] # <<>>
             PROVE  f[v] = Expected(c, v)
    BY DEF Known
<1>1. Position(v) \in 1..10 BY PositionShape
<1>2. Position(v) <= m BY <1>1
<1>3. QED BY <1>2 DEF Known

\* lepl_cache_discovery_results_and_cleanup.
LEMMA CacheShape ==
    ASSUME NEW c \in Conns, NEW s, Between(c, s), NEW v \in Services, TurnOf(c, s, v),
           s.ctx \in Ctx(v),
           "DISCOVER" \notin Refusable => (Db[c][v] # <<>> => s.ctx.chars = Expected(c, v))
    PROVE  LET u == CacheResults(s)
           IN  /\ Between(c, u) /\ u.ctx = NoCtx /\ u.aics = s.aics /\ u.refuse = s.refuse
               /\ u.req = s.req /\ u.up = s.up
               /\ "DISCOVER" \notin Refusable => Known(c, u.prof, Position(v))
<1> DEFINE f == [s.prof EXCEPT ![v] = s.ctx.chars]
           u == CacheResults(s)
           no == NoCtx
<1>1. s \in Clcb /\ s.prof \in Profiles BY DEF Between, Clcb
<1>2. s.ctx.svc = v /\ s.ctx.chars \in Handles(v) BY ContextOf
<1>3. /\ s.prof \in [Services -> UNION {{<<>>} \cup Handles(w) : w \in Services}]
      /\ \A w \in Services : s.prof[w] = <<>> \/ s.prof[w] \in Handles(w)
    BY <1>1 DEF Profiles
<1>4. f[v] = s.ctx.chars /\ \A w \in Services : w # v => f[w] = s.prof[w] BY <1>3
<1>5. f \in Profiles
    <2>1. s.ctx.chars \in UNION {{<<>>} \cup Handles(w) : w \in Services} BY <1>2
    <2>2. f \in [Services -> UNION {{<<>>} \cup Handles(w) : w \in Services}] BY <1>3, <2>1
    <2>3. \A w \in Services : f[w] = <<>> \/ f[w] \in Handles(w) BY <1>2, <1>3, <1>4
    <2> HIDE DEF f
    <2>4. QED BY <2>2, <2>3 DEF Profiles
<1>6. u = [s EXCEPT !.prof = f, !.ctx = no] BY <1>1, <1>2 DEF CacheResults, Clcb
<1>7. no \in Contexts BY DEF Contexts
<1> HIDE DEF u, f, no
<1>8. /\ u \in Clcb /\ u.prof = f /\ u.ctx = no /\ u.enc = s.enc /\ u.op = s.op /\ u.disc = s.disc
      /\ u.hash = s.hash /\ u.enabled = s.enabled /\ u.ready = s.ready /\ u.aics = s.aics
      /\ u.req = s.req /\ u.refuse = s.refuse /\ u.up = s.up
    BY <1>1, <1>5, <1>6, <1>7 DEF Clcb
<1>9. Between(c, u) BY <1>8 DEF Between
<1>10. ASSUME "DISCOVER" \notin Refusable PROVE Known(c, f, Position(v))
    <2> SUFFICES ASSUME NEW w \in Services, Position(w) <= Position(v), Db[c][w] # <<>>
                 PROVE  f[w] = Expected(c, w)
        BY DEF Known
    <2>1. CASE w = v BY <1>4, <1>10, <2>1
    <2>2. CASE w # v
        <3>1. Position(v) \in 1..10 /\ Position(w) \in 1..10 /\ Position(w) # Position(v)
            BY <2>2, PositionShape
        <3>2. Position(w) <= Position(v) - 1 BY <3>1
        <3>3. s.prof[w] = Expected(c, w) BY <1>10, <3>2 DEF TurnOf, Known
        <3>4. QED BY <1>4, <2>2, <3>3
    <2>3. QED BY <2>1, <2>2
<1>11. QED BY <1>8, <1>9, <1>10 DEF u, no

\* A block whose chain of services is complete.
LEMMA DiscoveredGood ==
    ASSUME NEW c \in Conns, NEW u, Between(c, u), u.ctx = NoCtx,
           "DISCOVER" \notin Refusable => Known(c, u.prof, 10)
    PROVE  LET t == [u EXCEPT !.disc = TRUE]
           IN  /\ Good(c, t) /\ t.op = NoOp /\ t.ctx = NoCtx /\ t.enc /\ ~t.enabled /\ t.disc
               /\ t.refuse = u.refuse /\ t.req = u.req /\ t.up = u.up
<1> DEFINE t == [u EXCEPT !.disc = TRUE]
<1>1. u \in Clcb BY DEF Between
<1>2. /\ t \in Clcb /\ t.aics = u.aics /\ t.ctx = u.ctx /\ t.prof = u.prof /\ t.req = u.req
      /\ t.op = u.op /\ t.enc = u.enc /\ t.disc = TRUE /\ t.hash = u.hash
      /\ t.enabled = u.enabled /\ t.ready = u.ready /\ t.refuse = u.refuse /\ t.up = u.up
    BY <1>1 DEF Clcb
<1> HIDE DEF t
<1>3. Asking(c, t) BY <1>2 DEF Between, Asking
<1>4. Phased(t) BY <1>2 DEF Between, Phased
<1>5. Chained(c, t) BY <1>2 DEF Between, Chained
<1>6. Listed(t) /\ Subscribed(t) BY <1>2 DEF Between, Listed, Subscribed
<1>7. Counted(t) BY <1>2 DEF Between, Counted
<1>8. Good(c, t) BY <1>2, <1>3, <1>4, <1>5, <1>6, <1>7 DEF Good
<1>9. t.op = NoOp /\ t.ctx = NoCtx /\ t.enc /\ ~t.enabled /\ t.disc BY <1>2 DEF Between
<1>10. QED BY <1>2, <1>8, <1>9 DEF t

\* The callback of a service whose discovery is complete: its handles are
\* cached, and the next service has its turn.
LEMMA AppCallbackGood ==
    ASSUME NEW c \in Conns, NEW s, Between(c, s), NEW v \in Services, TurnOf(c, s, v),
           s.ctx \in Ctx(v),
           "DISCOVER" \notin Refusable =>
               /\ Db[c][v] # <<>> => s.ctx.chars = Expected(c, v)
               /\ v = "MICS" => s.ctx.inc = NumAics(c),
           v = "MICS" => s.ctx.inc <= NumAics(c)
    PROVE  LET q == AppCallback(c, s) IN Good(c, q) /\ (q.refuse => s.refuse)
<1> DEFINE u == CacheResults(s)
           q == AppCallback(c, s)
<1>1. s.ctx.svc = v /\ s.ctx.inc \in 0..2 BY ContextOf
<1>2. /\ Between(c, u) /\ u.ctx = NoCtx /\ u.aics = s.aics /\ u.refuse = s.refuse
      /\ "DISCOVER" \notin Refusable => Known(c, u.prof, Position(v))
    BY CacheShape
<1>3. NumAics(c) \in 0..2 /\ s.aics \in 0..2 /\ s.aics <= NumAics(c)
    BY AicsCounted DEF Between, Clcb
<1>4. ASSUME NEW w \in Services, NEW r, Between(c, r), r.refuse = s.refuse, TurnOf(c, r, w),
             q = StartServiceDiscovery(c, r, w)
      PROVE  Good(c, q) /\ (q.refuse => s.refuse)
    <2> HIDE DEF q
    <2>1. Good(c, q) /\ (q.refuse => r.refuse) BY <1>4, StartGood
    <2>2. QED BY <1>4, <2>1
<1>5. ASSUME NEW w \in Services, w # "MICS", NEW r, Between(c, r), r.refuse = s.refuse,
             TurnOf(c, r, w), q = StartSecondaryDiscovery(c, r, w)
      PROVE  Good(c, q) /\ (q.refuse => s.refuse)
    <2> HIDE DEF q
    <2>1. Good(c, q) /\ (q.refuse => r.refuse) BY <1>5, StartSecondaryGood
    <2>2. QED BY <1>5, <2>1
<1>6. ASSUME NEW w \in Services, w # "AICS1", Position(w) = Position(v) + 1
      PROVE  TurnOf(c, u, w)
    <2>1. Position(v) \in 1..10 BY PositionShape
    <2>2. Position(w) - 1 = Position(v) BY <1>6, <2>1
    <2> HIDE DEF u
    <2>3. QED BY <1>2, <1>6, <2>2 DEF TurnOf
<1>7. {"ASCS", "PACS", "BASS", "VCS", "MICS", "AICS1", "AICS2", "CSIS", "GMAP", "HAS"} = Services
    BY DEF Services, Primary, Aics
<1>8. CASE v = "ASCS"
    <2>1. q = StartServiceDiscovery(c, u, "PACS")
        BY <1>1, <1>8 DEF AppCallback, on_ascs_discovery_complete, pacs_discover_service, Aics
    <2>2. TurnOf(c, u, "PACS") BY <1>6, <1>7, <1>8, Positions
    <2> HIDE DEF u, q
    <2>3. Good(c, q) /\ (q.refuse => s.refuse) BY <1>2, <1>4, <1>7, <2>1, <2>2
    <2>4. QED BY <2>3 DEF q
<1>9. CASE v = "PACS"
    <2>1. q = StartServiceDiscovery(c, u, "BASS")
        BY <1>1, <1>9 DEF AppCallback, on_pacs_discovery_complete, bass_discover_service, Aics
    <2>2. TurnOf(c, u, "BASS") BY <1>6, <1>7, <1>9, Positions
    <2> HIDE DEF u, q
    <2>3. Good(c, q) /\ (q.refuse => s.refuse) BY <1>2, <1>4, <1>7, <2>1, <2>2
    <2>4. QED BY <2>3 DEF q
<1>10. CASE v = "BASS"
    <2>1. q = StartServiceDiscovery(c, u, "VCS")
        BY <1>1, <1>10 DEF AppCallback, on_bass_discovery_complete, vcs_discover_service, Aics
    <2>2. TurnOf(c, u, "VCS") BY <1>6, <1>7, <1>10, Positions
    <2> HIDE DEF u, q
    <2>3. Good(c, q) /\ (q.refuse => s.refuse) BY <1>2, <1>4, <1>7, <2>1, <2>2
    <2>4. QED BY <2>3 DEF q
<1>11. CASE v = "VCS"
    <2>1. q = StartServiceDiscovery(c, u, "MICS")
        BY <1>1, <1>11 DEF AppCallback, on_vcs_discovery_complete, mics_discover_service, Aics
    <2>2. TurnOf(c, u, "MICS") BY <1>6, <1>7, <1>11, Positions
    <2> HIDE DEF u, q
    <2>3. Good(c, q) /\ (q.refuse => s.refuse) BY <1>2, <1>4, <1>7, <2>1, <2>2
    <2>4. QED BY <2>3 DEF q
<1>12. CASE v = "CSIS"
    <2>1. q = StartServiceDiscovery(c, u, "GMAP")
        BY <1>1, <1>12 DEF AppCallback, on_csis_discovery_complete, gmap_discover_service, Aics
    <2>2. TurnOf(c, u, "GMAP") BY <1>6, <1>7, <1>12, Positions
    <2> HIDE DEF u, q
    <2>3. Good(c, q) /\ (q.refuse => s.refuse) BY <1>2, <1>4, <1>7, <2>1, <2>2
    <2>4. QED BY <2>3 DEF q
<1>13. CASE v = "GMAP"
    <2>1. q = StartServiceDiscovery(c, u, "HAS")
        BY <1>1, <1>13 DEF AppCallback, on_gmap_discovery_complete, has_discover_service, Aics
    <2>2. TurnOf(c, u, "HAS") BY <1>6, <1>7, <1>13, Positions
    <2> HIDE DEF u, q
    <2>3. Good(c, q) /\ (q.refuse => s.refuse) BY <1>2, <1>4, <1>7, <2>1, <2>2
    <2>4. QED BY <2>3 DEF q
<1>14. CASE v = "MICS"
    <2> DEFINE n == s.ctx.inc
               a == IF n > s.aics THEN n ELSE s.aics
               t == [s EXCEPT !.aics = a]
               r == CacheResults(t)
    <2>1. q = IF n > 0 THEN aics_discover_service(c, r, 1) ELSE csis_discover_service(c, r)
        <3>1. q = on_mics_discovery_complete(c, s) BY <1>1, <1>14 DEF AppCallback, Aics
        <3>2. QED BY <3>1 DEF on_mics_discovery_complete
    <2>2. /\ a \in 0..2 /\ a <= NumAics(c)
          /\ "DISCOVER" \notin Refusable => a = NumAics(c) /\ n = NumAics(c)
        <3> DEFINE A == NumAics(c)
                   b == s.aics
        <3>1. n \in 0..2 /\ A \in 0..2 /\ b \in 0..2 /\ b <= A /\ n <= A
              /\ ("DISCOVER" \notin Refusable => n = A)
            BY <1>1, <1>3, <1>14
        <3>2. a = IF n > b THEN n ELSE b OBVIOUS
        <3> HIDE DEF A, b, n, a
        <3>3. a \in 0..2 /\ a <= A /\ ("DISCOVER" \notin Refusable => a = A /\ n = A) BY <3>1, <3>2
        <3>4. QED BY <3>3 DEF A
    <2> HIDE DEF a
    <2>3. s \in Clcb BY DEF Between
    <2>4. /\ t \in Clcb /\ t.aics = a /\ t.ctx = s.ctx /\ t.prof = s.prof /\ t.req = s.req
          /\ t.op = s.op /\ t.enc = s.enc /\ t.disc = s.disc /\ t.hash = s.hash
          /\ t.enabled = s.enabled /\ t.ready = s.ready /\ t.refuse = s.refuse
        BY <2>2, <2>3 DEF Clcb
    <2> HIDE DEF t
    <2>5. Between(c, t) BY <2>2, <2>4 DEF Between
    <2>6. TurnOf(c, t, v) BY <1>14, <2>4 DEF TurnOf
    <2>7. /\ Between(c, r) /\ r.aics = a /\ r.refuse = s.refuse
          /\ "DISCOVER" \notin Refusable => Known(c, r.prof, Position(v))
        BY <2>4, <2>5, <2>6, CacheShape
    <2>8. CASE n > 0
        <3>1. q = StartSecondaryDiscovery(c, r, "AICS1") BY <2>1, <2>8 DEF aics_discover_service
        <3> HIDE DEF r, q
        <3>2. "DISCOVER" \notin Refusable => Known(c, r.prof, Position("AICS1") - 1)
            BY <1>14, <2>7, Positions
        <3>3. TurnOf(c, r, "AICS1") BY <2>2, <2>7, <3>2 DEF TurnOf
        <3>4. Good(c, q) /\ (q.refuse => s.refuse) BY <1>5, <1>7, <2>7, <3>1, <3>3
        <3>5. QED BY <3>4 DEF q
    <2>9. CASE ~(n > 0)
        <3>1. q = StartServiceDiscovery(c, r, "CSIS") BY <2>1, <2>9 DEF csis_discover_service
        <3>2. n = 0 BY <1>1, <2>9
        <3> HIDE DEF r, q
        <3>3. ASSUME "DISCOVER" \notin Refusable PROVE Known(c, r.prof, 7)
            <4>1. Db[c]["AICS1"] = <<>> /\ Db[c]["AICS2"] = <<>> BY <2>2, <3>2, <3>3, AicsCounted
            <4>2. Known(c, r.prof, 5) BY <1>14, <2>7, <3>3, Positions
            <4>3. \A w \in Services : Position(w) > 5 /\ Position(w) <= 7 => w \in {"AICS1", "AICS2"}
                BY Positions DEF Services, Primary, Aics
            <4>4. \A w \in Services : Position(w) > 5 /\ Position(w) <= 7 => Db[c][w] = <<>>
                BY <4>1, <4>3
            <4>5. QED BY <4>2, <4>4, KnownNext
        <3>4. TurnOf(c, r, "CSIS") BY <3>3, Positions DEF TurnOf
        <3>5. Good(c, q) /\ (q.refuse => s.refuse) BY <1>4, <1>7, <2>7, <3>1, <3>4
        <3>6. QED BY <3>5 DEF q
    <2>10. QED BY <2>8, <2>9
<1>15. CASE v \in Aics
    <2>1. q = on_aics_discovery_complete(c, s) BY <1>1, <1>15 DEF AppCallback, Aics
    <2>2. CASE v = "AICS1" /\ s.aics = 2
        <3>1. q = StartSecondaryDiscovery(c, u, "AICS2")
            BY <1>1, <2>1, <2>2 DEF on_aics_discovery_complete, aics_discover_service
        <3>2. TurnOf(c, u, "AICS2") BY <1>6, <1>7, <2>2, Positions
        <3> HIDE DEF u, q
        <3>3. Good(c, q) /\ (q.refuse => s.refuse) BY <1>2, <1>5, <1>7, <3>1, <3>2
        <3>4. QED BY <3>3 DEF q
    <2>3. CASE ~(v = "AICS1" /\ s.aics = 2)
        <3>1. q = StartServiceDiscovery(c, u, "CSIS")
            BY <1>1, <2>1, <2>3 DEF on_aics_discovery_complete, csis_discover_service
        <3> HIDE DEF u, q
        <3>2. ASSUME "DISCOVER" \notin Refusable PROVE Known(c, u.prof, 7)
            <4>1. CASE v = "AICS2" BY <1>2, <3>2, <4>1, Positions
            <4>2. CASE v = "AICS1"
                <5>1. NumAics(c) # 2 BY <2>3, <3>2, <4>2 DEF TurnOf
                <5>2. Db[c]["AICS2"] = <<>> BY <5>1, AicsCounted
                <5>3. Known(c, u.prof, 6) BY <1>2, <3>2, <4>2, Positions
                <5>4. \A w \in Services : Position(w) > 6 /\ Position(w) <= 7 => w = "AICS2"
                    BY Positions DEF Services, Primary, Aics
                <5>5. \A w \in Services : Position(w) > 6 /\ Position(w) <= 7 => Db[c][w] = <<>>
                    BY <5>2, <5>4
                <5>6. QED BY <5>3, <5>5, KnownNext
            <4>3. QED BY <1>15, <4>1, <4>2 DEF Aics
        <3>3. TurnOf(c, u, "CSIS") BY <3>2, Positions DEF TurnOf
        <3>4. Good(c, q) /\ (q.refuse => s.refuse) BY <1>2, <1>4, <1>7, <3>1, <3>3
        <3>5. QED BY <3>4 DEF q
    <2>4. QED BY <2>2, <2>3
<1>16. CASE v = "HAS"
    <2> DEFINE t == [u EXCEPT !.disc = TRUE]
    <2>1. q = EnableAppNotifications(t)
        BY <1>1, <1>16 DEF AppCallback, on_has_discovery_complete, HandleDiscoveryComplete, Aics
    <2>2. "DISCOVER" \notin Refusable => Known(c, u.prof, 10) BY <1>2, <1>16, Positions
    <2> HIDE DEF u, q
    <2>3. /\ Good(c, t) /\ t.op = NoOp /\ t.ctx = NoCtx /\ t.enc /\ ~t.enabled /\ t.disc
          /\ t.refuse = u.refuse
        BY <1>2, <2>2, DiscoveredGood
    <2> HIDE DEF t
    <2>4. Good(c, q) /\ (q.refuse => t.refuse) BY <2>1, <2>3, StartEnables
    <2>5. QED BY <1>2, <2>3, <2>4 DEF q
<1>17. QED BY <1>7, <1>8, <1>9, <1>10, <1>11, <1>12, <1>13, <1>14, <1>15, <1>16 DEF Aics

\* The first request in the queue is a discovery command.
LEMMA HeadAsks ==
    ASSUME NEW c \in Conns, NEW s, Good(c, s), s.req # <<>>, Head(s.req).t = "DISCOVER"
    PROVE  /\ s \in Clcb /\ s.req \in Seq(Requests) /\ s.req[1] \in Requests
           /\ Head(s.req) = s.req[1] /\ 1 \in 1..Len(s.req)
           /\ Asks(c, s.ctx, s.req[1]) /\ Queued(s.req, "DISCOVER") = {1}
           /\ s.ctx # NoCtx /\ s.ctx.svc \in Services /\ s.ctx \in Ctx(s.ctx.svc)
           /\ TurnOf(c, s, s.ctx.svc)
<1>1. s \in Clcb /\ s.req \in Seq(Requests) /\ s.ctx \in Contexts BY DEF Good, Clcb
<1>2. Head(s.req) = s.req[1] /\ 1 \in 1..Len(s.req) /\ s.req[1] \in Requests BY <1>1
<1>3. 1 \in Queued(s.req, "DISCOVER") BY <1>2 DEF Queued
<1>4. \A i, j \in Queued(s.req, "DISCOVER") : i = j BY DEF Good, Asking
<1>5. Queued(s.req, "DISCOVER") = {1} BY <1>3, <1>4
<1>6. Asks(c, s.ctx, s.req[1]) BY <1>3 DEF Good, Asking
<1>7. s.ctx # NoCtx BY <1>6 DEF Asks
<1>8. s.ctx.svc \in Services /\ s.ctx \in Ctx(s.ctx.svc) BY <1>1, <1>7, ContextShape
<1>9. TurnOf(c, s, s.ctx.svc) BY <1>7 DEF Good, Chained, TurnOf
<1>10. QED BY <1>1, <1>2, <1>5, <1>6, <1>7, <1>8, <1>9

\* A discovery command is complete, or failed.
LEMMA PoppedShape ==
    ASSUME NEW c \in Conns, NEW s, Good(c, s), s.req # <<>>, Head(s.req).t = "DISCOVER"
    PROVE  LET u == Popped(s)
           IN  /\ Between(c, u) /\ u.ctx = s.ctx /\ u.refuse = s.refuse
               /\ TurnOf(c, u, s.ctx.svc)
<1> DEFINE rest == Tail(s.req)
           u == Popped(s)
           dd == "DISCOVER"
           rd == "READ"
<1>1. /\ s \in Clcb /\ s.req \in Seq(Requests) /\ Head(s.req) = s.req[1]
      /\ Queued(s.req, dd) = {1} /\ s.ctx # NoCtx /\ TurnOf(c, s, s.ctx.svc)
    BY HeadAsks
<1>2. s.enc /\ s.op = NoOp /\ ~s.disc /\ ~s.hash /\ ~s.enabled /\ ~s.ready BY <1>1 DEF Good, Phased
<1>3. Shorter(rest, s.req) BY <1>1, QueueOps
<1>4. rest \in Seq(Requests) BY <1>3 DEF Shorter
<1>5. u = [s EXCEPT !.req = rest] BY DEF Popped
<1>6. s.req[1].t = dd /\ s.req[1].t # rd BY <1>1
<1>7. "READ" \notin Refusable => Queued(s.req, rd) = {} BY <1>2 DEF Good, Counted
<1> HIDE DEF rest, u, dd, rd
<1>8. /\ u \in Clcb /\ u.req = rest /\ u.ctx = s.ctx /\ u.op = s.op /\ u.enc = s.enc
      /\ u.disc = s.disc /\ u.hash = s.hash /\ u.enabled = s.enabled /\ u.ready = s.ready
      /\ u.prof = s.prof /\ u.aics = s.aics /\ u.refuse = s.refuse
    BY <1>1, <1>4, <1>5 DEF Clcb
<1>9. Queued(rest, dd) = {}
    <2>1. \A i \in Queued(rest, dd) : i + 1 \in Queued(s.req, dd) /\ i \in Nat BY <1>3, QueuedLess
    <2>2. \A i \in Queued(rest, dd) : i + 1 = 1 /\ i \in Nat BY <1>1, <2>1
    <2>3. \A i \in Queued(rest, dd) : i \in 1..Len(rest) BY DEF Queued
    <2>4. Len(rest) \in Nat BY <1>4
    <2>5. QED BY <2>2, <2>3, <2>4
<1>10. "READ" \notin Refusable => Queued(rest, rd) = {}
    <2>1. \A i \in Queued(rest, rd) : i + 1 \in Queued(s.req, rd) BY <1>3, QueuedLess
    <2>2. QED BY <1>7, <2>1
<1>11. s.aics <= NumAics(c) BY DEF Good, Chained
<1>12. Between(c, u) BY <1>2, <1>8, <1>9, <1>10, <1>11 DEF Between, dd, rd
<1>13. TurnOf(c, u, s.ctx.svc) BY <1>1, <1>8 DEF TurnOf
<1>14. QED BY <1>8, <1>12, <1>13 DEF u

\* GATT_DISCOVERY_CPLT_EVT: the next phase, or the next service.
LEMMA DiscoveryCompleteGood ==
    ASSUME NEW c \in Conns, NEW s, Good(c, s), s.req # <<>>, Head(s.req).t = "DISCOVER",
           Head(s.req).left = <<>>
    PROVE  LET q == OnDiscoveryComplete(c, Popped(s)) IN Good(c, q) /\ (q.refuse => s.refuse)
<1> DEFINE u == Popped(s)
           v == s.ctx.svc
           st == s.ctx.st
           R == Results(c, v, st)
           r == SendNext(c, u)
           d == IF r.ctx.st = "COMPLETE" THEN AppCallback(c, r) ELSE r
           no == NoCtx
           q == IF d.ctx # NoCtx /\ d.ctx.st = "COMPLETE" THEN [d EXCEPT !.ctx = no] ELSE d
<1>1. /\ Head(s.req) = s.req[1] /\ Asks(c, s.ctx, s.req[1]) /\ v \in Services /\ s.ctx \in Ctx(v)
    BY HeadAsks
<1>2. Between(c, u) /\ u.ctx = s.ctx /\ u.refuse = s.refuse /\ TurnOf(c, u, v) BY PoppedShape
<1>3. q = OnDiscoveryComplete(c, Popped(s)) BY DEF OnDiscoveryComplete
<1>4. st \in Phases /\ Progress(c, s.ctx, Len(R))
    <2>1. s.req[1].svc = v /\ s.req[1].st = st /\ st \in Phases BY <1>1 DEF Asks
    <2>2. PICK j \in Nat : Left(s.req[1].left, R, j) /\ Progress(c, s.ctx, j)
        BY <1>1, <2>1 DEF Asks
    <2>3. Left(<<>>, R, j) BY <1>1, <2>2
    <2>4. Len(R) = Len(<<>>) + j BY <2>3 DEF Left
    <2>5. Len(R) = j BY <2>4
    <2>6. QED BY <2>1, <2>2, <2>5
<1> HIDE DEF u, R
<1> DEFINE nxt == NextPhase(v, u.ctx.st)
           y   == [u.ctx EXCEPT !.st = nxt]
<1>5. /\ nxt # "COMPLETE" /\ u.ctx.found =>
            nxt \in Phases /\ y \in Ctx(v) /\ y.st = nxt /\ Progress(c, y, 0)
      /\ nxt = "COMPLETE" \/ ~u.ctx.found =>
            /\ Db[c][v] # <<>> => u.ctx.chars = Expected(c, v)
            /\ v = "MICS" => u.ctx.inc = NumAics(c)
      /\ v = "MICS" => u.ctx.inc <= NumAics(c)
    BY <1>1, <1>2, <1>4, PhaseStep DEF R
<1> HIDE DEF y
<1>6. /\ Good(c, r) /\ (r.refuse => u.refuse) /\ r.ctx \in Ctx(v)
      /\ r.ctx.st = "COMPLETE" =>
            /\ Between(c, r) /\ TurnOf(c, r, v)
            /\ r.ctx.chars = u.ctx.chars /\ r.ctx.inc = u.ctx.inc
            /\ "DISCOVER" \notin Refusable => nxt = "COMPLETE" \/ ~u.ctx.found
    BY <1>1, <1>2, <1>5, SendNextGood DEF y
<1> HIDE DEF r, nxt, v
<1>7. Good(c, d) /\ (d.refuse => s.refuse)
    <2>1. CASE r.ctx.st # "COMPLETE" BY <1>2, <1>6, <2>1
    <2>2. CASE r.ctx.st = "COMPLETE"
        <3> DEFINE a == AppCallback(c, r)
        <3>1. d = a BY <2>2
        <3>2. "DISCOVER" \notin Refusable =>
                 /\ Db[c][v] # <<>> => r.ctx.chars = Expected(c, v)
                 /\ v = "MICS" => r.ctx.inc = NumAics(c)
            BY <1>5, <1>6, <2>2
        <3>3. v = "MICS" => r.ctx.inc <= NumAics(c) BY <1>5, <1>6, <2>2
        <3>4. v \in Services /\ Between(c, r) /\ TurnOf(c, r, v) /\ r.ctx \in Ctx(v)
            BY <1>1, <1>6, <2>2
        <3>5. Good(c, a) /\ (a.refuse => r.refuse) BY <3>2, <3>3, <3>4, AppCallbackGood
        <3> HIDE DEF a, d
        <3>6. QED BY <1>2, <1>6, <3>1, <3>5
    <2>3. QED BY <2>1, <2>2
<1> HIDE DEF d
<1>8. Good(c, q) /\ (q.refuse => s.refuse)
    <2>1. CASE ~(d.ctx # NoCtx /\ d.ctx.st = "COMPLETE") BY <1>7, <2>1
    <2>2. CASE d.ctx # NoCtx /\ d.ctx.st = "COMPLETE"
        <3>1. q = [d EXCEPT !.ctx = no] /\ no = NoCtx BY <2>2
        <3>2. no \in Contexts BY DEF Contexts
        <3>3. d \in Clcb BY <1>7 DEF Good
        <3> HIDE DEF q, no
        <3>4. /\ q \in Clcb /\ Keeps(d, q) /\ q.ctx = no /\ q.op = d.op
              /\ q.req = d.req /\ q.asked = d.asked /\ q.refuse = d.refuse
            BY <3>1, <3>2, <3>3, ContextReplaced
        <3>5. \A i \in Queued(d.req, "DISCOVER") : FALSE
            <4>1. "COMPLETE" \notin Phases BY DEF Phases
            <4>2. \A i \in Queued(d.req, "DISCOVER") : Asks(c, d.ctx, d.req[i]) BY <1>7 DEF Good, Asking
            <4>3. QED BY <2>2, <4>1, <4>2 DEF Asks
        <3>6. Asking(c, q) BY <3>4, <3>5 DEF Asking
        <3>7. d.op = NoOp /\ ~d.disc /\ ~d.hash /\ ~d.enabled /\ ~d.ready /\ d.enc
            BY <1>7, <2>2 DEF Good, Phased
        <3>8. Phased(q) BY <3>4, <3>7 DEF Phased, Keeps
        <3>9. Chained(c, q) BY <1>7, <3>1, <3>4, <3>7 DEF Good, Chained, Keeps
        <3>10. Listed(q) /\ Subscribed(q) BY <3>4, <3>7 DEF Listed, Subscribed, Keeps
        <3>11. Counted(q) BY <1>7, <3>4, <3>7 DEF Good, Counted, Keeps
        <3>12. QED BY <1>7, <3>4, <3>6, <3>8, <3>9, <3>10, <3>11 DEF Good
    <2>3. QED BY <2>1, <2>2
<1>9. QED BY <1>3, <1>8

\* GATT_DISCOVERY_RESULT_EVT: one result less to come.
LEMMA ResultGood ==
    ASSUME NEW c \in Conns, NEW s, Good(c, s), s.req # <<>>, Head(s.req).t = "DISCOVER",
           Head(s.req).left # <<>>
    PROVE  LET q == Delivered(c, s)
           IN  /\ Good(c, q) /\ q.refuse = s.refuse
               /\ q.ctx # NoCtx /\ q.op = s.op /\ q.up = s.up
               /\ \A t : Queued(q.req, t) = Queued(s.req, t)
<1> DEFINE h == s.req[1]
           x == s.ctx
           v == x.svc
           R == Results(c, v, x.st)
           left == Tail(h.left)
           e == Head(h.left)
           y == OnResult(c, x, x.st, e)
           g == [h EXCEPT !.left = left]
           p == [s.req EXCEPT ![1] = g]
           q == [s EXCEPT !.req = p, !.ctx = y]
<1>1. /\ s \in Clcb /\ s.req \in Seq(Requests) /\ h \in Requests /\ Head(s.req) = h
      /\ 1 \in 1..Len(s.req) /\ Asks(c, x, h) /\ Queued(s.req, "DISCOVER") = {1}
      /\ x # NoCtx /\ v \in Services /\ x \in Ctx(v)
    BY HeadAsks
<1>2. h.svc = v /\ h.st = x.st /\ x.st \in Phases BY <1>1 DEF Asks
<1>3. PICK j \in Nat : Left(h.left, R, j) /\ Progress(c, x, j) BY <1>1, <1>2 DEF Asks
<1>4. h.left \in Seq(Elements) /\ h.left # <<>> BY <1>1 DEF Requests
<1>5. Delivered(c, s) = q BY <1>1, <1>2 DEF Clcb, Delivered
<1> HIDE DEF h
<1>6. /\ Left(left, R, j + 1) /\ e = R[j + 1] /\ j < Len(R) /\ left \in Seq(Elements)
    <2> DEFINE l == h.left
    <2>1. l \in Seq(Elements) /\ l # <<>> BY <1>4
    <2>2. Len(R) = Len(l) + j /\ \A i \in 1..Len(l) : l[i] = R[i + j] BY <1>3 DEF Left
    <2>3. R \in Seq(Elements) BY <1>1, <1>2, ResultsShape
    <2> HIDE DEF l, R
    <2>4. Len(l) \in Nat /\ Len(l) > 0 /\ Head(l) = l[1] /\ Tail(l) \in Seq(Elements) BY <2>1
    <2>5. Len(Tail(l)) = Len(l) - 1 /\ \A i \in 1..Len(Tail(l)) : Tail(l)[i] = l[i + 1] BY <2>1
    <2>6. Len(R) \in Nat BY <2>3
    <2>7. Head(l) = R[j + 1]
        <3>1. 1 \in 1..Len(l) BY <2>4
        <3>2. l[1] = R[1 + j] BY <2>2, <3>1
        <3>3. 1 + j = j + 1 OBVIOUS
        <3>4. QED BY <2>4, <3>2, <3>3
    <2>8. ASSUME NEW i \in 1..Len(Tail(l)) PROVE Tail(l)[i] = R[i + (j + 1)]
        <3>1. i + 1 \in 1..Len(l) BY <2>4, <2>5
        <3>2. l[i + 1] = R[(i + 1) + j] BY <2>2, <3>1
        <3>3. (i + 1) + j = i + (j + 1) BY <2>4, <2>5
        <3>4. QED BY <2>5, <3>2, <3>3
    <2>9. Len(R) = Len(Tail(l)) + (j + 1) BY <2>2, <2>4, <2>5
    <2>10. j < Len(R) BY <2>2, <2>4
    <2>11. Left(Tail(l), R, j + 1) BY <2>8, <2>9 DEF Left
    <2>12. QED BY <2>4, <2>7, <2>10, <2>11 DEF l
<1>7. y \in Ctx(v) /\ y.st = x.st /\ Progress(c, y, j + 1)
    BY <1>1, <1>2, <1>3, <1>6, ResultStep
<1>8. y \in Contexts /\ y # NoCtx /\ y.svc = v BY <1>1, <1>7, ContextOf
<1> HIDE DEF y, left
<1>9. /\ g \in Requests /\ g.t = h.t /\ g.svc = h.svc /\ g.st = h.st /\ g.left = left
    BY <1>1, <1>6 DEF Requests
<1>10. h.t = "DISCOVER" BY <1>1
<1> HIDE DEF g
<1>11. /\ p \in Seq(Requests) /\ Len(p) = Len(s.req) /\ p[1] = g
       /\ \A i \in 1..Len(s.req) : i # 1 => p[i] = s.req[i]
    BY <1>1, <1>9
<1> HIDE DEF p
<1>12. /\ q \in Clcb /\ q.req = p /\ q.ctx = y /\ q.op = s.op /\ q.enc = s.enc
       /\ q.disc = s.disc /\ q.hash = s.hash /\ q.enabled = s.enabled /\ q.ready = s.ready
       /\ q.prof = s.prof /\ q.aics = s.aics /\ q.refuse = s.refuse /\ q.up = s.up
    BY <1>1, <1>8, <1>11 DEF Clcb
<1> HIDE DEF q
<1>13. ASSUME NEW t PROVE Queued(p, t) = Queued(s.req, t)
    <2>1. \A i \in 1..Len(s.req) : p[i].t = s.req[i].t BY <1>9, <1>11 DEF h
    <2>2. QED BY <1>11, <2>1 DEF Queued
<1>14. Asks(c, y, g)
    <2>1. g.svc = v /\ g.st = x.st /\ g.st \in Phases BY <1>2, <1>9
    <2>2. Left(g.left, Results(c, g.svc, g.st), j + 1) BY <1>6, <1>9, <2>1
    <2>3. j + 1 \in Nat OBVIOUS
    <2>4. QED BY <1>7, <1>8, <2>1, <2>2, <2>3 DEF Asks
<1>15. Asking(c, q)
    <2>1. Queued(q.req, "DISCOVER") = {1} BY <1>1, <1>12, <1>13
    <2>2. QED BY <1>11, <1>12, <1>14, <2>1 DEF Asking
<1>16. s.enc /\ s.op = NoOp /\ ~s.disc /\ ~s.hash /\ ~s.enabled /\ ~s.ready
    BY <1>1 DEF Good, Phased
<1>17. Phased(q) BY <1>12, <1>16 DEF Phased
<1>18. Chained(c, q) BY <1>1, <1>8, <1>12, <1>16 DEF Good, Chained
<1>19. Listed(q) /\ Subscribed(q) BY <1>12, <1>16 DEF Listed, Subscribed
<1>20. Counted(q)
    <2>1. "READ" \notin Refusable => Queued(s.req, "READ") = {} BY <1>16 DEF Good, Counted
    <2>2. Queued(p, "READ") = Queued(s.req, "READ") BY <1>13
    <2>3. QED BY <1>12, <1>16, <2>1, <2>2 DEF Counted
<1>21. Good(c, q) BY <1>12, <1>15, <1>17, <1>18, <1>19, <1>20 DEF Good
<1>22. QED BY <1>5, <1>8, <1>12, <1>13, <1>21
-----------------------------------------------------------------------------
(* The events of the stack.                                                 *)

\* A free control block.
LEMMA FreeGood ==
    ASSUME NEW c \in Conns
    PROVE  FreeClcb \in Clcb /\ Good(c, FreeClcb) /\ ~FreeClcb.refuse /\ FreeClcb.prof \in Profiles
<1> DEFINE s == FreeClcb
           f == [v \in Services |-> <<>>]
           nq == <<>>
           no == NoOp
           nc == NoCtx
<1>1. f \in Profiles BY DEF Profiles
<1>2. nq \in Seq(Requests) /\ Len(nq) = 0 OBVIOUS
<1>3. no \in {NoOp} \cup Lists /\ nc \in Contexts BY DEF Contexts
<1>4. s = [up |-> FALSE, enc |-> FALSE, mtu |-> FALSE, disc |-> FALSE,
           enabled |-> FALSE, ready |-> FALSE, hash |-> FALSE,
           prof |-> f, aics |-> 0, ctx |-> nc, op |-> no, req |-> nq,
           asked |-> {}, answered |-> {}, ok |-> TRUE, refuse |-> FALSE]
    BY DEF FreeClcb
<1> HIDE DEF s, f, nq, no, nc
<1>5. s \in Clcb BY <1>1, <1>2, <1>3, <1>4 DEF Clcb
<1>6. /\ s.prof = f /\ s.aics = 0 /\ s.ctx = nc /\ s.op = no /\ s.req = nq /\ ~s.enc /\ ~s.disc
      /\ ~s.enabled /\ ~s.ready /\ ~s.hash /\ ~s.refuse
    BY <1>4
<1>7. s.op = NoOp /\ s.ctx = NoCtx BY <1>6 DEF no, nc
<1>8. \A t : Queued(s.req, t) = {} BY <1>2, <1>6 DEF Queued
<1>9. Asking(c, s) BY <1>8 DEF Asking
<1>10. Phased(s) BY <1>2, <1>6, <1>7 DEF Phased
<1>11. NumAics(c) \in 0..2 BY AicsCounted
<1>12. Chained(c, s) BY <1>6, <1>7, <1>11 DEF Chained
<1>13. Listed(s) /\ Subscribed(s) BY <1>6, <1>7 DEF Listed, Subscribed
<1>14. Counted(s) BY <1>6, <1>7, <1>8 DEF Counted
<1>15. Good(c, s) BY <1>5, <1>9, <1>10, <1>12, <1>13, <1>14 DEF Good
<1>16. QED BY <1>1, <1>5, <1>6, <1>15 DEF s

\* Requests that are no discovery commands.
LEMMA RequestShape ==
    ASSUME NEW t \in Tags, NEW v \in Names, NEW h \in Nat
    PROVE  LET r == Request(t, v, h)
           IN  r \in Requests /\ r.t = t /\ r.svc = v /\ r.h = h
<1> DEFINE nothing == <<>>
           r == Request(t, v, h)
<1>1. nothing \in Seq(Elements) OBVIOUS
<1>2. r = [t |-> t, svc |-> v, h |-> h, st |-> "IDLE", left |-> nothing] BY DEF Request
<1> HIDE DEF nothing, r
<1>3. r \in Requests BY <1>1, <1>2 DEF Requests, DiscoveryStates
<1>4. r.t = t /\ r.svc = v /\ r.h = h BY <1>2
<1>5. QED BY <1>3, <1>4 DEF r

\* lepl_gatt_handle_connection, with what is stored of the device.
LEMMA ConnectGood ==
    ASSUME NEW c \in Conns, NEW n, Stored(c, n)
    PROVE  LET q == [FreeClcb EXCEPT !.up = TRUE, !.req = <<Request("MTU", "NONE", 0)>>,
                                     !.prof = n.prof, !.aics = n.aics, !.hash = n.hash]
           IN  Good(c, q) /\ ~q.refuse
<1> DEFINE s == FreeClcb
           r == Request("MTU", "NONE", 0)
           p == <<r>>
           q == [s EXCEPT !.up = TRUE, !.req = p, !.prof = n.prof, !.aics = n.aics, !.hash = n.hash]
<1>1. s \in Clcb /\ Good(c, s) /\ ~s.refuse BY FreeGood
<1>2. /\ ~s.enc /\ s.ctx = NoCtx /\ s.op = NoOp /\ ~s.disc /\ ~s.enabled /\ ~s.ready
    BY DEF FreeClcb
<1>3. r \in Requests /\ r.t = "MTU"
    <2>1. "MTU" \in Tags /\ "NONE" \in Names /\ 0 \in Nat BY DEF Tags, Names
    <2>2. QED BY <2>1, RequestShape
<1> HIDE DEF r, s
<1>4. p \in Seq(Requests) /\ Len(p) = 1 /\ p[1] = r BY <1>3
<1>5. /\ n.prof \in Profiles /\ n.aics \in 0..2 /\ n.hash \in BOOLEAN /\ n.aics <= NumAics(c)
      /\ "DISCOVER" \notin Refusable /\ n.hash => Known(c, n.prof, 10)
    BY DEF Stored
<1> HIDE DEF p
<1>6. /\ q \in Clcb /\ q.req = p /\ q.prof = n.prof /\ q.aics = n.aics /\ q.hash = n.hash
      /\ q.enc = s.enc /\ q.ctx = s.ctx /\ q.op = s.op /\ q.disc = s.disc
      /\ q.enabled = s.enabled /\ q.ready = s.ready /\ q.refuse = s.refuse
    BY <1>1, <1>4, <1>5 DEF Clcb
<1> HIDE DEF q
<1>7. /\ \A i \in 1..Len(q.req) : q.req[i].t = "MTU"
      /\ Queued(q.req, "DISCOVER") = {} /\ Queued(q.req, "READ") = {}
    <2>1. ASSUME NEW i \in 1..Len(p) PROVE p[i].t = "MTU"
        <3>1. i = 1 BY <1>4
        <3>2. QED BY <1>3, <1>4, <3>1
    <2>2. QED BY <1>6, <2>1 DEF Queued
<1>8. Asking(c, q) BY <1>7 DEF Asking
<1>9. Phased(q) BY <1>2, <1>6, <1>7 DEF Phased
<1>10. Chained(c, q) BY <1>2, <1>5, <1>6 DEF Chained
<1>11. Listed(q) /\ Subscribed(q) BY <1>2, <1>6 DEF Listed, Subscribed
<1>12. Counted(q) BY <1>2, <1>6, <1>7 DEF Counted
<1>13. Good(c, q) BY <1>6, <1>8, <1>9, <1>10, <1>11, <1>12 DEF Good
<1>14. QED BY <1>1, <1>6, <1>13 DEF q, p, s, r

\* app_handle_gatt_operation_complete for the MTU.
LEMMA MtuGood ==
    ASSUME NEW c \in Conns, NEW s, Good(c, s), s.req # <<>>, Head(s.req).t = "MTU"
    PROVE  LET q == [Popped(s) EXCEPT !.mtu = TRUE]
           IN  /\ Good(c, q) /\ q.refuse = s.refuse
               /\ Shorter(q.req, s.req) /\ s.req[1] = Head(s.req)
               /\ q.up = s.up /\ q.ctx = s.ctx /\ q.op = s.op /\ q.enc = s.enc
               /\ q.enabled = s.enabled /\ q.ready = s.ready
<1> DEFINE rest == Tail(s.req)
           q == [Popped(s) EXCEPT !.mtu = TRUE]
           dd == "DISCOVER"
           rd == "READ"
<1>1. s \in Clcb /\ s.req \in Seq(Requests) BY DEF Good, Clcb
<1>2. Head(s.req) = s.req[1] BY <1>1
<1>3. Shorter(rest, s.req) BY <1>1, QueueOps
<1>4. rest \in Seq(Requests) BY <1>3 DEF Shorter
<1>5. q = [s EXCEPT !.req = rest, !.mtu = TRUE] BY <1>1 DEF Popped, Clcb
<1>6. s.req[1].t # dd /\ s.req[1].t # rd BY <1>2
<1>7. /\ \A i \in Queued(s.req, dd) : Asks(c, s.ctx, s.req[i])
      /\ \A i, j \in Queued(s.req, dd) : i = j
    BY DEF Good, Asking
<1> HIDE DEF rest, q, dd, rd
<1>8. /\ q \in Clcb /\ q.req = rest /\ q.ctx = s.ctx /\ q.op = s.op /\ q.enc = s.enc
      /\ q.disc = s.disc /\ q.hash = s.hash /\ q.enabled = s.enabled /\ q.ready = s.ready
      /\ q.prof = s.prof /\ q.aics = s.aics /\ q.refuse = s.refuse
      /\ q.asked = s.asked /\ q.answered = s.answered /\ q.up = s.up
    BY <1>1, <1>4, <1>5 DEF Clcb
<1>9. Asking(c, q)
    <2>1. \A i \in Queued(rest, dd) : i + 1 \in Queued(s.req, dd) /\ rest[i] = s.req[i + 1] /\ i \in Nat
        BY <1>3, QueuedLess
    <2>2. \A i \in Queued(rest, dd) : Asks(c, q.ctx, q.req[i]) BY <1>7, <1>8, <2>1
    <2>3. \A i, j \in Queued(rest, dd) : i = j
        <3> TAKE i, j \in Queued(rest, dd)
        <3>1. i + 1 = j + 1 /\ i \in Nat /\ j \in Nat BY <1>7, <2>1
        <3>2. QED BY <3>1
    <2>4. QED BY <1>8, <2>2, <2>3 DEF Asking, dd
<1>10. Phased(q)
    <2>1. ASSUME NEW i \in 1..Len(rest), ~s.enc PROVE rest[i].t = "MTU"
        <3>1. rest[i] = s.req[i + 1] /\ Len(s.req) = Len(rest) + 1 BY <1>3 DEF Shorter
        <3>2. Len(rest) \in Nat BY <1>4
        <3>3. i + 1 \in 1..Len(s.req) BY <3>1, <3>2
        <3>4. s.req[i + 1].t = "MTU" BY <2>1, <3>3 DEF Good, Phased
        <3>5. QED BY <3>1, <3>4
    <2>2. QED BY <1>8, <2>1 DEF Good, Phased
<1>11. Chained(c, q) BY <1>8 DEF Good, Chained
<1>12. Listed(q) BY <1>8 DEF Good, Listed
<1>13. Subscribed(q) BY <1>8 DEF Good, Subscribed
<1>14. Counted(q)
    <2>1. /\ Cardinality(Queued(rest, rd)) = Cardinality(Queued(s.req, rd))
          /\ \A i \in Queued(s.req, rd) : i # 1 => i - 1 \in Queued(rest, rd) /\ rest[i - 1] = s.req[i]
          /\ \A i \in Queued(rest, rd) : i + 1 \in Queued(s.req, rd)
          /\ 1 \notin Queued(s.req, rd)
        BY <1>3, <1>6, QueuedLess
    <2>2. \A tr : (\E i \in Queued(s.req, rd) : Triple(s.req[i]) = tr) =>
                  (\E i \in Queued(rest, rd) : Triple(rest[i]) = tr)
        <3> TAKE tr
        <3> HAVE \E i \in Queued(s.req, rd) : Triple(s.req[i]) = tr
        <3>1. PICK i \in Queued(s.req, rd) : Triple(s.req[i]) = tr OBVIOUS
        <3> DEFINE k == i - 1
        <3>2. k \in Queued(rest, rd) /\ rest[k] = s.req[i] BY <2>1
        <3> HIDE DEF k
        <3>3. Triple(rest[k]) = tr BY <3>1, <3>2
        <3>4. QED BY <3>2, <3>3
    <2>3. Queued(s.req, rd) = {} => Queued(rest, rd) = {} BY <2>1
    <2>4. QED BY <1>8, <2>1, <2>2, <2>3 DEF Good, Counted, rd
<1>15. Good(c, q) BY <1>8, <1>9, <1>10, <1>11, <1>12, <1>13, <1>14 DEF Good
<1>16. QED BY <1>2, <1>3, <1>8, <1>15 DEF q

\* An encrypted block: with cached handles it is ready for the list of CCCD
\* writes, else for the first service.
LEMMA EncryptedGood ==
    ASSUME NEW c \in Conns, NEW s, Good(c, s), ~s.enc
    PROVE  LET e == [s EXCEPT !.enc = TRUE]
           IN  /\ e \in Clcb /\ e.req = s.req /\ e.up = s.up /\ e.refuse = s.refuse /\ e.hash = s.hash
               /\ e.op = NoOp /\ e.ctx = NoCtx /\ e.enc /\ ~e.enabled
               /\ e.hash => Good(c, e)
               /\ ~e.hash => Between(c, e) /\ TurnOf(c, e, "ASCS")
<1> DEFINE e == [s EXCEPT !.enc = TRUE]
           as == "ASCS"
<1>1. s \in Clcb BY DEF Good
<1>2. /\ s.ctx = NoCtx /\ s.op = NoOp /\ ~s.disc /\ ~s.enabled /\ ~s.ready
      /\ \A i \in 1..Len(s.req) : s.req[i].t = "MTU"
    BY DEF Good, Phased
<1>3. Queued(s.req, "DISCOVER") = {} /\ Queued(s.req, "READ") = {} BY <1>2 DEF Queued
<1>4. /\ e \in Clcb /\ e.req = s.req /\ e.ctx = s.ctx /\ e.op = s.op /\ e.enc = TRUE
      /\ e.disc = s.disc /\ e.hash = s.hash /\ e.enabled = s.enabled /\ e.ready = s.ready
      /\ e.prof = s.prof /\ e.aics = s.aics /\ e.refuse = s.refuse /\ e.up = s.up
    BY <1>1 DEF Clcb
<1> HIDE DEF e
<1>5. ASSUME e.hash PROVE Good(c, e)
    <2>1. Asking(c, e) BY <1>3, <1>4 DEF Asking
    <2>2. Phased(e) BY <1>2, <1>4 DEF Phased
    <2>3. Chained(c, e) BY <1>4 DEF Good, Chained
    <2>4. Listed(e) /\ Subscribed(e) BY <1>2, <1>4 DEF Listed, Subscribed
    <2>5. Counted(e) BY <1>2, <1>3, <1>4 DEF Counted
    <2>6. QED BY <1>4, <2>1, <2>2, <2>3, <2>4, <2>5 DEF Good
<1>6. ASSUME ~e.hash PROVE Between(c, e) /\ TurnOf(c, e, as)
    <2>1. s.aics <= NumAics(c) BY DEF Good, Chained
    <2>2. Between(c, e) BY <1>2, <1>3, <1>4, <1>6, <2>1 DEF Between
    <2>3. Known(c, e.prof, Position(as) - 1)
        <3>1. \A v \in Services : ~(Position(v) <= Position(as) - 1)
            <4>1. \A v \in Services : Position(v) \in 1..10 BY PositionShape
            <4>2. Position(as) = 1 BY Positions
            <4>3. QED BY <4>1, <4>2
        <3>2. QED BY <3>1 DEF Known
    <2>4. as # "AICS1" OBVIOUS
    <2> HIDE DEF as
    <2>5. TurnOf(c, e, as) BY <2>3, <2>4 DEF TurnOf
    <2>6. QED BY <2>2, <2>5
<1>7. QED BY <1>2, <1>4, <1>5, <1>6 DEF e

\* lepl_btm_handle_encryption_sts.
LEMMA EncryptionGood ==
    ASSUME NEW c \in Conns, NEW s, Good(c, s), ~s.enc
    PROVE  LET q == HandleEncryption(c, s) IN Good(c, q) /\ (q.refuse => s.refuse)
<1> DEFINE e == [s EXCEPT !.enc = TRUE]
           q == HandleEncryption(c, s)
           as == "ASCS"
<1>1. /\ e.refuse = s.refuse /\ e.op = NoOp /\ e.ctx = NoCtx /\ e.enc /\ ~e.enabled
      /\ e.hash => Good(c, e)
      /\ ~e.hash => Between(c, e) /\ TurnOf(c, e, as)
    BY EncryptedGood
<1>2. q = IF e.hash THEN EnableAppNotifications(e) ELSE StartServiceDiscovery(c, e, as)
    BY DEF HandleEncryption, ascs_discover_service
<1>3. as \in Services BY DEF Services, Primary
<1> HIDE DEF e, q, as
<1>4. CASE e.hash
    <2>1. Good(c, q) /\ (q.refuse => e.refuse) BY <1>1, <1>2, <1>4, StartEnables
    <2>2. QED BY <1>1, <2>1 DEF q
<1>5. CASE ~e.hash
    <2>1. Good(c, q) /\ (q.refuse => e.refuse) BY <1>1, <1>2, <1>3, <1>5, StartGood
    <2>2. QED BY <1>1, <2>1 DEF q
<1>6. QED BY <1>4, <1>5

\* Another write of the application.
LEMMA OtherWriteGood ==
    ASSUME NEW c \in Conns, NEW s, Good(c, s), s.enc
    PROVE  LET q == Send(s, Request("WRITE", "NONE", 0)) IN Good(c, q) /\ (q.refuse => s.refuse)
<1> DEFINE r == Request("WRITE", "NONE", 0)
           q == Send(s, r)
           rd == "READ"
<1>1. r \in Requests /\ r.t = "WRITE"
    <2>1. "WRITE" \in Tags /\ "NONE" \in Names /\ 0 \in Nat BY DEF Tags, Names
    <2>2. QED BY <2>1, RequestShape
<1>2. "WRITE" \notin Refusable BY DbAssumption
<1>3. s \in Clcb BY DEF Good
<1> HIDE DEF r
<1>4. /\ q \in Clcb /\ Keeps(s, q) /\ q.ctx = s.ctx /\ q.op = s.op
      /\ q.ok => Longer(q.req, s.req, r) /\ s.asked \subseteq q.asked
      /\ ~q.ok => r.t \in Refusable
    BY <1>1, <1>3, SendShape
<1> HIDE DEF q
<1>5. Longer(q.req, s.req, r) /\ s.asked \subseteq q.asked BY <1>1, <1>2, <1>4
<1>6. Asking(c, q)
    <2>1. Asking(c, s) BY DEF Good
    <2>2. r.t # "DISCOVER" BY <1>1
    <2>3. QED BY <1>1, <1>3, <1>4, <1>5, <2>1, <2>2, AskingKept
<1>7. Phased(q) BY <1>4 DEF Good, Phased, Keeps
<1>8. Chained(c, q) BY <1>4 DEF Good, Chained, Keeps
<1>9. Listed(q) BY <1>4 DEF Good, Listed, Keeps
<1>10. Subscribed(q) BY <1>4, <1>5 DEF Good, Subscribed, Keeps
<1>11. Counted(q)
    <2>1. r.t # rd BY <1>1
    <2> HIDE DEF rd
    <2>2. Queued(q.req, rd) = Queued(s.req, rd) /\ \A i \in Queued(s.req, rd) : q.req[i] = s.req[i]
        BY <1>5, <2>1, QueuedMore
    <2>3. Queued(q.req, "READ") = Queued(s.req, "READ")
          /\ \A i \in Queued(s.req, "READ") : q.req[i] = s.req[i]
        BY <2>2 DEF rd
    <2>4. QED BY <1>4, <2>3 DEF Good, Counted, Keeps
<1>12. Good(c, q) BY <1>4, <1>6, <1>7, <1>8, <1>9, <1>10, <1>11 DEF Good
<1>13. QED BY <1>4, <1>12 DEF Keeps, q, r

\* GATT_CONGESTION_EVT.
LEMMA CongestionGood ==
    ASSUME NEW c \in Conns, NEW s, Good(c, s)
    PROVE  LET q == HandleCongestion(s) IN Good(c, q) /\ (q.refuse => s.refuse)
<1>1. CASE s.up /\ s.op # NoOp BY <1>1, ExecuteGood DEF HandleCongestion
<1>2. CASE ~(s.up /\ s.op # NoOp) BY <1>2 DEF HandleCongestion
<1>3. QED BY <1>1, <1>2

\* A block may be about to be refused something.
LEMMA RefuseGood ==
    ASSUME NEW c \in Conns, NEW s, Good(c, s)
    PROVE  LET q == [s EXCEPT !.refuse = TRUE]
           IN  /\ Good(c, q) /\ q.req = s.req /\ q.enc = s.enc /\ q.ctx = s.ctx
               /\ q.up = s.up /\ q.mtu = s.mtu /\ q.op = s.op
               /\ q.enabled = s.enabled /\ q.ready = s.ready
<1> DEFINE q == [s EXCEPT !.refuse = TRUE]
<1>1. s \in Clcb BY DEF Good
<1>2. /\ q \in Clcb /\ q.up = s.up /\ q.enc = s.enc /\ q.mtu = s.mtu /\ q.disc = s.disc
      /\ q.enabled = s.enabled /\ q.ready = s.ready /\ q.hash = s.hash /\ q.prof = s.prof
      /\ q.aics = s.aics /\ q.ctx = s.ctx /\ q.op = s.op /\ q.req = s.req
      /\ q.asked = s.asked /\ q.answered = s.answered
    BY <1>1 DEF Clcb
<1> HIDE DEF q
<1>3. Asking(c, q) BY <1>2 DEF Good, Asking
<1>4. Phased(q) BY <1>2 DEF Good, Phased
<1>5. Chained(c, q) BY <1>2 DEF Good, Chained
<1>6. Listed(q) BY <1>2 DEF Good, Listed
<1>7. Subscribed(q) BY <1>2 DEF Good, Subscribed
<1>8. Counted(q) BY <1>2 DEF Good, Counted
<1>9. QED BY <1>2, <1>3, <1>4, <1>5, <1>6, <1>7, <1>8 DEF Good, q

\* One control block changes.
LEMMA BlockStep ==
    ASSUME NEW f, Blocks(f), NEW c \in Conns, NEW q, Good(c, q), ~q.refuse, NEW g,
           g = [f EXCEPT ![c] = q]
    PROVE  Blocks(g)
<1>1. q \in Clcb BY DEF Good
<1>2. g \in [Conns -> Clcb] BY <1>1 DEF Blocks
<1>3. \A d \in Conns : Good(d, g[d]) /\ ~g[d].refuse BY <1>2 DEF Blocks
<1>4. QED BY <1>2, <1>3 DEF Blocks

\* The bounds on the faults.
LEMMA BoundShape == \A k \in Kinds : Bound[k] \in Nat
    BY DbAssumption DEF Kinds, Bound

\* A fault stays within its bound.
LEMMA SpendGood ==
    ASSUME Spent(used), NEW k \in Kinds, Spend(k)
    PROVE  Spent(used')
<1>1. used[k] \in Nat /\ used[k] < Bound[k] /\ used' = [used EXCEPT ![k] = @ + 1] BY DEF Spent, Spend
<1>2. \A m \in Kinds : Bound[m] \in Nat BY BoundShape
<1>3. used' \in [Kinds -> Nat] BY <1>1 DEF Spent
<1>4. ASSUME NEW m \in Kinds PROVE used'[m] <= Bound[m]
    <2>1. CASE m = k
        <3>1. used'[m] = used[k] + 1 BY <1>1, <2>1 DEF Spent
        <3>2. Bound[k] \in Nat BY <1>2
        <3>3. QED BY <1>1, <2>1, <3>1, <3>2
    <2>2. CASE m # k
        <3>1. used'[m] = used[m] BY <1>1, <2>2 DEF Spent
        <3>2. QED BY <3>1 DEF Spent
    <2>3. QED BY <2>1, <2>2
<1>5. QED BY <1>3, <1>4 DEF Spent

\* A handler of an event: the stack accepts its requests, or refuses one.
LEMMA BecomesGood ==
    ASSUME Blocks(clcb), Spent(used), NEW c \in Conns, NEW q, NEW p,
           Good(c, q), q.refuse => clcb[c].refuse, Good(c, p),
           \/ clcb' = [clcb EXCEPT ![c] = q] /\ UNCHANGED used
           \/ ~p.refuse /\ Spend("refused") /\ clcb' = [clcb EXCEPT ![c] = p]
    PROVE  Blocks(clcb') /\ Spent(used')
<1>1. ~q.refuse BY DEF Blocks
<1>2. CASE clcb' = [clcb EXCEPT ![c] = q] /\ UNCHANGED used BY <1>1, <1>2, BlockStep
<1>3. CASE ~p.refuse /\ Spend("refused") /\ clcb' = [clcb EXCEPT ![c] = p]
    <2>1. "refused" \in Kinds BY DEF Kinds
    <2>2. QED BY <1>3, <2>1, BlockStep, SpendGood
<1>4. QED BY <1>2, <1>3
-----------------------------------------------------------------------------
(* The steps.                                                               *)

\* Every step keeps the invariant.
LEMMA ClientStep == ClientInv /\ [Next]_vars => ClientInv'
<1> SUFFICES ASSUME ClientInv, [Next]_vars PROVE ClientInv'
    OBVIOUS
<1>1. Blocks(clcb) /\ Memory(nvram) /\ Spent(used) /\ timer \subseteq Conns /\ closing \subseteq Conns
    BY DEF ClientInv
<1>2. ASSUME NEW c \in Conns
      PROVE  Good(c, clcb[c]) /\ ~clcb[c].refuse /\ Stored(c, nvram[c])
    BY <1>1 DEF Blocks, Memory
<1>3. CASE UNCHANGED vars BY <1>1, <1>3 DEF vars, ClientInv, Blocks, Memory, Spent
<1>4. ASSUME Blocks(clcb'), Spent(used'), UNCHANGED <<nvram, timer, closing>> PROVE ClientInv'
    BY <1>1, <1>4 DEF ClientInv, Memory
<1>5. ASSUME NEW c \in Conns, Connect(c) PROVE ClientInv'
    <2> DEFINE n == nvram[c]
               q == [FreeClcb EXCEPT !.up = TRUE, !.req = <<Request("MTU", "NONE", 0)>>,
                                     !.prof = n.prof, !.aics = n.aics, !.hash = n.hash]
    <2>1. clcb' = [clcb EXCEPT ![c] = q] /\ UNCHANGED <<nvram, timer, closing, used>>
        BY <1>5 DEF Connect
    <2>2. Good(c, q) /\ ~q.refuse BY <1>2, ConnectGood
    <2> HIDE DEF q
    <2>3. Blocks(clcb') BY <1>1, <2>1, <2>2, BlockStep
    <2>4. QED BY <1>1, <1>4, <2>1, <2>3 DEF Spent
<1>6. ASSUME NEW c \in Conns, MtuExchanged(c) PROVE ClientInv'
    <2> DEFINE s == clcb[c]
               q == [Popped(s) EXCEPT !.mtu = TRUE]
    <2>1. clcb' = [clcb EXCEPT ![c] = q] /\ UNCHANGED <<nvram, timer, closing, used>>
        BY <1>6 DEF MtuExchanged
    <2>2. s.req # <<>> /\ Head(s.req).t = "MTU" BY <1>6 DEF MtuExchanged, Waits, Answer
    <2>3. Good(c, q) /\ q.refuse = s.refuse BY <1>2, <2>2, MtuGood
    <2> HIDE DEF q
    <2>4. Blocks(clcb') BY <1>1, <1>2, <2>1, <2>3, BlockStep
    <2>5. QED BY <1>1, <1>4, <2>1, <2>4 DEF Spent
<1>7. ASSUME NEW c \in Conns, Encrypted(c) PROVE ClientInv'
    <2> DEFINE s == clcb[c]
               t == [s EXCEPT !.refuse = TRUE]
               q == HandleEncryption(c, s)
               p == HandleEncryption(c, t)
    <2>1. /\ \/ clcb' = [clcb EXCEPT ![c] = q] /\ UNCHANGED used
             \/ ~p.refuse /\ Spend("refused") /\ clcb' = [clcb EXCEPT ![c] = p]
          /\ nvram' = [nvram EXCEPT ![c].bonded = TRUE] /\ UNCHANGED <<timer, closing>>
          /\ ~s.enc
        BY <1>7 DEF Encrypted, Becomes
    <2>2. Good(c, t) /\ ~t.enc BY <1>2, <2>1, RefuseGood
    <2>3. Good(c, q) /\ (q.refuse => s.refuse) BY <1>2, <2>1, EncryptionGood
    <2> HIDE DEF t
    <2>4. Good(c, p) BY <2>2, EncryptionGood
    <2> HIDE DEF q, p
    <2>5. Blocks(clcb') /\ Spent(used') BY <1>1, <2>1, <2>3, <2>4, BecomesGood
    <2>6. Memory(nvram')
        <3> DEFINE m == [nvram[c] EXCEPT !.bonded = TRUE]
        <3>1. Stored(c, m)
            <4>1. nvram[c] \in [bonded : BOOLEAN, hash : BOOLEAN, aics : 0..2, prof : Profiles]
                BY <1>2 DEF Stored
            <4>2. /\ m \in [bonded : BOOLEAN, hash : BOOLEAN, aics : 0..2, prof : Profiles]
                  /\ m.hash = nvram[c].hash /\ m.aics = nvram[c].aics /\ m.prof = nvram[c].prof
                BY <4>1
            <4> HIDE DEF m
            <4>3. QED BY <1>2, <4>2 DEF Stored
        <3>2. nvram' = [nvram EXCEPT ![c] = m] BY <1>1, <2>1 DEF Memory
        <3> HIDE DEF m
        <3>3. DOMAIN nvram = Conns /\ \A d \in Conns : Stored(d, nvram[d]) BY <1>1 DEF Memory
        <3>4. DOMAIN nvram' = Conns BY <3>2, <3>3
        <3>5. \A d \in Conns : nvram'[d] = IF d = c THEN m ELSE nvram[d] BY <3>2, <3>3
        <3>6. QED BY <3>1, <3>3, <3>4, <3>5 DEF Memory
    <2>7. QED BY <1>1, <2>1, <2>5, <2>6 DEF ClientInv
<1>8. ASSUME NEW c \in Conns, DiscoveryResult(c) PROVE ClientInv'
    <2> DEFINE s == clcb[c]
               q == Delivered(c, s)
    <2>1. clcb' = [clcb EXCEPT ![c] = q] /\ UNCHANGED <<nvram, timer, closing, used>>
        BY <1>8 DEF DiscoveryResult
    <2>2. s.req # <<>> /\ Head(s.req).t = "DISCOVER" /\ Head(s.req).left # <<>>
        BY <1>8 DEF DiscoveryResult, Waits, Answer
    <2>3. Good(c, q) /\ q.refuse = s.refuse BY <1>2, <2>2, ResultGood
    <2> HIDE DEF q
    <2>4. Blocks(clcb') BY <1>1, <1>2, <2>1, <2>3, BlockStep
    <2>5. QED BY <1>1, <1>4, <2>1, <2>4 DEF Spent
<1>9. ASSUME NEW c \in Conns, DiscoveryDone(c) PROVE ClientInv'
    <2> DEFINE s == clcb[c]
               t == [s EXCEPT !.refuse = TRUE]
               q == OnDiscoveryComplete(c, Popped(s))
               p == OnDiscoveryComplete(c, Popped(t))
    <2>1. /\ \/ clcb' = [clcb EXCEPT ![c] = q] /\ UNCHANGED used
             \/ ~p.refuse /\ Spend("refused") /\ clcb' = [clcb EXCEPT ![c] = p]
          /\ UNCHANGED <<nvram, timer, closing>>
        BY <1>9 DEF DiscoveryDone, Becomes
    <2>2. s.req # <<>> /\ Head(s.req).t = "DISCOVER" /\ Head(s.req).left = <<>>
        BY <1>9 DEF DiscoveryDone, Waits, Answer
    <2>3. Good(c, t) /\ t.req = s.req BY <1>2, RefuseGood
    <2>4. Good(c, q) /\ (q.refuse => s.refuse) BY <1>2, <2>2, DiscoveryCompleteGood
    <2> HIDE DEF t
    <2>5. Good(c, p) BY <2>2, <2>3, DiscoveryCompleteGood
    <2> HIDE DEF q, p
    <2>6. Blocks(clcb') /\ Spent(used') BY <1>1, <2>1, <2>4, <2>5, BecomesGood
    <2>7. QED BY <1>4, <2>1, <2>6
<1>10. ASSUME NEW c \in Conns, DiscoveryFailed(c) PROVE ClientInv'
    <2> DEFINE s == clcb[c]
               q == Popped(s)
    <2>1. /\ clcb' = [clcb EXCEPT ![c] = q] /\ timer' = timer \cup {c}
          /\ UNCHANGED <<nvram, closing>> /\ Spend("errors")
        BY <1>10 DEF DiscoveryFailed
    <2>2. s.req # <<>> /\ Head(s.req).t = "DISCOVER" BY <1>10 DEF DiscoveryFailed, Waits, Answer
    <2>3. Between(c, q) /\ q.ctx = s.ctx /\ q.refuse = s.refuse /\ TurnOf(c, q, s.ctx.svc)
        BY <1>2, <2>2, PoppedShape
    <2> HIDE DEF q
    <2>4. Good(c, q) BY <2>3, BetweenGood
    <2>5. Blocks(clcb') BY <1>1, <1>2, <2>1, <2>3, <2>4, BlockStep
    <2>6. "errors" \in Kinds BY DEF Kinds
    <2>7. Spent(used') BY <1>1, <2>1, <2>6, SpendGood
    <2>8. QED BY <1>1, <2>1, <2>5, <2>7 DEF ClientInv, Memory
<1>11. ASSUME NEW c \in Conns, DiscoveryTimeout(c) PROVE ClientInv'
    <2>1. UNCHANGED <<clcb, nvram, used>> /\ timer' = timer \ {c} BY <1>11 DEF DiscoveryTimeout
    <2>2. closing' \subseteq Conns BY <1>1, <1>11 DEF DiscoveryTimeout
    <2>3. QED BY <1>1, <2>1, <2>2 DEF ClientInv, Blocks, Memory, Spent
<1>12. ASSUME NEW c \in Conns, OperationDone(c) PROVE ClientInv'
    <2>1. PICK t \in {"CCCD", "READ", "WRITE"} :
             Waits(c, t) /\ Becomes(c, LAMBDA s : OperationComplete(Answered(s), t, TRUE))
        BY <1>12 DEF OperationDone
    <2> DEFINE s == clcb[c]
               u == [s EXCEPT !.refuse = TRUE]
               yes == TRUE
               q == OperationComplete(Answered(s), t, yes)
               p == OperationComplete(Answered(u), t, yes)
    <2>2. \/ clcb' = [clcb EXCEPT ![c] = q] /\ UNCHANGED used
          \/ ~p.refuse /\ Spend("refused") /\ clcb' = [clcb EXCEPT ![c] = p]
        BY <2>1 DEF Becomes
    <2>3. UNCHANGED <<nvram, timer, closing>> BY <1>12 DEF OperationDone
    <2>4. s.req # <<>> /\ Head(s.req).t = t BY <2>1 DEF Waits, Answer
    <2>5. Good(c, u) /\ u.req = s.req BY <1>2, RefuseGood
    <2>6. yes \in BOOLEAN OBVIOUS
    <2> HIDE DEF yes, u
    <2>7. Good(c, q) /\ (q.refuse => s.refuse) BY <1>2, <2>4, <2>6, OperationCompleteGood
    <2>8. Good(c, p) BY <2>4, <2>5, <2>6, OperationCompleteGood
    <2> HIDE DEF q, p
    <2>9. Blocks(clcb') /\ Spent(used') BY <1>1, <2>2, <2>7, <2>8, BecomesGood
    <2>10. QED BY <1>4, <2>3, <2>9
<1>13. ASSUME NEW c \in Conns, OperationFailed(c) PROVE ClientInv'
    <2>1. PICK t \in {"CCCD", "READ"} :
             Waits(c, t) /\ BecomesAccepted(c, LAMBDA s : OperationComplete(Answered(s), t, FALSE))
        BY <1>13 DEF OperationFailed
    <2> DEFINE s == clcb[c]
               not == FALSE
               q == OperationComplete(Answered(s), t, not)
    <2>2. clcb' = [clcb EXCEPT ![c] = q] BY <2>1 DEF BecomesAccepted
    <2>3. UNCHANGED <<nvram, timer, closing>> /\ Spend("errors") BY <1>13 DEF OperationFailed
    <2>4. s.req # <<>> /\ Head(s.req).t = t BY <2>1 DEF Waits, Answer
    <2>5. not \in BOOLEAN OBVIOUS
    <2> HIDE DEF not
    <2>6. Good(c, q) /\ (q.refuse => s.refuse) BY <1>2, <2>4, <2>5, OperationCompleteGood
    <2> HIDE DEF q
    <2>7. Blocks(clcb') BY <1>1, <1>2, <2>2, <2>6, BlockStep
    <2>8. "errors" \in Kinds BY DEF Kinds
    <2>9. Spent(used') BY <1>1, <2>3, <2>8, SpendGood
    <2>10. QED BY <1>4, <2>3, <2>7, <2>9
<1>14. ASSUME NEW c \in Conns, OtherWrite(c) PROVE ClientInv'
    <2> DEFINE s == clcb[c]
               q == Send(s, Request("WRITE", "NONE", 0))
    <2>1. clcb' = [clcb EXCEPT ![c] = q] /\ s.enc BY <1>14 DEF OtherWrite, BecomesAccepted
    <2>2. UNCHANGED <<nvram, timer, closing>> /\ Spend("other") BY <1>14 DEF OtherWrite
    <2>3. Good(c, q) /\ (q.refuse => s.refuse) BY <1>2, <2>1, OtherWriteGood
    <2> HIDE DEF q
    <2>4. Blocks(clcb') BY <1>1, <1>2, <2>1, <2>3, BlockStep
    <2>5. "other" \in Kinds BY DEF Kinds
    <2>6. Spent(used') BY <1>1, <2>2, <2>5, SpendGood
    <2>7. QED BY <1>4, <2>2, <2>4, <2>6
<1>15. ASSUME NEW c \in Conns, HandleDisconnection(c) PROVE Blocks(clcb') /\ Memory(nvram')
                                                            /\ timer' = timer /\ closing' \subseteq Conns
    <2> DEFINE s == clcb[c]
               m == [bonded |-> TRUE, hash |-> s.hash, aics |-> s.aics, prof |-> s.prof]
               n == IF nvram[c].bonded THEN m ELSE nvram[c]
               q == FreeClcb
    <2>1. /\ nvram' = [nvram EXCEPT ![c] = n] /\ clcb' = [clcb EXCEPT ![c] = q]
          /\ closing' = closing \ {c} /\ timer' = timer
        BY <1>15 DEF HandleDisconnection
    <2>2. Good(c, q) /\ ~q.refuse BY FreeGood
    <2> HIDE DEF q
    <2>3. Blocks(clcb') BY <1>1, <2>1, <2>2, BlockStep
    <2>4. Stored(c, m)
        <3>1. s.hash \in BOOLEAN /\ s.aics \in 0..2 /\ s.prof \in Profiles BY <1>2 DEF Good, Clcb
        <3>2. /\ m \in [bonded : BOOLEAN, hash : BOOLEAN, aics : 0..2, prof : Profiles]
              /\ m.hash = s.hash /\ m.aics = s.aics /\ m.prof = s.prof
            BY <3>1
        <3> HIDE DEF m
        <3>3. QED BY <1>2, <3>2 DEF Stored, Good, Chained
    <2>5. Stored(c, n) BY <1>2, <2>4
    <2> HIDE DEF n, m
    <2>6. Memory(nvram')
        <3>1. DOMAIN nvram = Conns /\ \A d \in Conns : Stored(d, nvram[d]) BY <1>1 DEF Memory
        <3>2. DOMAIN nvram' = Conns BY <2>1, <3>1
        <3>3. \A d \in Conns : nvram'[d] = IF d = c THEN n ELSE nvram[d] BY <2>1, <3>1
        <3>4. QED BY <2>5, <3>1, <3>2, <3>3 DEF Memory
    <2>7. QED BY <1>1, <2>1, <2>3, <2>6
<1>16. ASSUME NEW c \in Conns, Disconnected(c) PROVE ClientInv'
    <2>1. HandleDisconnection(c) /\ UNCHANGED used BY <1>16 DEF Disconnected
    <2>2. QED BY <1>1, <1>15, <2>1 DEF ClientInv, Spent
<1>17. ASSUME NEW c \in Conns, LinkLoss(c) PROVE ClientInv'
    <2>1. HandleDisconnection(c) /\ Spend("loss") BY <1>17 DEF LinkLoss
    <2>2. "loss" \in Kinds BY DEF Kinds
    <2>3. Spent(used') BY <1>1, <2>1, <2>2, SpendGood
    <2>4. QED BY <1>1, <1>15, <2>1, <2>3 DEF ClientInv
<1>18. ASSUME clcb' = [clcb EXCEPT ![1] = HandleCongestion(@)] PROVE Blocks(clcb')
    <2> DEFINE s == clcb[1]
               q == HandleCongestion(s)
    <2>1. 1 \in Conns BY DbAssumption
    <2>2. Good(1, q) /\ (q.refuse => s.refuse) BY <1>2, <2>1, CongestionGood
    <2>3. clcb' = [clcb EXCEPT ![1] = q] BY <1>18
    <2> HIDE DEF q
    <2>4. QED BY <1>1, <1>2, <2>1, <2>2, <2>3, BlockStep
<1>19. CASE Congestion
    <2>1. clcb' = [clcb EXCEPT ![1] = HandleCongestion(@)] BY <1>19 DEF Congestion, BecomesAccepted
    <2>2. UNCHANGED <<nvram, timer, closing>> /\ Spend("congestion") BY <1>19 DEF Congestion
    <2>3. "congestion" \in Kinds BY DEF Kinds
    <2>4. Spent(used') BY <1>1, <2>2, <2>3, SpendGood
    <2>5. QED BY <1>4, <1>18, <2>1, <2>2, <2>4
<1>20. CASE Uncongested
    <2>1. /\ clcb' = [clcb EXCEPT ![1] = HandleCongestion(@)]
          /\ UNCHANGED <<nvram, timer, closing, used>>
        BY <1>20 DEF Uncongested
    <2>2. QED BY <1>1, <1>4, <1>18, <2>1 DEF Spent
<1>21. QED BY <1>3, <1>5, <1>6, <1>7, <1>8, <1>9, <1>10, <1>11, <1>12, <1>13, <1>14, <1>16, <1>17,
              <1>19, <1>20 DEF Next
-----------------------------------------------------------------------------
(* What the invariant says of the properties.                               *)

\* Nothing is expected of a service that is not there.
LEMMA NothingExpected ==
    ASSUME NEW c \in Conns, NEW v \in Services, Db[c][v] = <<>>, NEW i \in DOMAIN Slots[v]
    PROVE  Expected(c, v)[i] = NoHandle
<1> DEFINE n == Cardinality({j \in 1..i : Slots[v][j] = Slots[v][i]})
           t == Slots[v][i]
<1>1. Expected(c, v)[i] = Nth(c, v, t, n) BY DEF Expected
<1>2. DOMAIN Db[c][v] = {} OBVIOUS
<1> HIDE DEF n, t
<1>3. Nth(c, v, t, n) = NoHandle BY <1>2 DEF Nth
<1>4. QED BY <1>1, <1>3

\* When all services are known, a place of which the device has the handle is
\* wanted, with that handle.
LEMMA ExpectedWanted ==
    ASSUME NEW c \in Conns, NEW f, f \in Profiles, Known(c, f, 10), NEW kind \in {"READ", "CCCD"},
           NEW types, types = IF kind = "READ" THEN ReadTypes ELSE NotifyTypes,
           NEW p, p \in Places(Order(kind), types), NEW h,
           h = (IF kind = "READ" THEN Expected(c, Order(kind)[p[1]])[p[2]].h
                                 ELSE Expected(c, Order(kind)[p[1]])[p[2]].d),
           h # 0
    PROVE  p \in Wanted(kind, f) /\ Asked(kind, f, p) = <<kind, Order(kind)[p[1]], h>>
<1> DEFINE v == Order(kind)[p[1]]
           e == Expected(c, v)
<1>1. v \in Services /\ p[2] \in DOMAIN Slots[v] BY PlacesShape
<1>2. Db[c][v] # <<>>
    <2>1. NoHandle.h = 0 /\ NoHandle.d = 0 BY DEF NoHandle
    <2>2. Db[c][v] = <<>> => e[p[2]] = NoHandle BY <1>1, NothingExpected
    <2> HIDE DEF e
    <2>3. QED BY <2>1, <2>2 DEF e
<1>3. f[v] = e
    <2>1. Position(v) \in 1..10 BY <1>1, PositionShape
    <2>2. Position(v) <= 10 BY <2>1
    <2>3. QED BY <1>1, <1>2, <2>2 DEF Known
<1>4. DOMAIN e = DOMAIN Slots[v] BY DEF Expected
<1> HIDE DEF e
<1>5. Handle(kind, f, p) = h BY <1>3 DEF Handle, e
<1>6. p[2] \in DOMAIN f[v] BY <1>1, <1>3, <1>4
<1>7. p \in Wanted(kind, f) BY <1>5, <1>6 DEF Wanted
<1>8. QED BY <1>5, <1>7 DEF Asked

\* The initial state.
LEMMA ClientInit == Init => ClientInv
<1> SUFFICES ASSUME Init PROVE ClientInv
    OBVIOUS
<1>1. Blocks(clcb)
    <2>1. \A c \in Conns : FreeClcb \in Clcb /\ Good(c, FreeClcb) /\ ~FreeClcb.refuse BY FreeGood
    <2>2. clcb = [c \in Conns |-> FreeClcb] BY DEF Init
    <2>3. QED BY <2>1, <2>2 DEF Blocks
<1>2. Memory(nvram)
    <2> DEFINE f == [v \in Services |-> <<>>]
               m == [bonded |-> FALSE, hash |-> FALSE, aics |-> 0, prof |-> f]
    <2>1. f \in Profiles BY DEF Profiles
    <2>2. nvram = [c \in Conns |-> m] BY DEF Init, Unbonded
    <2> HIDE DEF f
    <2>3. m \in [bonded : BOOLEAN, hash : BOOLEAN, aics : 0..2, prof : Profiles] /\ ~m.hash /\ m.aics = 0
        BY <2>1
    <2> HIDE DEF m
    <2>4. ASSUME NEW c \in Conns PROVE Stored(c, m)
        <3>1. NumAics(c) \in 0..2 BY AicsCounted
        <3>2. QED BY <2>3, <3>1 DEF Stored
    <2>5. QED BY <2>2, <2>4 DEF Memory
<1>3. Spent(used)
    <2>1. used = [k \in Kinds |-> 0] BY DEF Init
    <2>2. \A k \in Kinds : Bound[k] \in Nat BY BoundShape
    <2>3. \A k \in Kinds : used[k] <= Bound[k] BY <2>1, <2>2
    <2>4. QED BY <2>1, <2>3 DEF Spent
<1>4. QED BY <1>1, <1>2, <1>3 DEF Init, ClientInv

\* The invariant holds in every reachable state.
LEMMA ClientSafe == Spec => []ClientInv
<1>1. QED BY ClientInit, ClientStep, PTL DEF Spec

\* Type correctness: a discovery context is always that of one service with
\* handles for the slots of that service, the count of operations under way
\* stays a byte whatever is counted for it, and what is known of a service is
\* nothing or a handle for each of its slots.
THEOREM TypeCorrect == Spec => []TypeOK
<1>1. ClientInv => TypeOK
    <2> SUFFICES ASSUME ClientInv PROVE TypeOK
        OBVIOUS
    <2>1. ASSUME NEW c \in Conns
          PROVE  /\ clcb[c].ctx = NoCtx \/ \E v \in Services : clcb[c].ctx \in Ctx(v)
                 /\ clcb[c].op # NoOp => clcb[c].op.ops \in Byte
                 /\ \A v \in Services : clcb[c].prof[v] = <<>> \/ clcb[c].prof[v] \in Handles(v)
                 /\ ~clcb[c].refuse
        <3> DEFINE s == clcb[c]
        <3>1. s \in Clcb /\ ~s.refuse BY DEF ClientInv, Blocks
        <3> HIDE DEF s
        <3>2. s.ctx \in Contexts /\ s.op \in {NoOp} \cup Lists /\ s.prof \in Profiles BY <3>1 DEF Clcb
        <3>3. s.ctx = NoCtx \/ \E v \in Services : s.ctx \in Ctx(v) BY <3>2 DEF Contexts
        <3>4. s.op # NoOp => s.op.ops \in Byte BY <3>2 DEF Lists
        <3>5. \A v \in Services : s.prof[v] = <<>> \/ s.prof[v] \in Handles(v) BY <3>2 DEF Profiles
        <3>6. QED BY <3>1, <3>3, <3>4, <3>5 DEF s
    <2>2. timer \subseteq Conns /\ closing \subseteq Conns /\ \A k \in Kinds : used[k] <= Bound[k]
        BY DEF ClientInv, Spent
    <2>3. QED BY <2>1, <2>2 DEF TypeOK
<1>2. QED BY <1>1, ClientSafe, PTL

\* While the stack refuses no discovery command, the handles of a device whose
\* discovery was reported as successful, and the handles stored for a bonded
\* device with a db_hash, are those of all its characteristics, each with its
\* own CCCD, for any database: lost links, failed discoveries, refused writes
\* and other traffic never leave a set that is partial or mixed up.
THEOREM HandlesAreComplete ==
    ASSUME "DISCOVER" \notin Refusable
    PROVE  Spec => []HandlesComplete
<1>1. ClientInv => HandlesComplete
    <2> SUFFICES ASSUME ClientInv, NEW c \in Conns
                 PROVE  /\ clcb[c].disc \/ clcb[c].hash =>
                              \A v \in Services : Db[c][v] # <<>> => clcb[c].prof[v] = Expected(c, v)
                        /\ nvram[c].hash =>
                              \A v \in Services : Db[c][v] # <<>> => nvram[c].prof[v] = Expected(c, v)
        BY DEF HandlesComplete
    <2>1. Good(c, clcb[c]) /\ Stored(c, nvram[c]) BY DEF ClientInv, Blocks, Memory
    <2>2. \A v \in Services : Position(v) <= 10
        <3>1. \A v \in Services : Position(v) \in 1..10 BY PositionShape
        <3>2. QED BY <3>1
    <2>3. clcb[c].disc \/ clcb[c].hash => Known(c, clcb[c].prof, 10) BY <2>1 DEF Good, Chained
    <2>4. nvram[c].hash => Known(c, nvram[c].prof, 10) BY <2>1 DEF Stored
    <2>5. QED BY <2>2, <2>3, <2>4 DEF Known
<1>2. QED BY <1>1, ClientSafe, PTL

\* While the stack refuses no discovery command, the player has asked for
\* every notification it relies on before it starts to read, however the CCCD
\* writes were refused, failed or counted together with other writes.
THEOREM SubscribesFirst ==
    ASSUME "DISCOVER" \notin Refusable
    PROVE  Spec => []SubscribedBeforeRead
<1>1. ClientInv => SubscribedBeforeRead
    <2> SUFFICES ASSUME ClientInv, NEW c \in Conns, clcb[c].enabled,
                        NEW x \in ToSubscribe(c)
                 PROVE  x \in clcb[c].asked
        BY DEF SubscribedBeforeRead
    <2> DEFINE s == clcb[c]
               cd == "CCCD"
               types == NotifyTypes
    <2>1. Good(c, s) BY DEF ClientInv, Blocks
    <2>2. s.prof \in Profiles BY <2>1 DEF Good, Clcb
    <2>3. Known(c, s.prof, 10) BY <2>1 DEF Good, Chained, Phased
    <2>4. \A p \in Wanted(cd, s.prof) : Asked(cd, s.prof, p) \in s.asked BY <2>1 DEF Good, Subscribed
    <2>5. PICK p \in Places(NotifyOrder, NotifyTypes) :
             /\ Expected(c, NotifyOrder[p[1]])[p[2]].d # 0
             /\ x = <<"CCCD", NotifyOrder[p[1]], Expected(c, NotifyOrder[p[1]])[p[2]].d>>
        BY DEF ToSubscribe
    <2> DEFINE h == Expected(c, NotifyOrder[p[1]])[p[2]].d
    <2>6. Order(cd) = NotifyOrder /\ cd \in {"READ", "CCCD"} /\ cd # "READ" BY DEF Order
    <2>7. x = <<cd, Order(cd)[p[1]], h>> /\ h # 0 /\ p \in Places(Order(cd), types) BY <2>5, <2>6
    <2>8. h = Expected(c, Order(cd)[p[1]])[p[2]].d BY <2>6
    <2>9. types = IF cd = "READ" THEN ReadTypes ELSE NotifyTypes BY <2>6
    <2> HIDE DEF cd, h, types, s
    <2>10. p \in Wanted(cd, s.prof) /\ Asked(cd, s.prof, p) = <<cd, Order(cd)[p[1]], h>>
        BY <2>2, <2>3, <2>6, <2>7, <2>8, <2>9, ExpectedWanted
    <2>11. QED BY <2>4, <2>7, <2>10 DEF s
<1>2. QED BY <1>1, ClientSafe, PTL

\* While the stack refuses neither discovery commands nor reads, a device is
\* ready only when every value the player relies on has been read and
\* answered, by a value or by an error.
THEOREM ReadyWhenRead ==
    ASSUME "DISCOVER" \notin Refusable, "READ" \notin Refusable
    PROVE  Spec => []ReadyAfterReads
<1>1. ClientInv => ReadyAfterReads
    <2> SUFFICES ASSUME ClientInv, NEW c \in Conns, clcb[c].ready, NEW x \in ToRead(c)
                 PROVE  x \in clcb[c].answered
        BY DEF ReadyAfterReads
    <2> DEFINE s == clcb[c]
               rd == "READ"
               types == ReadTypes
    <2>1. Good(c, s) BY DEF ClientInv, Blocks
    <2>2. s.prof \in Profiles BY <2>1 DEF Good, Clcb
    <2>3. Known(c, s.prof, 10) BY <2>1 DEF Good, Chained, Phased
    <2>4. \A p \in Wanted(rd, s.prof) : Asked(rd, s.prof, p) \in s.answered BY <2>1 DEF Good, Counted
    <2>5. PICK p \in Places(ReadOrder, ReadTypes) :
             /\ Expected(c, ReadOrder[p[1]])[p[2]].h # 0
             /\ x = <<"READ", ReadOrder[p[1]], Expected(c, ReadOrder[p[1]])[p[2]].h>>
        BY DEF ToRead
    <2> DEFINE h == Expected(c, ReadOrder[p[1]])[p[2]].h
    <2>6. Order(rd) = ReadOrder /\ rd \in {"READ", "CCCD"} /\ rd = "READ" BY DEF Order
    <2>7. x = <<rd, Order(rd)[p[1]], h>> /\ h # 0 /\ p \in Places(Order(rd), types) BY <2>5, <2>6
    <2>8. h = Expected(c, Order(rd)[p[1]])[p[2]].h BY <2>6
    <2>9. types = IF rd = "READ" THEN ReadTypes ELSE NotifyTypes BY <2>6
    <2> HIDE DEF rd, h, types, s
    <2>10. p \in Wanted(rd, s.prof) /\ Asked(rd, s.prof, p) = <<rd, Order(rd)[p[1]], h>>
        BY <2>2, <2>3, <2>6, <2>7, <2>8, <2>9, ExpectedWanted
    <2>11. QED BY <2>4, <2>7, <2>10 DEF s
<1>2. QED BY <1>1, ClientSafe, PTL
-----------------------------------------------------------------------------
(* Why a device does not stay half way: the invariant of what is under way. *)

\* The player is writing the CCCDs of block s.
Subscribing(s) == s.op # NoOp /\ s.op.kind = "CCCD"

\* The writes of block s, when the application has made n other writes so far:
\* ops_in_progress counts the CCCD writes under way, less the answers to other
\* writes that were counted for them.
Outstanding(q, t) == Cardinality(Queued(q, t))
Writes(s, n) ==
    /\ Outstanding(s.req, "WRITE") <= n
    /\ s.op = NoOp /\ ~s.enabled => Outstanding(s.req, "CCCD") = 0
    /\ Subscribing(s) =>
          \E k \in Nat : /\ k + Outstanding(s.req, "WRITE") <= n
                         /\ (s.op.ops + k) % 256 = Outstanding(s.req, "CCCD") % 256

\* Block s of connection c has a CCCD write to do and nobody to resume it: the
\* stack refused one of the second block, or has yet to tell of room.
Refused(c, s, told) == s.op.todo # {} /\ (c # 1 \/ told)

\* A list of CCCD writes that is not at its end has an answer to come.
Pushed(c, s, told) ==
    Subscribing(s) /\ s.op.index # s.op.cap =>
        \/ Outstanding(s.req, "CCCD") # 0 \/ Outstanding(s.req, "WRITE") # 0
        \/ Refused(c, s, told)

\* A list is not complete, and a list of reads has one under way.
Open(s) ==
    s.op # NoOp => IF s.op.kind = "READ" THEN s.op.ops # 0 ELSE ~IsComplete(s.op)

\* An encrypted link is discovered, subscribed and read, or ready.
Driven(s) == s.enc /\ s.ctx = NoCtx => s.op # NoOp \/ s.ready

\* Nothing is done without a link.
Linked(s) == ~s.up => s.req = <<>> /\ ~s.mtu /\ ~s.enc

Live(c, s, told, n) ==
    Writes(s, n) /\ Pushed(c, s, told) /\ Open(s) /\ Driven(s) /\ Linked(s)

\* The part of it that a handler of the lists establishes.
Busy(c, q, told, n) ==
    /\ Writes(q, n) /\ Pushed(c, q, told) /\ Open(q)
    /\ q.op # NoOp \/ q.ready
    /\ q.ctx = NoCtx

\* A count of one byte, of one write more.
LEMMA ByteUp ==
    ASSUME NEW a \in 0..255, NEW k \in Nat, NEW d \in Nat, (a + k) % 256 = d % 256,
           NEW b, b = (a + 1) % 256
    PROVE  (b + k) % 256 = (d + 1) % 256
<1>1. b = IF a = 255 THEN 0 ELSE a + 1 OBVIOUS
<1>2. QED BY <1>1

\* A count of one byte, of one operation less.
LEMMA CountedDown ==
    ASSUME NEW a \in 0..255
    PROVE  CountDown(a) = IF a = 0 THEN 255 ELSE a - 1
<1>1. CountDown(a) \in Byte /\ (a # 0 => CountDown(a) = a - 1) BY CountDownByte
<1>2. (0 + 255) % 256 = 255 OBVIOUS
<1>3. a = 0 => CountDown(a) = 255 BY <1>2 DEF CountDown
<1>4. QED BY <1>1, <1>3
\* How many requests of a type are in a queue with a request more.
LEMMA OutstandingMore ==
    ASSUME NEW p, NEW q, NEW r, Longer(p, q, r), NEW t
    PROVE  /\ Outstanding(q, t) \in Nat
           /\ Outstanding(p, t) = IF r.t = t THEN Outstanding(q, t) + 1 ELSE Outstanding(q, t)
    BY QueuedMore DEF Outstanding

\* How many, when the first one is gone.
LEMMA OutstandingLess ==
    ASSUME NEW p, NEW q, Shorter(p, q), NEW t
    PROVE  /\ Outstanding(q, t) \in Nat /\ Outstanding(p, t) \in Nat
           /\ Outstanding(p, t) = IF q[1].t = t THEN Outstanding(q, t) - 1 ELSE Outstanding(q, t)
<1>1. p \in Seq(Requests) BY DEF Shorter
<1>2. QED BY <1>1, QueuedLess, QueuedFinite DEF Outstanding

\* How many, in a control block.
LEMMA OutstandingType ==
    ASSUME NEW s, s \in Clcb, NEW t
    PROVE  Outstanding(s.req, t) \in Nat
<1>1. s.req \in Seq(Requests) BY DEF Clcb
<1>2. QED BY <1>1, QueuedFinite DEF Outstanding

\* Only a handler that is to be refused something is refused.
LEMMA RefusedOnly ==
    ASSUME NEW s, s \in Clcb, NEW r, r \in Requests, ~Send(s, r).ok
    PROVE  s.refuse
<1>1. CASE s.refuse /\ r.t \in Refusable BY <1>1
<1>2. CASE ~(s.refuse /\ r.t \in Refusable)
    <2> DEFINE more == Append(s.req, r)
               asked == IF r.t \in {"CCCD", "READ"} THEN s.asked \cup {<<r.t, r.svc, r.h>>} ELSE s.asked
               q == Send(s, r)
    <2>1. q = [s EXCEPT !.ok = TRUE, !.req = more, !.asked = asked] BY <1>2 DEF Send, Clcb
    <2> HIDE DEF more, asked, q
    <2>2. q.ok BY <2>1 DEF Clcb
    <2>3. QED BY <2>2 DEF q
<1>3. QED BY <1>1, <1>2

\* gatt_intf_internal_enable_notification: a write more is under way, or the
\* list is at its end, or the stack refused it.
LEMMA EnableNextShape ==
    ASSUME NEW c \in Conns, NEW s, Good(c, s), Subscribing(s)
    PROVE  LET q == EnableNext(s)
           IN  /\ Subscribing(q) /\ q.up = s.up /\ Good(c, q) /\ (q.refuse => s.refuse)
               /\ Outstanding(q.req, "WRITE") = Outstanding(s.req, "WRITE")
               /\ \/ /\ q.op.index = q.op.cap /\ q.op.ops = s.op.ops
                     /\ Outstanding(q.req, "CCCD") = Outstanding(s.req, "CCCD")
                  \/ /\ q.op.ops = (s.op.ops + 1) % 256
                     /\ Outstanding(q.req, "CCCD") = Outstanding(s.req, "CCCD") + 1
                  \/ /\ s.refuse /\ q.op = s.op /\ q.op.todo # {}
                     /\ Outstanding(q.req, "CCCD") = Outstanding(s.req, "CCCD")
<1> DEFINE q == EnableNext(s)
           f == s.prof
<1>1. s \in Clcb /\ f \in Profiles BY DEF Good, Clcb
<1>2. s.op \in Lists /\ s.op # NoOp /\ s.op.kind = "CCCD" BY DEF Good, Clcb, Subscribing
<1>3. s.op.todo \subseteq Wanted("CCCD", f) /\ IsFiniteSet(s.op.todo) BY <1>2 DEF Good, Listed
<1>4. Good(c, q) /\ Subscribing(q) /\ (q.refuse => s.refuse) BY <1>2, EnableNextGood DEF Subscribing
<1>5. CASE s.op.todo = {}
    <2> DEFINE op == [s.op EXCEPT !.index = s.op.cap]
               u == [s EXCEPT !.op = op]
    <2>1. q = [u EXCEPT !.ok = TRUE] BY <1>1, <1>5 DEF EnableNext, Clcb
    <2>2. op \in Lists /\ op.cap = s.op.cap /\ op.index = s.op.cap /\ op.ops = s.op.ops
        BY <1>2 DEF Lists
    <2> HIDE DEF op, q
    <2>3. u \in Clcb /\ Keeps(s, u) /\ u.op = op /\ u.req = s.req BY <1>1, <2>2, OpReplaced
    <2> HIDE DEF u
    <2>4. q.op = op /\ q.req = s.req /\ q.up = s.up BY <2>1, <2>3 DEF Clcb, Keeps
    <2>5. QED BY <1>4, <2>2, <2>4 DEF q
<1>6. CASE s.op.todo # {}
    <2> DEFINE p0 == FirstPlace(s.op.todo)
               r == EnableRequest(s)
               u == Send(s, r)
    <2>1. p0 \in s.op.todo /\ p0 \in Wanted("CCCD", f)
        <3>1. p0 \in s.op.todo BY <1>2, <1>3, <1>6, AdvanceShape
        <3>2. QED BY <1>3, <3>1
    <2>2. r = Request("CCCD", Order("CCCD")[p0[1]], Handle("CCCD", f, p0))
        BY DEF EnableRequest, Order, Handle
    <2>3. r \in Requests
        <3> DEFINE kk == "CCCD"
        <3>1. kk \in {"READ", "CCCD"} /\ p0 \in Wanted(kk, f) BY <2>1
        <3>2. r = Request(kk, Order(kk)[p0[1]], Handle(kk, f, p0)) BY <2>2
        <3> HIDE DEF kk, p0, r, f
        <3>3. f \in Profiles BY <1>1
        <3>4. QED BY <3>1, <3>2, <3>3, WantedShape
    <2>4. r.t = "CCCD" BY <2>2 DEF Request
    <2>5. q = IF u.ok THEN [u EXCEPT !.op = Advance(u.op)] ELSE u BY <1>6 DEF EnableNext
    <2> HIDE DEF p0, r, q, f
    <2>6. ~u.ok => s.refuse BY <1>1, <2>3, RefusedOnly
    <2>7. /\ u \in Clcb /\ Keeps(s, u) /\ u.op = s.op
          /\ u.ok => Longer(u.req, s.req, r)
          /\ ~u.ok => u.req = s.req
        BY <1>1, <2>3, SendShape
    <2> HIDE DEF u
    <2> DEFINE op == Advance(s.op)
               cd == "CCCD"
               wr == "WRITE"
    <2>8. op \in Lists /\ op.ops = (s.op.ops + 1) % 256 BY <1>2, <1>3, <1>6, AdvanceShape
    <2>9. CASE u.ok
        <3>1. q = [u EXCEPT !.op = op] BY <2>5, <2>7, <2>9
        <3> HIDE DEF op
        <3>2. q.op = op /\ q.req = u.req /\ q.up = s.up BY <2>7, <2>8, <3>1, OpReplaced DEF Keeps
        <3>3. r.t = cd /\ r.t # wr /\ Longer(u.req, s.req, r) BY <2>4, <2>7, <2>9
        <3> HIDE DEF cd, wr
        <3>4. /\ Outstanding(q.req, cd) = Outstanding(s.req, cd) + 1
              /\ Outstanding(q.req, wr) = Outstanding(s.req, wr)
            BY <3>2, <3>3, OutstandingMore
        <3>5. QED BY <1>4, <2>8, <3>2, <3>4 DEF q, cd, wr
    <2>10. CASE ~u.ok
        <3>1. q = u BY <2>5, <2>10
        <3>2. q.op = s.op /\ q.req = s.req /\ q.up = s.up BY <2>7, <2>10, <3>1 DEF Keeps
        <3>3. QED BY <1>4, <1>6, <2>6, <2>10, <3>2 DEF q
    <2>11. QED BY <2>9, <2>10
<1>7. QED BY <1>5, <1>6

\* gatt_intf_internal_read_char_list: a read more is under way, or the list is
\* at its end.
LEMMA ReadNextShape ==
    ASSUME NEW c \in Conns, NEW s, Good(c, s), s.op # NoOp, s.op.kind = "READ",
           "READ" \notin Refusable
    PROVE  LET q == ReadNext(s)
           IN  /\ q.op # NoOp /\ q.op.kind = "READ" /\ q.up = s.up /\ Good(c, q)
               /\ (q.refuse => s.refuse) /\ q.enabled
               /\ Outstanding(q.req, "WRITE") = Outstanding(s.req, "WRITE")
               /\ q.op.index = q.op.cap \/ q.op.ops # 0
<1> DEFINE q == ReadNext(s)
           f == s.prof
<1>1. s \in Clcb /\ f \in Profiles BY DEF Good, Clcb
<1>2. s.op \in Lists BY DEF Good, Clcb
<1>3. s.op.todo \subseteq Wanted("READ", f) /\ IsFiniteSet(s.op.todo) BY DEF Good, Listed
<1>4. Good(c, q) /\ q.op # NoOp /\ q.op.kind = "READ" /\ (q.refuse => s.refuse) BY ReadNextGood
<1>5. CASE s.op.todo = {}
    <2> DEFINE op == [s.op EXCEPT !.index = s.op.cap]
               u == [s EXCEPT !.op = op]
    <2>1. q = [u EXCEPT !.ok = TRUE] BY <1>1, <1>5 DEF ReadNext, Clcb
    <2>2. op \in Lists /\ op.cap = s.op.cap /\ op.index = s.op.cap BY <1>2 DEF Lists
    <2> HIDE DEF op, q
    <2>3. u \in Clcb /\ Keeps(s, u) /\ u.op = op /\ u.req = s.req BY <1>1, <2>2, OpReplaced
    <2> HIDE DEF u
    <2>4. q.op = op /\ q.req = s.req /\ q.up = s.up BY <2>1, <2>3 DEF Clcb, Keeps
    <2>5. q.enabled BY <1>4 DEF Good, Phased
    <2>6. QED BY <1>4, <2>2, <2>4, <2>5 DEF q
<1>6. CASE s.op.todo # {}
    <2> DEFINE p0 == FirstPlace(s.op.todo)
               r == ReadRequest(s)
               u == Send(s, r)
    <2>1. p0 \in s.op.todo /\ p0 \in Wanted("READ", f)
        <3>1. p0 \in s.op.todo BY <1>2, <1>3, <1>6, AdvanceShape
        <3>2. QED BY <1>3, <3>1
    <2>2. r = Request("READ", Order("READ")[p0[1]], Handle("READ", f, p0))
        BY DEF ReadRequest, Order, Handle
    <2>3. r \in Requests
        <3> DEFINE kk == "READ"
        <3>1. kk \in {"READ", "CCCD"} /\ p0 \in Wanted(kk, f) BY <2>1
        <3>2. r = Request(kk, Order(kk)[p0[1]], Handle(kk, f, p0)) BY <2>2
        <3> HIDE DEF kk, p0, r, f
        <3>3. f \in Profiles BY <1>1
        <3>4. QED BY <3>1, <3>2, <3>3, WantedShape
    <2>4. r.t = "READ" BY <2>2 DEF Request
    <2>5. q = IF u.ok THEN [u EXCEPT !.op = Advance(u.op)] ELSE [u EXCEPT !.op.ops = CountDown(u.op.ops)]
        BY <1>6 DEF ReadNext
    <2> HIDE DEF p0, r, q, f
    <2>6. u \in Clcb /\ Keeps(s, u) /\ u.op = s.op /\ u.ok /\ Longer(u.req, s.req, r)
        BY <1>1, <2>3, <2>4, SendShape
    <2> HIDE DEF u
    <2> DEFINE op == Advance(s.op)
               rd == "READ"
               wr == "WRITE"
    <2>7. op \in Lists BY <1>2, <1>3, <1>6, AdvanceShape
    <2>8. q = [u EXCEPT !.op = op] BY <2>5, <2>6
    <2> HIDE DEF op
    <2>9. q.op = op /\ q.req = u.req /\ q.up = s.up BY <2>6, <2>7, <2>8, OpReplaced DEF Keeps
    <2>10. r.t = rd /\ r.t # wr /\ Longer(u.req, s.req, r) BY <2>4, <2>6
    <2> HIDE DEF rd, wr
    <2>11. /\ Outstanding(s.req, rd) \in Nat
           /\ Outstanding(q.req, rd) = Outstanding(s.req, rd) + 1
           /\ Outstanding(q.req, wr) = Outstanding(s.req, wr)
        BY <2>9, <2>10, OutstandingMore
    <2>12. q.enabled /\ Outstanding(q.req, rd) = q.op.ops
        BY <1>4 DEF Good, Phased, Counted, Outstanding, rd
    <2>13. q.op.ops # 0
        <3> DEFINE n == Outstanding(s.req, rd)
        <3>1. n \in Nat /\ q.op.ops = n + 1 BY <2>11, <2>12
        <3> HIDE DEF n
        <3>2. QED BY <3>1
    <2>14. QED BY <1>4, <2>9, <2>11, <2>12, <2>13 DEF q, wr
<1>7. QED BY <1>5, <1>6

\* on_read_remote_cmpl: the device is ready.
LEMMA ReadCmplLive ==
    ASSUME NEW c \in Conns, NEW s, s \in Clcb, s.enabled, s.ctx = NoCtx, NEW n \in Nat,
           Outstanding(s.req, "WRITE") <= n, NEW told, NEW b \in BOOLEAN
    PROVE  LET q == OnReadCmpl(s, b) IN Busy(c, q, told, n) /\ q.up = s.up
<1> DEFINE q == OnReadCmpl(s, b)
           no == NoOp
           hb == s.hash \/ b
<1>1. q = [s EXCEPT !.op = no, !.ready = s.enabled, !.hash = hb] BY DEF OnReadCmpl, Clcb
<1>2. hb \in BOOLEAN /\ no \in {NoOp} \cup Lists BY DEF Clcb
<1> HIDE DEF hb, no, q
<1>3. /\ q.op = no /\ q.ready = s.enabled /\ q.enabled = s.enabled /\ q.req = s.req /\ q.up = s.up
      /\ q.ctx = s.ctx
    BY <1>1, <1>2 DEF Clcb
<1>4. q.op = NoOp BY <1>3 DEF no
<1>5. Writes(q, n) /\ Pushed(c, q, told) /\ Open(q)
    BY <1>3, <1>4 DEF Writes, Pushed, Open, Subscribing
<1>6. QED BY <1>3, <1>4, <1>5 DEF Busy, q

\* Executing the list of reads.
LEMMA ExecuteReadsLive ==
    ASSUME NEW c \in Conns, NEW s, Good(c, s), s.op # NoOp, s.op.kind = "READ",
           "READ" \notin Refusable, NEW n \in Nat, Outstanding(s.req, "WRITE") <= n, NEW told
    PROVE  LET q == ExecuteReads(s) IN Busy(c, q, told, n) /\ q.up = s.up
<1> DEFINE r == ReadNext(s)
           q == ExecuteReads(s)
<1>1. /\ r.op # NoOp /\ r.op.kind = "READ" /\ r.up = s.up /\ Good(c, r) /\ r.enabled
      /\ Outstanding(r.req, "WRITE") = Outstanding(s.req, "WRITE")
      /\ r.op.index = r.op.cap \/ r.op.ops # 0
    BY ReadNextShape
<1>2. q = IF IsComplete(r.op) THEN OnReadCmpl(r, r.ok) ELSE r BY DEF ExecuteReads
<1>3. r \in Clcb /\ r.ok \in BOOLEAN /\ r.ctx = NoCtx BY <1>1 DEF Good, Clcb, Phased
<1> HIDE DEF r, q
<1>4. CASE IsComplete(r.op)
    <2> DEFINE a == OnReadCmpl(r, r.ok)
    <2>1. Outstanding(r.req, "WRITE") <= n BY <1>1
    <2>2. Busy(c, a, told, n) /\ a.up = r.up BY <1>1, <1>3, <2>1, ReadCmplLive
    <2> HIDE DEF a
    <2>3. QED BY <1>1, <1>2, <1>4, <2>2 DEF a, q
<1>5. CASE ~IsComplete(r.op)
    <2>1. q = r BY <1>2, <1>5
    <2>2. r.op.ops # 0 BY <1>1, <1>5 DEF IsComplete
    <2>3. Writes(r, n) /\ Pushed(c, r, told) /\ Open(r)
        BY <1>1, <2>2 DEF Writes, Pushed, Open, Subscribing
    <2>4. Busy(c, r, told, n) BY <1>1, <1>3, <2>3 DEF Busy
    <2>5. QED BY <1>1, <2>1, <2>4 DEF q
<1>6. QED BY <1>4, <1>5

\* on_enable_notification_cmpl: the reads follow the CCCD writes.
LEMMA EnableCmplLive ==
    ASSUME NEW c \in Conns, NEW s, Good(c, s), Subscribing(s), IsComplete(s.op),
           "READ" \notin Refusable, NEW n \in Nat, Outstanding(s.req, "WRITE") <= n, NEW told
    PROVE  LET q == OnEnableCmpl(s) IN Busy(c, q, told, n) /\ q.up = s.up
<1> DEFINE u == [s EXCEPT !.op = NoOp, !.enabled = TRUE]
           op == AllocList("READ", u, ReadOrder, ReadTypes, "h")
           v == [u EXCEPT !.op = op]
           q == ExecuteReads(v)
<1>1. /\ Good(c, u) /\ u.op = NoOp /\ u.ctx = NoCtx /\ u.enc /\ u.enabled /\ ~u.ready
      /\ u.req = s.req /\ u.up = s.up
    BY EnabledGood DEF Subscribing
<1>2. OnEnableCmpl(s) = q BY DEF OnEnableCmpl, ReadRemoteCharacteristics
<1> HIDE DEF u
<1>3. Good(c, v) /\ Keeps(u, v) /\ v.req = u.req /\ v.op # NoOp /\ v.op.kind = "READ"
    BY <1>1, ReadsStarted
<1> HIDE DEF v
<1>4. Outstanding(v.req, "WRITE") <= n BY <1>1, <1>3
<1>5. Busy(c, q, told, n) /\ q.up = v.up BY <1>3, <1>4, ExecuteReadsLive
<1> HIDE DEF q
<1>6. QED BY <1>1, <1>2, <1>3, <1>5 DEF Keeps

\* Executing the list of CCCD writes.
LEMMA ExecuteEnablesLive ==
    ASSUME NEW c \in Conns, NEW s, Good(c, s), Subscribing(s), "READ" \notin Refusable,
           NEW n \in Nat, Writes(s, n), NEW told, s.refuse => told
    PROVE  LET q == ExecuteEnables(s) IN Busy(c, q, told, n) /\ q.up = s.up
<1> DEFINE r == EnableNext(s)
           q == ExecuteEnables(s)
           W(x) == Outstanding(x.req, "WRITE")
           D(x) == Outstanding(x.req, "CCCD")
<1>1. /\ Subscribing(r) /\ r.up = s.up /\ Good(c, r) /\ W(r) = W(s)
      /\ \/ r.op.index = r.op.cap /\ r.op.ops = s.op.ops /\ D(r) = D(s)
         \/ r.op.ops = (s.op.ops + 1) % 256 /\ D(r) = D(s) + 1
         \/ s.refuse /\ r.op = s.op /\ r.op.todo # {} /\ D(r) = D(s)
    BY EnableNextShape
<1>2. q = IF IsComplete(r.op) THEN OnEnableCmpl(r) ELSE r BY DEF ExecuteEnables
<1>3. s \in Clcb /\ r.ctx = NoCtx /\ s.op \in Lists
    BY <1>1 DEF Good, Phased, Subscribing, Clcb
<1>4. W(s) \in Nat /\ D(s) \in Nat /\ W(s) <= n /\ s.op.ops \in 0..255
    BY <1>3, OutstandingType, ListKinds DEF Writes
<1> HIDE DEF r, q
<1>5. CASE IsComplete(r.op)
    <2> DEFINE a == OnEnableCmpl(r)
    <2>1. Outstanding(r.req, "WRITE") <= n BY <1>1, <1>4
    <2>2. Busy(c, a, told, n) /\ a.up = r.up BY <1>1, <1>5, <2>1, EnableCmplLive
    <2> HIDE DEF a
    <2>3. QED BY <1>1, <1>2, <1>5, <2>2 DEF a, q
<1>6. CASE ~IsComplete(r.op)
    <2>1. q = r BY <1>2, <1>6
    <2>2. Pushed(c, r, told)
        <3>1. CASE r.op.index = r.op.cap BY <3>1 DEF Pushed
        <3>2. CASE D(r) = D(s) + 1
            <4>1. D(r) # 0 BY <1>4, <3>2
            <4>2. QED BY <4>1 DEF Pushed
        <3>3. CASE s.refuse /\ r.op.todo # {} BY <3>3 DEF Pushed, Refused
        <3>4. QED BY <1>1, <3>1, <3>2, <3>3
    <2>3. PICK k \in Nat : k + W(s) <= n /\ (s.op.ops + k) % 256 = D(s) % 256 BY DEF Writes
    <2>4. (r.op.ops + k) % 256 = D(r) % 256
        <3> DEFINE a == s.op.ops
                   d == D(s)
        <3>1. a \in 0..255 /\ d \in Nat /\ (a + k) % 256 = d % 256 BY <1>4, <2>3
        <3> DEFINE b == (a + 1) % 256
        <3>2. b = (a + 1) % 256 OBVIOUS
        <3> HIDE DEF a, b, d
        <3>3. (b + k) % 256 = (d + 1) % 256 BY <3>1, <3>2, ByteUp
        <3>4. QED BY <1>1, <2>3, <3>3 DEF a, b, d
    <2>5. W(r) <= n /\ k + W(r) <= n BY <1>1, <1>4, <2>3
    <2>6. Writes(r, n) BY <1>1, <2>4, <2>5 DEF Writes, Subscribing
    <2>7. Open(r) BY <1>1, <1>6 DEF Open, Subscribing
    <2>8. Busy(c, r, told, n) BY <1>1, <1>3, <2>2, <2>6, <2>7 DEF Busy, Subscribing
    <2>9. QED BY <1>1, <2>1, <2>8 DEF q
<1>7. QED BY <1>5, <1>6

\* lepl_enable_app_notifications.
LEMMA StartEnablesLive ==
    ASSUME NEW c \in Conns, NEW s, Good(c, s), s.op = NoOp, s.ctx = NoCtx,
           s.enc, ~s.enabled, s.disc \/ s.hash, "READ" \notin Refusable,
           NEW n \in Nat, Writes(s, n), NEW told, s.refuse => told
    PROVE  LET q == EnableAppNotifications(s) IN Busy(c, q, told, n) /\ q.up = s.up
<1> DEFINE op == AllocList("CCCD", s, NotifyOrder, NotifyTypes, "d")
           u == [s EXCEPT !.op = op]
           q == ExecuteEnables(u)
<1>1. /\ Good(c, u) /\ Keeps(s, u) /\ u.req = s.req
      /\ u.op # NoOp /\ u.op.kind = "CCCD" /\ u.op.ops = 0
    BY EnablesStarted
<1>2. EnableAppNotifications(s) = q BY DEF EnableAppNotifications
<1> HIDE DEF u
<1>3. s \in Clcb BY DEF Good
<1>4. Outstanding(s.req, "WRITE") \in Nat /\ Outstanding(s.req, "WRITE") <= n
      /\ Outstanding(s.req, "CCCD") = 0
    BY <1>3, OutstandingType DEF Writes
<1>5. Subscribing(u) BY <1>1 DEF Subscribing
<1>6. Writes(u, n)
    <2>1. 0 + Outstanding(u.req, "WRITE") <= n BY <1>1, <1>4
    <2>2. (u.op.ops + 0) % 256 = Outstanding(u.req, "CCCD") % 256 BY <1>1, <1>4
    <2>3. QED BY <1>1, <1>4, <2>1, <2>2 DEF Writes
<1>7. u.refuse => told BY <1>1 DEF Keeps
<1>8. Busy(c, q, told, n) /\ q.up = u.up BY <1>1, <1>5, <1>6, <1>7, ExecuteEnablesLive
<1> HIDE DEF q
<1>9. QED BY <1>1, <1>2, <1>8 DEF Keeps

\* gatt_intf_execute_handle_operations.
LEMMA ExecuteLive ==
    ASSUME NEW c \in Conns, NEW s, Good(c, s), s.op # NoOp, "READ" \notin Refusable,
           NEW n \in Nat, Writes(s, n), NEW told, s.refuse => told
    PROVE  LET q == Execute(s) IN Busy(c, q, told, n) /\ q.up = s.up
<1>1. s.op \in Lists BY DEF Good, Clcb
<1>2. s.op.kind \in {"READ", "CCCD"} BY <1>1, ListKinds
<1>3. CASE s.op.kind = "READ"
    <2>1. Execute(s) = ExecuteReads(s) BY <1>3 DEF Execute
    <2>2. Outstanding(s.req, "WRITE") <= n BY DEF Writes
    <2>3. QED BY <1>3, <2>1, <2>2, ExecuteReadsLive
<1>4. CASE s.op.kind = "CCCD"
    <2>1. Execute(s) = ExecuteEnables(s) BY <1>4 DEF Execute
    <2>2. QED BY <1>4, <2>1, ExecuteEnablesLive DEF Subscribing
<1>5. QED BY <1>2, <1>3, <1>4

\* An answer that does not count for the list.
LEMMA UncountedLive ==
    ASSUME NEW c \in Conns, NEW s, NEW u, s \in Clcb, Shorter(u.req, s.req),
           u.op = s.op, u.enabled = s.enabled, Subscribing(s) => s.req[1].t \notin {"CCCD", "WRITE"},
           NEW n \in Nat, Writes(s, n), NEW told, Pushed(c, s, told), Open(s)
    PROVE  Writes(u, n) /\ Pushed(c, u, told) /\ Open(u)
<1> DEFINE cd == "CCCD"
           wr == "WRITE"
           w(x) == Outstanding(x.req, "WRITE")
           d(x) == Outstanding(x.req, "CCCD")
<1>1. d(s) \in Nat /\ d(u) \in Nat /\ d(u) = IF s.req[1].t = "CCCD" THEN d(s) - 1 ELSE d(s)
    <2> HIDE DEF cd
    <2>1. /\ Outstanding(s.req, cd) \in Nat /\ Outstanding(u.req, cd) \in Nat
          /\ Outstanding(u.req, cd) = IF s.req[1].t = cd THEN Outstanding(s.req, cd) - 1
                                                         ELSE Outstanding(s.req, cd)
        BY OutstandingLess
    <2>2. QED BY <2>1 DEF cd
<1>2. w(s) \in Nat /\ w(u) \in Nat /\ w(u) = IF s.req[1].t = "WRITE" THEN w(s) - 1 ELSE w(s)
    <2> HIDE DEF wr
    <2>1. /\ Outstanding(s.req, wr) \in Nat /\ Outstanding(u.req, wr) \in Nat
          /\ Outstanding(u.req, wr) = IF s.req[1].t = wr THEN Outstanding(s.req, wr) - 1
                                                         ELSE Outstanding(s.req, wr)
        BY OutstandingLess
    <2>2. QED BY <2>1 DEF wr
<1>3. w(u) <= n
    <2>1. w(s) <= n BY DEF Writes
    <2> HIDE DEF w
    <2>2. QED BY <1>2, <2>1
<1>4. s.op = NoOp /\ ~s.enabled => d(u) = 0
    <2>1. s.op = NoOp /\ ~s.enabled => d(s) = 0 BY DEF Writes
    <2> HIDE DEF d
    <2>2. QED BY <1>1, <2>1
<1>5. Subscribing(s) => d(u) = d(s) /\ w(u) = w(s) BY <1>1, <1>2
<1>6. Writes(u, n) BY <1>3, <1>4, <1>5 DEF Writes, Subscribing
<1>7. Pushed(c, u, told) BY <1>5 DEF Pushed, Subscribing, Refused
<1>8. Open(u) BY DEF Open
<1>9. QED BY <1>6, <1>7, <1>8

\* The list after an answer that counts for it.
LEMMA CountedDownShape ==
    ASSUME NEW c \in Conns, NEW s, Good(c, s), s.req # <<>>,
           Head(s.req).t \in {"CCCD", "READ", "WRITE"}, s.op # NoOp
    PROVE  LET u == Answered(s)
               r == [u EXCEPT !.op.ops = CountDown(@)]
           IN  /\ r.op # NoOp /\ r.op.kind = s.op.kind /\ r.op.ops = CountDown(s.op.ops)
               /\ r.op.index = s.op.index /\ r.op.cap = s.op.cap
               /\ r.req = u.req /\ r.up = s.up /\ r.enabled = s.enabled
<1> DEFINE u == Answered(s)
           r == [u EXCEPT !.op.ops = CountDown(@)]
           m == CountDown(s.op.ops)
           op == [s.op EXCEPT !.ops = m]
           rest == Tail(s.req)
           got == s.answered \cup {<<Head(s.req).t, Head(s.req).svc, Head(s.req).h>>}
<1>1. u \in Clcb /\ u.op = s.op /\ u.enabled = s.enabled BY AnsweredShape
<1>2. s \in Clcb /\ s.op \in Lists /\ s.op.ops \in 0..255 BY ListKinds DEF Good, Clcb
<1>3. u.up = s.up
    <2>1. u = [s EXCEPT !.req = rest, !.answered = got] BY <1>2 DEF Answered, Popped, Clcb
    <2> HIDE DEF u, rest, got
    <2>2. QED BY <1>2, <2>1 DEF Clcb
<1>4. m \in Byte
    <2> DEFINE a == s.op.ops
    <2>1. a \in 0..255 BY <1>2
    <2> HIDE DEF a
    <2>2. CountDown(a) \in Byte BY <2>1, CountDownByte
    <2>3. QED BY <2>2 DEF a
<1>5. r = [u EXCEPT !.op = op] BY <1>1 DEF Clcb
<1> HIDE DEF u, r, m
<1>6. op \in Lists /\ op.kind = s.op.kind /\ op.cap = s.op.cap /\ op.index = s.op.index
      /\ op.ops = m
    BY <1>2, <1>4 DEF Lists
<1> HIDE DEF op
<1>7. op # NoOp BY <1>6, ListKinds
<1>8. Keeps(u, r) /\ r.op = op /\ r.req = u.req BY <1>1, <1>5, <1>6, OpReplaced
<1>9. QED BY <1>1, <1>3, <1>6, <1>7, <1>8 DEF Keeps, u, r, m

\* gatt_intf_handle_gatt_operation_complete.
LEMMA OperationCompleteLive ==
    ASSUME NEW c \in Conns, NEW s, Good(c, s), s.req # <<>>,
           NEW t \in {"CCCD", "READ", "WRITE"}, Head(s.req).t = t, NEW b \in BOOLEAN,
           "READ" \notin Refusable, NEW n \in Nat, NEW told, s.refuse => told,
           Live(c, s, told, n)
    PROVE  LET q == OperationComplete(Answered(s), t, b) IN Live(c, q, told, n)
<1> DEFINE u == Answered(s)
           counts == \/ u.op.kind = "READ" /\ t = "READ"
                     \/ u.op.kind = "CCCD" /\ t \in {"CCCD", "WRITE"}
           r == [u EXCEPT !.op.ops = CountDown(@)]
           q == OperationComplete(u, t, b)
           rest == Tail(s.req)
           got == s.answered \cup {<<Head(s.req).t, Head(s.req).svc, Head(s.req).h>>}
<1>1. /\ u \in Clcb /\ u.op = s.op /\ u.ctx = s.ctx /\ u.enc = s.enc /\ u.enabled = s.enabled
      /\ u.ready = s.ready /\ u.refuse = s.refuse /\ Shorter(u.req, s.req) /\ s.req[1] = Head(s.req)
    BY AnsweredShape
<1>2. s \in Clcb BY DEF Good
<1>3. u.up = s.up
    <2>1. u = [s EXCEPT !.req = rest, !.answered = got] BY <1>2 DEF Answered, Popped, Clcb
    <2> HIDE DEF u, rest, got
    <2>2. QED BY <1>2, <2>1 DEF Clcb
<1>4. s.op = NoOp \/ s.op.kind \in {"READ", "CCCD"}
    <2>1. s.op \in {NoOp} \cup Lists BY DEF Good, Clcb
    <2>2. QED BY <2>1, ListKinds
<1>5. s.op = NoOp => s.op.kind = "NONE" BY DEF NoOp
<1>6. Writes(s, n) /\ Pushed(c, s, told) /\ Open(s) /\ Driven(s) /\ s.up BY DEF Live, Linked
<1>7. ASSUME NEW x, Busy(c, x, told, n), x.up = s.up PROVE Live(c, x, told, n)
    BY <1>6, <1>7 DEF Busy, Live, Driven, Linked
<1>8. CASE ~counts
    <2>1. q = u BY <1>8 DEF OperationComplete
    <2>2. Subscribing(s) => s.req[1].t \notin {"CCCD", "WRITE"} BY <1>1, <1>8 DEF Subscribing
    <2> HIDE DEF u, q
    <2>3. Writes(u, n) /\ Pushed(c, u, told) /\ Open(u) BY <1>1, <1>2, <1>6, <2>2, UncountedLive
    <2>4. Driven(u) /\ Linked(u) BY <1>1, <1>3, <1>6 DEF Driven, Linked
    <2>5. QED BY <2>1, <2>3, <2>4 DEF Live, q, u
<1>9. CASE counts
    <2>1. s.op # NoOp /\ (t = "READ" <=> s.op.kind = "READ") BY <1>1, <1>5, <1>9
    <2>2. Good(c, r) /\ r.op # NoOp /\ r.op.kind = s.op.kind /\ (r.refuse => s.refuse)
        BY <2>1, CountedDownGood
    <2>3. /\ r.op.ops = CountDown(s.op.ops) /\ r.op.index = s.op.index /\ r.op.cap = s.op.cap
          /\ r.req = u.req /\ r.up = s.up /\ r.enabled = s.enabled
        BY <2>1, CountedDownShape
    <2>4. /\ IsComplete(r.op) =>
                q = IF r.op.kind = "READ" THEN OnReadCmpl(r, b) ELSE OnEnableCmpl(r)
          /\ ~IsComplete(r.op) => q = IF r.op.index # r.op.cap THEN Execute(r) ELSE r
        BY <1>9 DEF OperationComplete
    <2> HIDE DEF u, r, q
    <2> DEFINE W(x) == Outstanding(x.req, "WRITE")
               D(x) == Outstanding(x.req, "CCCD")
    <2>5. /\ W(s) \in Nat /\ W(r) \in Nat /\ W(r) = IF t = "WRITE" THEN W(s) - 1 ELSE W(s)
          /\ D(s) \in Nat /\ D(r) \in Nat /\ D(r) = IF t = "CCCD" THEN D(s) - 1 ELSE D(s)
        <3> DEFINE cd == "CCCD"
                   wr == "WRITE"
        <3> HIDE DEF cd, wr
        <3>1. /\ Outstanding(s.req, cd) \in Nat /\ Outstanding(u.req, cd) \in Nat
              /\ Outstanding(u.req, cd) = IF s.req[1].t = cd THEN Outstanding(s.req, cd) - 1
                                                             ELSE Outstanding(s.req, cd)
            BY <1>1, OutstandingLess
        <3>2. /\ Outstanding(s.req, wr) \in Nat /\ Outstanding(u.req, wr) \in Nat
              /\ Outstanding(u.req, wr) = IF s.req[1].t = wr THEN Outstanding(s.req, wr) - 1
                                                             ELSE Outstanding(s.req, wr)
            BY <1>1, OutstandingLess
        <3>3. QED BY <1>1, <2>3, <3>1, <3>2 DEF cd, wr
    <2>6. W(r) <= n
        <3>1. W(s) <= n BY <1>6 DEF Writes
        <3> HIDE DEF W
        <3>2. QED BY <2>5, <3>1
    <2>7. r \in Clcb /\ r.ctx = NoCtx BY <2>2 DEF Good, Phased
    <2>8. Writes(r, n)
        <3>1. CASE s.op.kind = "READ" BY <2>2, <2>6, <3>1 DEF Writes, Subscribing
        <3>2. CASE s.op.kind = "CCCD"
            <4>1. PICK k \in Nat : k + W(s) <= n /\ (s.op.ops + k) % 256 = D(s) % 256
                BY <1>6, <2>1, <3>2 DEF Writes, Subscribing
            <4> DEFINE a == s.op.ops
                       d == D(s)
                       m == CountDown(a)
            <4>2. a \in 0..255 /\ d \in Nat /\ (a + k) % 256 = d % 256
                <5>1. s.op \in Lists BY <2>1 DEF Good, Clcb
                <5>2. QED BY <2>5, <4>1, <5>1, ListKinds
            <4> HIDE DEF a, d
            <4>8. m = IF a = 0 THEN 255 ELSE a - 1 BY <4>2, CountedDown
            <4> HIDE DEF m
            <4>9. d # 0 => (m + k) % 256 = (d - 1) % 256 BY <4>2, <4>8
            <4>3. (m + (k + 1)) % 256 = d % 256 BY <4>2, <4>8
            <4> HIDE DEF D, W
            <4>4. CASE t = "CCCD"
                <5>1. D(r) = d - 1 /\ d # 0 /\ W(r) = W(s) BY <2>5, <4>2, <4>4 DEF d
                <5>2. (r.op.ops + k) % 256 = D(r) % 256 /\ k + W(r) <= n
                    BY <2>3, <4>1, <4>9, <5>1 DEF a, m
                <5>3. QED BY <2>2, <2>6, <5>2 DEF Writes, Subscribing, D, W
            <4>5. CASE t = "WRITE"
                <5> DEFINE j == k + 1
                <5>1. D(r) = d /\ W(r) = W(s) - 1 BY <2>5, <4>5 DEF d
                <5>2. j \in Nat /\ j + W(r) <= n BY <2>5, <4>1, <5>1
                <5>3. (r.op.ops + j) % 256 = D(r) % 256 BY <2>3, <4>3, <5>1 DEF a, m
                <5> HIDE DEF j
                <5>4. QED BY <2>2, <2>6, <5>2, <5>3 DEF Writes, Subscribing, D, W
            <4>6. t \in {"CCCD", "WRITE"} BY <2>1, <3>2
            <4>7. QED BY <4>4, <4>5, <4>6
        <3>3. QED BY <1>4, <2>1, <3>1, <3>2
    <2>9. CASE IsComplete(r.op) /\ r.op.kind = "READ"
        <3> DEFINE a == OnReadCmpl(r, b)
        <3>1. r.enabled BY <2>2, <2>9 DEF Good, Phased
        <3>2. Outstanding(r.req, "WRITE") <= n BY <2>6
        <3>3. Busy(c, a, told, n) /\ a.up = r.up BY <2>7, <3>1, <3>2, ReadCmplLive
        <3> HIDE DEF a
        <3>4. Live(c, a, told, n) BY <1>7, <2>3, <3>3
        <3>5. q = a BY <2>4, <2>9 DEF a
        <3>6. QED BY <3>4, <3>5 DEF q, u
    <2>10. CASE IsComplete(r.op) /\ r.op.kind # "READ"
        <3> DEFINE a == OnEnableCmpl(r)
        <3>1. Subscribing(r) BY <1>4, <2>1, <2>2, <2>10 DEF Subscribing
        <3>2. Outstanding(r.req, "WRITE") <= n BY <2>6
        <3>3. Busy(c, a, told, n) /\ a.up = r.up BY <2>2, <2>10, <3>1, <3>2, EnableCmplLive
        <3> HIDE DEF a
        <3>4. Live(c, a, told, n) BY <1>7, <2>3, <3>3
        <3>5. q = a BY <2>4, <2>10 DEF a
        <3>6. QED BY <3>4, <3>5 DEF q, u
    <2>11. CASE ~IsComplete(r.op) /\ r.op.index # r.op.cap
        <3> DEFINE a == Execute(r)
        <3>1. r.refuse => told BY <2>2
        <3>2. Busy(c, a, told, n) /\ a.up = r.up BY <2>2, <2>8, <3>1, ExecuteLive
        <3> HIDE DEF a
        <3>3. Live(c, a, told, n) BY <1>7, <2>3, <3>2
        <3>4. q = a BY <2>4, <2>11 DEF a
        <3>5. QED BY <3>3, <3>4 DEF q, u
    <2>12. CASE ~IsComplete(r.op) /\ r.op.index = r.op.cap
        <3>1. Pushed(c, r, told) BY <2>12 DEF Pushed
        <3>2. Open(r) BY <2>12 DEF Open, IsComplete
        <3>3. Busy(c, r, told, n) BY <2>2, <2>7, <2>8, <3>1, <3>2 DEF Busy
        <3>4. Live(c, r, told, n) BY <1>7, <2>3, <3>3
        <3>5. q = r BY <2>4, <2>12
        <3>6. QED BY <3>4, <3>5 DEF q, u
    <2>13. QED BY <2>9, <2>10, <2>11, <2>12
<1>10. QED BY <1>8, <1>9
-----------------------------------------------------------------------------
(* The discovery, and the other events.                                     *)

\* A block that subscribes to nothing and has no CCCD write under way.
Clear(s, n) == /\ s.up /\ s.op = NoOp
               /\ Outstanding(s.req, "WRITE") <= n /\ Outstanding(s.req, "CCCD") = 0

\* The discovery goes on.
Ahead(s, n) == Clear(s, n) /\ s.ctx # NoCtx /\ s.ctx.st # "COMPLETE"

\* A block that discovers is live.
LEMMA DiscoveringLive ==
    ASSUME NEW c \in Conns, NEW s, NEW n \in Nat, Clear(s, n), s.ctx # NoCtx, NEW told
    PROVE  Live(c, s, told, n)
    BY DEF Clear, Live, Writes, Pushed, Open, Driven, Linked, Subscribing

\* A block whose list a handler has driven is live.
LEMMA BusyLive ==
    ASSUME NEW c \in Conns, NEW s, s.up, NEW n \in Nat, NEW told, Busy(c, s, told, n)
    PROVE  Live(c, s, told, n)
    BY DEF Busy, Live, Driven, Linked

\* A discovery command is none of the writes.
LEMMA CommandClear ==
    ASSUME NEW c \in Conns, NEW s, s \in Clcb, NEW v \in Services, NEW st, st \in Phases,
           NEW n \in Nat, Clear(s, n)
    PROVE  LET d == Discover(c, s, v, st)
           IN  d \in Clcb /\ Keeps(s, d) /\ d.ctx = s.ctx /\ Clear(d, n)
<1> DEFINE r == Command(v, st, Results(c, v, st))
           d == Discover(c, s, v, st)
           wr == "WRITE"
           cd == "CCCD"
<1>1. r \in Requests /\ r.t = "DISCOVER" BY CommandShape
<1>2. d = Send(s, r) BY DEF Discover
<1>3. r.t # wr /\ r.t # cd BY <1>1
<1> HIDE DEF r, d, wr, cd
<1>4. /\ d \in Clcb /\ Keeps(s, d) /\ d.ctx = s.ctx /\ d.op = s.op
      /\ d.ok => Longer(d.req, s.req, r)
      /\ ~d.ok => d.req = s.req
    BY <1>1, <1>2, SendShape
<1>5. Outstanding(d.req, wr) = Outstanding(s.req, wr) /\ Outstanding(d.req, cd) = Outstanding(s.req, cd)
    BY <1>3, <1>4, OutstandingMore
<1>6. Clear(d, n) BY <1>4, <1>5 DEF Clear, Keeps, wr, cd
<1>7. QED BY <1>4, <1>6 DEF d

\* Another context changes nothing of that.
LEMMA ContextClear ==
    ASSUME NEW s, s \in Clcb, NEW x, x \in Contexts, NEW n \in Nat, Clear(s, n)
    PROVE  LET q == [s EXCEPT !.ctx = x] IN q \in Clcb /\ Clear(q, n) /\ q.ctx = x
<1> DEFINE q == [s EXCEPT !.ctx = x]
<1>1. q \in Clcb /\ Keeps(s, q) /\ q.ctx = x /\ q.op = s.op /\ q.req = s.req
    BY ContextReplaced
<1> HIDE DEF q
<1>2. Clear(q, n) BY <1>1 DEF Clear, Keeps
<1>3. QED BY <1>1, <1>2 DEF q

\* gatt_intf_start_service_discovery.
LEMMA StartAhead ==
    ASSUME NEW c \in Conns, NEW s, s \in Clcb, NEW v \in Services, NEW n \in Nat, Clear(s, n)
    PROVE  Ahead(StartServiceDiscovery(c, s, v), n)
<1> DEFINE a == AllocCtx(v)
           x == [a EXCEPT !.st = "SERVICE"]
           sv == "SERVICE"
           d == Discover(c, s, v, sv)
           q == StartServiceDiscovery(c, s, v)
<1>1. a \in Ctx(v) BY AllocShape
<1>2. q = [d EXCEPT !.ctx = x] BY DEF StartServiceDiscovery
<1> HIDE DEF a
<1>3. x \in Ctx(v) /\ x.st = "SERVICE" BY <1>1 DEF Ctx, DiscoveryStates
<1> HIDE DEF x
<1>4. x \in Contexts /\ x # NoCtx BY <1>3, ContextOf
<1>5. sv \in Phases BY DEF Phases
<1> HIDE DEF sv, q
<1>6. d \in Clcb /\ Clear(d, n) BY <1>5, CommandClear
<1> HIDE DEF d
<1>7. Clear(q, n) /\ q.ctx = x BY <1>2, <1>4, <1>6, ContextClear
<1>8. QED BY <1>3, <1>4, <1>7 DEF Ahead, q

\* gatt_intf_internal_send_next_service_discovery_cmd.
LEMMA SendNextClear ==
    ASSUME NEW c \in Conns, NEW s, s \in Clcb, NEW v \in Services, s.ctx \in Ctx(v),
           NEW n \in Nat, Clear(s, n),
           LET nxt == NextPhase(v, s.ctx.st)
           IN  nxt # "COMPLETE" /\ s.ctx.found => nxt \in Phases
    PROVE  Clear(SendNext(c, s), n)
<1> DEFINE nxt == NextPhase(v, s.ctx.st)
           end == nxt = "COMPLETE" \/ ~s.ctx.found
           r   == IF end THEN [s EXCEPT !.ok = FALSE] ELSE Discover(c, s, v, nxt)
           st  == IF r.ok THEN nxt ELSE "COMPLETE"
           x   == [r.ctx EXCEPT !.st = st]
           q   == SendNext(c, s)
<1>1. s.ctx.svc = v BY ContextOf
<1>2. r \in Clcb /\ r.ctx = s.ctx /\ Clear(r, n) /\ (r.ok => ~end)
    <2>1. CASE end
        <3>1. r = [s EXCEPT !.ok = FALSE] BY <2>1
        <3> HIDE DEF r
        <3>2. r \in Clcb /\ r.ctx = s.ctx /\ r.up = s.up /\ r.op = s.op /\ r.req = s.req /\ ~r.ok
            BY <3>1 DEF Clcb
        <3>3. QED BY <3>2 DEF Clear
    <2>2. CASE ~end
        <3> DEFINE d == Discover(c, s, v, nxt)
        <3>1. nxt \in Phases BY <2>2
        <3> HIDE DEF nxt
        <3>2. d \in Clcb /\ d.ctx = s.ctx /\ Clear(d, n) BY <3>1, CommandClear
        <3> HIDE DEF d
        <3>3. r = d BY <2>2 DEF d
        <3> HIDE DEF r
        <3>4. QED BY <2>2, <3>2, <3>3
    <2>3. QED BY <2>1, <2>2
<1>3. st \in DiscoveryStates BY <1>2 DEF Phases, DiscoveryStates
<1>4. q = [r EXCEPT !.ctx = x]
    <2>1. q = [r EXCEPT !.ctx.st = st] BY <1>1 DEF SendNext
    <2> HIDE DEF r, st, q
    <2>2. QED BY <1>2, <2>1 DEF Clcb
<1> HIDE DEF r, st, q
<1>5. x \in Ctx(v) BY <1>2, <1>3 DEF Ctx
<1> HIDE DEF x
<1>6. x \in Contexts BY <1>5, ContextOf
<1>7. Clear(q, n) BY <1>2, <1>4, <1>6, ContextClear
<1>8. QED BY <1>7 DEF q

\* gatt_intf_start_secondary_service_discovery.
LEMMA StartSecondaryAhead ==
    ASSUME NEW c \in Conns, NEW s, Between(c, s), NEW v \in Services, v # "MICS", TurnOf(c, s, v),
           "DISCOVER" \notin Refusable, NEW n \in Nat, Clear(s, n)
    PROVE  Ahead(StartSecondaryDiscovery(c, s, v), n)
<1> DEFINE a == AllocCtx(v)
           x == [a EXCEPT !.st = "INCLUDE", !.found = TRUE]
           u == [s EXCEPT !.ctx = x]
           y == [x EXCEPT !.st = "CHARS"]
           q == SendNext(c, u)
<1>1. /\ a \in Ctx(v) /\ a.svc = v /\ a.inc = 0 /\ ~a.found /\ a.last = 0
      /\ FoundUpTo(c, v, a.chars, 0) /\ DescribedUpTo(c, v, a.chars, 0)
    BY AllocShape
<1>2. StartSecondaryDiscovery(c, s, v) = q BY DEF StartSecondaryDiscovery
<1> HIDE DEF a
<1>3. /\ x \in Ctx(v) /\ x.st = "INCLUDE" /\ x.svc = a.svc /\ x.chars = a.chars
      /\ x.inc = a.inc /\ x.found = TRUE /\ x.last = a.last
    BY <1>1 DEF Ctx, DiscoveryStates
<1> HIDE DEF x
<1>4. /\ y \in Ctx(v) /\ y.st = "CHARS" /\ y.svc = x.svc /\ y.chars = x.chars
      /\ y.inc = x.inc /\ y.found = x.found /\ y.last = x.last
    BY <1>3 DEF Ctx, DiscoveryStates
<1> HIDE DEF y
<1>5. Progress(c, y, 0) BY <1>1, <1>3, <1>4 DEF Progress
<1>6. x \in Contexts BY <1>3, ContextOf
<1>7. s \in Clcb BY DEF Between
<1>8. u \in Clcb /\ Keeps(s, u) /\ u.ctx = x /\ u.op = s.op /\ u.req = s.req /\ u.refuse = s.refuse
    BY <1>6, <1>7, ContextReplaced
<1>9. Clear(u, n) BY <1>6, <1>7, ContextClear
<1> HIDE DEF u
<1>10. Between(c, u) /\ TurnOf(c, u, v) BY <1>8, BetweenKept
<1>11. NextPhase(v, u.ctx.st) = "CHARS" BY <1>3, <1>8 DEF NextPhase
<1>12. [u.ctx EXCEPT !.st = NextPhase(v, u.ctx.st)] = y BY <1>8, <1>11 DEF y
<1>13. NextPhase(v, u.ctx.st) \in Phases /\ y.st = NextPhase(v, u.ctx.st)
    BY <1>4, <1>11 DEF Phases
<1>14. u.ctx \in Ctx(v) /\ u.ctx.found BY <1>3, <1>8
<1>15. Clear(q, n) BY <1>8, <1>9, <1>13, <1>14, SendNextClear
<1>16. /\ q.ctx \in Ctx(v)
       /\ q.ctx.st = "COMPLETE" => NextPhase(v, u.ctx.st) = "COMPLETE" \/ ~u.ctx.found
    BY <1>4, <1>5, <1>10, <1>12, <1>13, <1>14, SendNextGood
<1> HIDE DEF q
<1>17. q.ctx # NoCtx /\ q.ctx.st # "COMPLETE" BY <1>11, <1>14, <1>16, ContextOf
<1>18. QED BY <1>2, <1>15, <1>17 DEF Ahead

\* The callback of a service: the next one has its turn, or the list of CCCD
\* writes is executed.
LEMMA AppCallbackLive ==
    ASSUME NEW c \in Conns, NEW s, Between(c, s), NEW v \in Services, TurnOf(c, s, v),
           s.ctx \in Ctx(v), "DISCOVER" \notin Refusable, "READ" \notin Refusable,
           Db[c][v] # <<>> => s.ctx.chars = Expected(c, v),
           v = "MICS" => s.ctx.inc = NumAics(c),
           NEW n \in Nat, Clear(s, n), NEW told, s.refuse => told
    PROVE  LET q == AppCallback(c, s) IN Ahead(q, n) \/ (Busy(c, q, told, n) /\ q.up)
<1> DEFINE u == CacheResults(s)
           q == AppCallback(c, s)
           done == Ahead(q, n) \/ (Busy(c, q, told, n) /\ q.up)
<1>1. s.ctx.svc = v /\ s.ctx.inc \in 0..2 BY ContextOf
<1>2. /\ Between(c, u) /\ u.ctx = NoCtx /\ u.aics = s.aics /\ u.refuse = s.refuse
      /\ u.req = s.req /\ u.up = s.up /\ Known(c, u.prof, Position(v))
    BY CacheShape
<1>3. Clear(u, n) /\ u \in Clcb BY <1>2 DEF Clear, Between
<1>4. {"ASCS", "PACS", "BASS", "VCS", "MICS", "AICS1", "AICS2", "CSIS", "GMAP", "HAS"} = Services
    BY DEF Services, Primary, Aics
<1>5. ASSUME NEW w \in {"PACS", "BASS", "VCS", "MICS", "CSIS", "GMAP", "HAS"}, NEW r, r \in Clcb, Clear(r, n),
             q = StartServiceDiscovery(c, r, w)
      PROVE  done
    <2>1. w \in Services BY <1>4
    <2> HIDE DEF q
    <2>2. Ahead(q, n) BY <1>5, <2>1, StartAhead
    <2>3. QED BY <2>2 DEF q
<1>6. ASSUME NEW w \in Aics, NEW r, Between(c, r), Clear(r, n), TurnOf(c, r, w),
             q = StartSecondaryDiscovery(c, r, w)
      PROVE  done
    <2>1. w \in Services /\ w # "MICS" BY DEF Services, Aics
    <2> HIDE DEF q
    <2>2. Ahead(q, n) BY <1>6, <2>1, StartSecondaryAhead
    <2>3. QED BY <2>2 DEF q
<1>7. CASE v = "ASCS"
    <2>1. q = StartServiceDiscovery(c, u, "PACS")
        BY <1>1, <1>7 DEF AppCallback, on_ascs_discovery_complete, pacs_discover_service, Aics
    <2> HIDE DEF u, q
    <2>2. done BY <1>3, <1>5, <2>1
    <2>3. QED BY <2>2 DEF q
<1>8. CASE v = "PACS"
    <2>1. q = StartServiceDiscovery(c, u, "BASS")
        BY <1>1, <1>8 DEF AppCallback, on_pacs_discovery_complete, bass_discover_service, Aics
    <2> HIDE DEF u, q
    <2>2. done BY <1>3, <1>5, <2>1
    <2>3. QED BY <2>2 DEF q
<1>9. CASE v = "BASS"
    <2>1. q = StartServiceDiscovery(c, u, "VCS")
        BY <1>1, <1>9 DEF AppCallback, on_bass_discovery_complete, vcs_discover_service, Aics
    <2> HIDE DEF u, q
    <2>2. done BY <1>3, <1>5, <2>1
    <2>3. QED BY <2>2 DEF q
<1>10. CASE v = "VCS"
    <2>1. q = StartServiceDiscovery(c, u, "MICS")
        BY <1>1, <1>10 DEF AppCallback, on_vcs_discovery_complete, mics_discover_service, Aics
    <2> HIDE DEF u, q
    <2>2. done BY <1>3, <1>5, <2>1
    <2>3. QED BY <2>2 DEF q
<1>11. CASE v = "CSIS"
    <2>1. q = StartServiceDiscovery(c, u, "GMAP")
        BY <1>1, <1>11 DEF AppCallback, on_csis_discovery_complete, gmap_discover_service, Aics
    <2> HIDE DEF u, q
    <2>2. done BY <1>3, <1>5, <2>1
    <2>3. QED BY <2>2 DEF q
<1>12. CASE v = "GMAP"
    <2>1. q = StartServiceDiscovery(c, u, "HAS")
        BY <1>1, <1>12 DEF AppCallback, on_gmap_discovery_complete, has_discover_service, Aics
    <2> HIDE DEF u, q
    <2>2. done BY <1>3, <1>5, <2>1
    <2>3. QED BY <2>2 DEF q
<1>13. CASE v = "MICS"
    <2> DEFINE m == s.ctx.inc
               a == IF m > s.aics THEN m ELSE s.aics
               t == [s EXCEPT !.aics = a]
               r == CacheResults(t)
    <2>1. q = IF m > 0 THEN aics_discover_service(c, r, 1) ELSE csis_discover_service(c, r)
        <3>1. q = on_mics_discovery_complete(c, s) BY <1>1, <1>13 DEF AppCallback, Aics
        <3>2. QED BY <3>1 DEF on_mics_discovery_complete
    <2>2. a \in 0..2 /\ a = NumAics(c)
        <3> DEFINE A == NumAics(c)
                   b == s.aics
        <3>1. m \in 0..2 /\ b \in 0..2 /\ b <= A /\ m = A BY <1>1, <1>13 DEF Between, Clcb
        <3>2. a = IF m > b THEN m ELSE b OBVIOUS
        <3> HIDE DEF A, b, m, a
        <3>3. a \in 0..2 /\ a = A BY <3>1, <3>2
        <3>4. QED BY <3>3 DEF A
    <2> HIDE DEF a
    <2>3. s \in Clcb BY DEF Between
    <2>4. /\ t \in Clcb /\ t.aics = a /\ t.ctx = s.ctx /\ t.prof = s.prof /\ t.req = s.req
          /\ t.op = s.op /\ t.enc = s.enc /\ t.disc = s.disc /\ t.hash = s.hash /\ t.up = s.up
          /\ t.enabled = s.enabled /\ t.ready = s.ready /\ t.refuse = s.refuse
        BY <2>2, <2>3 DEF Clcb
    <2> HIDE DEF t
    <2>5. a <= NumAics(c) BY <2>2
    <2>6. Between(c, t) BY <2>4, <2>5 DEF Between
    <2>7. TurnOf(c, t, v) BY <1>13, <2>4 DEF TurnOf
    <2>8. /\ Between(c, r) /\ r.aics = a /\ r.req = s.req /\ r.up = s.up
          /\ Known(c, r.prof, Position(v))
        BY <2>4, <2>6, <2>7, CacheShape
    <2>9. Clear(r, n) /\ r \in Clcb BY <2>8 DEF Clear, Between
    <2>10. CASE m > 0
        <3>1. q = StartSecondaryDiscovery(c, r, "AICS1") BY <2>1, <2>10 DEF aics_discover_service
        <3> HIDE DEF r, q
        <3>2. Known(c, r.prof, Position("AICS1") - 1) BY <1>13, <2>8, Positions
        <3>3. TurnOf(c, r, "AICS1") BY <2>2, <2>8, <3>2 DEF TurnOf
        <3>4. done BY <1>6, <2>8, <2>9, <3>1, <3>3 DEF Aics
        <3>5. QED BY <3>4 DEF q
    <2>11. CASE ~(m > 0)
        <3>1. q = StartServiceDiscovery(c, r, "CSIS") BY <2>1, <2>11 DEF csis_discover_service
        <3> HIDE DEF r, q
        <3>2. done BY <1>5, <2>9, <3>1
        <3>3. QED BY <3>2 DEF q
    <2>12. QED BY <2>10, <2>11
<1>14. CASE v \in Aics
    <2>1. q = on_aics_discovery_complete(c, s) BY <1>1, <1>14 DEF AppCallback, Aics
    <2>2. CASE v = "AICS1" /\ s.aics = 2
        <3>1. q = StartSecondaryDiscovery(c, u, "AICS2")
            BY <1>1, <2>1, <2>2 DEF on_aics_discovery_complete, aics_discover_service
        <3> HIDE DEF u, q
        <3>2. TurnOf(c, u, "AICS2") BY <1>2, <2>2, Positions DEF TurnOf
        <3>3. done BY <1>2, <1>3, <1>6, <3>1, <3>2 DEF Aics
        <3>4. QED BY <3>3 DEF q
    <2>3. CASE ~(v = "AICS1" /\ s.aics = 2)
        <3>1. q = StartServiceDiscovery(c, u, "CSIS")
            BY <1>1, <2>1, <2>3 DEF on_aics_discovery_complete, csis_discover_service
        <3> HIDE DEF u, q
        <3>2. done BY <1>3, <1>5, <3>1
        <3>3. QED BY <3>2 DEF q
    <2>4. QED BY <2>2, <2>3
<1>15. CASE v = "HAS"
    <2> DEFINE t == [u EXCEPT !.disc = TRUE]
    <2>1. q = EnableAppNotifications(t)
        BY <1>1, <1>15 DEF AppCallback, on_has_discovery_complete, HandleDiscoveryComplete, Aics
    <2>2. Known(c, u.prof, 10) BY <1>2, <1>15, Positions
    <2> HIDE DEF u, q
    <2>3. /\ Good(c, t) /\ t.op = NoOp /\ t.ctx = NoCtx /\ t.enc /\ ~t.enabled /\ t.disc
          /\ t.refuse = u.refuse /\ t.req = u.req /\ t.up = u.up
        BY <1>2, <2>2, DiscoveredGood
    <2> HIDE DEF t
    <2>4. Writes(t, n) BY <1>3, <2>3 DEF Clear, Writes, Subscribing
    <2>5. t.refuse => told BY <1>2, <2>3
    <2>6. Busy(c, q, told, n) /\ q.up = t.up BY <2>1, <2>3, <2>4, <2>5, StartEnablesLive
    <2>7. t.up BY <1>3, <2>3 DEF Clear
    <2>8. QED BY <2>6, <2>7 DEF q
<1>16. QED BY <1>4, <1>7, <1>8, <1>9, <1>10, <1>11, <1>12, <1>13, <1>14, <1>15 DEF Aics

\* A discovery command is complete, or failed.
LEMMA PoppedClear ==
    ASSUME NEW c \in Conns, NEW s, Good(c, s), s.req # <<>>, Head(s.req).t = "DISCOVER",
           NEW n \in Nat, NEW told, Live(c, s, told, n)
    PROVE  Clear(Popped(s), n)
<1> DEFINE u == Popped(s)
           rest == Tail(s.req)
           wr == "WRITE"
           cd == "CCCD"
<1>1. Head(s.req) = s.req[1] /\ s.ctx # NoCtx /\ s.req \in Seq(Requests) /\ s \in Clcb
    BY HeadAsks
<1>2. u = [s EXCEPT !.req = rest] /\ Shorter(rest, s.req) BY <1>1, QueueOps DEF Popped
<1>3. rest \in Seq(Requests) BY <1>2 DEF Shorter
<1>4. s.req[1].t # wr /\ s.req[1].t # cd BY <1>1
<1> HIDE DEF rest, wr, cd, u
<1>5. u.req = rest /\ u.op = s.op /\ u.up = s.up BY <1>1, <1>2, <1>3 DEF Clcb
<1>6. Outstanding(rest, wr) = Outstanding(s.req, wr) /\ Outstanding(rest, cd) = Outstanding(s.req, cd)
    BY <1>2, <1>4, OutstandingLess
<1>7. s.op = NoOp /\ ~s.enabled BY <1>1 DEF Good, Phased
<1>8. s.up BY DEF Live, Linked
<1>9. Outstanding(s.req, wr) <= n /\ Outstanding(s.req, cd) = 0 BY <1>7 DEF Live, Writes, wr, cd
<1>10. Clear(u, n) BY <1>5, <1>6, <1>7, <1>8, <1>9 DEF Clear, wr, cd
<1>11. QED BY <1>10 DEF u

\* GATT_DISCOVERY_CPLT_EVT.
LEMMA DiscoveryCompleteLive ==
    ASSUME NEW c \in Conns, NEW s, Good(c, s), s.req # <<>>, Head(s.req).t = "DISCOVER",
           Head(s.req).left = <<>>, "DISCOVER" \notin Refusable, "READ" \notin Refusable,
           NEW n \in Nat, NEW told, s.refuse => told, Live(c, s, told, n)
    PROVE  Live(c, OnDiscoveryComplete(c, Popped(s)), told, n)
<1> DEFINE u == Popped(s)
           v == s.ctx.svc
           st == s.ctx.st
           R == Results(c, v, st)
           r == SendNext(c, u)
           d == IF r.ctx.st = "COMPLETE" THEN AppCallback(c, r) ELSE r
           no == NoCtx
           q == IF d.ctx # NoCtx /\ d.ctx.st = "COMPLETE" THEN [d EXCEPT !.ctx = no] ELSE d
<1>1. /\ Head(s.req) = s.req[1] /\ Asks(c, s.ctx, s.req[1]) /\ v \in Services /\ s.ctx \in Ctx(v)
      /\ s.ctx # NoCtx /\ s.req \in Seq(Requests) /\ s \in Clcb
    BY HeadAsks
<1>2. Between(c, u) /\ u.ctx = s.ctx /\ u.refuse = s.refuse /\ TurnOf(c, u, v) BY PoppedShape
<1>3. q = OnDiscoveryComplete(c, Popped(s)) BY DEF OnDiscoveryComplete
<1>4. st \in Phases /\ Progress(c, s.ctx, Len(R))
    <2>1. s.req[1].svc = v /\ s.req[1].st = st /\ st \in Phases BY <1>1 DEF Asks
    <2>2. PICK j \in Nat : Left(s.req[1].left, R, j) /\ Progress(c, s.ctx, j)
        BY <1>1, <2>1 DEF Asks
    <2>3. Left(<<>>, R, j) BY <1>1, <2>2
    <2>4. Len(R) = Len(<<>>) + j BY <2>3 DEF Left
    <2>5. Len(R) = j BY <2>4
    <2>6. QED BY <2>1, <2>2, <2>5
<1>5. Clear(u, n) BY PoppedClear
<1>6. u \in Clcb BY <1>2 DEF Between
<1> HIDE DEF u, R
<1> DEFINE nxt == NextPhase(v, u.ctx.st)
           y   == [u.ctx EXCEPT !.st = nxt]
<1>7. /\ nxt # "COMPLETE" /\ u.ctx.found =>
            nxt \in Phases /\ y \in Ctx(v) /\ y.st = nxt /\ Progress(c, y, 0)
      /\ nxt = "COMPLETE" \/ ~u.ctx.found =>
            /\ Db[c][v] # <<>> => u.ctx.chars = Expected(c, v)
            /\ v = "MICS" => u.ctx.inc = NumAics(c)
    BY <1>1, <1>2, <1>4, PhaseStep DEF R
<1> HIDE DEF y
<1>8. /\ Good(c, r) /\ (r.refuse => u.refuse) /\ r.ctx \in Ctx(v)
      /\ r.ctx.st = "COMPLETE" =>
            /\ Between(c, r) /\ TurnOf(c, r, v)
            /\ r.ctx.chars = u.ctx.chars /\ r.ctx.inc = u.ctx.inc
            /\ nxt = "COMPLETE" \/ ~u.ctx.found
    BY <1>1, <1>2, <1>7, SendNextGood DEF y
<1>9. Clear(r, n) BY <1>1, <1>2, <1>5, <1>6, <1>7, SendNextClear
<1> HIDE DEF r, nxt, v
<1>10. Ahead(d, n) \/ (Busy(c, d, told, n) /\ d.up)
    <2>1. CASE r.ctx.st # "COMPLETE"
        <3>1. d = r BY <2>1
        <3>2. r.ctx # NoCtx BY <1>1, <1>8, ContextOf
        <3>3. QED BY <1>9, <2>1, <3>1, <3>2 DEF Ahead
    <2>2. CASE r.ctx.st = "COMPLETE"
        <3> DEFINE a == AppCallback(c, r)
        <3>1. d = a BY <2>2
        <3>2. /\ Db[c][v] # <<>> => r.ctx.chars = Expected(c, v)
              /\ v = "MICS" => r.ctx.inc = NumAics(c)
            BY <1>7, <1>8, <2>2
        <3>3. v \in Services /\ Between(c, r) /\ TurnOf(c, r, v) /\ r.ctx \in Ctx(v)
            BY <1>1, <1>8, <2>2
        <3>4. r.refuse => told BY <1>2, <1>8
        <3>5. Ahead(a, n) \/ (Busy(c, a, told, n) /\ a.up)
            BY <1>9, <3>2, <3>3, <3>4, AppCallbackLive
        <3> HIDE DEF a, d
        <3>6. QED BY <3>1, <3>5
    <2>3. QED BY <2>1, <2>2
<1> HIDE DEF d
<1>11. q = d BY <1>10 DEF Ahead, Busy
<1>12. CASE Ahead(d, n) BY <1>3, <1>11, <1>12, DiscoveringLive DEF Ahead
<1>13. CASE Busy(c, d, told, n) /\ d.up BY <1>3, <1>11, <1>13, BusyLive
<1>14. QED BY <1>10, <1>12, <1>13

\* GATT_DISCOVERY_CPLT_EVT with an error: the context stays.
LEMMA DiscoveryFailedLive ==
    ASSUME NEW c \in Conns, NEW s, Good(c, s), s.req # <<>>, Head(s.req).t = "DISCOVER",
           NEW n \in Nat, NEW told, Live(c, s, told, n)
    PROVE  Live(c, Popped(s), told, n)
<1> DEFINE u == Popped(s)
<1>1. Clear(u, n) BY PoppedClear
<1>2. u.ctx = s.ctx /\ s.ctx # NoCtx BY PoppedShape, HeadAsks
<1> HIDE DEF u
<1>3. Live(c, u, told, n) BY <1>1, <1>2, DiscoveringLive
<1>4. QED BY <1>3 DEF u

\* GATT_DISCOVERY_RESULT_EVT.
LEMMA ResultLive ==
    ASSUME NEW c \in Conns, NEW s, Good(c, s), s.req # <<>>, Head(s.req).t = "DISCOVER",
           Head(s.req).left # <<>>, NEW n \in Nat, NEW told, Live(c, s, told, n)
    PROVE  Live(c, Delivered(c, s), told, n)
<1> DEFINE q == Delivered(c, s)
<1>1. q.ctx # NoCtx /\ q.op = s.op /\ q.up = s.up /\ \A t : Queued(q.req, t) = Queued(s.req, t)
    BY ResultGood
<1>2. s.ctx # NoCtx BY HeadAsks
<1>3. s.op = NoOp /\ ~s.enabled BY <1>2 DEF Good, Phased
<1>4. s.up BY DEF Live, Linked
<1> HIDE DEF q
<1>5. Clear(q, n) BY <1>1, <1>3, <1>4 DEF Clear, Live, Writes, Outstanding
<1>6. Live(c, q, told, n) BY <1>1, <1>5, DiscoveringLive
<1>7. QED BY <1>6 DEF q

\* app_handle_gatt_operation_complete for the MTU.
LEMMA MtuLive ==
    ASSUME NEW c \in Conns, NEW s, Good(c, s), s.req # <<>>, Head(s.req).t = "MTU",
           NEW n \in Nat, NEW told, Live(c, s, told, n)
    PROVE  Live(c, [Popped(s) EXCEPT !.mtu = TRUE], told, n)
<1> DEFINE q == [Popped(s) EXCEPT !.mtu = TRUE]
<1>1. /\ Shorter(q.req, s.req) /\ s.req[1] = Head(s.req)
      /\ q.up = s.up /\ q.ctx = s.ctx /\ q.op = s.op /\ q.enc = s.enc
      /\ q.enabled = s.enabled /\ q.ready = s.ready
    BY MtuGood
<1>2. s.up /\ s \in Clcb BY DEF Live, Linked, Good
<1>3. Writes(s, n) /\ Pushed(c, s, told) /\ Open(s) /\ Driven(s) BY DEF Live
<1>4. s.req[1].t \notin {"CCCD", "WRITE"} BY <1>1
<1> HIDE DEF q
<1>5. Writes(q, n) /\ Pushed(c, q, told) /\ Open(q) BY <1>1, <1>2, <1>3, <1>4, UncountedLive
<1>6. Driven(q) /\ Linked(q) BY <1>1, <1>2, <1>3 DEF Driven, Linked
<1>7. Live(c, q, told, n) BY <1>5, <1>6 DEF Live
<1>8. QED BY <1>7 DEF q

\* A block that is about to be refused something.
LEMMA RefuseLive ==
    ASSUME NEW c \in Conns, NEW s, Good(c, s), NEW n \in Nat, NEW told, Live(c, s, told, n)
    PROVE  Live(c, [s EXCEPT !.refuse = TRUE], told, n)
<1> DEFINE q == [s EXCEPT !.refuse = TRUE]
<1>1. /\ q.req = s.req /\ q.enc = s.enc /\ q.ctx = s.ctx /\ q.up = s.up /\ q.mtu = s.mtu
      /\ q.op = s.op /\ q.enabled = s.enabled /\ q.ready = s.ready
    BY RefuseGood
<1> HIDE DEF q
<1>2. Subscribing(q) = Subscribing(s) BY <1>1 DEF Subscribing
<1>3. Writes(q, n) BY <1>1, <1>2 DEF Live, Writes
<1>4. Pushed(c, q, told) BY <1>1, <1>2 DEF Live, Pushed, Refused
<1>5. Open(q) /\ Driven(q) /\ Linked(q) BY <1>1 DEF Live, Open, Driven, Linked
<1>6. Live(c, q, told, n) BY <1>3, <1>4, <1>5 DEF Live
<1>7. QED BY <1>6 DEF q

\* What is live stays so when the stack is to tell of room.
LEMMA LiveTold ==
    ASSUME NEW c \in Conns, NEW s, NEW told, NEW n \in Nat, Live(c, s, told, n)
    PROVE  Live(c, s, TRUE, n)
    BY DEF Live, Pushed, Refused

\* What is live stays so when there was another write.
LEMMA LiveMore ==
    ASSUME NEW c \in Conns, NEW s, s \in Clcb, NEW told, NEW n \in Nat, Live(c, s, told, n),
           NEW m \in Nat, n <= m
    PROVE  Live(c, s, told, m)
<1> DEFINE w == Outstanding(s.req, "WRITE")
<1>1. w \in Nat BY OutstandingType
<1>2. Writes(s, m)
    <2>1. Writes(s, n) /\ w <= n BY DEF Live, Writes
    <2>2. w <= m BY <1>1, <2>1
    <2>3. ASSUME NEW k \in Nat, k + w <= n PROVE k + w <= m BY <1>1, <2>3
    <2>4. QED BY <2>1, <2>2, <2>3 DEF Writes
<1>3. QED BY <1>2 DEF Live

\* lepl_btm_handle_encryption_sts.
LEMMA EncryptionLive ==
    ASSUME NEW c \in Conns, NEW s, Good(c, s), ~s.enc, s.up, "READ" \notin Refusable,
           NEW n \in Nat, NEW told, s.refuse => told
    PROVE  Live(c, HandleEncryption(c, s), told, n)
<1> DEFINE e == [s EXCEPT !.enc = TRUE]
           q == HandleEncryption(c, s)
           as == "ASCS"
<1>1. /\ e \in Clcb /\ e.req = s.req /\ e.up = s.up /\ e.refuse = s.refuse
      /\ e.op = NoOp /\ e.ctx = NoCtx /\ e.enc /\ ~e.enabled
      /\ e.hash => Good(c, e)
    BY EncryptedGood
<1>2. q = IF e.hash THEN EnableAppNotifications(e) ELSE StartServiceDiscovery(c, e, as)
    BY DEF HandleEncryption, ascs_discover_service
<1>3. as \in Services BY DEF Services, Primary
<1> HIDE DEF e, q, as
<1>4. Clear(e, n)
    <2>1. \A i \in 1..Len(s.req) : s.req[i].t = "MTU" BY DEF Good, Phased
    <2>2. Queued(s.req, "WRITE") = {} /\ Queued(s.req, "CCCD") = {} BY <2>1 DEF Queued
    <2>3. Cardinality({}) = 0 BY FS_EmptySet
    <2>4. Outstanding(s.req, "WRITE") = 0 /\ Outstanding(s.req, "CCCD") = 0
        BY <2>2, <2>3 DEF Outstanding
    <2>5. QED BY <1>1, <2>4 DEF Clear
<1>5. CASE e.hash
    <2>1. Writes(e, n) BY <1>1, <1>4 DEF Clear, Writes, Subscribing
    <2>2. Busy(c, q, told, n) /\ q.up = e.up BY <1>1, <1>2, <1>5, <2>1, StartEnablesLive
    <2>3. Live(c, q, told, n) BY <1>1, <2>2, BusyLive
    <2>4. QED BY <2>3 DEF q
<1>6. CASE ~e.hash
    <2>1. Ahead(q, n) BY <1>1, <1>2, <1>3, <1>4, <1>6, StartAhead
    <2>2. Live(c, q, told, n) BY <2>1, DiscoveringLive DEF Ahead
    <2>3. QED BY <2>2 DEF q
<1>7. QED BY <1>5, <1>6

\* Another write of the application.
LEMMA OtherWriteLive ==
    ASSUME NEW c \in Conns, NEW s, Good(c, s), s.enc, NEW n \in Nat, NEW told, Live(c, s, told, n)
    PROVE  Live(c, Send(s, Request("WRITE", "NONE", 0)), told, n + 1)
<1> DEFINE r == Request("WRITE", "NONE", 0)
           q == Send(s, r)
           wr == "WRITE"
           cd == "CCCD"
<1>1. r \in Requests /\ r.t = "WRITE"
    <2>1. "WRITE" \in Tags /\ "NONE" \in Names /\ 0 \in Nat BY DEF Tags, Names
    <2>2. QED BY <2>1, RequestShape
<1>2. "WRITE" \notin Refusable BY DbAssumption
<1>3. s \in Clcb BY DEF Good
<1>4. r.t = wr /\ r.t # cd BY <1>1
<1> HIDE DEF r, wr, cd
<1>5. /\ Keeps(s, q) /\ q.ctx = s.ctx /\ q.op = s.op
      /\ q.ok => Longer(q.req, s.req, r)
      /\ ~q.ok => r.t \in Refusable
    BY <1>1, <1>3, SendShape
<1> HIDE DEF q
<1>6. Longer(q.req, s.req, r) BY <1>1, <1>2, <1>5
<1>7. /\ Outstanding(s.req, wr) \in Nat
      /\ Outstanding(q.req, wr) = Outstanding(s.req, wr) + 1
      /\ Outstanding(q.req, cd) = Outstanding(s.req, cd)
    BY <1>4, <1>6, OutstandingMore
<1>8. Subscribing(q) = Subscribing(s) BY <1>5 DEF Subscribing
<1> DEFINE w == Outstanding(s.req, wr)
           x == Outstanding(q.req, wr)
<1>9. w \in Nat /\ x = w + 1 BY <1>7
<1>10. w <= n BY DEF Live, Writes, wr
<1> HIDE DEF w, x
<1>11. x <= n + 1 /\ x # 0 BY <1>9, <1>10
<1>12. \A k \in Nat : k + w <= n => k + x <= n + 1 BY <1>9
<1>13. Writes(q, n + 1)
    <2>1. Writes(s, n) BY DEF Live
    <2>2. Outstanding(q.req, "WRITE") <= n + 1 BY <1>11 DEF x, wr
    <2>3. q.op = NoOp /\ ~q.enabled => Outstanding(q.req, "CCCD") = 0
        BY <1>5, <1>7, <2>1 DEF Writes, Keeps, cd
    <2>4. ASSUME Subscribing(q)
          PROVE  \E k \in Nat : /\ k + Outstanding(q.req, "WRITE") <= n + 1
                                /\ (q.op.ops + k) % 256 = Outstanding(q.req, "CCCD") % 256
        <3>1. PICK k \in Nat : /\ k + Outstanding(s.req, "WRITE") <= n
                              /\ (s.op.ops + k) % 256 = Outstanding(s.req, "CCCD") % 256
            BY <1>8, <2>1, <2>4 DEF Writes
        <3>2. k + Outstanding(q.req, "WRITE") <= n + 1 BY <1>12, <3>1 DEF w, x, wr
        <3>3. q.op = s.op /\ Outstanding(q.req, "CCCD") = Outstanding(s.req, "CCCD")
            BY <1>5, <1>7 DEF cd
        <3>4. QED BY <3>1, <3>2, <3>3
    <2>5. QED BY <2>2, <2>3, <2>4 DEF Writes
<1>14. Pushed(c, q, told) BY <1>11 DEF Pushed, x, wr
<1>15. Open(q) BY <1>5 DEF Live, Open
<1>16. Driven(q) /\ Linked(q) BY <1>5 DEF Live, Driven, Linked, Keeps
<1>17. Live(c, q, told, n + 1) BY <1>13, <1>14, <1>15, <1>16 DEF Live
<1>18. QED BY <1>17 DEF q, r

\* GATT_CONGESTION_EVT; block 1 needs no more room.
LEMMA CongestionLive ==
    ASSUME NEW c \in Conns, NEW s, Good(c, s), "READ" \notin Refusable, ~s.refuse,
           NEW n \in Nat, NEW told, Live(c, s, told, n), NEW told2
    PROVE  Live(c, HandleCongestion(s), told2, n)
<1> DEFINE q == HandleCongestion(s)
<1>1. CASE s.up /\ s.op # NoOp
    <2> DEFINE a == Execute(s)
    <2>1. Writes(s, n) BY DEF Live
    <2>2. Busy(c, a, told2, n) /\ a.up = s.up BY <1>1, <2>1, ExecuteLive
    <2>3. q = a BY <1>1 DEF HandleCongestion
    <2> HIDE DEF a, q
    <2>4. Live(c, a, told2, n) BY <1>1, <2>2, BusyLive
    <2>5. QED BY <2>3, <2>4 DEF q
<1>2. CASE ~(s.up /\ s.op # NoOp)
    <2>1. HandleCongestion(s) = s BY <1>2 DEF HandleCongestion
    <2>2. s.op = NoOp BY <1>2 DEF Live, Linked, Good, Phased
    <2>3. Live(c, s, told2, n) BY <2>2 DEF Live, Pushed, Subscribing
    <2>4. QED BY <2>1, <2>3
<1>3. QED BY <1>1, <1>2

\* A free block.
LEMMA FreeLive ==
    ASSUME NEW c \in Conns, NEW n \in Nat, NEW told
    PROVE  Live(c, FreeClcb, told, n)
<1> DEFINE s == FreeClcb
           nq == <<>>
<1>1. s.op = NoOp /\ s.req = <<>> /\ ~s.enc /\ ~s.mtu BY DEF FreeClcb
<1>2. Len(nq) = 0 OBVIOUS
<1>3. \A t : Queued(s.req, t) = {} BY <1>1, <1>2 DEF Queued
<1> HIDE DEF s
<1>4. \A t : Outstanding(s.req, t) = 0 BY <1>3, FS_EmptySet DEF Outstanding
<1>5. Writes(s, n) BY <1>1, <1>4 DEF Writes, Subscribing
<1>6. Live(c, s, told, n) BY <1>1, <1>5 DEF Live, Pushed, Open, Driven, Linked, Subscribing
<1>7. QED BY <1>6 DEF s

\* A block whose device has just connected.
LEMMA ConnectLive ==
    ASSUME NEW c \in Conns, NEW m, Stored(c, m), NEW n \in Nat, NEW told
    PROVE  LET q == [FreeClcb EXCEPT !.up = TRUE, !.req = <<Request("MTU", "NONE", 0)>>,
                                     !.prof = m.prof, !.aics = m.aics, !.hash = m.hash]
           IN  Live(c, q, told, n)
<1> DEFINE s == FreeClcb
           r == Request("MTU", "NONE", 0)
           p == <<r>>
           q == [s EXCEPT !.up = TRUE, !.req = p, !.prof = m.prof, !.aics = m.aics, !.hash = m.hash]
<1>1. s \in Clcb /\ s.op = NoOp /\ ~s.enc BY FreeGood DEF FreeClcb
<1>2. r.t = "MTU" /\ Len(p) = 1 /\ p[1] = r BY DEF Request
<1> HIDE DEF r, s, p
<1>3. q.req = p /\ q.op = s.op /\ q.enc = s.enc /\ q.up BY <1>1 DEF Clcb
<1> HIDE DEF q
<1>4. Queued(p, "WRITE") = {} /\ Queued(p, "CCCD") = {}
    <2>1. \A i \in 1..Len(p) : p[i].t = "MTU" BY <1>2
    <2>2. QED BY <2>1 DEF Queued
<1>5. Outstanding(q.req, "WRITE") = 0 /\ Outstanding(q.req, "CCCD") = 0
    BY <1>3, <1>4, FS_EmptySet DEF Outstanding
<1>6. Writes(q, n) BY <1>1, <1>3, <1>5 DEF Writes, Subscribing
<1>7. Live(c, q, told, n) BY <1>1, <1>3, <1>6 DEF Live, Pushed, Open, Driven, Linked, Subscribing
<1>8. QED BY <1>7 DEF q, p, s, r
-----------------------------------------------------------------------------
(* Every device is ready, under way, or in a known stall.                   *)

Lives(f, told, n) == \A c \in Conns : Live(c, f[c], told, n)
LiveInv == Lives(clcb, congested, used["other"])

\* One block becomes another live one.
LEMMA BlockLive ==
    ASSUME NEW f, Blocks(f), NEW c \in Conns, NEW q, NEW told, NEW n, Live(c, q, told, n),
           \A d \in Conns : d # c => Live(d, f[d], told, n)
    PROVE  Lives([f EXCEPT ![c] = q], told, n)
<1> DEFINE g == [f EXCEPT ![c] = q]
<1>1. \A d \in Conns : g[d] = IF d = c THEN q ELSE f[d] BY DEF Blocks
<1> HIDE DEF g
<1>2. Lives(g, told, n) BY <1>1 DEF Lives
<1>3. QED BY <1>2 DEF g

\* The other writes are counted, the other faults are not.
LEMMA SpentOther ==
    ASSUME Spent(used), NEW k \in Kinds, Spend(k)
    PROVE  /\ used["other"] \in Nat
           /\ used'["other"] = IF k = "other" THEN used["other"] + 1 ELSE used["other"]
<1>1. "other" \in Kinds BY DEF Kinds
<1>2. used \in [Kinds -> Nat] /\ used' = [used EXCEPT ![k] = @ + 1] BY DEF Spent, Spend
<1>3. QED BY <1>1, <1>2

\* A handler of an event.
LEMMA BecomesLive ==
    ASSUME Blocks(clcb), Spent(used), LiveInv, NEW c \in Conns, NEW q, NEW p,
           Live(c, q, congested, used["other"]), Live(c, p, TRUE, used["other"]),
           \/ clcb' = [clcb EXCEPT ![c] = q] /\ UNCHANGED <<congested, used>>
           \/ ~p.refuse /\ Spend("refused") /\ congested' = TRUE /\ clcb' = [clcb EXCEPT ![c] = p]
    PROVE  LiveInv'
<1> DEFINE n == used["other"]
<1>1. n \in Nat BY DEF Spent, Kinds
<1> HIDE DEF n
<1>2. \A d \in Conns : Live(d, clcb[d], congested, n) BY DEF LiveInv, Lives, n
<1>3. CASE clcb' = [clcb EXCEPT ![c] = q] /\ UNCHANGED <<congested, used>>
    <2> DEFINE told == congested
    <2>1. \A d \in Conns : Live(d, clcb[d], told, n) /\ Live(c, q, told, n) BY <1>2 DEF n
    <2> HIDE DEF told
    <2>2. Lives([clcb EXCEPT ![c] = q], told, n) BY <2>1, BlockLive
    <2>3. QED BY <1>3, <2>2 DEF LiveInv, n, told
<1>4. CASE ~p.refuse /\ Spend("refused") /\ congested' = TRUE /\ clcb' = [clcb EXCEPT ![c] = p]
    <2>1. used'["other"] = n
        <3>1. "refused" \in Kinds /\ "refused" # "other" BY DEF Kinds
        <3>2. QED BY <1>4, <3>1, SpentOther DEF n
    <2> DEFINE yes == TRUE
    <2>2. \A d \in Conns : Live(d, clcb[d], yes, n) BY <1>1, <1>2, LiveTold
    <2>3. Live(c, p, yes, n) BY DEF n
    <2> HIDE DEF yes
    <2>4. Lives([clcb EXCEPT ![c] = p], yes, n) BY <2>2, <2>3, BlockLive
    <2>5. QED BY <1>4, <2>1, <2>4 DEF LiveInv, yes
<1>5. QED BY <1>3, <1>4

\* Every step keeps it.
LEMMA LiveStep ==
    ASSUME "DISCOVER" \notin Refusable, "READ" \notin Refusable
    PROVE  ClientInv /\ LiveInv /\ [Next]_vars => LiveInv'
<1> SUFFICES ASSUME ClientInv, LiveInv, [Next]_vars PROVE LiveInv'
    OBVIOUS
<1> DEFINE n == used["other"]
           told == congested
<1>1. Blocks(clcb) /\ Memory(nvram) /\ Spent(used) BY DEF ClientInv
<1>2. n \in Nat BY <1>1 DEF Spent, Kinds
<1>3. ASSUME NEW c \in Conns
      PROVE  Good(c, clcb[c]) /\ ~clcb[c].refuse /\ Stored(c, nvram[c]) /\ Live(c, clcb[c], told, n)
    BY <1>1 DEF Blocks, Memory, LiveInv, Lives
<1>4. ASSUME UNCHANGED <<clcb, congested>>, used'["other"] = n PROVE LiveInv'
    BY <1>4 DEF LiveInv, Lives
<1>5. CASE UNCHANGED vars BY <1>4, <1>5 DEF vars
<1>6. ASSUME NEW c \in Conns, NEW q, Live(c, q, told, n), clcb' = [clcb EXCEPT ![c] = q],
             UNCHANGED congested, used'["other"] = n
      PROVE  LiveInv'
    <2> HIDE DEF n, told
    <2>1. Lives([clcb EXCEPT ![c] = q], told, n) BY <1>1, <1>3, <1>6, BlockLive
    <2>2. QED BY <1>6, <2>1 DEF LiveInv, n, told
<1>7. ASSUME NEW k \in Kinds, k # "other", Spend(k) PROVE used'["other"] = n
    BY <1>1, <1>7, SpentOther
<1>8. ASSUME NEW c \in Conns, Connect(c) PROVE LiveInv'
    <2> DEFINE m == nvram[c]
               q == [FreeClcb EXCEPT !.up = TRUE, !.req = <<Request("MTU", "NONE", 0)>>,
                                     !.prof = m.prof, !.aics = m.aics, !.hash = m.hash]
    <2>1. clcb' = [clcb EXCEPT ![c] = q] /\ UNCHANGED <<congested, used>> BY <1>8 DEF Connect
    <2> HIDE DEF n, told
    <2>2. Live(c, q, told, n) BY <1>2, <1>3, ConnectLive
    <2> HIDE DEF q
    <2>3. used'["other"] = n BY <2>1 DEF n
    <2>4. QED BY <1>6, <2>1, <2>2, <2>3
<1>9. ASSUME NEW c \in Conns, MtuExchanged(c) PROVE LiveInv'
    <2> DEFINE s == clcb[c]
               q == [Popped(s) EXCEPT !.mtu = TRUE]
    <2>1. clcb' = [clcb EXCEPT ![c] = q] /\ UNCHANGED <<congested, used>> BY <1>9 DEF MtuExchanged
    <2>2. s.req # <<>> /\ Head(s.req).t = "MTU" BY <1>9 DEF MtuExchanged, Waits, Answer
    <2> HIDE DEF n, told
    <2>3. Live(c, q, told, n) BY <1>2, <1>3, <2>2, MtuLive
    <2> HIDE DEF q
    <2>4. used'["other"] = n BY <2>1 DEF n
    <2>5. QED BY <1>6, <2>1, <2>3, <2>4
<1>10. ASSUME NEW c \in Conns, Encrypted(c) PROVE LiveInv'
    <2> DEFINE s == clcb[c]
               t == [s EXCEPT !.refuse = TRUE]
               q == HandleEncryption(c, s)
               p == HandleEncryption(c, t)
               yes == TRUE
    <2>1. /\ \/ clcb' = [clcb EXCEPT ![c] = q] /\ UNCHANGED <<congested, used>>
             \/ /\ ~p.refuse /\ Spend("refused") /\ congested' = TRUE
                /\ clcb' = [clcb EXCEPT ![c] = p]
          /\ ~s.enc /\ s.mtu
        BY <1>10 DEF Encrypted, Becomes
    <2>2. s.up BY <1>3, <2>1 DEF Live, Linked
    <2>3. Good(c, t) /\ ~t.enc /\ t.up BY <1>3, <2>1, <2>2, RefuseGood
    <2>4. yes OBVIOUS
    <2> HIDE DEF n, told, t, yes
    <2>5. Live(c, q, told, n) BY <1>2, <1>3, <2>1, <2>2, EncryptionLive
    <2>6. Live(c, p, yes, n) BY <1>2, <2>3, <2>4, EncryptionLive
    <2> HIDE DEF q, p
    <2>7. QED BY <1>1, <2>1, <2>5, <2>6, BecomesLive DEF n, told, yes
<1>11. ASSUME NEW c \in Conns, DiscoveryResult(c) PROVE LiveInv'
    <2> DEFINE s == clcb[c]
               q == Delivered(c, s)
    <2>1. clcb' = [clcb EXCEPT ![c] = q] /\ UNCHANGED <<congested, used>> BY <1>11 DEF DiscoveryResult
    <2>2. s.req # <<>> /\ Head(s.req).t = "DISCOVER" /\ Head(s.req).left # <<>>
        BY <1>11 DEF DiscoveryResult, Waits, Answer
    <2> HIDE DEF n, told
    <2>3. Live(c, q, told, n) BY <1>2, <1>3, <2>2, ResultLive
    <2> HIDE DEF q
    <2>4. used'["other"] = n BY <2>1 DEF n
    <2>5. QED BY <1>6, <2>1, <2>3, <2>4
<1>12. ASSUME NEW c \in Conns, DiscoveryDone(c) PROVE LiveInv'
    <2> DEFINE s == clcb[c]
               t == [s EXCEPT !.refuse = TRUE]
               q == OnDiscoveryComplete(c, Popped(s))
               p == OnDiscoveryComplete(c, Popped(t))
               yes == TRUE
    <2>1. \/ clcb' = [clcb EXCEPT ![c] = q] /\ UNCHANGED <<congested, used>>
          \/ /\ ~p.refuse /\ Spend("refused") /\ congested' = TRUE
             /\ clcb' = [clcb EXCEPT ![c] = p]
        BY <1>12 DEF DiscoveryDone, Becomes
    <2>2. s.req # <<>> /\ Head(s.req).t = "DISCOVER" /\ Head(s.req).left = <<>>
        BY <1>12 DEF DiscoveryDone, Waits, Answer
    <2>3. Good(c, t) /\ t.req = s.req BY <1>3, RefuseGood
    <2>4. yes /\ (told => yes) OBVIOUS
    <2> HIDE DEF n, told, yes
    <2>5. Live(c, q, told, n) BY <1>2, <1>3, <2>2, DiscoveryCompleteLive
    <2>6. Live(c, s, yes, n) BY <1>2, <1>3, LiveTold DEF yes
    <2>7. Live(c, t, yes, n) BY <1>2, <1>3, <2>6, RefuseLive
    <2> HIDE DEF t
    <2>8. Live(c, p, yes, n) BY <1>2, <2>2, <2>3, <2>4, <2>7, DiscoveryCompleteLive
    <2> HIDE DEF q, p
    <2>9. QED BY <1>1, <2>1, <2>5, <2>8, BecomesLive DEF n, told, yes
<1>13. ASSUME NEW c \in Conns, DiscoveryFailed(c) PROVE LiveInv'
    <2> DEFINE s == clcb[c]
               q == Popped(s)
    <2>1. clcb' = [clcb EXCEPT ![c] = q] /\ UNCHANGED congested /\ Spend("errors")
        BY <1>13 DEF DiscoveryFailed
    <2>2. s.req # <<>> /\ Head(s.req).t = "DISCOVER" BY <1>13 DEF DiscoveryFailed, Waits, Answer
    <2>3. used'["other"] = n BY <1>7, <2>1 DEF Kinds
    <2> HIDE DEF n, told
    <2>4. Live(c, q, told, n) BY <1>2, <1>3, <2>2, DiscoveryFailedLive
    <2> HIDE DEF q
    <2>5. QED BY <1>6, <2>1, <2>3, <2>4
<1>14. ASSUME NEW c \in Conns, DiscoveryTimeout(c) PROVE LiveInv'
    BY <1>4, <1>14 DEF DiscoveryTimeout
<1>15. ASSUME NEW c \in Conns, OperationDone(c) PROVE LiveInv'
    <2>1. PICK t \in {"CCCD", "READ", "WRITE"} :
             Waits(c, t) /\ Becomes(c, LAMBDA s : OperationComplete(Answered(s), t, TRUE))
        BY <1>15 DEF OperationDone
    <2> DEFINE s == clcb[c]
               u == [s EXCEPT !.refuse = TRUE]
               yes == TRUE
               q == OperationComplete(Answered(s), t, yes)
               p == OperationComplete(Answered(u), t, yes)
    <2>2. \/ clcb' = [clcb EXCEPT ![c] = q] /\ UNCHANGED <<congested, used>>
          \/ /\ ~p.refuse /\ Spend("refused") /\ congested' = TRUE
             /\ clcb' = [clcb EXCEPT ![c] = p]
        BY <2>1 DEF Becomes
    <2>3. s.req # <<>> /\ Head(s.req).t = t BY <2>1 DEF Waits, Answer
    <2>4. Good(c, u) /\ u.req = s.req BY <1>3, RefuseGood
    <2>5. yes \in BOOLEAN /\ yes /\ (told => yes) OBVIOUS
    <2> HIDE DEF n, told, yes
    <2>6. Live(c, q, told, n) BY <1>2, <1>3, <2>3, <2>5, OperationCompleteLive
    <2>7. Live(c, s, yes, n) BY <1>2, <1>3, LiveTold DEF yes
    <2>8. Live(c, u, yes, n) BY <1>2, <1>3, <2>7, RefuseLive
    <2> HIDE DEF u
    <2>9. Live(c, p, yes, n) BY <1>2, <2>3, <2>4, <2>5, <2>8, OperationCompleteLive
    <2> HIDE DEF q, p
    <2>10. QED BY <1>1, <2>2, <2>6, <2>9, BecomesLive DEF n, told, yes
<1>16. ASSUME NEW c \in Conns, OperationFailed(c) PROVE LiveInv'
    <2>1. PICK t \in {"CCCD", "READ"} :
             Waits(c, t) /\ BecomesAccepted(c, LAMBDA s : OperationComplete(Answered(s), t, FALSE))
        BY <1>16 DEF OperationFailed
    <2> DEFINE s == clcb[c]
               not == FALSE
               q == OperationComplete(Answered(s), t, not)
    <2>2. clcb' = [clcb EXCEPT ![c] = q] /\ UNCHANGED congested BY <2>1 DEF BecomesAccepted
    <2>3. Spend("errors") BY <1>16 DEF OperationFailed
    <2>4. used'["other"] = n BY <1>7, <2>3 DEF Kinds
    <2>5. s.req # <<>> /\ Head(s.req).t = t BY <2>1 DEF Waits, Answer
    <2>6. not \in BOOLEAN OBVIOUS
    <2> HIDE DEF n, told, not
    <2>7. Live(c, q, told, n) BY <1>2, <1>3, <2>5, <2>6, OperationCompleteLive
    <2> HIDE DEF q
    <2>8. QED BY <1>6, <2>2, <2>4, <2>7
<1>17. ASSUME NEW c \in Conns, OtherWrite(c) PROVE LiveInv'
    <2> DEFINE s == clcb[c]
               q == Send(s, Request("WRITE", "NONE", 0))
               m == n + 1
    <2>1. clcb' = [clcb EXCEPT ![c] = q] /\ UNCHANGED congested /\ s.enc
        BY <1>17 DEF OtherWrite, BecomesAccepted
    <2>2. "other" \in Kinds /\ Spend("other") BY <1>17 DEF OtherWrite, Kinds
    <2>3. used'["other"] = m BY <1>1, <2>2, SpentOther
    <2>4. m \in Nat /\ n <= m BY <1>2
    <2>5. \A d \in Conns : clcb[d] \in Clcb BY <1>1 DEF Blocks
    <2> HIDE DEF n, told
    <2>6. Live(c, q, told, m) BY <1>2, <1>3, <2>1, OtherWriteLive
    <2> HIDE DEF q, m
    <2>7. \A d \in Conns : Live(d, clcb[d], told, m) BY <1>2, <1>3, <2>4, <2>5, LiveMore
    <2>8. Lives([clcb EXCEPT ![c] = q], told, m) BY <1>1, <2>6, <2>7, BlockLive
    <2>9. QED BY <2>1, <2>3, <2>8 DEF LiveInv, told
<1>18. ASSUME NEW c \in Conns, HandleDisconnection(c), used'["other"] = n PROVE LiveInv'
    <2> DEFINE q == FreeClcb
    <2>1. clcb' = [clcb EXCEPT ![c] = q] /\ UNCHANGED congested BY <1>18 DEF HandleDisconnection
    <2> HIDE DEF n, told
    <2>2. Live(c, q, told, n) BY <1>2, FreeLive
    <2> HIDE DEF q
    <2>3. QED BY <1>6, <1>18, <2>1, <2>2
<1>19. ASSUME NEW c \in Conns, Disconnected(c) PROVE LiveInv'
    BY <1>18, <1>19 DEF Disconnected
<1>20. ASSUME NEW c \in Conns, LinkLoss(c) PROVE LiveInv'
    <2>1. HandleDisconnection(c) /\ Spend("loss") BY <1>20 DEF LinkLoss
    <2>2. used'["other"] = n BY <1>7, <2>1 DEF Kinds
    <2>3. QED BY <1>18, <2>1, <2>2
<1>21. CASE Congestion
    <2> DEFINE s == clcb[1]
               q == HandleCongestion(s)
    <2>1. clcb' = [clcb EXCEPT ![1] = q] /\ UNCHANGED congested /\ Spend("congestion")
        BY <1>21 DEF Congestion, BecomesAccepted
    <2>2. used'["other"] = n BY <1>7, <2>1 DEF Kinds
    <2>3. 1 \in Conns BY DbAssumption
    <2> HIDE DEF n, told
    <2>4. Live(1, q, told, n) BY <1>2, <1>3, <2>3, CongestionLive
    <2> HIDE DEF q
    <2>5. QED BY <1>6, <2>1, <2>2, <2>3, <2>4
<1>22. CASE Uncongested
    <2> DEFINE s == clcb[1]
               q == HandleCongestion(s)
               no == FALSE
    <2>1. clcb' = [clcb EXCEPT ![1] = q] /\ congested' = no /\ UNCHANGED used
        BY <1>22 DEF Uncongested
    <2>2. 1 \in Conns BY DbAssumption
    <2> HIDE DEF n, told, no
    <2>3. Live(1, q, no, n) BY <1>2, <1>3, <2>2, CongestionLive
    <2>4. ASSUME NEW d \in Conns, d # 1 PROVE Live(d, clcb[d], no, n)
        <3>1. Live(d, clcb[d], told, n) BY <1>3
        <3>2. QED BY <2>4, <3>1 DEF Live, Pushed, Refused
    <2> HIDE DEF q
    <2>5. Lives([clcb EXCEPT ![1] = q], no, n) BY <1>1, <2>2, <2>3, <2>4, BlockLive
    <2>6. QED BY <2>1, <2>5 DEF LiveInv, n
<1>23. QED BY <1>5, <1>8, <1>9, <1>10, <1>11, <1>12, <1>13, <1>14, <1>15, <1>16, <1>17, <1>19, <1>20,
              <1>21, <1>22 DEF Next

\* The initial state.
LEMMA LiveInit == Init => LiveInv
<1> SUFFICES ASSUME Init PROVE LiveInv
    OBVIOUS
<1>1. used["other"] \in Nat BY DEF Init, Kinds
<1>2. \A c \in Conns : clcb[c] = FreeClcb BY DEF Init
<1> DEFINE n == used["other"]
           f == FreeClcb
<1> HIDE DEF n, f
<1>3. \A c \in Conns : Live(c, f, congested, n) BY <1>1, FreeLive DEF n, f
<1>4. QED BY <1>2, <1>3 DEF LiveInv, Lives, n, f

\* While the stack refuses neither discovery commands nor reads, a device that
\* is owed nothing by the stack is ready, or stuck in one of three ways: its
\* discovery failed and the timer closed another link or none; the stack
\* refused a CCCD write of the second control block; or the count of the CCCD
\* writes under way went below zero, for an answer to another write.
THEOREM StallsAreKnown ==
    ASSUME "DISCOVER" \notin Refusable, "READ" \notin Refusable
    PROVE  Spec => []StallsKnown
<1>1. ClientInv /\ LiveInv => StallsKnown
    <2> SUFFICES ASSUME ClientInv, LiveInv, Settled, NEW c \in Conns, clcb[c].up,
                        ~clcb[c].ready, clcb[c].ctx = NoCtx,
                        ~(c # 1 /\ clcb[c].op # NoOp /\ clcb[c].op.todo # {})
                 PROVE  clcb[c].op # NoOp /\ clcb[c].op.ops + used["other"] > 255
        BY DEF StallsKnown
    <2> DEFINE s == clcb[c]
               n == used["other"]
               nq == <<>>
    <2>1. Good(c, s) /\ Live(c, s, congested, n) BY DEF ClientInv, Blocks, LiveInv, Lives
    <2>2. s.enc /\ s.req = nq /\ ~congested BY DEF Settled
    <2>3. s.op # NoOp BY <2>1, <2>2 DEF Live, Driven
    <2>4. s.op \in Lists BY <2>1, <2>3 DEF Good, Clcb
    <2>5. n \in Nat BY DEF ClientInv, Spent, Kinds
    <2>6. Len(nq) = 0 OBVIOUS
    <2> HIDE DEF s, n, nq
    <2>7. \A t : Queued(s.req, t) = {} BY <2>2, <2>6 DEF Queued
    <2>8. \A t : Outstanding(s.req, t) = 0 BY <2>7, FS_EmptySet DEF Outstanding
    <2>9. s.op.kind # "READ"
        <3> SUFFICES ASSUME s.op.kind = "READ" PROVE FALSE
            OBVIOUS
        <3>1. s.op.ops # 0 BY <2>1, <2>3 DEF Live, Open
        <3>2. Cardinality(Queued(s.req, "READ")) = s.op.ops BY <2>1, <2>3 DEF Good, Counted
        <3>3. QED BY <2>8, <3>1, <3>2 DEF Outstanding
    <2>10. Subscribing(s) /\ ~IsComplete(s.op)
        <3>1. s.op.kind \in {"READ", "CCCD"} BY <2>4, ListKinds
        <3>2. QED BY <2>1, <2>3, <2>9, <3>1 DEF Subscribing, Live, Open
    <2>11. s.op.index = s.op.cap
        <3>1. ~Refused(c, s, congested) BY <2>2, <2>3 DEF Refused, s
        <3>2. QED BY <2>1, <2>8, <2>10, <3>1 DEF Live, Pushed
    <2>12. s.op.ops # 0 /\ s.op.ops \in 0..255 BY <2>4, <2>10, <2>11, ListKinds DEF IsComplete
    <2>13. PICK k \in Nat : k + 0 <= n /\ (s.op.ops + k) % 256 = 0 % 256
        BY <2>1, <2>8, <2>10 DEF Live, Writes
    <2>14. s.op.ops + n > 255
        <3> DEFINE a == s.op.ops
        <3>1. a \in 1..255 /\ k + 0 <= n /\ (a + k) % 256 = 0 % 256 BY <2>12, <2>13
        <3> HIDE DEF a
        <3>2. a + k >= 256 BY <3>1
        <3>3. a + n > 255 BY <2>5, <3>1, <3>2
        <3>4. QED BY <3>3 DEF a
    <2>15. QED BY <2>3, <2>14 DEF s, n
<1>2. Init => ClientInv /\ LiveInv BY ClientInit, LiveInit
<1>3. ClientInv /\ LiveInv /\ [Next]_vars => ClientInv' /\ LiveInv' BY ClientStep, LiveStep
<1>4. QED BY <1>1, <1>2, <1>3, PTL DEF Spec
=============================================================================
